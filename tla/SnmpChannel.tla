----------------------------- MODULE SnmpChannel -----------------------------
(***************************************************************************)
(* The SNMP control channel, as functions: SnmpConfig::from_environment and *)
(* Snmp2Backend of reink-snmp.  The client library keeps request and reply *)
(* together; what it returns is an outcome here.                           *)
(***************************************************************************)
EXTENDS Naturals, Sequences

\* Values of an environment variable, as far as they are told apart: not set,
\* set to bytes that are not Unicode, set to what does not parse, and others.
Unset == "unset"
NotUnicode == "not_unicode"
Bad == "bad"

\* The variables that decide how the session is protected.
ProtectionVariables == {"AUTH_PROTOCOL", "AUTH_PASSWORD", "PRIVACY_PROTOCOL", "PRIVACY_PASSWORD"}

\* std::env::var(name).ok(): a value that is not Unicode counts as none.
Readable(env, name) == env[name] \notin {Unset, NotUnicode}

\* required_environment: set, and not empty.
Required(env, name) == Readable(env, name) /\ env[name] # ""

\* The credentials of version 3: nothing, the first pair or both pairs.
Asked(env) == {name \in ProtectionVariables : Readable(env, name)}
\* The protocols that are set are known ones.
Parse(env) == \A name \in Asked(env) : env[name] # Bad
AuthPair == {"AUTH_PROTOCOL", "AUTH_PASSWORD"}
\* Mutant: what has no matching half is left out.
LevelOfPairs(env) ==
    CASE ProtectionVariables \subseteq Asked(env) -> "AuthPriv"
      [] AuthPair \subseteq Asked(env) /\ Asked(env) # ProtectionVariables -> "AuthNoPriv"
      [] OTHER -> "NoAuthNoPriv"
Level(env) ==
    CASE Asked(env) = {} -> "NoAuthNoPriv"
      [] Asked(env) = AuthPair /\ Parse(env) -> "AuthNoPriv"
      [] Asked(env) = ProtectionVariables /\ Parse(env) -> "AuthPriv"
      [] OTHER -> "error"

\* SnmpConfig::from_environment: the session's protection, or an error.
Configured(env) ==
    IF ~Required(env, "HOST") \/ env["PORT"] \in {Bad, "0"} THEN "error"
    ELSE CASE env["VERSION"] \in {"1", "2c"} ->
           IF Required(env, "COMMUNITY") THEN "Community" ELSE "error"
      [] env["VERSION"] = "3" ->
           IF Required(env, "USERNAME") THEN Level(env) ELSE "error"
      [] OTHER -> "error"

\* What the library makes of one GET, and what a reply may hold.
Gets == {"octets", "AuthUpdated", "status", "integer", "empty", "timeout"}

\* get_response_octets: one more GET when the keys of the session were updated
\* by the first; then the first value must be octets.
GetOctets(first, second) ==
    LET response == IF first = "AuthUpdated" THEN second ELSE first
    IN response = "octets"
=============================================================================
