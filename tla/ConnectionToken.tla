--------------------------- MODULE ConnectionToken ---------------------------
(***************************************************************************)
(* ConnectionToken (src/src/connection_token.cpp) and its use by           *)
(* NetworkManager: a server issues a token that lasts expiry_seconds, the  *)
(* client is given it by other means and presents it in its ConnectRequest.*)
(*                                                                         *)
(* Both sides read std::chrono::steady_clock, which starts again with the  *)
(* machine; tok_wall is the real time.  The fields keep their widths,      *)
(* scaled: 2^32 is TokTimeMod, 2^16 is TokExpiryMod and 86400 is           *)
(* TokMaxExpiry.  The HMAC (external) is the secret it was computed with.  *)
(***************************************************************************)
EXTENDS Integers, FiniteSets

CONSTANTS
  TokTimeMod,     \* values of the issue time
  TokExpiryMod,   \* values of the stored expiry
  TokMaxExpiry,   \* longest expiry generate() accepts
  TokSecrets,     \* the secrets of the servers; TokNoSecret is all zero
  TokNoSecret,
  TokMaxTime,     \* bound: real time
  TokMaxIssued,   \* bound: tokens
  TokMaxBoots     \* bound: restarts of the machine

ASSUME TokAssumption ==
  /\ TokTimeMod \in Nat \ {0} /\ TokExpiryMod \in Nat \ {0} /\ TokMaxExpiry \in Nat
  /\ TokNoSecret \in TokSecrets
  /\ TokMaxTime \in Nat /\ TokMaxIssued \in Nat /\ TokMaxBoots \in Nat

VARIABLES
  tok_wall,       \* real time
  tok_booted,     \* real time at which the steady clock was 0
  tok_boots,      \* restarts
  tok_secret,     \* config.connection_token_secret
  tok_tokens,     \* tokens issued
  tok_client,     \* client_token of a client, or {}
  tok_connected,  \* the server accepted that client
  tok_last        \* the last presentation of a token: set of at most one

tok_vars == <<tok_wall, tok_booted, tok_boots, tok_secret, tok_tokens, tok_client,
              tok_connected, tok_last>>

\* What the token holds; at, lasts and boots are when it was issued and for how long.
Token == [issued : 0 .. TokTimeMod - 1, expiry : 0 .. TokExpiryMod - 1, hmac : TokSecrets,
          at : 0 .. TokMaxTime, lasts : 1 .. TokMaxExpiry, boots : 0 .. TokMaxBoots]

TokTypeOK ==
  /\ tok_wall \in 0 .. TokMaxTime
  /\ tok_booted \in 0 .. tok_wall
  /\ tok_boots \in 0 .. TokMaxBoots
  /\ tok_secret \in TokSecrets
  /\ tok_tokens \subseteq Token
  /\ tok_client \subseteq tok_tokens /\ Cardinality(tok_client) <= 1
  /\ tok_connected \in BOOLEAN
  /\ \A p \in tok_last : p.token \in tok_tokens /\ p.time \in 0 .. tok_wall

ConnectionTokenInit ==
  /\ tok_wall = 0 /\ tok_booted = 0 /\ tok_boots = 0
  /\ tok_secret \in TokSecrets
  /\ tok_tokens = {} /\ tok_client = {}
  /\ tok_connected = FALSE
  /\ tok_last = {}

-----------------------------------------------------------------------------

SteadyNow == (tok_wall - tok_booted) % TokTimeMod

generate_Offset(secret, expiry, now) ==
  [issued |-> now, expiry |-> (expiry - 1) % TokExpiryMod, hmac |-> secret,
   at |-> tok_wall, lasts |-> expiry, boots |-> tok_boots]

generate(secret, expiry, now) ==
  [issued |-> now, expiry |-> expiry % TokExpiryMod, hmac |-> secret,
   at |-> tok_wall, lasts |-> expiry, boots |-> tok_boots]

\* generate_connection_token: without a secret, with an expiry of 0 or with one
\* that is too long it returns false and nothing is issued.
generate_connection_token(expiry) ==
  /\ Cardinality(tok_tokens) < TokMaxIssued
  /\ tok_secret # TokNoSecret
  /\ expiry \in 1 .. TokMaxExpiry
  /\ tok_tokens' = tok_tokens \cup {generate(tok_secret, expiry, SteadyNow)}
  /\ UNCHANGED <<tok_wall, tok_booted, tok_boots, tok_secret, tok_client, tok_connected,
                 tok_last>>

set_connection_token_Append(t) ==
  /\ tok_client' = tok_client \cup {t}
  /\ UNCHANGED <<tok_wall, tok_booted, tok_boots, tok_secret, tok_tokens, tok_connected,
                 tok_last>>

set_connection_token(t) ==
  /\ tok_client' = {t}
  /\ UNCHANGED <<tok_wall, tok_booted, tok_boots, tok_secret, tok_tokens, tok_connected,
                 tok_last>>

validate_Strict(t, secret, now) ==
  /\ t.hmac = secret
  /\ now >= t.issued
  /\ now < (t.issued + t.expiry) % TokTimeMod

validate(t, secret, now) ==
  /\ t.hmac = secret
  /\ now >= t.issued
  /\ now <= (t.issued + t.expiry) % TokTimeMod

\* ConnectRequest with require_connection_token.  A client that is approved is
\* accepted again without a look at its token.
tok_ConnectRequest ==
  \E t \in tok_client :
    LET valid == validate(t, tok_secret, SteadyNow) IN
    /\ ~tok_connected
    /\ tok_connected' = valid
    /\ tok_last' = {[token |-> t, secret |-> tok_secret, time |-> tok_wall,
                     boots |-> tok_boots, accepted |-> valid]}
    /\ UNCHANGED <<tok_wall, tok_booted, tok_boots, tok_secret, tok_tokens, tok_client>>

tok_disconnect ==
  /\ tok_connected
  /\ tok_connected' = FALSE
  /\ UNCHANGED <<tok_wall, tok_booted, tok_boots, tok_secret, tok_tokens, tok_client,
                 tok_last>>

\* The server is started again with a configuration; its clients are gone.
tok_start_server(secret) ==
  /\ secret # tok_secret
  /\ tok_secret' = secret
  /\ tok_connected' = FALSE
  /\ UNCHANGED <<tok_wall, tok_booted, tok_boots, tok_tokens, tok_client, tok_last>>

\* The machine starts again: the steady clock starts at 0.
tok_boot ==
  /\ tok_boots < TokMaxBoots
  /\ tok_boots' = tok_boots + 1
  /\ tok_booted' = tok_wall
  /\ tok_connected' = FALSE
  /\ UNCHANGED <<tok_wall, tok_secret, tok_tokens, tok_client, tok_last>>

tok_tick ==
  /\ tok_wall < TokMaxTime
  /\ tok_wall' = tok_wall + 1
  /\ UNCHANGED <<tok_booted, tok_boots, tok_secret, tok_tokens, tok_client, tok_connected,
                 tok_last>>

ConnectionTokenNext ==
  \/ \E e \in 1 .. TokMaxExpiry : generate_connection_token(e)
  \/ \E t \in tok_tokens : set_connection_token(t)
  \/ tok_ConnectRequest
  \/ tok_disconnect
  \/ \E s \in TokSecrets : tok_start_server(s)
  \/ tok_boot
  \/ tok_tick

ConnectionTokenSpec == ConnectionTokenInit /\ [][ConnectionTokenNext]_tok_vars

-----------------------------------------------------------------------------
(* Properties.                                                             *)

\* Presented while the time is right: by a server with the secret it was issued
\* under, when no more than its expiry has passed.
TokInTime(p) ==
  /\ p.token.hmac = p.secret
  /\ p.time - p.token.at <= p.token.lasts

\* "expiry_seconds: How many seconds the token remains valid": a token is
\* accepted exactly while it is in time, however often it is presented, as long
\* as the machine that issued it runs.
TokValidity ==
  \A p \in tok_last : p.boots = p.token.boots => (p.accepted <=> TokInTime(p))

\* Tokens keep the widths of their fields, and are accepted exactly while in time.
ConnectionTokenInv == TokTypeOK /\ TokValidity

\* "timestamp uint32_t LE (Unix seconds when created)": the same across a restart
\* of the machine.
TokValidityAcrossBoots == \A p \in tok_last : p.accepted <=> TokInTime(p)
=============================================================================
