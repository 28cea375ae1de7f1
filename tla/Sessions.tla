------------------------------ MODULE Sessions ------------------------------
(***************************************************************************)
(* Server sessions: issued for a time, authenticated by their token,       *)
(* revoked.  A session is known by its token, of which only a hash is      *)
(* stored; its CSRF value is the one issued with it.                       *)
(*                                                                         *)
(* Every method takes the time from its caller, or from the clock if there *)
(* is none given: no two calls need to agree on it, and a later call may   *)
(* come with an earlier time.                                              *)
(***************************************************************************)
EXTENDS Naturals

CONSTANTS Tokens,
          Ttls,             \* times to live that callers ask for
          MaxNow            \* bound of the model: the last time a caller gives

ASSUME SessionsAssumption == Ttls \subseteq Nat /\ MaxNow \in Nat

VARIABLE sessions           \* sessions[k]: times of the session with token k

(* Times are counted from 1; a time that is 0 was never set. *)
Clocks == 1 .. MaxNow
Times == [issuedAt : Nat, expiresAt : Nat, revokedAt : Nat]

SessInit == sessions = [k \in Tokens |-> [issuedAt |-> 0, expiresAt |-> 0, revokedAt |-> 0]]

Issued(k) == sessions[k].issuedAt # 0

CreateSession(k, ttl, now) ==
    /\ ~Issued(k) /\ ttl > 0
    /\ sessions' = [sessions EXCEPT ![k] = [issuedAt |-> now, expiresAt |-> now + ttl, revokedAt |-> 0]]

(* authenticate, asked at a time of the caller's choice. *)
Authenticates(k, now) == Issued(k) /\ sessions[k].revokedAt = 0 /\ now < sessions[k].expiresAt

(* verify_csrf: only for a session that authenticates, and only with the   *)
(* value issued with that session, here known by the session's token.      *)
VerifiesCsrf(k, csrf, now) == Authenticates(k, now) /\ csrf = k

RevokeSession_Again(k, now) ==
    /\ Issued(k)
    /\ sessions' = [sessions EXCEPT ![k].revokedAt = now]

(* A session may be revoked after it expired; only the first time counts. *)
RevokeSession(k, now) ==
    /\ Issued(k) /\ sessions[k].revokedAt = 0
    /\ sessions' = [sessions EXCEPT ![k].revokedAt = now]

SessNext == \E k \in Tokens, now \in Clocks :
               RevokeSession(k, now) \/ (\E ttl \in Ttls : CreateSession(k, ttl, now))

SessSpec == SessInit /\ [][SessNext]_sessions

-----------------------------------------------------------------------------
SessTypeOK == sessions \in [Tokens -> Times]

(* A session that is revoked is refused for ever, whatever time a caller   *)
(* gives, and keeps the time it was first revoked.  One that is refused at *)
(* some time, expired, is refused at that time and all later ones: only a  *)
(* clock that goes back gets it again.  So is its CSRF value.              *)
(* identity/sessions.py:79, 96.                                            *)
DeadSessionsStayDead ==
    [][\A k \in Tokens, at, later \in Clocks :
          /\ Issued(k) /\ ~Authenticates(k, at) /\ at <= later =>
                ~Authenticates(k, later)' /\ \A csrf \in Tokens : ~VerifiesCsrf(k, csrf, later)'
          /\ sessions[k].revokedAt # 0 =>
                ~Authenticates(k, at)' /\ sessions'[k].revokedAt = sessions[k].revokedAt]_sessions
=============================================================================
