------------------------------- MODULE Session -------------------------------
(***************************************************************************)
(* The dashboard's sessions (internal/httpapi/auth.go): a map from tokens  *)
(* to expiries, under one mutex, in memory only.  A token is 32 random     *)
(* bytes: one is never issued twice.                                       *)
(***************************************************************************)
EXTENDS Naturals

CONSTANTS
  Tokens,  \* session tokens
  TTL      \* SessionTTL, in ticks

VARIABLES
  now,       \* the clock
  sessions,  \* s.sessions: a function from the tokens it holds to expiries
  issued,    \* history: a function from the tokens issued to the time of it
  ended      \* history: tokens logged out, or lost when the process ended

sessionVars == <<sessions, issued, ended>>

NoSessions == [t \in {} |-> 0]

Init ==
  /\ sessions = NoSessions
  /\ issued = NoSessions
  /\ ended = {}

Expired(t) == now > sessions[t]

Without(S) == [t \in DOMAIN sessions \ S |-> sessions[t]]

(* Mutant of Collected: the comparison is the wrong way round. *)
CollectedLive == Without({t \in DOMAIN sessions : ~Expired(t)})

(* collectExpiredLocked *)
Collected == Without({t \in DOMAIN sessions : Expired(t)})

(* issue, for a login with the right password. *)
Issue(t) ==
  /\ t \notin DOMAIN issued
  /\ sessions' = [u \in DOMAIN Collected \cup {t} |->
                    IF u = t THEN now + TTL ELSE Collected[u]]
  /\ issued' = [u \in DOMAIN issued \cup {t} |-> IF u = t THEN now ELSE issued[u]]
  /\ UNCHANGED ended

(* What valid answers ... *)
Valid(t) == t \in DOMAIN sessions /\ ~Expired(t)

(* ... and what it leaves behind. *)
Check(t) ==
  /\ sessions' = IF Valid(t) THEN sessions ELSE Without({t})
  /\ UNCHANGED <<issued, ended>>

(* handleLogout *)
Revoke(t) ==
  /\ sessions' = Without({t})
  /\ ended' = ended \cup {t}
  /\ UNCHANGED issued

(* The process ends. *)
Lose ==
  /\ sessions' = NoSessions
  /\ ended' = ended \cup DOMAIN issued
  /\ UNCHANGED issued

-----------------------------------------------------------------------------
(* A token opens the dashboard from the login that issued it until it is   *)
(* logged out, its time is up or the process ends, whichever comes first:  *)
(* never again after that, and never less because of another login, which  *)
(* cleans up behind others.                                                *)
SessionsAreExact ==
  \A t \in Tokens :
    Valid(t) <=> t \in DOMAIN issued \ ended /\ now <= issued[t] + TTL

(* What the map holds is live or has run out, and all that is live is in it. *)
SessionInv ==
  /\ DOMAIN issued \subseteq Tokens
  /\ ended \subseteq DOMAIN issued
  /\ \A t \in DOMAIN issued : issued[t] \in Nat
  /\ DOMAIN sessions \subseteq DOMAIN issued \ ended
  /\ \A t \in DOMAIN sessions : sessions[t] = issued[t] + TTL
  /\ \A t \in DOMAIN issued \ ended : now <= issued[t] + TTL => t \in DOMAIN sessions
=============================================================================
