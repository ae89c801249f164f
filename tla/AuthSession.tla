---------------------------- MODULE AuthSession ----------------------------
(***************************************************************************)
(* Sessions of auth-session.service.ts and the calls of auth.service.ts    *)
(* that use them: createSession after a login, refreshSession, logout,     *)
(* verifyAccessToken.                                                      *)
(*                                                                         *)
(* A session is a Redis hash named after a random id; the refresh token    *)
(* carries that id and the access token names it, so one name stands for   *)
(* all three here.  A call is one action per Redis command; it may die     *)
(* between two of them, and nothing resumes it.                            *)
(*                                                                         *)
(* History variables: parent (the token a session was made from), line     *)
(* (the login it descends from), loggedOut (the lines whose session a      *)
(* logout has removed).                                                    *)
(***************************************************************************)
EXTENDS Naturals

CONSTANTS
    Tokens,     \* the session ids, each drawn at most once; numbers
    AuthCalls,  \* the calls under way at one time
    NoToken     \* no session

ASSUME NoTokenAssumption == NoToken \notin Tokens /\ Tokens \subseteq Nat

VARIABLES
    session,    \* per token: its key in Redis
    handed,     \* the tokens a client has been given
    authCall,   \* per call: the command it executes next and the tokens it has
    parent,     \* per token: the token it was made from
    line,       \* per token: the first token since the login
    loggedOut   \* the lines ended by a logout that removed their session

authVars == << session, handed, authCall, parent, line, loggedOut >>

SessionStates == {"undrawn", "unexpiring", "expiring", "gone"}
AuthStages == {"idle", "consume", "save", "expire", "hand"}
AuthCall == [at : AuthStages, old : Tokens \cup {NoToken}, new : Tokens \cup {NoToken}]
NoAuthCall == [at |-> "idle", old |-> NoToken, new |-> NoToken]

AuthInit ==
    /\ session = [t \in Tokens |-> "undrawn"]
    /\ handed = {}
    /\ authCall = [c \in AuthCalls |-> NoAuthCall]
    /\ parent = [t \in Tokens |-> NoToken]
    /\ line = [t \in Tokens |-> NoToken]
    /\ loggedOut = {}

(* The key exists: sessionExists, and what del counts. *)
Exists(t) == session[t] \in {"unexpiring", "expiring"}

(* verifyAccessToken lets a request pass. *)
Accepts(t) == t \in handed /\ Exists(t)

AuthGoto(c, stage) == authCall' = [authCall EXCEPT ![c].at = stage]
AuthDone(c) == authCall' = [authCall EXCEPT ![c] = NoAuthCall]

-----------------------------------------------------------------------------

(* A verified login calls createSession. *)
Login(c) ==
    /\ authCall[c].at = "idle"
    /\ AuthGoto(c, "save")
    /\ UNCHANGED << session, handed, parent, line, loggedOut >>

(* refreshSession, validateSession: the hash is read; a token without one is
   refused. *)
RefreshValidate(c) ==
    \E t \in handed :
        /\ authCall[c].at = "idle"
        /\ Exists(t)
        /\ authCall' = [authCall EXCEPT ![c] = [at |-> "consume", old |-> t, new |-> NoToken]]
        /\ UNCHANGED << session, handed, parent, line, loggedOut >>

(* consumeSession goes on only if its own del has removed the key.  The
   faulty form goes on once the hash was read. *)
ConsumedAnyway(t) == TRUE
Consumed(t) == Exists(t)

(* consumeSession: del. *)
RefreshConsume(c) ==
    LET t == authCall[c].old
    IN  /\ authCall[c].at = "consume"
        /\ session' = [session EXCEPT ![t] = "gone"]
        /\ IF Consumed(t) THEN AuthGoto(c, "save") ELSE AuthDone(c)
        /\ UNCHANGED << handed, parent, line, loggedOut >>

(* What follows the hset of saveSession.  The faulty form forgets expire. *)
AfterSaveHand == "hand"
AfterSave == "expire"

(* saveSession: hset under a new id.  The ids are random; which comes next tells
   nothing apart, so that they are drawn in order. *)
Undrawn == {t \in Tokens : session[t] = "undrawn"}

SaveSession(c) ==
    \E t \in Undrawn :
        /\ authCall[c].at = "save"
        /\ \A s \in Undrawn : t <= s
        /\ session' = [session EXCEPT ![t] = "unexpiring"]
        /\ parent' = [parent EXCEPT ![t] = authCall[c].old]
        /\ line' = [line EXCEPT ![t] = IF authCall[c].old = NoToken THEN t
                                       ELSE line[authCall[c].old]]
        /\ authCall' = [authCall EXCEPT ![c].at = AfterSave, ![c].new = t]
        /\ UNCHANGED << handed, loggedOut >>

(* saveSession: expire, which leaves an absent key absent. *)
ExpireSession(c) ==
    LET t == authCall[c].new
    IN  /\ authCall[c].at = "expire"
        /\ session' = [session EXCEPT ![t] = IF Exists(t) THEN "expiring" ELSE @]
        /\ AuthGoto(c, "hand")
        /\ UNCHANGED << handed, parent, line, loggedOut >>

(* The tokens are signed and returned. *)
HandTokens(c) ==
    /\ authCall[c].at = "hand"
    /\ handed' = handed \cup {authCall[c].new}
    /\ AuthDone(c)
    /\ UNCHANGED << session, parent, line, loggedOut >>

(* logout: one del, whatever it finds. *)
Logout ==
    \E t \in handed :
        /\ session' = [session EXCEPT ![t] = "gone"]
        /\ loggedOut' = IF Exists(t) THEN loggedOut \cup {line[t]} ELSE loggedOut
        /\ UNCHANGED << handed, authCall, parent, line >>

(* The TTL of a session passes. *)
SessionExpires ==
    \E t \in Tokens :
        /\ session[t] = "expiring"
        /\ session' = [session EXCEPT ![t] = "gone"]
        /\ UNCHANGED << handed, authCall, parent, line, loggedOut >>

(* A call ends early: its process dies, Redis fails, or the user of a
   refreshed session is gone. *)
AuthCallFails(c) ==
    /\ authCall[c].at # "idle"
    /\ AuthDone(c)
    /\ UNCHANGED << session, handed, parent, line, loggedOut >>

AuthNext ==
    \/ \E c \in AuthCalls :
         \/ Login(c) \/ RefreshValidate(c) \/ RefreshConsume(c) \/ SaveSession(c)
         \/ ExpireSession(c) \/ HandTokens(c) \/ AuthCallFails(c)
    \/ Logout
    \/ SessionExpires

AuthSpec == AuthInit /\ [][AuthNext]_authVars

-----------------------------------------------------------------------------
(* Properties.                                                             *)

AuthTypeOK ==
    /\ session \in [Tokens -> SessionStates]
    /\ handed \subseteq Tokens
    /\ authCall \in [AuthCalls -> AuthCall]
    /\ parent \in [Tokens -> Tokens \cup {NoToken}]
    /\ line \in [Tokens -> Tokens \cup {NoToken}]
    /\ loggedOut \subseteq Tokens

(* No two sessions are made from one refresh token, however many requests
   present it at once: auth-session.service.ts:103-107. *)
OneSuccessor ==
    \A s, t \in Tokens : s # t /\ parent[s] = parent[t] => parent[s] = NoToken

(* A logout that has removed a session ends the login for good: a refresh
   with the same token, wherever it stood, leaves no session that is accepted
   afterwards (auth.service.ts:175). *)
LogoutIsFinal ==
    \A t \in Tokens : line[t] \in loggedOut => ~Exists(t)

(* A session some client can use has an expiry, though calls die between the
   two commands that save it. *)
UsedSessionsExpire ==
    \A t \in handed : session[t] # "unexpiring"

=============================================================================
