--------------------------- MODULE AccountProofs ----------------------------
(* Proofs about who is signed in and may act: AuthSession, AccountLinking  *)
(* and CashierAccess, for every number of users, tokens, accounts,         *)
(* assignments and pending actions, and of calls that overlap, expire and  *)
(* die anywhere.                                                           *)
EXTENDS AuthSession, AccountLinking, CashierAccess, FiniteSetTheorems, TLAPS

-----------------------------------------------------------------------------
(* AuthSession.                                                            *)

Drawn(t) == session[t] # "undrawn"

(* A call that has consumed a token and not yet saved its successor. *)
Renews(c) == authCall[c].at = "save" /\ authCall[c].old # NoToken

(* A token that is not drawn has left no trace; a drawn one has a line, which
   began with a drawn token. *)
Traces ==
    /\ \A t \in Tokens : Drawn(t) => line[t] \in Tokens /\ Drawn(line[t])
    /\ \A t \in Tokens : ~Drawn(t) => parent[t] = NoToken
    /\ \A t \in loggedOut : Drawn(t)
    /\ \A t \in Tokens : parent[t] # NoToken => session[parent[t]] = "gone"

(* What the calls hold. *)
CallsHold ==
    \A c \in AuthCalls :
        /\ authCall[c].at = "idle" => authCall[c] = NoAuthCall
        /\ authCall[c].at = "consume" => authCall[c].old \in Tokens /\ Drawn(authCall[c].old)
        /\ authCall[c].at \in {"expire", "hand"} =>
              authCall[c].new \in Tokens /\ Drawn(authCall[c].new)
        /\ authCall[c].at = "hand" => session[authCall[c].new] # "unexpiring"
        /\ Renews(c) => /\ authCall[c].old \in Tokens
                        /\ session[authCall[c].old] = "gone"
                        /\ \A t \in Tokens : parent[t] # authCall[c].old

(* A line is held by at most one session or one call that renews it. *)
OneHolder ==
    /\ \A s, t \in Tokens : Exists(s) /\ Exists(t) /\ line[s] = line[t] => s = t
    /\ \A t \in Tokens, c \in AuthCalls :
          Exists(t) /\ Renews(c) => line[t] # line[authCall[c].old]
    /\ \A c, d \in AuthCalls :
          Renews(c) /\ Renews(d) /\ c # d => line[authCall[c].old] # line[authCall[d].old]

LogoutHolds ==
    /\ \A c \in AuthCalls : Renews(c) => line[authCall[c].old] \notin loggedOut

AuthIInv ==
    /\ AuthTypeOK
    /\ Traces
    /\ CallsHold
    /\ OneHolder
    /\ LogoutHolds
    /\ \A t \in handed : Drawn(t)
    /\ UsedSessionsExpire
    /\ LogoutIsFinal
    /\ OneSuccessor

LEMMA AuthInitial == AuthInit => AuthIInv
  BY NoTokenAssumption
     DEF AuthInit, AuthIInv, AuthTypeOK, Traces, CallsHold, OneHolder, LogoutHolds, Drawn, Renews,
         Exists, UsedSessionsExpire, LogoutIsFinal, OneSuccessor, NoAuthCall, AuthCall, AuthStages,
         SessionStates

(* A call becomes `next' and nothing else changes: it may begin, validate a
   token or end. *)
LEMMA CallChanges ==
  ASSUME AuthIInv, NEW c \in AuthCalls, NEW next \in AuthCall,
         authCall' = [authCall EXCEPT ![c] = next],
         \/ next.at = "save" /\ next.old = NoToken
         \/ next.at = "consume" /\ next.old \in Tokens /\ Drawn(next.old)
         \/ next = NoAuthCall,
         UNCHANGED << session, handed, parent, line, loggedOut >>
  PROVE  AuthIInv'
<1>1. /\ authCall'[c] = next
      /\ \A d \in AuthCalls \ {c} : authCall'[d] = authCall[d]
      /\ authCall' \in [AuthCalls -> AuthCall]
  BY DEF AuthIInv, AuthTypeOK
<1>2. ~Renews(c)' /\ \A d \in AuthCalls \ {c} : Renews(d)' <=> Renews(d)
  BY <1>1 DEF Renews, NoAuthCall
<1>3. AuthTypeOK'
  BY <1>1 DEF AuthIInv, AuthTypeOK
<1>4. Traces' /\ (\A t \in handed : Drawn(t))' /\ UsedSessionsExpire' /\ LogoutIsFinal' /\ OneSuccessor'
  BY DEF AuthIInv, Traces, Drawn, UsedSessionsExpire, LogoutIsFinal, OneSuccessor, Exists
<1>5. CallsHold'
  <2> SUFFICES ASSUME NEW d \in AuthCalls PROVE CallsHold!(d)'
    BY DEF CallsHold
  <2>1. CASE d = c
    BY <1>1, <1>2, <2>1 DEF NoAuthCall, Drawn
  <2>2. CASE d # c
    BY <1>1, <1>2, <2>2 DEF AuthIInv, CallsHold, Drawn, NoAuthCall
  <2> QED
    BY <2>1, <2>2
<1>6. OneHolder' /\ LogoutHolds'
  BY <1>1, <1>2 DEF AuthIInv, OneHolder, LogoutHolds, Exists
<1> QED
  BY <1>3, <1>4, <1>5, <1>6 DEF AuthIInv

LEMMA CallStep ==
  ASSUME AuthIInv, NEW c \in AuthCalls, Login(c) \/ RefreshValidate(c) \/ AuthCallFails(c)
  PROVE  AuthIInv'
<1>1. CASE Login(c)
  <2> DEFINE next == [NoAuthCall EXCEPT !.at = "save"]
  <2>1. authCall[c] = NoAuthCall
    BY <1>1 DEF Login, AuthIInv, CallsHold
  <2>2. authCall' = [authCall EXCEPT ![c] = next]
    BY <1>1, <2>1 DEF Login, AuthGoto, NoAuthCall
  <2>3. next \in AuthCall /\ next.at = "save" /\ next.old = NoToken
    BY DEF AuthCall, AuthStages, NoAuthCall
  <2> HIDE DEF next
  <2> QED
    BY <1>1, <2>2, <2>3, CallChanges DEF Login
<1>2. CASE RefreshValidate(c)
  <2>1. PICK t \in handed : authCall' = [authCall EXCEPT ![c] =
                               [at |-> "consume", old |-> t, new |-> NoToken]]
    BY <1>2 DEF RefreshValidate
  <2> DEFINE next == [at |-> "consume", old |-> t, new |-> NoToken]
  <2>2. t \in Tokens /\ Drawn(t)
    BY DEF AuthIInv, AuthTypeOK
  <2>3. next \in AuthCall /\ next.at = "consume" /\ next.old = t
    BY <2>2 DEF AuthCall, AuthStages
  <2> HIDE DEF next
  <2> QED
    BY <1>2, <2>1, <2>2, <2>3, CallChanges DEF RefreshValidate, next
<1>3. CASE AuthCallFails(c)
  <2>1. NoAuthCall \in AuthCall
    BY DEF NoAuthCall, AuthCall, AuthStages
  <2> QED
    BY <1>3, <2>1, CallChanges DEF AuthCallFails, AuthDone
<1> QED
  BY <1>1, <1>2, <1>3

(* A session leaves Redis: consumed, logged out or expired.  What it held, no
   other session and no call holds. *)
LEMMA ConsumeStep ==
  ASSUME AuthIInv, NEW c \in AuthCalls, RefreshConsume(c)
  PROVE  AuthIInv'
<1> DEFINE t == authCall[c].old
<1>1. /\ t \in Tokens
      /\ Drawn(t)
      /\ session' = [session EXCEPT ![t] = "gone"]
      /\ authCall[c].at = "consume"
      /\ UNCHANGED << handed, parent, line, loggedOut >>
  BY DEF RefreshConsume, AuthIInv, CallsHold
<1>2. \/ Exists(t) /\ authCall' = [authCall EXCEPT ![c].at = "save"]
      \/ ~Exists(t) /\ authCall' = [authCall EXCEPT ![c] = NoAuthCall]
  BY DEF RefreshConsume, Consumed, AuthGoto, AuthDone
<1>3. /\ \A d \in AuthCalls \ {c} : authCall'[d] = authCall[d]
      /\ \/ authCall'[c] = NoAuthCall
         \/ Exists(t) /\ authCall'[c].at = "save" /\ authCall'[c].old = t
  BY <1>2 DEF AuthIInv, AuthTypeOK, AuthCall
<1>4. /\ session'[t] = "gone"
      /\ \A s \in Tokens \ {t} : session'[s] = session[s]
      /\ \A s \in Tokens : Drawn(s)' <=> Drawn(s)
      /\ \A s \in Tokens : Exists(s)' <=> Exists(s) /\ s # t
  BY <1>1 DEF AuthIInv, AuthTypeOK, Drawn, Exists
<1>5. AuthTypeOK'
  BY <1>1, <1>2 DEF AuthIInv, AuthTypeOK, AuthCall, AuthStages, SessionStates, NoAuthCall
<1>6. Traces' /\ (\A s \in handed : Drawn(s))' /\ UsedSessionsExpire' /\ LogoutIsFinal' /\ OneSuccessor'
  BY <1>1, <1>4 DEF AuthIInv, AuthTypeOK, Traces, UsedSessionsExpire, LogoutIsFinal, OneSuccessor
<1>7. /\ \A d \in AuthCalls \ {c} : Renews(d)' <=> Renews(d)
      /\ Renews(c)' => Exists(t)
  BY <1>3 DEF Renews, NoAuthCall
<1>8. CallsHold'
  <2> SUFFICES ASSUME NEW d \in AuthCalls PROVE CallsHold!(d)'
    BY DEF CallsHold
  <2>1. CASE d = c
    <3>1. Exists(t) => \A s \in Tokens : parent[s] # t
      BY <1>1, NoTokenAssumption DEF AuthIInv, Traces, Exists
    <3> QED
      BY <1>1, <1>3, <1>4, <1>7, <2>1, <3>1, NoTokenAssumption DEF NoAuthCall, Renews
  <2>2. CASE d # c
    BY <1>1, <1>3, <1>4, <1>7, <2>2 DEF AuthIInv, AuthTypeOK, CallsHold
  <2> QED
    BY <2>1, <2>2
<1>9. OneHolder' /\ LogoutHolds'
  BY <1>1, <1>3, <1>4, <1>7 DEF AuthIInv, OneHolder, LogoutHolds, LogoutIsFinal, Renews, NoAuthCall
<1> QED
  BY <1>5, <1>6, <1>8, <1>9 DEF AuthIInv

LEMMA EndingStep ==
  ASSUME AuthIInv, Logout \/ SessionExpires
  PROVE  AuthIInv'
<1>1. PICK t \in Tokens :
        /\ Drawn(t)
        /\ session' = [session EXCEPT ![t] = "gone"]
        /\ loggedOut' = loggedOut \/ (Exists(t) /\ loggedOut' = loggedOut \cup {line[t]})
        /\ UNCHANGED << handed, authCall, parent, line >>
  BY DEF Logout, SessionExpires, AuthIInv, AuthTypeOK, Drawn, Exists
<1>2. /\ session'[t] = "gone"
      /\ \A s \in Tokens \ {t} : session'[s] = session[s]
      /\ \A s \in Tokens : Drawn(s)' <=> Drawn(s)
      /\ \A s \in Tokens : Exists(s)' <=> Exists(s) /\ s # t
      /\ \A d \in AuthCalls : Renews(d)' <=> Renews(d)
  BY <1>1 DEF AuthIInv, AuthTypeOK, Drawn, Exists, Renews
<1>3. line[t] \in Tokens /\ Drawn(line[t])
  BY <1>1 DEF AuthIInv, Traces
<1>4. AuthTypeOK'
  BY <1>1, <1>3 DEF AuthIInv, AuthTypeOK, SessionStates
<1>5. Traces'
  BY <1>1, <1>2, <1>3 DEF AuthIInv, AuthTypeOK, Traces
<1>6. (\A s \in handed : Drawn(s))' /\ UsedSessionsExpire' /\ OneSuccessor'
  BY <1>1, <1>2 DEF AuthIInv, AuthTypeOK, UsedSessionsExpire, OneSuccessor
<1>7. LogoutIsFinal'
  BY <1>1, <1>2 DEF AuthIInv, OneHolder, LogoutIsFinal
<1>8. CallsHold'
  BY <1>1, <1>2 DEF AuthIInv, AuthTypeOK, CallsHold
<1>9. OneHolder'
  BY <1>1, <1>2 DEF AuthIInv, OneHolder
<1>10. LogoutHolds'
  BY <1>1, <1>2 DEF AuthIInv, OneHolder, LogoutHolds
<1> QED
  BY <1>4, <1>5, <1>6, <1>7, <1>8, <1>9, <1>10 DEF AuthIInv

(* A fresh token takes over the line of the one its call has consumed. *)
LEMMA SaveStep ==
  ASSUME AuthIInv, NEW c \in AuthCalls, SaveSession(c)
  PROVE  AuthIInv'
<1> DEFINE old == authCall[c].old
<1>1. PICK t \in Tokens :
        /\ ~Drawn(t)
        /\ authCall[c].at = "save"
        /\ session' = [session EXCEPT ![t] = "unexpiring"]
        /\ parent' = [parent EXCEPT ![t] = old]
        /\ line' = [line EXCEPT ![t] = IF old = NoToken THEN t ELSE line[old]]
        /\ authCall' = [authCall EXCEPT ![c].at = "expire", ![c].new = t]
        /\ UNCHANGED << handed, loggedOut >>
  BY DEF SaveSession, Undrawn, Drawn, AfterSave
<1>2. old # NoToken => /\ Renews(c) /\ old \in Tokens /\ session[old] = "gone" /\ Drawn(old) /\ old # t
                       /\ line[old] \in Tokens /\ Drawn(line[old]) /\ line[old] # t
                       /\ \A s \in Tokens : parent[s] # old
  BY <1>1 DEF AuthIInv, CallsHold, Traces, Renews, Drawn
<1>3. /\ session'[t] = "unexpiring" /\ parent'[t] = old
      /\ line'[t] = IF old = NoToken THEN t ELSE line[old]
      /\ \A s \in Tokens \ {t} : /\ session'[s] = session[s]
                                 /\ parent'[s] = parent[s]
                                 /\ line'[s] = line[s]
                                 /\ Drawn(s)' <=> Drawn(s)
                                 /\ Exists(s)' <=> Exists(s)
      /\ Drawn(t)' /\ Exists(t)'
  BY <1>1 DEF AuthIInv, AuthTypeOK, Drawn, Exists
<1>4. /\ authCall'[c].at = "expire" /\ authCall'[c].new = t /\ ~Renews(c)'
      /\ \A d \in AuthCalls \ {c} : authCall'[d] = authCall[d] /\ (Renews(d)' <=> Renews(d))
  BY <1>1 DEF AuthIInv, AuthTypeOK, AuthCall, Renews
<1>5. t \notin handed /\ t \notin loggedOut /\ parent[t] = NoToken
  BY <1>1 DEF AuthIInv, Traces
<1>6. \A d \in AuthCalls : Renews(d) => /\ authCall[d].old \in Tokens \ {t}
                                       /\ line[authCall[d].old] \in Tokens \ {t}
  BY <1>1 DEF AuthIInv, CallsHold, Traces, Drawn
<1>7. \A s \in Tokens \ {t} : Exists(s) => line[s] # t
  BY <1>1 DEF AuthIInv, Traces, Drawn, Exists
<1>8. AuthTypeOK'
  <2>1. session' \in [Tokens -> SessionStates]
    BY <1>1 DEF AuthIInv, AuthTypeOK, SessionStates
  <2>2. authCall' \in [AuthCalls -> AuthCall]
    BY <1>1 DEF AuthIInv, AuthTypeOK, AuthCall, AuthStages
  <2>3. parent' \in [Tokens -> Tokens \cup {NoToken}] /\ line' \in [Tokens -> Tokens \cup {NoToken}]
    BY <1>1, <1>2 DEF AuthIInv, AuthTypeOK
  <2> QED
    BY <1>1, <2>1, <2>2, <2>3 DEF AuthIInv, AuthTypeOK
<1>9. Traces'
  <2>1. \A s \in Tokens : Drawn(s)' => line'[s] \in Tokens /\ Drawn(line[s])'
    BY <1>2, <1>3 DEF AuthIInv, Traces
  <2>2. \A s \in Tokens : parent'[s] # NoToken => session'[parent'[s]] = "gone"
    BY <1>1, <1>2, <1>3 DEF AuthIInv, AuthTypeOK, Traces, Drawn
  <2>3. \A s \in loggedOut' : Drawn(s)'
    BY <1>1, <1>3, <1>5 DEF AuthIInv, AuthTypeOK, Traces
  <2> QED
    BY <1>3, <2>1, <2>2, <2>3 DEF AuthIInv, Traces
<1>10. (\A s \in handed : Drawn(s))' /\ UsedSessionsExpire'
  BY <1>1, <1>3, <1>5 DEF AuthIInv, AuthTypeOK, UsedSessionsExpire
<1>11. LogoutIsFinal'
  BY <1>1, <1>2, <1>3, <1>5 DEF AuthIInv, LogoutIsFinal, LogoutHolds
<1>12. OneSuccessor'
  BY <1>2, <1>3, <1>5 DEF AuthIInv, OneSuccessor
<1>13. CallsHold'
  <2> SUFFICES ASSUME NEW d \in AuthCalls PROVE CallsHold!(d)'
    BY DEF CallsHold
  <2>1. CASE d = c
    BY <1>1, <1>3, <1>4, <2>1 DEF NoAuthCall
  <2>2. CASE d # c
    <3>1. Renews(d)' => /\ authCall'[d].old \in Tokens
                        /\ session'[authCall'[d].old] = "gone"
                        /\ \A s \in Tokens : parent'[s] # authCall'[d].old
      <4> SUFFICES ASSUME Renews(d)'
                   PROVE  /\ authCall[d].old \in Tokens
                          /\ session'[authCall[d].old] = "gone"
                          /\ \A s \in Tokens : parent'[s] # authCall[d].old
        BY <1>4, <2>2
      <4>1. Renews(d) /\ authCall[d].old \in Tokens \ {t}
        BY <1>4, <1>6, <2>2
      <4>2. old # authCall[d].old
        BY <1>2, <2>2, <4>1, NoTokenAssumption DEF AuthIInv, OneHolder, Renews
      <4> QED
        BY <1>3, <4>1, <4>2 DEF AuthIInv, CallsHold
    <3>2. authCall'[d] = authCall[d]
      BY <1>4, <2>2
    <3>3. /\ authCall[d].at = "consume" => authCall[d].old \in Tokens /\ Drawn(authCall[d].old)
          /\ authCall[d].at \in {"expire", "hand"} =>
                authCall[d].new \in Tokens /\ Drawn(authCall[d].new)
          /\ authCall[d].at = "hand" => session[authCall[d].new] # "unexpiring"
          /\ authCall[d].at = "idle" => authCall[d] = NoAuthCall
      BY DEF AuthIInv, CallsHold
    <3>4. \A s \in Tokens : Drawn(s) => s # t /\ Drawn(s)' /\ session'[s] = session[s]
      BY <1>1, <1>3
    <3> HIDE DEF Drawn
    <3> QED
      BY <3>1, <3>2, <3>3, <3>4 DEF NoAuthCall
  <2> QED
    BY <2>1, <2>2
<1>14. OneHolder'
  <2>1. \A r, s \in Tokens : Exists(r)' /\ Exists(s)' /\ line'[r] = line'[s] => r = s
    BY <1>2, <1>3, <1>7 DEF AuthIInv, OneHolder
  <2>2. \A s \in Tokens, d \in AuthCalls :
          Exists(s)' /\ Renews(d)' => line'[s] # line'[authCall'[d].old]
    <3> SUFFICES ASSUME NEW s \in Tokens, NEW d \in AuthCalls \ {c}, Exists(s)', Renews(d)
                 PROVE  line'[s] # line'[authCall'[d].old]
      BY <1>4
    <3>1. line'[authCall'[d].old] = line[authCall[d].old]
      BY <1>3, <1>4, <1>6
    <3>2. CASE s = t
      BY <1>2, <1>3, <1>6, <3>1, <3>2 DEF AuthIInv, OneHolder
    <3>3. CASE s # t
      BY <1>3, <3>1, <3>3 DEF AuthIInv, OneHolder
    <3> QED
      BY <3>2, <3>3
  <2>3. \A d, e \in AuthCalls :
          Renews(d)' /\ Renews(e)' /\ d # e => line'[authCall'[d].old] # line'[authCall'[e].old]
    BY <1>3, <1>4, <1>6 DEF AuthIInv, OneHolder
  <2> QED
    BY <2>1, <2>2, <2>3 DEF OneHolder
<1>15. LogoutHolds'
  <2> SUFFICES ASSUME NEW d \in AuthCalls \ {c}, Renews(d)
               PROVE  line'[authCall'[d].old] \notin loggedOut'
    BY <1>4 DEF LogoutHolds
  <2>1. line'[authCall'[d].old] = line[authCall[d].old]
    BY <1>3, <1>4, <1>6
  <2> QED
    BY <1>1, <2>1 DEF AuthIInv, LogoutHolds
<1> QED
  BY <1>8, <1>9, <1>10, <1>11, <1>12, <1>13, <1>14, <1>15 DEF AuthIInv

LEMMA ExpireStep ==
  ASSUME AuthIInv, NEW c \in AuthCalls, ExpireSession(c)
  PROVE  AuthIInv'
<1> DEFINE t == authCall[c].new
<1>1. /\ t \in Tokens /\ Drawn(t)
      /\ session' = [session EXCEPT ![t] = IF Exists(t) THEN "expiring" ELSE session[t]]
      /\ authCall[c].at = "expire"
      /\ authCall' = [authCall EXCEPT ![c].at = "hand"]
      /\ UNCHANGED << handed, parent, line, loggedOut >>
  BY DEF ExpireSession, AuthGoto, AuthIInv, CallsHold
<1>2. /\ session'[t] \notin {"undrawn", "unexpiring"}
      /\ session[t] = "gone" => session'[t] = "gone"
      /\ \A s \in Tokens \ {t} : session'[s] = session[s]
      /\ \A s \in Tokens : (Drawn(s)' <=> Drawn(s)) /\ (Exists(s)' <=> Exists(s))
  BY <1>1 DEF AuthIInv, AuthTypeOK, Drawn, Exists, SessionStates
<1>3. /\ authCall'[c].at = "hand" /\ authCall'[c].new = t
      /\ \A d \in AuthCalls \ {c} : authCall'[d] = authCall[d]
      /\ \A d \in AuthCalls : authCall'[d].old = authCall[d].old /\ (Renews(d)' <=> Renews(d))
  BY <1>1 DEF AuthIInv, AuthTypeOK, AuthCall, Renews
<1>4. AuthTypeOK'
  <2>1. session' \in [Tokens -> SessionStates]
    BY <1>1 DEF AuthIInv, AuthTypeOK, SessionStates
  <2>2. authCall' \in [AuthCalls -> AuthCall]
    BY <1>1 DEF AuthIInv, AuthTypeOK, AuthCall, AuthStages
  <2> QED
    BY <1>1, <2>1, <2>2 DEF AuthIInv, AuthTypeOK
<1>5. Traces'
  BY <1>1, <1>2 DEF AuthIInv, AuthTypeOK, Traces
<1>6. (\A s \in handed : Drawn(s))' /\ UsedSessionsExpire' /\ OneSuccessor' /\ LogoutIsFinal'
  BY <1>1, <1>2 DEF AuthIInv, AuthTypeOK, UsedSessionsExpire, OneSuccessor, LogoutIsFinal
<1>7. CallsHold'
  <2> SUFFICES ASSUME NEW d \in AuthCalls PROVE CallsHold!(d)'
    BY DEF CallsHold
  <2>1. CASE d = c
    BY <1>1, <1>2, <1>3, <2>1 DEF AuthIInv, CallsHold, NoAuthCall, Renews
  <2>2. CASE d # c
    BY <1>1, <1>2, <1>3, <2>2 DEF AuthIInv, CallsHold
  <2> QED
    BY <2>1, <2>2
<1>8. OneHolder' /\ LogoutHolds'
  BY <1>1, <1>2, <1>3 DEF AuthIInv, OneHolder, LogoutHolds
<1> QED
  BY <1>4, <1>5, <1>6, <1>7, <1>8 DEF AuthIInv

LEMMA HandStep ==
  ASSUME AuthIInv, NEW c \in AuthCalls, HandTokens(c)
  PROVE  AuthIInv'
<1> DEFINE t == authCall[c].new
<1>1. /\ t \in Tokens /\ Drawn(t) /\ session[t] # "unexpiring"
      /\ handed' = handed \cup {t}
      /\ authCall' = [authCall EXCEPT ![c] = NoAuthCall]
      /\ UNCHANGED << session, parent, line, loggedOut >>
  BY DEF HandTokens, AuthDone, AuthIInv, CallsHold
<1>2. /\ authCall'[c] = NoAuthCall
      /\ \A d \in AuthCalls \ {c} : authCall'[d] = authCall[d] /\ (Renews(d)' <=> Renews(d))
      /\ ~Renews(c)'
  BY <1>1 DEF AuthIInv, AuthTypeOK, Renews, NoAuthCall
<1>3. AuthTypeOK'
  BY <1>1 DEF AuthIInv, AuthTypeOK, NoAuthCall, AuthCall, AuthStages
<1>4. Traces' /\ LogoutIsFinal' /\ OneSuccessor'
  BY <1>1 DEF AuthIInv, Traces, Drawn, LogoutIsFinal, OneSuccessor, Exists
<1>5. (\A s \in handed : Drawn(s))' /\ UsedSessionsExpire'
  BY <1>1 DEF AuthIInv, Drawn, UsedSessionsExpire
<1>6. CallsHold'
  <2> SUFFICES ASSUME NEW d \in AuthCalls PROVE CallsHold!(d)'
    BY DEF CallsHold
  <2>1. CASE d = c
    BY <1>2, <2>1 DEF NoAuthCall
  <2>2. CASE d # c
    BY <1>1, <1>2, <2>2 DEF AuthIInv, CallsHold, Drawn
  <2> QED
    BY <2>1, <2>2
<1>7. OneHolder' /\ LogoutHolds'
  BY <1>1, <1>2 DEF AuthIInv, OneHolder, LogoutHolds, Exists
<1> QED
  BY <1>3, <1>4, <1>5, <1>6, <1>7 DEF AuthIInv

LEMMA AuthStep == AuthIInv /\ [AuthNext]_authVars => AuthIInv'
<1> SUFFICES ASSUME AuthIInv, [AuthNext]_authVars PROVE AuthIInv'
  OBVIOUS
<1>1. CASE UNCHANGED authVars
  BY <1>1
     DEF authVars, AuthIInv, AuthTypeOK, Traces, CallsHold, OneHolder, LogoutHolds, Drawn, Renews,
         Exists, UsedSessionsExpire, LogoutIsFinal, OneSuccessor
<1>2. CASE AuthNext
  BY <1>2, CallStep, ConsumeStep, EndingStep, SaveStep, ExpireStep, HandStep DEF AuthNext
<1> QED
  BY <1>1, <1>2

THEOREM AuthInvariant == AuthSpec => []AuthIInv
  BY AuthInitial, AuthStep, PTL DEF AuthSpec

(* One refresh token yields one successor at most (auth-session.service.ts:103). *)
THEOREM OneSuccessorHolds == AuthSpec => []OneSuccessor
<1>1. AuthIInv => OneSuccessor
  BY DEF AuthIInv
<1> QED
  BY <1>1, AuthInvariant, PTL

(* A login that was logged out has no session any more, whatever refreshes were
   under way (auth.service.ts:147-181). *)
THEOREM LogoutIsFinalHolds == AuthSpec => []LogoutIsFinal
<1>1. AuthIInv => LogoutIsFinal
  BY DEF AuthIInv
<1> QED
  BY <1>1, AuthInvariant, PTL

(* A client never holds a token whose session would stay for good
   (auth-session.service.ts:45-68). *)
THEOREM UsedSessionsExpireHolds == AuthSpec => []UsedSessionsExpire
<1>1. AuthIInv => UsedSessionsExpire
  BY DEF AuthIInv
<1> QED
  BY <1>1, AuthInvariant, PTL

-----------------------------------------------------------------------------
(* AccountLinking.                                                         *)

(* A call under way has an account; from the customer on it has a user too. *)
CallKnows ==
    \A c \in LinkCalls :
        /\ linkCall[c].at # "idle" => linkCall[c].account \in Accounts
        /\ linkCall[c].at \in {"linked", "phone", "email", "create", "customer"} =>
              linkCall[c].phone \in Phones
        /\ linkCall[c].at \in {"customer", "link", "session"} => linkCall[c].target \in Users

(* A session is made for the user the account is linked to. *)
SessionFollowsLink ==
    \A c \in LinkCalls :
        linkCall[c].at = "session" => identity[linkCall[c].account] = linkCall[c].target

LinkIInv == LinkTypeOK /\ CallKnows /\ SessionFollowsLink /\ SignsInAsLinked

LEMMA LinkInitial == LinkInit => LinkIInv
  BY DEF LinkInit, LinkIInv, LinkTypeOK, CallKnows, SessionFollowsLink, SignsInAsLinked,
         NoLinkCall, LinkCall, LinkStages

(* Steps that read: only the call itself changes, and it makes no session but
   for the user it has read from the identity. *)
LEMMA ReadingStep ==
  ASSUME LinkIInv, NEW c \in LinkCalls,
         GoogleLogin(c) \/ CompleteStart(c) \/ CompleteRecheck(c) \/ CompleteByPhone(c)
           \/ CompleteByEmail(c) \/ LinkCallFails(c)
  PROVE  LinkIInv'
<1> DEFINE g == linkCall[c].account
<1>1. LinkTypeOK'
  <2>1. CASE GoogleLogin(c)
    <3>1. PICK a \in Accounts :
            \/ /\ identity[a] # Nothing
               /\ linkCall' = [linkCall EXCEPT ![c] = [at |-> "session", account |-> a,
                                  phone |-> Nothing, target |-> identity[a]]]
               /\ UNCHANGED tempTokens
            \/ tempTokens' = tempTokens \cup {a} /\ UNCHANGED linkCall
      BY <2>1 DEF GoogleLogin
    <3>2. identity[a] \in Users \/ identity[a] = Nothing
      BY DEF LinkIInv, LinkTypeOK
    <3> QED
      BY <2>1, <3>1, <3>2 DEF GoogleLogin, LinkIInv, LinkTypeOK, LinkCall, LinkStages
  <2>2. CASE CompleteStart(c)
    BY <2>2 DEF CompleteStart, LinkIInv, LinkTypeOK, LinkCall, LinkStages
  <2>3. CASE CompleteRecheck(c)
    <3>1. g \in Accounts
      BY <2>3 DEF CompleteRecheck, LinkIInv, CallKnows
    <3>2. identity[g] \in Users \/ identity[g] = Nothing
      BY <3>1 DEF LinkIInv, LinkTypeOK
    <3> QED
      BY <2>3, <3>2 DEF CompleteRecheck, LinkIInv, LinkTypeOK, LinkCall, LinkStages, LinkGoto, LinkFound
  <2>4. CASE CompleteByPhone(c)
    BY <2>4 DEF CompleteByPhone, LinkIInv, LinkTypeOK, LinkCall, LinkStages, LinkGoto, LinkFound,
                WithPhone
  <2>5. CASE CompleteByEmail(c)
    BY <2>5 DEF CompleteByEmail, LinkIInv, LinkTypeOK, LinkCall, LinkStages, LinkGoto, LinkFound,
                WithEmail
  <2>6. CASE LinkCallFails(c)
    BY <2>6 DEF LinkCallFails, LinkIInv, LinkTypeOK, LinkCall, LinkStages, LinkDone, NoLinkCall
  <2> QED
    BY <2>1, <2>2, <2>3, <2>4, <2>5, <2>6
<1>2. UNCHANGED << identity, signedIn >>
  BY DEF GoogleLogin, CompleteStart, CompleteRecheck, CompleteByPhone, CompleteByEmail,
         LinkCallFails
<1>3. CallKnows'
  BY NothingAssumption
     DEF LinkIInv, LinkTypeOK, CallKnows, GoogleLogin, CompleteStart, CompleteRecheck,
         CompleteByPhone, CompleteByEmail, LinkCallFails, LinkGoto, LinkFound, LinkDone, NoLinkCall,
         LinkCall, LinkStages, WithPhone, WithEmail
<1>4. SessionFollowsLink'
  BY NothingAssumption, <1>2
     DEF LinkIInv, LinkTypeOK, CallKnows, SessionFollowsLink, GoogleLogin, CompleteStart,
         CompleteRecheck, CompleteByPhone, CompleteByEmail, LinkCallFails, LinkGoto, LinkFound,
         LinkDone, NoLinkCall, LinkCall, LinkStages
<1>5. SignsInAsLinked'
  BY <1>2 DEF LinkIInv, SignsInAsLinked
<1> QED
  BY <1>1, <1>3, <1>4, <1>5 DEF LinkIInv

(* User.create and Customer.create. *)
LEMMA CreatingStep ==
  ASSUME LinkIInv, NEW c \in LinkCalls, CompleteCreate(c) \/ CompleteCustomer(c)
  PROVE  LinkIInv'
<1>1. LinkTypeOK'
  BY DEF LinkIInv, LinkTypeOK, CallKnows, CompleteCreate, CompleteCustomer, LinkGoto, LinkFound,
         LinkDone, NoLinkCall, LinkCall, LinkStages, UserRow
<1>2. UNCHANGED << identity, signedIn >>
  BY DEF CompleteCreate, CompleteCustomer
<1>3. \/ linkCall' = [linkCall EXCEPT ![c] = NoLinkCall]
      \/ /\ linkCall[c].at = "create"
         /\ \E u \in Users : linkCall' = [linkCall EXCEPT ![c].at = "customer", ![c].target = u]
      \/ linkCall[c].at = "customer" /\ linkCall' = [linkCall EXCEPT ![c].at = "link"]
  BY DEF CompleteCreate, CompleteCustomer, LinkGoto, LinkFound, LinkDone
<1>4. CallKnows' /\ SessionFollowsLink'
  BY <1>2, <1>3 DEF LinkIInv, LinkTypeOK, CallKnows, SessionFollowsLink, NoLinkCall, LinkCall, LinkStages
<1>5. SignsInAsLinked'
  BY <1>2 DEF LinkIInv, SignsInAsLinked
<1> QED
  BY <1>1, <1>4, <1>5 DEF LinkIInv

(* The account is linked while it is not: no session was made for it before,
   and no other call is about to make one. *)
LEMMA LinkingStep ==
  ASSUME LinkIInv, NEW c \in LinkCalls, CompleteLink(c)
  PROVE  LinkIInv'
<1> DEFINE g == linkCall[c].account
           u == linkCall[c].target
<1>1. g \in Accounts /\ u \in Users /\ linkCall[c].at = "link"
  BY DEF LinkIInv, CallKnows, CompleteLink, LinkStages
<1>2. CASE Linkable(g)
  <2>1. /\ identity[g] = Nothing
        /\ identity' = [identity EXCEPT ![g] = u]
        /\ linkCall' = [linkCall EXCEPT ![c].at = "session"]
        /\ UNCHANGED << user, customers, claimed, tempTokens, signedIn >>
    BY <1>2 DEF CompleteLink, Linkable, LinkGoto
  <2>2. LinkTypeOK'
    BY <1>1, <2>1 DEF LinkIInv, LinkTypeOK, LinkCall, LinkStages
  <2>3. CallKnows'
    BY <1>1, <2>1 DEF LinkIInv, LinkTypeOK, CallKnows, LinkCall, LinkStages
  <2>4. SessionFollowsLink'
    <3> SUFFICES ASSUME NEW d \in LinkCalls, linkCall'[d].at = "session"
                 PROVE  identity'[linkCall'[d].account] = linkCall'[d].target
      BY DEF SessionFollowsLink
    <3>1. CASE d = c
      BY <1>1, <2>1, <3>1 DEF LinkIInv, LinkTypeOK, LinkCall
    <3>2. CASE d # c
      <4>1. linkCall'[d] = linkCall[d]
        BY <2>1, <3>2 DEF LinkIInv, LinkTypeOK
      <4>2. /\ identity[linkCall[d].account] = linkCall[d].target
            /\ linkCall[d].target \in Users
            /\ linkCall[d].account \in Accounts
        BY <4>1 DEF LinkIInv, SessionFollowsLink, CallKnows
      <4>3. linkCall[d].account # g
        BY <2>1, <4>2, NothingAssumption
      <4> QED
        BY <1>1, <2>1, <4>1, <4>2, <4>3 DEF LinkIInv, LinkTypeOK
    <3> QED
      BY <3>1, <3>2
  <2>5. SignsInAsLinked'
    <3> SUFFICES ASSUME NEW s \in signedIn PROVE identity'[s[1]] = s[2]
      BY <2>1 DEF SignsInAsLinked
    <3>1. s[1] \in Accounts /\ s[2] \in Users /\ identity[s[1]] = s[2]
      BY DEF LinkIInv, LinkTypeOK, SignsInAsLinked
    <3>2. s[1] # g
      BY <2>1, <3>1, NothingAssumption
    <3> QED
      BY <1>1, <2>1, <3>1, <3>2 DEF LinkIInv, LinkTypeOK
  <2> QED
    BY <2>2, <2>3, <2>4, <2>5 DEF LinkIInv
<1>3. CASE ~Linkable(g)
  <2>1. /\ linkCall' = [linkCall EXCEPT ![c] = NoLinkCall]
        /\ UNCHANGED << user, customers, identity, claimed, tempTokens, signedIn >>
    BY <1>3 DEF CompleteLink, LinkDone
  <2> QED
    BY <2>1 DEF LinkIInv, LinkTypeOK, CallKnows, SessionFollowsLink, SignsInAsLinked, NoLinkCall,
                LinkCall, LinkStages
<1> QED
  BY <1>2, <1>3

LEMMA SigningStep ==
  ASSUME LinkIInv, NEW c \in LinkCalls, SignIn(c)
  PROVE  LinkIInv'
<1> DEFINE pair == << linkCall[c].account, linkCall[c].target >>
<1>1. /\ linkCall[c].at = "session"
      /\ signedIn' = signedIn \cup {pair}
      /\ linkCall' = [linkCall EXCEPT ![c] = NoLinkCall]
      /\ UNCHANGED << user, customers, identity, claimed, tempTokens >>
  BY DEF SignIn, LinkDone
<1>2. pair \in Accounts \X Users /\ identity[pair[1]] = pair[2]
  BY <1>1 DEF LinkIInv, CallKnows, SessionFollowsLink
<1>3. LinkTypeOK'
  BY <1>1, <1>2 DEF LinkIInv, LinkTypeOK, NoLinkCall, LinkCall, LinkStages
<1>4. CallKnows' /\ SessionFollowsLink'
  BY <1>1 DEF LinkIInv, LinkTypeOK, CallKnows, SessionFollowsLink, NoLinkCall
<1>5. SignsInAsLinked'
  BY <1>1, <1>2 DEF LinkIInv, SignsInAsLinked
<1> QED
  BY <1>3, <1>4, <1>5 DEF LinkIInv

LEMMA LinkStep == LinkIInv /\ [LinkNext]_linkVars => LinkIInv'
<1> SUFFICES ASSUME LinkIInv, [LinkNext]_linkVars PROVE LinkIInv'
  OBVIOUS
<1>1. CASE UNCHANGED linkVars
  BY <1>1 DEF linkVars, LinkIInv, LinkTypeOK, CallKnows, SessionFollowsLink, SignsInAsLinked
<1>2. CASE LinkNext
  BY <1>2, ReadingStep, CreatingStep, LinkingStep, SigningStep DEF LinkNext
<1> QED
  BY <1>1, <1>2

(* The types of the state, and what the calls know. *)
THEOREM LinkInvariant == LinkSpec => []LinkIInv
  BY LinkInitial, LinkStep, PTL DEF LinkSpec

(* A Google account signs in as the one user it is linked to, for any number of
   registrations that overlap and die anywhere (oauth.service.ts:189-247). *)
THEOREM SignsInAsLinkedHolds == LinkSpec => []SignsInAsLinked
<1>1. LinkIInv => SignsInAsLinked
  BY DEF LinkIInv
<1> QED
  BY <1>1, LinkInvariant, PTL

-----------------------------------------------------------------------------
(* CashierAccess.                                                          *)

StartStages == {"startFind", "startEnding", "startCreate"}
EndStages == {"endFind", "endEnding"}
EndingStages == {"startEnding", "endEnding"}

ActiveFor(a, u) == assignment[a].cashier = u /\ assignment[a].isActive
StartsFor(c, u) == deskCall[c].at \in StartStages /\ deskCall[c].user = u

(* A call under way has a user, a confirmation a pending action. *)
CallsKnow ==
    \A c \in DeskCalls :
        /\ deskCall[c].at # "idle" => deskCall[c].user \in Staff
        /\ deskCall[c].pending \in PendingIds <=> deskCall[c].at \in {"access", "run"}

(* A start that runs alone is the only start of its user, beside an end that
   runs alone there is none, and neither leaves an active session unread. *)
AloneCalls ==
    \A c \in DeskCalls : deskCall[c].alone =>
        /\ deskCall[c].at \in StartStages =>
              \A d \in DeskCalls : StartsFor(d, deskCall[c].user) => d = c
        /\ deskCall[c].at \in EndStages =>
              \A d \in DeskCalls : ~StartsFor(d, deskCall[c].user)
        /\ deskCall[c].at \in EndingStages =>
              \A a \in Assignments : ActiveFor(a, deskCall[c].user) => a \in deskCall[c].ending

(* Starts of a user with one session run alone. *)
OneAlone ==
    \A u \in Staff : oneSession[u] =>
        /\ \A c \in DeskCalls : StartsFor(c, u) => deskCall[c].alone
        /\ \A a, b \in Assignments : ActiveFor(a, u) /\ ActiveFor(b, u) => a = b

(* A user who has ended the session has none, and none about to start. *)
EndedHasNone ==
    \A u \in Staff : sessionEnded[u] =>
        /\ \A a \in Assignments : ~ActiveFor(a, u)
        /\ \A c \in DeskCalls : ~StartsFor(c, u)

BarredEnded ==
    \A c \in DeskCalls : deskCall[c].barred =>
        deskCall[c].user \in Staff /\ sessionEnded[deskCall[c].user]

PendingHasUser ==
    \A p \in PendingIds : pendingAction[p] # NoPending => pendingAction[p].user \in Staff

(* A pending action is in Redis, or in the hands of one call, or over. *)
PendingOnce ==
    \A p \in PendingIds :
        /\ runs[p] <= 1
        /\ pendingAction[p] # NoPending =>
              p \in drawn /\ runs[p] = 0 /\ \A c \in DeskCalls : deskCall[c].pending # p
        /\ p \notin drawn => runs[p] = 0
        /\ \A c \in DeskCalls : deskCall[c].pending = p =>
              /\ p \in drawn /\ runs[p] = 0
              /\ \A d \in DeskCalls : deskCall[d].pending = p => c = d

DeskIInv ==
    /\ DeskTypeOK /\ CallsKnow
    /\ AloneCalls /\ OneAlone /\ EndedHasNone /\ BarredEnded
    /\ EndedSessionActsNoMore
    /\ PendingHasUser /\ PendingOnce

LEMMA DeskInitial == DeskInit => DeskIInv
<1> SUFFICES ASSUME DeskInit PROVE DeskIInv
  OBVIOUS
<1>1. NoDeskCall \in DeskCall /\ NoAssignment \in AssignmentRow /\ NoPending \in PendingRow
  BY DEF NoDeskCall, DeskCall, DeskStages, NoAssignment, AssignmentRow, NoPending, PendingRow
<1>2. \A c \in DeskCalls : /\ deskCall[c].at = "idle" /\ deskCall[c].pending = NoId
                           /\ ~deskCall[c].barred
  BY DEF DeskInit, NoDeskCall
<1>3. \A a \in Assignments : ~assignment[a].isActive
  BY DEF DeskInit, NoAssignment
<1>4. DeskTypeOK
  BY <1>1 DEF DeskInit, DeskTypeOK
<1>5. CallsKnow /\ AloneCalls /\ OneAlone /\ EndedHasNone /\ BarredEnded /\ EndedSessionActsNoMore
  BY <1>2, <1>3, AccessAssumption
     DEF CallsKnow, AloneCalls, OneAlone, EndedHasNone, BarredEnded, EndedSessionActsNoMore,
         ActiveFor, StartsFor, StartStages, EndStages, EndingStages
<1>6. PendingHasUser /\ PendingOnce
  BY <1>2, AccessAssumption DEF DeskInit, PendingHasUser, PendingOnce
<1> QED
  BY <1>4, <1>5, <1>6 DEF DeskIInv

(* A call begins that neither starts a session nor confirms an action. *)
LEMMA BeginKeeps ==
  ASSUME DeskIInv, NEW c \in DeskCalls,
         deskCall[c].at = "idle",
         deskCall' \in [DeskCalls -> DeskCall],
         \A d \in DeskCalls \ {c} : deskCall'[d] = deskCall[d],
         deskCall'[c].user \in Staff, deskCall'[c].pending = NoId, ~deskCall'[c].barred,
         \/ deskCall'[c].at = "propose"
         \/ /\ deskCall'[c].at = "endFind"
            /\ deskCall'[c].alone => \A d \in DeskCalls : ~StartsFor(d, deskCall'[c].user),
         UNCHANGED << roles, ownCustomer, assignment, pendingAction, drawn, sessionEnded,
                      oneSession, runs >>
  PROVE  DeskIInv'
<1>1. DeskTypeOK'
  BY DEF DeskIInv, DeskTypeOK
<1>3. CallsKnow'
  BY AccessAssumption DEF DeskIInv, CallsKnow
<1>4. AloneCalls'
  BY DEF DeskIInv, AloneCalls, ActiveFor, StartsFor, StartStages, EndStages, EndingStages
<1>5. OneAlone' /\ EndedHasNone'
  BY DEF DeskIInv, OneAlone, EndedHasNone, ActiveFor, StartsFor, StartStages
<1>6. BarredEnded' /\ EndedSessionActsNoMore'
  BY DEF DeskIInv, BarredEnded, EndedSessionActsNoMore
<1>7. PendingHasUser' /\ PendingOnce'
  BY AccessAssumption DEF DeskIInv, PendingHasUser, PendingOnce
<1> QED
  BY <1>1, <1>3, <1>4, <1>5, <1>6, <1>7 DEF DeskIInv

(* A call ends, and leaves all else alone. *)
LEMMA DoneKeeps ==
  ASSUME DeskIInv, NEW c \in DeskCalls, DeskDone(c),
         UNCHANGED << roles, ownCustomer, assignment, pendingAction, drawn, sessionEnded,
                      oneSession, runs >>
  PROVE  DeskIInv'
<1>1. /\ deskCall'[c] = NoDeskCall
      /\ \A d \in DeskCalls \ {c} : deskCall'[d] = deskCall[d]
      /\ deskCall' \in [DeskCalls -> DeskCall]
  BY DEF DeskDone, DeskIInv, DeskTypeOK, NoDeskCall, DeskCall, DeskStages
<1>2. /\ NoDeskCall.at = "idle" /\ NoDeskCall.pending = NoId /\ ~NoDeskCall.barred
  BY DEF NoDeskCall
<1>3. DeskTypeOK'
  BY <1>1 DEF DeskIInv, DeskTypeOK
<1>4. CallsKnow' /\ BarredEnded' /\ EndedSessionActsNoMore'
  BY <1>1, <1>2, AccessAssumption
     DEF DeskIInv, CallsKnow, BarredEnded, EndedSessionActsNoMore
<1>5. AloneCalls'
  BY <1>1, <1>2 DEF DeskIInv, AloneCalls, ActiveFor, StartsFor, StartStages, EndStages, EndingStages
<1>6. OneAlone' /\ EndedHasNone'
  BY <1>1, <1>2 DEF DeskIInv, OneAlone, EndedHasNone, ActiveFor, StartsFor, StartStages
<1>7. PendingHasUser' /\ PendingOnce'
  BY <1>1, <1>2, AccessAssumption DEF DeskIInv, PendingHasUser, PendingOnce
<1> QED
  BY <1>3, <1>4, <1>5, <1>6, <1>7 DEF DeskIInv

-----------------------------------------------------------------------------
(* Sessions.                                                               *)

LEMMA StartStep ==
  ASSUME DeskIInv, NEW c \in DeskCalls, Start(c)
  PROVE  DeskIInv'
<1>1. PICK u \in Staff, k \in Customers :
        /\ deskCall[c].at = "idle"
        /\ deskCall' = [d \in DeskCalls |->
              IF d = c THEN [NoDeskCall EXCEPT !.at = "startFind", !.user = u, !.customer = k,
                                               !.alone = Starting(u) = {}]
              ELSE IF deskCall[d].user = u
                   THEN [deskCall[d] EXCEPT !.alone = FALSE, !.barred = FALSE]
                   ELSE deskCall[d]]
        /\ sessionEnded' = [sessionEnded EXCEPT ![u] = FALSE]
        /\ oneSession' = [oneSession EXCEPT ![u] = @ /\ Starting(u) = {}]
        /\ UNCHANGED << roles, ownCustomer, assignment, pendingAction, drawn, runs >>
  BY DEF Start
<1>a. UNCHANGED << roles, ownCustomer, assignment, pendingAction, drawn, runs >>
      /\ deskCall[c].at = "idle"
  BY <1>1
<1>b. Starting(u) = {} <=> \A d \in DeskCalls : ~StartsFor(d, u)
  BY DEF Starting, StartsFor, StartStages
<1>2. /\ deskCall'[c].at = "startFind" /\ deskCall'[c].user = u /\ deskCall'[c].pending = NoId
      /\ deskCall'[c].alone => \A d \in DeskCalls : ~StartsFor(d, u)
      /\ (\A d \in DeskCalls : ~StartsFor(d, u)) => deskCall'[c].alone
      /\ deskCall'[c].barred = FALSE
      /\ deskCall'[c] \in DeskCall
  <2>1. /\ deskCall'[c].at = "startFind" /\ deskCall'[c].user = u
        /\ deskCall'[c].pending = NoId
        /\ deskCall'[c].alone = (Starting(u) = {}) /\ deskCall'[c].barred = FALSE
        /\ deskCall'[c] \in DeskCall
    BY <1>1 DEF NoDeskCall, DeskCall, DeskStages
  <2> QED
    BY <1>b, <2>1
<1>3. \A d \in DeskCalls \ {c} :
        /\ deskCall'[d] \in DeskCall
        /\ deskCall'[d].at = deskCall[d].at /\ deskCall'[d].user = deskCall[d].user
        /\ deskCall'[d].customer = deskCall[d].customer
        /\ deskCall'[d].ending = deskCall[d].ending /\ deskCall'[d].pending = deskCall[d].pending
        /\ deskCall[d].user = u => ~deskCall'[d].alone /\ ~deskCall'[d].barred
        /\ deskCall[d].user # u => /\ deskCall'[d].alone = deskCall[d].alone
                                   /\ deskCall'[d].barred = deskCall[d].barred
  <2> SUFFICES ASSUME NEW d \in DeskCalls \ {c}
               PROVE  /\ deskCall'[d] \in DeskCall
                      /\ deskCall'[d].at = deskCall[d].at /\ deskCall'[d].user = deskCall[d].user
                      /\ deskCall'[d].customer = deskCall[d].customer
                      /\ deskCall'[d].ending = deskCall[d].ending
                      /\ deskCall'[d].pending = deskCall[d].pending
                      /\ deskCall[d].user = u => ~deskCall'[d].alone /\ ~deskCall'[d].barred
                      /\ deskCall[d].user # u => /\ deskCall'[d].alone = deskCall[d].alone
                                                 /\ deskCall'[d].barred = deskCall[d].barred
    OBVIOUS
  <2>1. deskCall[d] \in DeskCall
    BY DEF DeskIInv, DeskTypeOK
  <2>2. CASE deskCall[d].user = u
    <3>1. deskCall'[d] = [deskCall[d] EXCEPT !.alone = FALSE, !.barred = FALSE]
      BY <1>1, <2>2
    <3> QED
      BY <2>1, <2>2, <3>1 DEF DeskCall
  <2>3. CASE deskCall[d].user # u
    <3>1. deskCall'[d] = deskCall[d]
      BY <1>1, <2>3
    <3> QED
      BY <2>1, <2>3, <3>1
  <2> QED
    BY <2>2, <2>3
<1>4. DeskTypeOK'
  BY <1>1, <1>2, <1>3 DEF DeskIInv, DeskTypeOK
<1>5. /\ ~sessionEnded'[u]
      /\ oneSession'[u] => oneSession[u] /\ \A d \in DeskCalls : ~StartsFor(d, u)
      /\ \A w \in Staff \ {u} : sessionEnded'[w] = sessionEnded[w] /\ oneSession'[w] = oneSession[w]
  BY <1>1, <1>b DEF DeskIInv, DeskTypeOK
<1>6. CallsKnow'
  BY <1>a, <1>2, <1>3, AccessAssumption DEF DeskIInv, CallsKnow
<1>7. AloneCalls'
  BY <1>a, <1>2, <1>3
     DEF DeskIInv, AloneCalls, ActiveFor, StartsFor, StartStages, EndStages, EndingStages
<1>8. OneAlone' /\ EndedHasNone'
  <2>1. OneAlone'
    BY <1>a, <1>2, <1>3, <1>5 DEF DeskIInv, OneAlone, ActiveFor, StartsFor, StartStages
  <2>2. EndedHasNone'
    BY <1>a, <1>2, <1>3, <1>5 DEF DeskIInv, EndedHasNone, ActiveFor, StartsFor, StartStages
  <2> QED
    BY <2>1, <2>2
<1>9. BarredEnded' /\ EndedSessionActsNoMore'
  <2>1. BarredEnded'
    BY <1>a, <1>2, <1>3, <1>5 DEF DeskIInv, DeskTypeOK, BarredEnded, CallsKnow
  <2>2. EndedSessionActsNoMore'
    BY <1>a, <1>2, <1>3 DEF DeskIInv, EndedSessionActsNoMore
  <2> QED
    BY <2>1, <2>2
<1>10. PendingHasUser' /\ PendingOnce'
  BY <1>a, <1>2, <1>3, AccessAssumption DEF DeskIInv, PendingHasUser, PendingOnce
<1> QED
  BY <1>4, <1>6, <1>7, <1>8, <1>9, <1>10 DEF DeskIInv

LEMMA EndStep ==
  ASSUME DeskIInv, NEW c \in DeskCalls, End(c)
  PROVE  DeskIInv'
<1>1. PICK u \in Staff :
        /\ deskCall[c].at = "idle"
        /\ deskCall' = [deskCall EXCEPT ![c] =
              [NoDeskCall EXCEPT !.at = "endFind", !.user = u, !.alone = Starting(u) = {}]]
        /\ UNCHANGED << roles, ownCustomer, assignment, pendingAction, drawn, sessionEnded,
                        oneSession, runs >>
  BY DEF End
<1>2. /\ deskCall'[c].at = "endFind" /\ deskCall'[c].user = u /\ deskCall'[c].pending = NoId
      /\ deskCall'[c].alone = (Starting(u) = {}) /\ deskCall'[c].barred = FALSE
      /\ deskCall'[c] \in DeskCall
      /\ \A d \in DeskCalls \ {c} : deskCall'[d] = deskCall[d]
  BY <1>1 DEF NoDeskCall, DeskCall, DeskStages, DeskIInv, DeskTypeOK
<1>3. deskCall' \in [DeskCalls -> DeskCall]
  BY <1>1, <1>2 DEF DeskIInv, DeskTypeOK
<1>4. Starting(u) = {} => \A d \in DeskCalls : ~StartsFor(d, u)
  BY DEF Starting, StartsFor, StartStages
<1>5. deskCall'[c].alone => \A d \in DeskCalls : ~StartsFor(d, deskCall'[c].user)
  BY <1>2, <1>4
<1>6. UNCHANGED << roles, ownCustomer, assignment, pendingAction, drawn, sessionEnded,
                   oneSession, runs >>
  BY <1>1
<1> QED
  BY <1>1, <1>2, <1>3, <1>5, <1>6, BeginKeeps, Zenon

(* Both calls read the active sessions. *)
LEMMA FindStep ==
  ASSUME DeskIInv, NEW c \in DeskCalls, EndFind(c)
  PROVE  DeskIInv'
<1>a. PICK u, stage, found :
        /\ u = deskCall[c].user /\ found = ActiveOf(u)
        /\ stage = IF deskCall[c].at = "startFind" THEN "startEnding" ELSE "endEnding"
  OBVIOUS
<1>1. /\ deskCall[c].at \in {"startFind", "endFind"}
      /\ deskCall' = [deskCall EXCEPT ![c].at = stage, ![c].ending = found]
      /\ UNCHANGED << roles, ownCustomer, assignment, pendingAction, drawn, sessionEnded,
                      oneSession, runs >>
  BY <1>a DEF EndFind, ToEnd
<1>2. /\ deskCall'[c] \in DeskCall
      /\ deskCall'[c].at = stage /\ deskCall'[c].ending = found
      /\ deskCall'[c].user = u /\ deskCall[c].user = u
      /\ \A a \in Assignments : ActiveFor(a, u) => a \in found
      /\ deskCall'[c].customer = deskCall[c].customer /\ deskCall'[c].alone = deskCall[c].alone
      /\ deskCall'[c].pending = deskCall[c].pending /\ deskCall'[c].barred = deskCall[c].barred
      /\ \A d \in DeskCalls \ {c} : deskCall'[d] = deskCall[d]
      /\ \/ stage = "startEnding" /\ deskCall[c].at = "startFind"
         \/ stage = "endEnding" /\ deskCall[c].at = "endFind"
  <2>1. deskCall[c] \in DeskCall /\ found \subseteq Assignments
        /\ \A a \in Assignments : ActiveFor(a, u) => a \in found
    BY <1>a DEF DeskIInv, DeskTypeOK, ActiveOf, ActiveFor
  <2>2. /\ deskCall'[c] = [[deskCall[c] EXCEPT !.at = stage] EXCEPT !.ending = found]
        /\ \A d \in DeskCalls \ {c} : deskCall'[d] = deskCall[d]
    BY <1>1, <2>1 DEF DeskIInv, DeskTypeOK, DeskCall
  <2>3. \/ stage = "startEnding" /\ deskCall[c].at = "startFind"
        \/ stage = "endEnding" /\ deskCall[c].at = "endFind"
    BY <1>a, <1>1
  <2>4. stage \in DeskStages
    BY <2>3 DEF DeskStages
  <2>5. deskCall'[c] = [at |-> stage, user |-> deskCall[c].user, customer |-> deskCall[c].customer,
                        ending |-> found, pending |-> deskCall[c].pending,
                        alone |-> deskCall[c].alone, barred |-> deskCall[c].barred]
    BY <2>1, <2>2 DEF DeskCall
  <2>6. deskCall'[c] \in DeskCall
    BY <2>1, <2>4, <2>5 DEF DeskCall
  <2> QED
    BY <1>a, <2>1, <2>2, <2>3, <2>5, <2>6
<1>b. UNCHANGED << roles, ownCustomer, assignment, pendingAction, drawn, sessionEnded,
                   oneSession, runs >>
  BY <1>1
<1>3. DeskTypeOK'
  BY <1>1, <1>2 DEF DeskIInv, DeskTypeOK
<1>4. CallsKnow' /\ BarredEnded' /\ EndedSessionActsNoMore'
  BY <1>b, <1>2 DEF DeskIInv, CallsKnow, BarredEnded, EndedSessionActsNoMore
<1>5. AloneCalls'
  BY <1>b, <1>2
     DEF DeskIInv, AloneCalls, ActiveFor, StartsFor, StartStages, EndStages, EndingStages
<1>6. OneAlone' /\ EndedHasNone'
  BY <1>b, <1>2 DEF DeskIInv, OneAlone, EndedHasNone, ActiveFor, StartsFor, StartStages
<1>7. PendingHasUser' /\ PendingOnce'
  BY <1>b, <1>2 DEF DeskIInv, PendingHasUser, PendingOnce
<1> QED
  BY <1>3, <1>4, <1>5, <1>6, <1>7 DEF DeskIInv

LEMMA EndOneStep ==
  ASSUME DeskIInv, NEW c \in DeskCalls, EndOne(c)
  PROVE  DeskIInv'
<1>1. PICK b \in deskCall[c].ending :
        /\ deskCall[c].at \in {"startEnding", "endEnding"}
        /\ assignment' = [assignment EXCEPT ![b].isActive = FALSE]
        /\ deskCall' = [deskCall EXCEPT ![c].ending = deskCall[c].ending \ {b}]
        /\ UNCHANGED << roles, ownCustomer, pendingAction, drawn, sessionEnded, oneSession, runs >>
  BY DEF EndOne, DeskIInv, DeskTypeOK, DeskCall
<1>2. b \in Assignments
  BY DEF DeskIInv, DeskTypeOK, DeskCall
<1>3. /\ deskCall'[c] \in DeskCall
      /\ deskCall'[c].at = deskCall[c].at /\ deskCall'[c].user = deskCall[c].user
      /\ deskCall'[c].ending = deskCall[c].ending \ {b}
      /\ deskCall'[c].customer = deskCall[c].customer /\ deskCall'[c].alone = deskCall[c].alone
      /\ deskCall'[c].pending = deskCall[c].pending /\ deskCall'[c].barred = deskCall[c].barred
      /\ \A d \in DeskCalls \ {c} : deskCall'[d] = deskCall[d]
  BY <1>1 DEF DeskIInv, DeskTypeOK, DeskCall
<1>4. /\ assignment' \in [Assignments -> AssignmentRow]
      /\ ~assignment'[b].isActive
      /\ \A a \in Assignments \ {b} : assignment'[a] = assignment[a]
  BY <1>1, <1>2 DEF DeskIInv, DeskTypeOK, AssignmentRow
<1>5. DeskTypeOK'
  BY <1>1, <1>3, <1>4 DEF DeskIInv, DeskTypeOK
<1>6. CallsKnow' /\ BarredEnded' /\ EndedSessionActsNoMore'
  BY <1>1, <1>3 DEF DeskIInv, CallsKnow, BarredEnded, EndedSessionActsNoMore
<1>7. AloneCalls'
  BY <1>1, <1>3, <1>4
     DEF DeskIInv, AloneCalls, ActiveFor, StartsFor, StartStages, EndStages, EndingStages
<1>8. OneAlone' /\ EndedHasNone'
  BY <1>1, <1>3, <1>4 DEF DeskIInv, OneAlone, EndedHasNone, ActiveFor, StartsFor, StartStages
<1>9. PendingHasUser' /\ PendingOnce'
  BY <1>1, <1>3 DEF DeskIInv, PendingHasUser, PendingOnce
<1> QED
  BY <1>5, <1>6, <1>7, <1>8, <1>9 DEF DeskIInv

LEMMA EndReturnsStep ==
  ASSUME DeskIInv, NEW c \in DeskCalls, EndReturns(c)
  PROVE  DeskIInv'
<1>1. PICK u \in Staff :
        /\ u = deskCall[c].user /\ deskCall[c].at = "endEnding" /\ deskCall[c].ending = {}
        /\ sessionEnded' = [sessionEnded EXCEPT ![u] = sessionEnded[u] \/ deskCall[c].alone]
  BY DEF EndReturns, DeskIInv, CallsKnow
<1>2. UNCHANGED << roles, ownCustomer, assignment, pendingAction, drawn, oneSession, runs >>
  BY DEF EndReturns
<1>3. /\ deskCall'[c].at = "idle" /\ deskCall'[c].pending = NoId /\ ~deskCall'[c].barred
      /\ \A d \in DeskCalls \ {c} : deskCall'[d] = deskCall[d]
      /\ deskCall' \in [DeskCalls -> DeskCall]
  BY DEF EndReturns, DeskDone, DeskIInv, DeskTypeOK, NoDeskCall, DeskCall, DeskStages
<1>4. /\ sessionEnded' \in [Staff -> BOOLEAN]
      /\ sessionEnded'[u] => sessionEnded[u] \/ deskCall[c].alone
      /\ sessionEnded[u] => sessionEnded'[u]
      /\ \A w \in Staff \ {u} : sessionEnded'[w] = sessionEnded[w]
  BY <1>1 DEF DeskIInv, DeskTypeOK
<1>5. DeskTypeOK'
  BY <1>2, <1>3, <1>4 DEF DeskIInv, DeskTypeOK
<1>6. CallsKnow'
  BY <1>3, AccessAssumption DEF DeskIInv, CallsKnow
<1>7. AloneCalls' /\ OneAlone'
  BY <1>2, <1>3
     DEF DeskIInv, AloneCalls, OneAlone, ActiveFor, StartsFor, StartStages, EndStages, EndingStages
<1>8. EndedHasNone'
  <2>1. deskCall[c].alone => /\ \A a \in Assignments : ~ActiveFor(a, u)
                             /\ \A d \in DeskCalls : ~StartsFor(d, u)
    BY <1>1 DEF DeskIInv, AloneCalls, EndStages, EndingStages
  <2> QED
    BY <1>2, <1>3, <1>4, <2>1 DEF DeskIInv, EndedHasNone, ActiveFor, StartsFor, StartStages
<1>9. BarredEnded' /\ EndedSessionActsNoMore'
  BY <1>2, <1>3, <1>4 DEF DeskIInv, BarredEnded, EndedSessionActsNoMore
<1>10. PendingHasUser' /\ PendingOnce'
  BY <1>2, <1>3, AccessAssumption DEF DeskIInv, PendingHasUser, CallsKnow, PendingOnce
<1> QED
  BY <1>5, <1>6, <1>7, <1>8, <1>9, <1>10 DEF DeskIInv

(* A start that ran alone found every active session, and has ended them. *)
LEMMA StartCreateStep ==
  ASSUME DeskIInv, NEW c \in DeskCalls, StartCreate(c)
  PROVE  DeskIInv'
<1>1. PICK u \in Staff, b \in Assignments :
        /\ u = deskCall[c].user /\ deskCall[c].at = "startEnding" /\ deskCall[c].ending = {}
        /\ assignment[b] = NoAssignment
        /\ assignment' = [assignment EXCEPT ![b] =
              [cashier |-> u, customer |-> deskCall[c].customer, isActive |-> TRUE]]
        /\ oneSession' = [oneSession EXCEPT ![u] = oneSession[u] \/ deskCall[c].alone]
  BY DEF StartCreate, DeskIInv, CallsKnow
<1>2. UNCHANGED << roles, ownCustomer, pendingAction, drawn, sessionEnded, runs >>
  BY DEF StartCreate
<1>3. /\ deskCall'[c].at = "idle" /\ deskCall'[c].pending = NoId /\ ~deskCall'[c].barred
      /\ \A d \in DeskCalls \ {c} : deskCall'[d] = deskCall[d]
      /\ deskCall' \in [DeskCalls -> DeskCall]
  BY DEF StartCreate, DeskDone, DeskIInv, DeskTypeOK, NoDeskCall, DeskCall, DeskStages
<1>4. /\ oneSession' \in [Staff -> BOOLEAN]
      /\ oneSession'[u] => oneSession[u] \/ deskCall[c].alone
      /\ \A w \in Staff \ {u} : oneSession'[w] = oneSession[w]
  BY <1>1 DEF DeskIInv, DeskTypeOK
<1>5. /\ assignment'[b].cashier = u
      /\ \A a \in Assignments \ {b} : assignment'[a] = assignment[a]
      /\ assignment' \in [Assignments -> AssignmentRow]
      /\ ~assignment[b].isActive
  <2>1. [cashier |-> u, customer |-> deskCall[c].customer, isActive |-> TRUE] \in AssignmentRow
    BY DEF DeskIInv, DeskTypeOK, DeskCall, AssignmentRow
  <2> QED
    BY <1>1, <2>1 DEF DeskIInv, DeskTypeOK, NoAssignment
<1>6. StartsFor(c, u)
  BY <1>1 DEF StartsFor, StartStages
<1>7. DeskTypeOK'
  BY <1>2, <1>3, <1>4, <1>5 DEF DeskIInv, DeskTypeOK
<1>8. CallsKnow'
  BY <1>3, AccessAssumption DEF DeskIInv, CallsKnow
<1>9. AloneCalls'
  <2>1. \A d \in DeskCalls \ {c} : deskCall[d].user = u /\ deskCall[d].alone =>
            deskCall[d].at \notin StartStages \cup EndStages
    BY <1>1, <1>6 DEF DeskIInv, AloneCalls
  <2> QED
    BY <1>3, <1>5, <2>1
       DEF DeskIInv, AloneCalls, ActiveFor, StartsFor, StartStages, EndStages, EndingStages
<1>10. OneAlone'
  <2>1. deskCall[c].alone => /\ \A a \in Assignments : ~ActiveFor(a, u)
                             /\ \A d \in DeskCalls : StartsFor(d, u) => d = c
    BY <1>1 DEF DeskIInv, AloneCalls, StartStages, EndingStages
  <2>2. oneSession'[u] => deskCall[c].alone
    BY <1>4, <1>6 DEF DeskIInv, OneAlone
  <2>3. oneSession'[u] => /\ \A a \in Assignments : ActiveFor(a, u)' => a = b
                          /\ \A d \in DeskCalls : ~StartsFor(d, u)'
    BY <1>3, <1>5, <2>1, <2>2 DEF ActiveFor, StartsFor, StartStages
  <2>4. \A w \in Staff \ {u} :
          /\ \A a \in Assignments : ActiveFor(a, w)' <=> ActiveFor(a, w)
          /\ \A d \in DeskCalls : StartsFor(d, w)' => StartsFor(d, w) /\ deskCall'[d] = deskCall[d]
    BY <1>3, <1>5 DEF ActiveFor, StartsFor, StartStages
  <2> QED
    BY <1>4, <2>3, <2>4 DEF DeskIInv, OneAlone
<1>11. EndedHasNone'
  BY <1>2, <1>3, <1>5, <1>6 DEF DeskIInv, EndedHasNone, ActiveFor, StartsFor, StartStages
<1>12. BarredEnded' /\ EndedSessionActsNoMore'
  BY <1>2, <1>3 DEF DeskIInv, BarredEnded, EndedSessionActsNoMore
<1>13. PendingHasUser' /\ PendingOnce'
  BY <1>2, <1>3, AccessAssumption DEF DeskIInv, PendingHasUser, CallsKnow, PendingOnce
<1> QED
  BY <1>7, <1>8, <1>9, <1>10, <1>11, <1>12, <1>13 DEF DeskIInv

-----------------------------------------------------------------------------
(* Order actions of the assistant.                                         *)

LEMMA ProposeStep ==
  ASSUME DeskIInv, NEW c \in DeskCalls, Propose(c)
  PROVE  DeskIInv'
<1>1. PICK u \in Staff, k \in Customers \cup {NoOne} :
        /\ deskCall[c].at = "idle"
        /\ deskCall' = [deskCall EXCEPT ![c] =
              [NoDeskCall EXCEPT !.at = "propose", !.user = u, !.customer = k]]
        /\ UNCHANGED << roles, ownCustomer, assignment, pendingAction, drawn, sessionEnded,
                        oneSession, runs >>
  BY DEF Propose
<1>2. /\ deskCall'[c].at = "propose" /\ deskCall'[c].user = u /\ deskCall'[c].pending = NoId
      /\ ~deskCall'[c].barred
      /\ deskCall'[c] \in DeskCall
      /\ \A d \in DeskCalls \ {c} : deskCall'[d] = deskCall[d]
  BY <1>1 DEF NoDeskCall, DeskCall, DeskStages, DeskIInv, DeskTypeOK
<1>3. deskCall' \in [DeskCalls -> DeskCall]
  BY <1>1, <1>2 DEF DeskIInv, DeskTypeOK
<1> QED
  BY <1>1, <1>2, <1>3, BeginKeeps, Zenon

LEMMA ProposeStoreStep ==
  ASSUME DeskIInv, NEW c \in DeskCalls, ProposeStore(c)
  PROVE  DeskIInv'
<1>1. PICK p \in PendingIds \ drawn :
        /\ pendingAction' = [pendingAction EXCEPT ![p] =
              [user |-> deskCall[c].user, customer |-> deskCall[c].customer]]
        /\ drawn' = drawn \cup {p}
  BY DEF ProposeStore
<1>2. UNCHANGED << roles, ownCustomer, assignment, sessionEnded, oneSession, runs >>
      /\ deskCall[c].at = "propose"
  BY DEF ProposeStore
<1>3. /\ deskCall'[c].at = "idle" /\ deskCall'[c].pending = NoId /\ ~deskCall'[c].barred
      /\ \A d \in DeskCalls \ {c} : deskCall'[d] = deskCall[d]
      /\ deskCall' \in [DeskCalls -> DeskCall]
  BY DEF ProposeStore, DeskDone, DeskIInv, DeskTypeOK, NoDeskCall, DeskCall, DeskStages
<1>4. /\ pendingAction' \in [PendingIds -> PendingRow]
      /\ \A q \in PendingIds \ {p} : pendingAction'[q] = pendingAction[q]
  BY <1>1 DEF DeskIInv, DeskTypeOK, DeskCall, PendingRow
<1>5. DeskTypeOK'
  BY <1>1, <1>2, <1>3, <1>4 DEF DeskIInv, DeskTypeOK
<1>6. CallsKnow' /\ BarredEnded' /\ EndedSessionActsNoMore'
  BY <1>2, <1>3, AccessAssumption
     DEF DeskIInv, CallsKnow, BarredEnded, EndedSessionActsNoMore
<1>7. AloneCalls' /\ OneAlone' /\ EndedHasNone'
  BY <1>2, <1>3
     DEF DeskIInv, AloneCalls, OneAlone, EndedHasNone, ActiveFor, StartsFor, StartStages,
         EndStages, EndingStages
<1>8. PendingHasUser' /\ PendingOnce'
  BY <1>1, <1>2, <1>3, <1>4, AccessAssumption DEF DeskIInv, PendingHasUser, CallsKnow, PendingOnce
<1> QED
  BY <1>5, <1>6, <1>7, <1>8 DEF DeskIInv

(* The action leaves Redis and is in the hands of this call alone. *)
LEMMA ConfirmStep ==
  ASSUME DeskIInv, NEW c \in DeskCalls, Confirm(c)
  PROVE  DeskIInv'
<1>0. \A p \in PendingIds : pendingAction[p] # NoPending => pendingAction[p].user \in Staff
  BY DEF DeskIInv, DeskTypeOK, PendingHasUser
<1>1. PICK p \in PendingIds, u \in Staff :
        /\ deskCall[c].at = "idle" /\ pendingAction[p] # NoPending /\ u = pendingAction[p].user
        /\ deskCall' = [deskCall EXCEPT ![c] =
              [NoDeskCall EXCEPT !.at = "access", !.user = u, !.pending = p,
                                 !.customer = pendingAction[p].customer,
                                 !.barred = sessionEnded[u]]]
        /\ pendingAction' = [pendingAction EXCEPT ![p] = NoPending]
  BY <1>0 DEF Confirm, TakenOut
<1>2. UNCHANGED << roles, ownCustomer, assignment, drawn, sessionEnded, oneSession, runs >>
  BY DEF Confirm
<1>3. pendingAction[p] \in PendingRow /\ u \in Staff
  BY <1>1 DEF DeskIInv, DeskTypeOK, PendingHasUser
<1>4. /\ deskCall'[c].at = "access" /\ deskCall'[c].user = u /\ deskCall'[c].pending = p
      /\ deskCall'[c].barred = sessionEnded[u]
      /\ \A d \in DeskCalls \ {c} : deskCall'[d] = deskCall[d]
      /\ deskCall' \in [DeskCalls -> DeskCall]
  BY <1>1, <1>3 DEF DeskIInv, DeskTypeOK, NoDeskCall, DeskCall, DeskStages, PendingRow
<1>5. /\ pendingAction'[p] = NoPending
      /\ \A q \in PendingIds \ {p} : pendingAction'[q] = pendingAction[q]
      /\ pendingAction' \in [PendingIds -> PendingRow]
  BY <1>1 DEF DeskIInv, DeskTypeOK, NoPending, PendingRow
<1>6. DeskTypeOK'
  BY <1>2, <1>4, <1>5 DEF DeskIInv, DeskTypeOK
<1>7. CallsKnow' /\ BarredEnded' /\ EndedSessionActsNoMore' /\ PendingHasUser'
  BY <1>1, <1>2, <1>3, <1>4, <1>5
     DEF DeskIInv, CallsKnow, BarredEnded, EndedSessionActsNoMore, PendingHasUser
<1>8. AloneCalls' /\ OneAlone' /\ EndedHasNone'
  BY <1>2, <1>4
     DEF DeskIInv, AloneCalls, OneAlone, EndedHasNone, ActiveFor, StartsFor, StartStages,
         EndStages, EndingStages
<1>9. PendingOnce'
  BY <1>1, <1>2, <1>4, <1>5 DEF DeskIInv, PendingOnce
<1> QED
  BY <1>6, <1>7, <1>8, <1>9 DEF DeskIInv

(* The access is checked again: a user who has ended the session has it on a
   customer's order by another role only. *)
LEMMA ConfirmAccessStep ==
  ASSUME DeskIInv, NEW c \in DeskCalls, ConfirmAccess(c)
  PROVE  DeskIInv'
<1>1. UNCHANGED << roles, ownCustomer, assignment, pendingAction, drawn, sessionEnded,
                   oneSession, runs >>
      /\ deskCall[c].at = "access"
  BY DEF ConfirmAccess
<1>2. CASE ~AllowsNow(c)
  BY <1>1, <1>2, DoneKeeps DEF ConfirmAccess
<1>3. CASE AllowsNow(c)
  <2>1. /\ deskCall'[c].at = "run" /\ deskCall'[c].user = deskCall[c].user
        /\ deskCall'[c].customer = deskCall[c].customer
        /\ deskCall'[c].pending = deskCall[c].pending
        /\ deskCall'[c].barred = deskCall[c].barred
        /\ \A d \in DeskCalls \ {c} : deskCall'[d] = deskCall[d]
        /\ deskCall' \in [DeskCalls -> DeskCall]
    <3>1. deskCall' = [deskCall EXCEPT ![c] = [deskCall[c] EXCEPT !.at = "run"]]
      BY <1>3 DEF ConfirmAccess, DeskGoto
    <3>2. deskCall[c] \in DeskCall /\ deskCall \in [DeskCalls -> DeskCall]
      BY DEF DeskIInv, DeskTypeOK
    <3>3. [deskCall[c] EXCEPT !.at = "run"] \in DeskCall
      BY <3>2 DEF DeskCall, DeskStages
    <3> QED
      BY <3>1, <3>2, <3>3 DEF DeskCall
  <2>2. DeskTypeOK' /\ CallsKnow' /\ BarredEnded' /\ PendingHasUser'
    BY <1>1, <2>1 DEF DeskIInv, DeskTypeOK, CallsKnow, BarredEnded, PendingHasUser
  <2>3. AloneCalls' /\ OneAlone' /\ EndedHasNone'
    BY <1>1, <2>1
       DEF DeskIInv, AloneCalls, OneAlone, EndedHasNone, ActiveFor, StartsFor, StartStages,
           EndStages, EndingStages
  <2>4. deskCall[c].barred =>
            \/ deskCall[c].customer = NoOne
            \/ "ADMIN" \in roles[deskCall[c].user]
            \/ roles[deskCall[c].user] = {"CUSTOMER"}
    <3>1. deskCall[c].barred => ActiveOf(deskCall[c].user) = {}
      BY DEF DeskIInv, BarredEnded, EndedHasNone, ActiveFor, ActiveOf
    <3> QED
      BY <1>3, <3>1 DEF AllowsNow, canAccessOrder, canAccessCustomer
  <2>5. EndedSessionActsNoMore'
    BY <1>1, <2>1, <2>4 DEF DeskIInv, EndedSessionActsNoMore
  <2>6. PendingOnce'
    BY <1>1, <2>1 DEF DeskIInv, PendingOnce
  <2> QED
    BY <2>2, <2>3, <2>5, <2>6 DEF DeskIInv
<1> QED
  BY <1>2, <1>3

LEMMA ConfirmRunStep ==
  ASSUME DeskIInv, NEW c \in DeskCalls, ConfirmRun(c)
  PROVE  DeskIInv'
<1>1. PICK p \in PendingIds : p = deskCall[c].pending
  BY DEF ConfirmRun, DeskIInv, CallsKnow
<1>2. UNCHANGED << roles, ownCustomer, assignment, pendingAction, drawn, sessionEnded, oneSession >>
  BY DEF ConfirmRun
<1>3. /\ runs' \in [PendingIds -> Nat] /\ runs'[p] = runs[p] + 1
      /\ \A q \in PendingIds \ {p} : runs'[q] = runs[q]
  BY <1>1 DEF ConfirmRun, DeskIInv, DeskTypeOK
<1>4. /\ deskCall'[c].at = "idle" /\ deskCall'[c].pending = NoId /\ ~deskCall'[c].barred
      /\ \A d \in DeskCalls \ {c} : deskCall'[d] = deskCall[d]
      /\ deskCall' \in [DeskCalls -> DeskCall]
  BY DEF ConfirmRun, DeskDone, DeskIInv, DeskTypeOK, NoDeskCall, DeskCall, DeskStages
<1>5. DeskTypeOK'
  BY <1>2, <1>3, <1>4 DEF DeskIInv, DeskTypeOK
<1>6. CallsKnow' /\ BarredEnded' /\ EndedSessionActsNoMore' /\ PendingHasUser'
  BY <1>2, <1>4, AccessAssumption
     DEF DeskIInv, CallsKnow, BarredEnded, EndedSessionActsNoMore, PendingHasUser
<1>7. AloneCalls' /\ OneAlone' /\ EndedHasNone'
  BY <1>2, <1>4
     DEF DeskIInv, AloneCalls, OneAlone, EndedHasNone, ActiveFor, StartsFor, StartStages,
         EndStages, EndingStages
<1>8. PendingOnce'
  <2>1. runs[p] = 0 /\ pendingAction[p] = NoPending /\ p \in drawn
        /\ \A d \in DeskCalls \ {c} : deskCall[d].pending # p
    BY <1>1 DEF DeskIInv, PendingOnce
  <2> QED
    BY <1>2, <1>3, <1>4, <2>1, AccessAssumption DEF DeskIInv, PendingOnce
<1> QED
  BY <1>5, <1>6, <1>7, <1>8 DEF DeskIInv

LEMMA ExpiresStep ==
  ASSUME DeskIInv, PendingExpires
  PROVE  DeskIInv'
<1>1. PICK p \in PendingIds : pendingAction' = [pendingAction EXCEPT ![p] = NoPending]
  BY DEF PendingExpires
<1>2. UNCHANGED << roles, ownCustomer, assignment, drawn, deskCall, sessionEnded, oneSession, runs >>
  BY DEF PendingExpires
<1>3. /\ pendingAction'[p] = NoPending
      /\ \A q \in PendingIds \ {p} : pendingAction'[q] = pendingAction[q]
      /\ pendingAction' \in [PendingIds -> PendingRow]
  BY <1>1 DEF DeskIInv, DeskTypeOK, NoPending, PendingRow
<1>4. DeskTypeOK' /\ CallsKnow' /\ BarredEnded' /\ EndedSessionActsNoMore' /\ PendingHasUser'
  BY <1>2, <1>3
     DEF DeskIInv, DeskTypeOK, CallsKnow, BarredEnded, EndedSessionActsNoMore, PendingHasUser
<1>5. AloneCalls' /\ OneAlone' /\ EndedHasNone'
  BY <1>2 DEF DeskIInv, AloneCalls, OneAlone, EndedHasNone, ActiveFor, StartsFor
<1>6. PendingOnce'
  BY <1>2, <1>3 DEF DeskIInv, PendingOnce
<1> QED
  BY <1>4, <1>5, <1>6 DEF DeskIInv

-----------------------------------------------------------------------------
(* The invariant.                                                          *)

LEMMA DeskStep == DeskIInv /\ [DeskNext]_deskVars => DeskIInv'
<1> SUFFICES ASSUME DeskIInv, [DeskNext]_deskVars PROVE DeskIInv'
  OBVIOUS
<1>1. ASSUME NEW c \in DeskCalls, DeskCallFails(c) PROVE DeskIInv'
  BY <1>1, DoneKeeps DEF DeskCallFails
<1>2. CASE UNCHANGED deskVars
  BY <1>2 DEF deskVars, DeskIInv, DeskTypeOK, CallsKnow, AloneCalls, OneAlone, EndedHasNone,
              BarredEnded, EndedSessionActsNoMore, PendingHasUser, PendingOnce, ActiveFor, StartsFor
<1> QED
  BY <1>1, <1>2, StartStep, EndStep, FindStep, EndOneStep, EndReturnsStep, StartCreateStep,
     ProposeStep, ProposeStoreStep, ConfirmStep, ConfirmAccessStep, ConfirmRunStep, ExpiresStep
     DEF DeskNext

(* The strengthening: calls that run alone are alone, a session that was ended
   is gone, and a pending action is in one place. *)
THEOREM DeskInvariant == DeskSpec => []DeskIInv
  BY DeskInitial, DeskStep, PTL DEF DeskSpec

(* A start that overlapped no other start leaves one active session
   (cashier-assignment.service.ts startAssignment). *)
THEOREM OneSessionHolds == DeskSpec => []OneSession
<1>1. DeskIInv => OneSession
  <2> SUFFICES ASSUME DeskIInv, NEW u \in Staff, oneSession[u]
               PROVE  Cardinality(ActiveOf(u)) <= 1
    BY DEF OneSession
  <2>1. \A a, b \in ActiveOf(u) : a = b
    BY DEF DeskIInv, OneAlone, ActiveFor, ActiveOf
  <2>2. CASE ActiveOf(u) = {}
    BY <2>2, FS_EmptySet
  <2>3. CASE ActiveOf(u) # {}
    <3>1. PICK a : ActiveOf(u) = {a}
      BY <2>1, <2>3
    <3>2. Cardinality({a}) = 1
      BY FS_Singleton
    <3> QED
      BY <3>1, <3>2
  <2> QED
    BY <2>2, <2>3
<1> QED
  BY <1>1, DeskInvariant, PTL

(* What a cashier proposed during a session is not run by a confirmation after
   its end (ai-agent-tools.ts confirmPendingOrderAction). *)
THEOREM EndedSessionActsNoMoreHolds == DeskSpec => []EndedSessionActsNoMore
<1>1. DeskIInv => EndedSessionActsNoMore
  BY DEF DeskIInv
<1> QED
  BY <1>1, DeskInvariant, PTL

(* A proposed action runs at most once: get and del are one MULTI. *)
THEOREM ActionRunsOnceHolds == DeskSpec => []ActionRunsOnce
<1>1. DeskIInv => ActionRunsOnce
  BY DEF DeskIInv, PendingOnce, ActionRunsOnce
<1> QED
  BY <1>1, DeskInvariant, PTL

(* The three access rules agree: lists, orders and invoices. *)
THEOREM AccessAgreesHolds == DeskSpec => []AccessAgrees
<1>1. DeskIInv => AccessAgrees
  <2> SUFFICES ASSUME DeskIInv, NEW u \in Staff
               PROVE  /\ \A k \in Customers : canAccessOrder(u, k) <=> k \in getAccessibleCustomerIds(u)
                      /\ \A k \in Customers \cup {NoOne} :
                            canAccessOrder(u, k) => canAccessInvoice(u, k)
    BY DEF AccessAgrees
  <2>1. roles[u] \subseteq {"ADMIN", "CASHIER", "CUSTOMER"}
    BY DEF DeskIInv, DeskTypeOK, Roles
  <2>2. "CUSTOMER" \in roles[u] /\ "ADMIN" \notin roles[u] /\ "CASHIER" \notin roles[u] <=>
            roles[u] = {"CUSTOMER"}
    BY <2>1
  <2>3. NoOne \notin Customers
    BY AccessAssumption
  <2> QED
    BY <2>2, <2>3 DEF canAccessOrder, canAccessCustomer, canAccessInvoice, IsStaff,
                      getAccessibleCustomerIds
<1> QED
  BY <1>1, DeskInvariant, PTL

=============================================================================
