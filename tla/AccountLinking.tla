--------------------------- MODULE AccountLinking ---------------------------
(***************************************************************************)
(* OAuth login and registration of oauth.service.ts: loginWithGoogle and   *)
(* completeRegistration, one action per statement.  Nothing makes the      *)
(* statements of a registration one transaction: two tabs may complete one *)
(* registration at once, and a call may fail between any two of them.      *)
(*                                                                         *)
(* The one-time code that proves the phone is OtpLogin's; here a call      *)
(* begins with its phone verified.  Unique constraints of the schema:      *)
(* User.phone, User.email, Customer(organization, phone), Customer.userId, *)
(* OAuthIdentity(provider, providerUserId).                                *)
(***************************************************************************)
EXTENDS Naturals

CONSTANTS
    Accounts,       \* Google accounts, named by providerUserId
    Users,          \* ids of User rows
    Phones,         \* phone numbers
    Emails,         \* e-mail addresses
    LinkCalls,      \* the calls under way at one time
    Nothing         \* null

ASSUME NothingAssumption == Nothing \notin Accounts \cup Users \cup Phones \cup Emails

VARIABLES
    user,           \* per id: its User row, or Nothing
    customers,      \* the phones that have a Customer row, of whichever user
    identity,       \* per account: the user of its OAuthIdentity row
    claimed,        \* per account: the e-mail Google has verified for it
    tempTokens,     \* accounts that were given a tempToken
    linkCall,       \* per call: the statement it executes next, what it has read
    signedIn        \* pairs of an account and the user a session was made for

linkVars == << user, customers, identity, claimed, tempTokens, linkCall, signedIn >>

UserRow == [phone : Phones \cup {Nothing}, email : Emails \cup {Nothing}]
LinkStages == {"idle", "linked", "phone", "email", "create", "customer", "link", "session"}
LinkCall == [at : LinkStages, account : Accounts \cup {Nothing},
             phone : Phones \cup {Nothing}, target : Users \cup {Nothing}]
NoLinkCall == [at |-> "idle", account |-> Nothing, phone |-> Nothing, target |-> Nothing]

Registered(u) == user[u] # Nothing
WithPhone(p) == {u \in Users : Registered(u) /\ user[u].phone = p}
WithEmail(e) == {u \in Users : Registered(u) /\ user[u].email = e}

(* Accounts provisioned by staff exist at the start, with a phone, an e-mail
   or both, each unique; so do customers without an account. *)
LinkInit ==
    /\ user \in [Users -> UserRow \cup {Nothing}]
    /\ \A p \in Phones : \A u, v \in WithPhone(p) : u = v
    /\ \A e \in Emails : \A u, v \in WithEmail(e) : u = v
    /\ customers \in SUBSET Phones
    /\ identity = [g \in Accounts |-> Nothing]
    /\ claimed \in [Accounts -> Emails \cup {Nothing}]
    /\ tempTokens = {}
    /\ linkCall = [c \in LinkCalls |-> NoLinkCall]
    /\ signedIn = {}

LinkGoto(c, stage) == linkCall' = [linkCall EXCEPT ![c].at = stage]
LinkFound(c, stage, u) == linkCall' = [linkCall EXCEPT ![c].at = stage, ![c].target = u]
LinkDone(c) == linkCall' = [linkCall EXCEPT ![c] = NoLinkCall]

-----------------------------------------------------------------------------

(* loginWithGoogle: the identity is looked up; its user gets a session, an
   unknown account a tempToken. *)
GoogleLogin(c) ==
    \E g \in Accounts :
        /\ linkCall[c].at = "idle"
        /\ IF identity[g] # Nothing
           THEN /\ linkCall' = [linkCall EXCEPT ![c] =
                      [at |-> "session", account |-> g, phone |-> Nothing,
                       target |-> identity[g]]]
                /\ UNCHANGED tempTokens
           ELSE /\ tempTokens' = tempTokens \cup {g}
                /\ UNCHANGED linkCall
        /\ UNCHANGED << user, customers, identity, claimed, signedIn >>

(* completeRegistration: a tempToken and a verified phone. *)
CompleteStart(c) ==
    \E g \in tempTokens, p \in Phones :
        /\ linkCall[c].at = "idle"
        /\ linkCall' = [linkCall EXCEPT ![c] = [at |-> "linked", account |-> g, phone |-> p,
                                                target |-> Nothing]]
        /\ UNCHANGED << user, customers, identity, claimed, tempTokens, signedIn >>

(* alreadyLinked. *)
CompleteRecheck(c) ==
    LET u == identity[linkCall[c].account]
    IN  /\ linkCall[c].at = "linked"
        /\ IF u # Nothing THEN LinkFound(c, "session", u) ELSE LinkGoto(c, "phone")
        /\ UNCHANGED << user, customers, identity, claimed, tempTokens, signedIn >>

(* The user with the verified phone. *)
CompleteByPhone(c) ==
    LET found == WithPhone(linkCall[c].phone)
    IN  /\ linkCall[c].at = "phone"
        /\ \/ found = {} /\ LinkGoto(c, "email")
           \/ \E u \in found : LinkFound(c, "link", u)
        /\ UNCHANGED << user, customers, identity, claimed, tempTokens, signedIn >>

(* The user with the e-mail Google has verified. *)
CompleteByEmail(c) ==
    LET e == claimed[linkCall[c].account]
        found == IF e = Nothing THEN {} ELSE WithEmail(e)
    IN  /\ linkCall[c].at = "email"
        /\ \/ found = {} /\ LinkGoto(c, "create")
           \/ \E u \in found : LinkFound(c, "link", u)
        /\ UNCHANGED << user, customers, identity, claimed, tempTokens, signedIn >>

(* User.create, unless the phone or the e-mail was taken meanwhile. *)
CompleteCreate(c) ==
    LET p == linkCall[c].phone
        e == claimed[linkCall[c].account]
    IN  /\ linkCall[c].at = "create"
        /\ IF WithPhone(p) # {} \/ (e # Nothing /\ WithEmail(e) # {})
           THEN LinkDone(c) /\ UNCHANGED user
           ELSE \E u \in Users :
                  /\ ~Registered(u)
                  /\ user' = [user EXCEPT ![u] = [phone |-> p, email |-> e]]
                  /\ LinkFound(c, "customer", u)
        /\ UNCHANGED << customers, identity, claimed, tempTokens, signedIn >>

(* Customer.create, unless the phone has a customer. *)
CompleteCustomer(c) ==
    /\ linkCall[c].at = "customer"
    /\ IF linkCall[c].phone \in customers
       THEN LinkDone(c) /\ UNCHANGED customers
       ELSE LinkGoto(c, "link") /\ customers' = customers \cup {linkCall[c].phone}
    /\ UNCHANGED << user, identity, claimed, tempTokens, signedIn >>

(* OAuthIdentity.create is refused when the account is linked by now.  The
   faulty form lets the later row win. *)
LinkableAlways(g) == TRUE
Linkable(g) == identity[g] = Nothing

CompleteLink(c) ==
    LET g == linkCall[c].account
    IN  /\ linkCall[c].at = "link"
        /\ IF Linkable(g)
           THEN identity' = [identity EXCEPT ![g] = linkCall[c].target] /\ LinkGoto(c, "session")
           ELSE LinkDone(c) /\ UNCHANGED identity
        /\ UNCHANGED << user, customers, claimed, tempTokens, signedIn >>

(* createSession for the user found, created or already linked. *)
SignIn(c) ==
    /\ linkCall[c].at = "session"
    /\ signedIn' = signedIn \cup {<<linkCall[c].account, linkCall[c].target>>}
    /\ LinkDone(c)
    /\ UNCHANGED << user, customers, identity, claimed, tempTokens >>

(* A call ends early: the process or a connection dies. *)
LinkCallFails(c) ==
    /\ linkCall[c].at # "idle"
    /\ LinkDone(c)
    /\ UNCHANGED << user, customers, identity, claimed, tempTokens, signedIn >>

LinkNext ==
    \E c \in LinkCalls :
        \/ GoogleLogin(c) \/ CompleteStart(c) \/ CompleteRecheck(c) \/ CompleteByPhone(c)
        \/ CompleteByEmail(c) \/ CompleteCreate(c) \/ CompleteCustomer(c) \/ CompleteLink(c)
        \/ SignIn(c) \/ LinkCallFails(c)

LinkSpec == LinkInit /\ [][LinkNext]_linkVars

-----------------------------------------------------------------------------
(* Properties.                                                             *)

LinkTypeOK ==
    /\ user \in [Users -> UserRow \cup {Nothing}]
    /\ customers \subseteq Phones
    /\ identity \in [Accounts -> Users \cup {Nothing}]
    /\ claimed \in [Accounts -> Emails \cup {Nothing}]
    /\ tempTokens \subseteq Accounts
    /\ linkCall \in [LinkCalls -> LinkCall]
    /\ signedIn \subseteq Accounts \X Users

(* A Google account always signs in as one user, the one it is linked to:
   completions of one registration with different phones, in two tabs at once,
   do not end as two users (oauth.service.ts:189). *)
SignsInAsLinked ==
    \A s \in signedIn : identity[s[1]] = s[2]

=============================================================================
