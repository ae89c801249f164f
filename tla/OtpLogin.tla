------------------------------ MODULE OtpLogin ------------------------------
(***************************************************************************)
(* One-time codes of otp.service.ts for one phone: generate and verify,    *)
(* one action per Redis command.                                           *)
(*                                                                         *)
(* Redis keeps three keys of a phone: the code with its attempts, the      *)
(* cooldown, and the count of requests in the current hour.  hincrby       *)
(* creates the key it is called on when it is gone, without a hash.  A     *)
(* call may die between two commands.                                      *)
(*                                                                         *)
(* History variables: wrongGuesses (wrong codes compared with the stored   *)
(* one) and uncounted (those of calls that died before they counted them), *)
(* unlimited (a generate died between incr and expire).                    *)
(***************************************************************************)
EXTENDS Naturals, FiniteSets

CONSTANTS
    Codes,          \* the codes that may be drawn
    OtpCalls,       \* the calls under way at one time
    MaxAttempts,    \* maxAttempts
    MaxRequests,    \* maxRequestsPerHour
    MaxGuesses,     \* bound: wrong codes compared with one stored code
    NoCode          \* no code is stored

ASSUME OtpAssumption ==
    /\ NoCode \notin Codes /\ MaxAttempts \in Nat \ {0} /\ MaxRequests \in Nat /\ MaxGuesses \in Nat
    /\ IsFiniteSet(OtpCalls)

VARIABLES
    otpKey,         \* otp:login:<phone>: the code, its attempts, whether it expires
    cooldown,       \* otp:cooldown:<phone> exists
    requests,       \* otp:requests:<phone>: the count and whether it expires
    otpCall,        \* per call: the command it executes next, what it holds
    wrongGuesses,   \* wrong codes compared with the stored code
    uncounted,      \* wrong codes whose call died before hincrby
    unlimited       \* a generate died between its incr and its expire

otpVars == << otpKey, cooldown, requests, otpCall, wrongGuesses, uncounted, unlimited >>

OtpStages == {"idle", "draw", "store", "expire", "cool", "count", "window",
              "miss", "discard", "spend"}
OtpCall == [at : OtpStages, code : Codes \cup {NoCode}, seen : Nat]
NoOtpCall == [at |-> "idle", code |-> NoCode, seen |-> 0]
NoKey == [code |-> NoCode, attempts |-> 0, expires |-> FALSE]
NoRequests == [count |-> 0, expires |-> FALSE]

OtpInit ==
    /\ otpKey = NoKey
    /\ cooldown = FALSE
    /\ requests = NoRequests
    /\ otpCall = [c \in OtpCalls |-> NoOtpCall]
    /\ wrongGuesses = 0
    /\ uncounted = 0
    /\ unlimited = FALSE

OtpGoto(c, stage) == otpCall' = [otpCall EXCEPT ![c].at = stage]
OtpDone(c) == otpCall' = [otpCall EXCEPT ![c] = NoOtpCall]

-----------------------------------------------------------------------------
(* generate.                                                               *)

(* The cooldown is over. *)
GenerateStart(c) ==
    /\ otpCall[c].at = "idle"
    /\ ~cooldown
    /\ OtpGoto(c, "draw")
    /\ UNCHANGED << otpKey, cooldown, requests, wrongGuesses, uncounted, unlimited >>

(* The requests of this hour are read, and a code is drawn. *)
GenerateDraw(c) ==
    /\ otpCall[c].at = "draw"
    /\ IF requests.count >= MaxRequests THEN OtpDone(c)
       ELSE \E code \in Codes :
              otpCall' = [otpCall EXCEPT ![c] = [at |-> "store", code |-> code,
                                                 seen |-> requests.count]]
    /\ UNCHANGED << otpKey, cooldown, requests, wrongGuesses, uncounted, unlimited >>

(* hset of the code and its attempts: a key that is there keeps its TTL. *)
GenerateStore(c) ==
    /\ otpCall[c].at = "store"
    /\ otpKey' = [otpKey EXCEPT !.code = otpCall[c].code, !.attempts = 0]
    /\ wrongGuesses' = 0
    /\ uncounted' = 0
    /\ OtpGoto(c, "expire")
    /\ UNCHANGED << cooldown, requests, unlimited >>

(* expire, which leaves an absent key absent. *)
GenerateExpire(c) ==
    /\ otpCall[c].at = "expire"
    /\ otpKey' = [otpKey EXCEPT !.expires = otpKey # NoKey]
    /\ OtpGoto(c, "cool")
    /\ UNCHANGED << cooldown, requests, wrongGuesses, uncounted, unlimited >>

(* The cooldown starts. *)
GenerateCool(c) ==
    /\ otpCall[c].at = "cool"
    /\ cooldown' = TRUE
    /\ OtpGoto(c, "count")
    /\ UNCHANGED << otpKey, requests, wrongGuesses, uncounted, unlimited >>

(* Whether a request opens the window, decided from what incr returned.  The
   faulty form decides from the count that was read before. *)
OpensWindowAsRead(c, count) == otpCall[c].seen = 0
OpensWindow(c, count) == count = 1

(* incr of the count. *)
GenerateCount(c) ==
    /\ otpCall[c].at = "count"
    /\ requests' = [requests EXCEPT !.count = @ + 1]
    /\ IF OpensWindow(c, requests.count + 1) THEN OtpGoto(c, "window") ELSE OtpDone(c)
    /\ UNCHANGED << otpKey, cooldown, wrongGuesses, uncounted, unlimited >>

(* expire of the count; then the code is sent. *)
GenerateWindow(c) ==
    /\ otpCall[c].at = "window"
    /\ requests' = [requests EXCEPT !.expires = requests.count > 0]
    /\ OtpDone(c)
    /\ UNCHANGED << otpKey, cooldown, wrongGuesses, uncounted, unlimited >>

-----------------------------------------------------------------------------
(* verify.                                                                 *)

(* The key is read, and the code given compared with it. *)
VerifyRead(c) ==
    \E code \in Codes :
        /\ otpCall[c].at = "idle"
        /\ otpKey.code # NoCode
        /\ LET wrong == otpKey.attempts < MaxAttempts /\ code # otpKey.code
           IN  /\ wrong => wrongGuesses < MaxGuesses
               /\ wrongGuesses' = IF wrong THEN wrongGuesses + 1 ELSE wrongGuesses
               /\ otpCall' = [otpCall EXCEPT ![c] =
                     [at |-> IF otpKey.attempts >= MaxAttempts THEN "discard"
                             ELSE IF wrong THEN "miss" ELSE "spend",
                      code |-> otpKey.code, seen |-> otpKey.attempts]]
        /\ UNCHANGED << otpKey, cooldown, requests, uncounted, unlimited >>

(* The attempts after a wrong code: hincrby counts on what is stored.  The
   faulty forms count the attempts left, and store those that were read and
   one. *)
AttemptsLeft(c) == otpKey.attempts - 1
AttemptsFromRead(c) == otpCall[c].seen + 1
AttemptsCounted(c) == otpKey.attempts + 1

VerifyMiss(c) ==
    /\ otpCall[c].at = "miss"
    /\ otpKey' = [otpKey EXCEPT !.attempts = AttemptsCounted(c)]
    /\ IF AttemptsCounted(c) >= MaxAttempts THEN OtpGoto(c, "discard") ELSE OtpDone(c)
    /\ UNCHANGED << cooldown, requests, wrongGuesses, uncounted, unlimited >>

(* del: after too many attempts, or of a code that was right. *)
VerifyDelete(c) ==
    /\ otpCall[c].at \in {"discard", "spend"}
    /\ otpKey' = NoKey
    /\ wrongGuesses' = 0
    /\ uncounted' = 0
    /\ OtpDone(c)
    /\ UNCHANGED << cooldown, requests, unlimited >>

-----------------------------------------------------------------------------

OtpCallFails(c) ==
    /\ otpCall[c].at # "idle"
    /\ uncounted' = IF otpCall[c].at = "miss" /\ otpKey.code # NoCode THEN uncounted + 1 ELSE uncounted
    /\ unlimited' = (unlimited \/ otpCall[c].at = "window")
    /\ OtpDone(c)
    /\ UNCHANGED << otpKey, cooldown, requests, wrongGuesses >>

(* The TTL of a key passes. *)
CodeExpires ==
    /\ otpKey.expires
    /\ otpKey' = NoKey
    /\ wrongGuesses' = 0
    /\ uncounted' = 0
    /\ UNCHANGED << cooldown, requests, otpCall, unlimited >>

CooldownExpires ==
    /\ cooldown
    /\ cooldown' = FALSE
    /\ UNCHANGED << otpKey, requests, otpCall, wrongGuesses, uncounted, unlimited >>

RequestsExpire ==
    /\ requests.expires
    /\ requests' = NoRequests
    /\ UNCHANGED << otpKey, cooldown, otpCall, wrongGuesses, uncounted, unlimited >>

OtpNext ==
    \/ \E c \in OtpCalls :
         \/ GenerateStart(c) \/ GenerateDraw(c) \/ GenerateStore(c) \/ GenerateExpire(c)
         \/ GenerateCool(c) \/ GenerateCount(c) \/ GenerateWindow(c)
         \/ VerifyRead(c) \/ VerifyMiss(c) \/ VerifyDelete(c) \/ OtpCallFails(c)
    \/ CodeExpires \/ CooldownExpires \/ RequestsExpire

OtpSpec == OtpInit /\ [][OtpNext]_otpVars

-----------------------------------------------------------------------------
(* Properties.                                                             *)

OtpTypeOK ==
    /\ otpKey \in [code : Codes \cup {NoCode}, attempts : Nat, expires : BOOLEAN]
    /\ cooldown \in BOOLEAN
    /\ requests \in [count : Nat, expires : BOOLEAN]
    /\ otpCall \in [OtpCalls -> OtpCall]
    /\ wrongGuesses \in Nat
    /\ uncounted \in Nat
    /\ unlimited \in BOOLEAN

(* While a code is stored, every wrong code compared with it is in its
   attempts, or its call has yet to count it or died before it could: verify
   calls that overlap lose no attempt, and a code replaced under them starts
   with no attempt missing. *)
WrongGuessesCounted ==
    otpKey.code # NoCode =>
        wrongGuesses <= otpKey.attempts + uncounted
                        + Cardinality({c \in OtpCalls : otpCall[c].at = "miss"})

(* The count of requests ends with its hour, so that a phone is not refused
   codes for good, unless a generate died between incr and expire
   (otp.service.ts:85-94). *)
RequestWindowEnds ==
    requests.count > 0 /\ ~requests.expires =>
        unlimited \/ \E c \in OtpCalls : otpCall[c].at = "window"

=============================================================================
