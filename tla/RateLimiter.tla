---------------------------- MODULE RateLimiter -----------------------------
(***************************************************************************)
(* The token buckets that every request passes.  There is one for each key *)
(* that getClientIP makes of a request: the value of a header the client   *)
(* chose or a proxy added, or the connection's address with its port.  A   *)
(* client has as many buckets as it has connections or header values, so   *)
(* what is limited, and what is stated here, is each key.                  *)
(*                                                                         *)
(* A request looks its key's visitor up under the limiter's mutex, drops   *)
(* it, and counts under the visitor's own; the cleanup may forget the      *)
(* visitor in between.                                                     *)
(*                                                                         *)
(* Time is relative: a visitor's age is the time since its lastSeen.  Ages *)
(* stop just beyond Cleanup, from where on they make no difference.        *)
(***************************************************************************)
EXTENDS Integers, FiniteSets, FiniteSetsExt

CONSTANTS
    Headers,    \* values of X-Forwarded-For and of X-Real-IP
    Connections, \* values of RemoteAddr: an address and a port
    Requests,   \* request goroutines; each may serve one request after another
    Visitors,   \* visitor objects: enough for those known and those in use
    Rate,       \* tokens per Period
    Period,     \* a minute
    Burst,      \* tokens of a full bucket
    Cleanup,    \* age at which a visitor is forgotten
    None        \* no visitor, no key, no header

\* What a visitor is known by.
Keys == Headers \cup Connections

\* 100 a minute, bursts of 20 and five minutes: a visitor that is forgotten would
\* have been full, also when every request in flight had overdrawn it.
ASSUME RateLimiterAssumption ==
    /\ Rate \in Nat \ {0} /\ Period \in Nat \ {0} /\ Burst \in Nat \ {0} /\ Cleanup \in Nat
    /\ IsFiniteSet(Requests) /\ IsFiniteSet(Keys)
    /\ Cleanup * Rate >= (Burst + Cardinality(Requests)) * Period
    /\ Cardinality(Visitors) >= Cardinality(Requests) + Cardinality(Keys)
    /\ None \notin Visitors \cup Keys

VARIABLES
    visitors,   \* RateLimiter.visitors: per key its visitor, or None
    tokens,     \* of each visitor
    age,        \* of each visitor
    key,        \* per request: its key, or None
    held,       \* per request: the visitor it found, or None
    answer,     \* per request: its last answer
    late,       \* the requests that looked up before the last unit of time
    credit      \* per key: what an exact bucket would hold, in parts of a token

limiter == <<visitors, tokens, age>>
request == <<key, held, answer, late>>
vars    == <<limiter, request, credit>>

Init ==
    /\ visitors = [c \in Keys |-> None]
    /\ tokens = [v \in Visitors |-> 0] /\ age = [v \in Visitors |-> 0]
    /\ key = [r \in Requests |-> None] /\ held = [r \in Requests |-> None]
    /\ answer = [r \in Requests |-> "none"] /\ late = {}
    /\ credit = [c \in Keys |-> Burst * Period]

Unused(v) == (\A c \in Keys : visitors[c] # v) /\ (\A r \in Requests : held[r] # v)

\* The first header that is there, as it came, or else the connection's address.
GetClientIP(xff, xri, addr) ==
    IF xff # None THEN xff ELSE IF xri # None THEN xri ELSE addr

\* Under the limiter's mutex: a key without a visitor gets a full one.
LookUp(r, c) ==
    /\ held[r] = None
    /\ key' = [key EXCEPT ![r] = c]
    /\ answer' = [answer EXCEPT ![r] = "none"]
    /\ IF visitors[c] # None
       THEN held' = [held EXCEPT ![r] = visitors[c]] /\ UNCHANGED limiter
       ELSE LET v == CHOOSE x \in Visitors : Unused(x)
            IN  /\ held' = [held EXCEPT ![r] = v]
                /\ visitors' = [visitors EXCEPT ![c] = v]
                /\ tokens' = [tokens EXCEPT ![v] = Burst]
                /\ age' = [age EXCEPT ![v] = 0]
    /\ UNCHANGED <<late, credit>>

\* Whole tokens only: the age starts anew if there is one, and its rest is lost.
TokensToAdd(v) == (age[v] * Rate) \div Period
Refilled(v)    == Min({tokens[v] + TokensToAdd(v), Burst})

Answer(r, ok) ==
    /\ answer' = [answer EXCEPT ![r] = IF ok THEN "admitted" ELSE "denied"]
    /\ held' = [held EXCEPT ![r] = None] /\ late' = late \ {r}
    /\ credit' = [credit EXCEPT ![key[r]] = IF ok THEN @ - Period ELSE @]
    /\ UNCHANGED <<visitors, key>>

\* Mutant of Allow: the age starts anew also when there was nothing to add.
AllowRestarts(r) ==
    LET v == held[r]
    IN  /\ v # None
        /\ age' = [age EXCEPT ![v] = 0]
        /\ tokens' = [tokens EXCEPT ![v] = IF Refilled(v) > 0 THEN Refilled(v) - 1 ELSE 0]
        /\ Answer(r, Refilled(v) > 0)

\* Mutant of Allow: the tokens are not limited to a full bucket.
AllowHoards(r) ==
    LET v == held[r]
        n == tokens[v] + TokensToAdd(v)
    IN  /\ v # None
        /\ age' = [age EXCEPT ![v] = IF TokensToAdd(v) > 0 THEN 0 ELSE @]
        /\ tokens' = [tokens EXCEPT ![v] = IF n > 0 THEN n - 1 ELSE n]
        /\ Answer(r, n > 0)

\* Under the visitor's mutex: refill, and take a token if there is one.
Allow(r) ==
    LET v == held[r]
    IN  /\ v # None
        /\ age' = [age EXCEPT ![v] = IF TokensToAdd(v) > 0 THEN 0 ELSE @]
        /\ tokens' = [tokens EXCEPT ![v] = IF Refilled(v) > 0 THEN Refilled(v) - 1 ELSE 0]
        /\ Answer(r, Refilled(v) > 0)

\* Mutant of Forget: a visitor is forgotten while it may still lack tokens.
ForgetEarly(c) ==
    /\ visitors[c] # None /\ age[visitors[c]] > 0
    /\ visitors' = [visitors EXCEPT ![c] = None]
    /\ UNCHANGED <<tokens, age, request, credit>>

\* The cleanup, one visitor of its round.
Forget(c) ==
    /\ visitors[c] # None /\ age[visitors[c]] > Cleanup
    /\ visitors' = [visitors EXCEPT ![c] = None]
    /\ UNCHANGED <<tokens, age, request, credit>>

\* Bound: a request is between its two locks at one end of a unit at most.
Tick ==
    /\ late = {} /\ late' = {r \in Requests : held[r] # None}
    /\ age' = [v \in Visitors |-> IF Unused(v) THEN 0 ELSE Min({age[v] + 1, Cleanup + 1})]
    /\ credit' = [c \in Keys |-> Min({credit[c] + Rate, Burst * Period})]
    /\ UNCHANGED <<visitors, tokens, key, held, answer>>

Next ==
    \/ \E r \in Requests : Allow(r)
    \/ \E r \in Requests, xff, xri \in Headers \cup {None}, addr \in Connections :
           LookUp(r, GetClientIP(xff, xri, addr))
    \/ \E c \in Keys : Forget(c)
    \/ Tick

Spec == Init /\ [][Next]_vars

\* Time passes and a request that came in is answered.
FairSpec == Spec /\ WF_vars(Tick) /\ \A r \in Requests : WF_vars(Allow(r))

-----------------------------------------------------------------------------
(* Properties.                                                             *)

\* Types of the variables; a bucket is never more than full.
TypeOK ==
    /\ visitors \in [Keys -> Visitors \cup {None}]
    /\ tokens \in [Visitors -> 0..Burst] /\ age \in [Visitors -> 0..Cleanup + 1]
    /\ key \in [Requests -> Keys \cup {None}]
    /\ held \in [Requests -> Visitors \cup {None}]
    /\ answer \in [Requests -> {"none", "admitted", "denied"}]
    /\ late \subseteq Requests /\ credit \in [Keys -> Int]

\* In whatever time the requests of a key get no more than a burst and the tokens of
\* that time, although the cleanup gives the key a new full bucket.  Beyond an exact
\* bucket go only the requests that hold a visitor while it is forgotten, and the
\* part of a token whose time counts while the bucket is full (allow).
KeyRateKept ==
    \A c \in Keys : credit[c] > -(Cardinality(Requests) + 1) * Period

\* A key that keeps asking, however often, is admitted again and again: being
\* denied does not put off the next token (allow).
AskersAdmitted ==
    \A c \in Keys :
        []<>(\E r \in Requests : key[r] = c /\ held[r] # None)
            => []<>(\E r \in Requests : key[r] = c /\ answer[r] = "admitted")
=============================================================================
