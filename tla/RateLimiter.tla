----------------------------- MODULE RateLimiter -----------------------------
(***************************************************************************)
(* rateLimiter of internal/api/middleware_security.go, which guards login, *)
(* saveAnswer, the REST answer route and the public upload.  Allow runs    *)
(* under one mutex, so a call is one step; time is read inside the lock    *)
(* and never goes back.  Tokens are lazy: an entry remembers what it held  *)
(* at its last call, and entries idle for long are reaped from the map.    *)
(* The float64 tokens are counted in units, a request costs Cost of them.  *)
(***************************************************************************)
EXTENDS Integers, Sequences, FiniteSets

CONSTANTS
    Ips,        \* client addresses
    Rate,       \* units added per tick
    Burst,      \* bucket size in units
    Cost,       \* units of one request
    Idle,       \* ticks without a call after which an entry may be reaped
    MaxEntries, \* map size above which Allow reaps (1024 in the code)
    MaxStep,    \* bound: ticks that go by between two calls
    MaxTime,    \* bound: ticks of one run
    NoReply

\* The two limiters of NewServer satisfy it: 5 * 300 >= 10 and 20 * 300 >= 40.
ASSUME RateAssumption ==
    /\ Rate \in Nat /\ Burst \in Nat /\ Cost \in Nat /\ Idle \in Nat
    /\ MaxEntries \in Nat /\ MaxStep \in Nat /\ MaxTime \in Nat
    /\ Cost > 0 /\ Cost <= Burst
    /\ Idle * Rate >= Burst

VARIABLES
    now,    \* time.Now()
    state,  \* the map: state[ip].present says whether the key is there
    reply,  \* the verdict of the last call
    log     \* history: log[ip] is the times of the admitted calls of ip

vars == <<now, state, reply, log>>

Entry == [present : BOOLEAN, tokens : 0 .. Burst, last : Nat]

Missing == [present |-> FALSE, tokens |-> 0, last |-> 0]

TypeOK ==
    /\ now \in Nat
    /\ state \in [Ips -> Entry]
    /\ reply \in {NoReply} \cup [ip : Ips, ok : BOOLEAN]
    /\ log \in [Ips -> Seq(Nat)]

Init ==
    /\ now = 0
    /\ state = [ip \in Ips |-> Missing]
    /\ reply = NoReply
    /\ log = [ip \in Ips |-> << >>]

clampFloat(v, lo, hi) == IF v < lo THEN lo ELSE IF v > hi THEN hi ELSE v

\* A new visitor starts with a full bucket.
Found(ip) ==
    IF state[ip].present
    THEN state[ip]
    ELSE [present |-> TRUE, tokens |-> Burst, last |-> now]

\* Bug: the clamp left out.
RefillUnclamped(ip) == Found(ip).tokens + (now - Found(ip).last) * Rate

Refill(ip) == clampFloat(Found(ip).tokens + (now - Found(ip).last) * Rate, 0, Burst)

Present(st) == {ip \in Ips : st[ip].present}

\* Bug: entries are reaped after one tick.
ReapEager(st) == [k \in Ips |-> IF now - st[k].last > 0 THEN Missing ELSE st[k]]

\* Bug: entries are reaped a tick late.
ReapLate(st) == [k \in Ips |-> IF now - st[k].last > Idle + 1 THEN Missing ELSE st[k]]

Reap(st) == [k \in Ips |-> IF now - st[k].last > Idle THEN Missing ELSE st[k]]

\* Bug: last is left alone when the call is denied.
TouchedAllowedOnly(ip, ok) ==
    [state EXCEPT ![ip] = [present |-> TRUE,
                           tokens  |-> IF ok THEN Refill(ip) - Cost ELSE Refill(ip),
                           last    |-> IF ok THEN now ELSE Found(ip).last]]

\* st.last = now whatever the verdict; a token is taken when there is one.
Touched(ip, ok) ==
    [state EXCEPT ![ip] = [present |-> TRUE,
                           tokens  |-> IF ok THEN Refill(ip) - Cost ELSE Refill(ip),
                           last    |-> now]]

\* One call, and the middleware's 429 when the verdict is FALSE.
Allow(ip) ==
    LET ok  == Refill(ip) >= Cost
        new == Touched(ip, ok)
    IN
    /\ state' = IF ok /\ Cardinality(Present(new)) > MaxEntries THEN Reap(new) ELSE new
    /\ reply' = [ip |-> ip, ok |-> ok]
    /\ log' = IF ok THEN [log EXCEPT ![ip] = Append(@, now)] ELSE log
    /\ UNCHANGED now

\* Time goes by.
Elapse ==
    \E d \in 1 .. MaxStep :
        /\ now + d <= MaxTime
        /\ now' = now + d
        /\ UNCHANGED <<state, reply, log>>

Next == Elapse \/ \E ip \in Ips : Allow(ip)

Spec == Init /\ [][Next]_vars

-------------------------------------------------------------------------------
(***************************************************************************)
(* Properties                                                              *)
(***************************************************************************)

(***************************************************************************)
(* Reaping cannot be noticed: the lazy, reaped map answers every sequence  *)
(* of calls as buckets would that drip all the time and are never          *)
(* forgotten.  In particular a client cannot regain tokens by having its   *)
(* entry dropped.                                                          *)
(***************************************************************************)
Level(ip) == Refill(ip)

Bucket == INSTANCE TokenBucket WITH level <- [ip \in Ips |-> Level(ip)]

BehavesAsBuckets == Bucket!BucketSpec

(***************************************************************************)
(* "burst N then drip at R/sec": between any two of its admitted calls an  *)
(* IP is admitted no more often than one full bucket and the drip of that  *)
(* time pay for, across denials, refills and reaped entries.               *)
(***************************************************************************)
WindowBound ==
    \A ip \in Ips : \A j \in DOMAIN log[ip] : \A i \in 1 .. j :
        (j - i + 1) * Cost <= Burst + (log[ip][j] - log[ip][i]) * Rate

(***************************************************************************)
(* "idle entries reaped after `idle` to keep memory bounded": while the    *)
(* map is over its limit, every entry in it was seen within Idle of every  *)
(* admitted call, also although denied calls never reap.                   *)
(***************************************************************************)
OverLimitIsFresh ==
    Cardinality(Present(state)) > MaxEntries =>
        \A ip \in Present(state), k \in Ips : \A j \in DOMAIN log[k] :
            log[k][j] - state[ip].last <= Idle
=============================================================================
