----------------------------- MODULE TokenBucket -----------------------------
(***************************************************************************)
(* What the rate limiter of the public routes promises: every IP has a     *)
(* bucket of its own that starts full, drips at Rate and never holds more  *)
(* than Burst ("burst N then drip at R/sec"), and is never forgotten.      *)
(* Tokens are counted in units; a request costs Cost of them.              *)
(***************************************************************************)
EXTENDS Naturals

CONSTANTS Ips, Burst, Rate, Cost, MaxStep, NoReply

VARIABLES
    level,  \* units in each bucket now
    reply   \* the verdict of the last call

bucketVars == <<level, reply>>

Least(a, b) == IF a <= b THEN a ELSE b

BucketInit ==
    /\ level = [ip \in Ips |-> Burst]
    /\ reply = NoReply

\* d ticks go by and every bucket drips.
Drip ==
    \E d \in 1 .. MaxStep :
        /\ level' = [ip \in Ips |-> Least(Burst, level[ip] + d * Rate)]
        /\ UNCHANGED reply

\* A call is admitted exactly when its bucket can pay for it.
Ask(ip) ==
    LET ok == level[ip] >= Cost IN
    /\ reply' = [ip |-> ip, ok |-> ok]
    /\ level' = IF ok THEN [level EXCEPT ![ip] = @ - Cost] ELSE level

BucketNext == Drip \/ \E ip \in Ips : Ask(ip)

BucketSpec == BucketInit /\ [][BucketNext]_bucketVars
=============================================================================
