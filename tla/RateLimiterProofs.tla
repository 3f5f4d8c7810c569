-------------------------- MODULE RateLimiterProofs --------------------------
(***************************************************************************)
(* Proofs about RateLimiter for any rate, burst, idle time, map limit and  *)
(* set of addresses.                                                       *)
(***************************************************************************)
EXTENDS RateLimiter, TLAPS

-------------------------------------------------------------------------------
(***************************************************************************)
(* Arithmetic of the drip.                                                 *)
(***************************************************************************)

\* The linear part of RateAssumption: all that most steps need.
LEMMA Sizes ==
    /\ Rate \in Nat /\ Burst \in Nat /\ Cost \in Nat /\ Idle \in Nat
    /\ MaxEntries \in Nat /\ MaxStep \in Nat /\ MaxTime \in Nat
    /\ Cost > 0 /\ Cost <= Burst
  BY RateAssumption, Zenon

LEMMA DripType == ASSUME NEW a \in Nat PROVE a * Rate \in Nat
  BY Sizes

LEMMA DripAdds ==
    ASSUME NEW a \in Nat, NEW d \in Nat
    PROVE  (a + d) * Rate = a * Rate + d * Rate
  BY Sizes

LEMMA DripGrows ==
    ASSUME NEW a \in Nat, NEW b \in Nat, a <= b
    PROVE  a * Rate <= b * Rate
  <1>1. PICK d \in Nat : b = a + d
    <2>1. b - a \in Nat /\ b = a + (b - a)
      OBVIOUS
    <2> QED
      BY <2>1
  <1>2. b * Rate = a * Rate + d * Rate
    BY <1>1, DripAdds
  <1>3. a * Rate \in Nat /\ d * Rate \in Nat
    BY DripType
  <1> QED
    BY <1>2, <1>3

LEMMA NoDrip == ASSUME NEW t \in Nat PROVE (t - t) * Rate = 0
  BY Sizes

\* Idle ticks fill any bucket: this is why reaping is sound.
LEMMA IdleFills ==
    ASSUME NEW a \in Nat, a >= Idle
    PROVE  a * Rate >= Burst
  <1>1. Idle * Rate <= a * Rate
    BY DripGrows, RateAssumption
  <1>2. Idle * Rate \in Nat /\ a * Rate \in Nat
    BY DripType, RateAssumption
  <1> QED
    BY <1>1, <1>2, RateAssumption

-------------------------------------------------------------------------------
(***************************************************************************)
(* Types, and clocks that never run ahead.                                 *)
(***************************************************************************)

Clocked ==
    /\ TypeOK
    /\ \A ip \in Ips : state[ip].last <= now
    /\ \A ip \in Ips : \A j \in DOMAIN log[ip] : log[ip][j] <= now

\* The bucket of an entry with t units, a ticks after its last call.
Filled(t, a) == clampFloat(t + a * Rate, 0, Burst)

LEMMA FilledType ==
    ASSUME NEW t \in Nat, NEW a \in Nat
    PROVE  Filled(t, a) \in 0 .. Burst
  BY DripType, Sizes DEF Filled, clampFloat

LEMMA RefillIs ==
    ASSUME Clocked, NEW ip \in Ips
    PROVE  /\ state[ip].present =>
                  /\ now - state[ip].last \in Nat
                  /\ Refill(ip) = Filled(state[ip].tokens, now - state[ip].last)
           /\ ~state[ip].present => Refill(ip) = Burst
           /\ Refill(ip) \in 0 .. Burst
  <1>1. /\ state[ip] \in Entry /\ now \in Nat /\ state[ip].last <= now
    BY DEF Clocked, TypeOK
  <1>2. CASE state[ip].present
    <2>1. now - state[ip].last \in Nat /\ state[ip].tokens \in Nat
      BY <1>1 DEF Entry
    <2>2. Refill(ip) = Filled(state[ip].tokens, now - state[ip].last)
      BY <1>2 DEF Refill, Found, Filled
    <2> QED
      BY <1>2, <2>1, <2>2, FilledType
  <1>3. CASE ~state[ip].present
    <2>1. Refill(ip) = clampFloat(Burst + (now - now) * Rate, 0, Burst)
      BY <1>3 DEF Refill, Found
    <2>2. (now - now) * Rate = 0
      BY <1>1, Sizes
    <2> QED
      BY <1>3, <2>1, <2>2, Sizes DEF clampFloat
  <1> QED
    BY <1>2, <1>3

\* What a call does to every bucket and to the map.
LEMMA AllowRows ==
    ASSUME Clocked, NEW ip \in Ips, Allow(ip), NEW k \in Ips
    PROVE  /\ k = ip =>
                  state'[k] = [present |-> TRUE, last |-> now,
                               tokens |-> IF Refill(ip) >= Cost
                                          THEN Refill(ip) - Cost ELSE Refill(ip)]
           /\ k # ip =>
                  \/ state'[k] = state[k]
                  \/ now - state[k].last > Idle /\ state'[k] = Missing
  <1> DEFINE ok == Refill(ip) >= Cost
             new == Touched(ip, ok)
  <1>1. state \in [Ips -> Entry] /\ now \in Nat
    BY DEF Clocked, TypeOK
  <1>2. /\ new[ip] = [present |-> TRUE, last |-> now,
                      tokens |-> IF ok THEN Refill(ip) - Cost ELSE Refill(ip)]
        /\ k # ip => new[k] = state[k]
    BY <1>1 DEF Touched
  <1>3. state' = new \/ state' = Reap(new)
    BY DEF Allow
  <1>4. Reap(new)[k] = IF now - new[k].last > Idle THEN Missing ELSE new[k]
    BY DEF Reap
  <1>5. ~(now - now > Idle)
    BY <1>1, Sizes
  <1> HIDE DEF new, ok
  <1>6. new[ip].last = now
    BY <1>2
  <1> QED
    BY <1>2, <1>3, <1>4, <1>5, <1>6 DEF ok

LEMMA ClockedNext == Clocked /\ [Next]_vars => Clocked'
  <1> SUFFICES ASSUME Clocked, [Next]_vars PROVE Clocked'
    OBVIOUS
  <1>1. /\ now \in Nat /\ state \in [Ips -> Entry] /\ log \in [Ips -> Seq(Nat)]
        /\ \A ip \in Ips : state[ip].last \in Nat /\ state[ip].last <= now
    BY DEF Clocked, TypeOK, Entry
  <1>2. CASE Elapse
    <2>1. PICK d \in 1 .. MaxStep : now' = now + d /\ UNCHANGED <<state, reply, log>>
      BY <1>2 DEF Elapse
    <2>2. d \in Nat
      BY Sizes
    <2>3. ASSUME NEW ip \in Ips, NEW j \in DOMAIN log[ip] PROVE log[ip][j] <= now + d
      <3>1. log[ip][j] \in Nat /\ log[ip][j] <= now
        BY <1>1 DEF Clocked
      <3> QED
        BY <1>1, <2>2, <3>1
    <2> QED
      BY <1>1, <2>1, <2>2, <2>3 DEF Clocked, TypeOK
  <1>3. ASSUME NEW ip \in Ips, Allow(ip) PROVE Clocked'
    <2>1. now' = now /\ reply' = [ip |-> ip, ok |-> Refill(ip) >= Cost]
      BY <1>3 DEF Allow
    <2>2. Refill(ip) \in 0 .. Burst
      BY RefillIs
    <2>3. ASSUME NEW k \in Ips PROVE state'[k] \in Entry /\ state'[k].last <= now
      <3> DEFINE left == IF Refill(ip) >= Cost THEN Refill(ip) - Cost ELSE Refill(ip)
      <3>1. CASE k = ip
        <4>1. left \in 0 .. Burst
          BY <2>2, Sizes
        <4>2. state'[k] = [present |-> TRUE, last |-> now, tokens |-> left]
          BY <1>3, <3>1, AllowRows
        <4> HIDE DEF left
        <4> QED
          BY <1>1, <4>1, <4>2 DEF Entry
      <3>2. CASE k # ip
        <4>1. state'[k] = state[k] \/ state'[k] = Missing
          BY <1>3, <3>2, AllowRows
        <4>2. Missing \in Entry /\ Missing.last <= now
          BY <1>1, Sizes DEF Entry, Missing
        <4> QED
          BY <1>1, <4>1, <4>2
      <3> QED
        BY <3>1, <3>2
    <2>4. state' \in [Ips -> Entry]
      <3>1. state' = [k \in Ips |-> state'[k]]
        BY <1>1, <1>3 DEF Allow, Touched, Reap
      <3> QED
        BY <2>3, <3>1
    <2>5. /\ log' \in [Ips -> Seq(Nat)]
          /\ \A k \in Ips : \A j \in DOMAIN log'[k] : log'[k][j] <= now
      <3>1. CASE log' = log
        BY <1>1, <3>1 DEF Clocked
      <3>2. CASE log' = [log EXCEPT ![ip] = Append(@, now)]
        <4>1. log' \in [Ips -> Seq(Nat)]
          BY <1>1, <3>2
        <4>2. ASSUME NEW k \in Ips, NEW j \in DOMAIN log'[k] PROVE log'[k][j] <= now
          <5>1. CASE k # ip
            BY <1>1, <3>2, <4>2, <5>1 DEF Clocked
          <5>2. CASE k = ip
            <6>1. log'[k] = Append(log[ip], now) /\ log[ip] \in Seq(Nat)
              BY <1>1, <3>2, <5>2
            <6>2. j \in 1 .. Len(log[ip]) + 1
              BY <1>1, <4>2, <6>1
            <6>3. CASE j = Len(log[ip]) + 1
              BY <1>1, <6>1, <6>3
            <6>4. CASE j \in 1 .. Len(log[ip])
              BY <1>1, <6>1, <6>4 DEF Clocked
            <6> QED
              BY <6>1, <6>2, <6>3, <6>4
          <5> QED
            BY <5>1, <5>2
        <4> QED
          BY <4>1, <4>2
      <3> QED
        BY <1>3, <3>1, <3>2 DEF Allow
    <2> QED
      BY <1>1, <2>1, <2>3, <2>4, <2>5 DEF Clocked, TypeOK
  <1>4. CASE UNCHANGED vars
    BY <1>4 DEF vars, Clocked, TypeOK
  <1> QED
    BY <1>2, <1>3, <1>4 DEF Next

LEMMA ClockedInit == Init => Clocked
  BY Sizes DEF Init, Clocked, TypeOK, Entry, Missing

(***************************************************************************)
(* Every bucket holds between nothing and Burst, whatever the clock does.  *)
(***************************************************************************)
THEOREM LimiterTypeCorrect == Spec => []TypeOK
  <1>1. Clocked => TypeOK
    BY DEF Clocked
  <1> QED
    BY <1>1, ClockedInit, ClockedNext, PTL DEF Spec

-------------------------------------------------------------------------------
(***************************************************************************)
(* The map behaves as buckets that are never forgotten.                    *)
(***************************************************************************)

LEMMA RefillNext ==
    ASSUME Clocked, Clocked', NEW ip \in Ips
    PROVE  /\ state'[ip].present =>
                  Refill(ip)' = Filled(state'[ip].tokens, now' - state'[ip].last)
           /\ ~state'[ip].present => Refill(ip)' = Burst
  <1>1. now' \in Nat
    BY DEF Clocked, TypeOK
  <1>2. state'[ip].present =>
            Refill(ip)' = Filled(state'[ip].tokens, now' - state'[ip].last)
    BY DEF Refill, Found, Filled
  <1>3. ~state'[ip].present => Refill(ip)' = clampFloat(Burst + (now' - now') * Rate, 0, Burst)
    BY DEF Refill, Found
  <1>4. clampFloat(Burst + (now' - now') * Rate, 0, Burst) = Burst
    <2>1. (now' - now') * Rate = 0
      BY <1>1, NoDrip
    <2> QED
      BY <2>1, Sizes DEF clampFloat
  <1> QED
    BY <1>2, <1>3, <1>4

\* Time only drips.
LEMMA ElapseLevel ==
    ASSUME Clocked, Clocked', NEW d \in Nat, now' = now + d, state' = state, NEW ip \in Ips
    PROVE  Refill(ip)' = Bucket!Least(Burst, Refill(ip) + d * Rate)
  <1>1. state[ip] \in Entry /\ now \in Nat
    BY DEF Clocked, TypeOK
  <1>2. d * Rate \in Nat
    BY DripType
  <1>3. CASE ~state[ip].present
    BY <1>2, <1>3, RefillIs, RefillNext, Sizes DEF Bucket!Least
  <1>4. CASE state[ip].present
    <2> DEFINE a == now - state[ip].last
               t == state[ip].tokens
    <2>1. a \in Nat /\ Refill(ip) = Filled(t, a)
      BY <1>4, RefillIs
    <2>2. Refill(ip)' = Filled(t, (now + d) - state[ip].last)
      BY <1>4, RefillNext
    <2>3. (now + d) - state[ip].last = a + d
      BY <1>1, <2>1 DEF Entry
    <2>4. t \in Nat
      BY <1>1 DEF Entry
    <2> HIDE DEF a, t
    <2>5. Filled(t, a + d) = Bucket!Least(Burst, Filled(t, a) + d * Rate)
      <3>1. (a + d) * Rate = a * Rate + d * Rate /\ a * Rate \in Nat
        BY <2>1, DripAdds, DripType
      <3> QED
        BY <1>2, <2>4, <3>1, Sizes DEF Filled, clampFloat, Bucket!Least
    <2> QED
      BY <2>1, <2>2, <2>3, <2>5
  <1> QED
    BY <1>3, <1>4

\* A call takes its cost from its own bucket and reaping changes no bucket.
LEMMA AllowLevel ==
    ASSUME Clocked, Clocked', NEW ip \in Ips, Allow(ip), NEW k \in Ips
    PROVE  Refill(k)' = IF k = ip /\ Refill(ip) >= Cost THEN Refill(ip) - Cost ELSE Refill(k)
  <1>1. now' = now /\ now \in Nat /\ state[k] \in Entry
    BY DEF Allow, Clocked, TypeOK
  <1>2. Refill(ip) \in 0 .. Burst
    BY RefillIs
  <1>3. CASE k = ip
    <2> DEFINE left == IF Refill(ip) >= Cost THEN Refill(ip) - Cost ELSE Refill(ip)
    <2>1. left \in 0 .. Burst
      BY <1>2, Sizes
    <2>2. state'[k] = [present |-> TRUE, last |-> now, tokens |-> left]
      BY <1>3, AllowRows
    <2> HIDE DEF left
    <2>3. Refill(k)' = Filled(left, now - now)
      BY <1>1, <2>2, RefillNext
    <2>4. (now - now) * Rate = 0
      BY <1>1, Sizes
    <2>5. Filled(left, now - now) = left
      BY <2>1, <2>4, Sizes DEF Filled, clampFloat
    <2> QED
      BY <1>3, <2>3, <2>5 DEF left
  <1>4. CASE k # ip /\ state'[k] = state[k]
    BY <1>1, <1>4, RefillIs, RefillNext
  <1>5. CASE k # ip /\ now - state[k].last > Idle /\ state'[k] = Missing
    <2>1. Refill(k)' = Burst
      BY <1>5, RefillNext DEF Missing
    <2>2. CASE ~state[k].present
      BY <1>5, <2>1, <2>2, RefillIs
    <2>3. CASE state[k].present
      <3> DEFINE a == now - state[k].last
      <3>1. a \in Nat /\ Refill(k) = Filled(state[k].tokens, a)
        BY <2>3, RefillIs
      <3>2. a * Rate >= Burst /\ a * Rate \in Nat
        BY <1>5, <3>1, IdleFills, DripType, Sizes
      <3>3. state[k].tokens \in Nat
        BY <1>1 DEF Entry
      <3> HIDE DEF a
      <3>4. Filled(state[k].tokens, a) = Burst
        BY <3>2, <3>3, Sizes DEF Filled, clampFloat
      <3> QED
        BY <1>5, <2>1, <3>1, <3>4
    <2> QED
      BY <2>2, <2>3
  <1> QED
    BY <1>3, <1>4, <1>5, AllowRows

(***************************************************************************)
(* The limiter with its lazy, reaped map implements buckets that drip all  *)
(* the time and are never forgotten, for every configuration in which Idle *)
(* ticks fill a bucket.                                                    *)
(***************************************************************************)
THEOREM LimiterBehavesAsBuckets == Spec => BehavesAsBuckets
  <1>1. Init => Bucket!BucketInit
    <2> SUFFICES ASSUME Init PROVE Bucket!BucketInit
      OBVIOUS
    <2>1. ASSUME NEW ip \in Ips PROVE Refill(ip) = Burst
      BY ClockedInit, RefillIs DEF Init, Missing
    <2> QED
      BY <2>1 DEF Init, Bucket!BucketInit, Level
  <1>2. Clocked /\ [Next]_vars => [Bucket!BucketNext]_(Bucket!bucketVars)
    <2> SUFFICES ASSUME Clocked, [Next]_vars
                 PROVE  [Bucket!BucketNext]_(Bucket!bucketVars)
      OBVIOUS
    <2>1. Clocked'
      BY ClockedNext
    <2>2. CASE Elapse
      <3>1. PICK d \in 1 .. MaxStep : now' = now + d /\ UNCHANGED <<state, reply, log>>
        BY <2>2 DEF Elapse
      <3>2. d \in Nat
        BY Sizes
      <3>3. \A ip \in Ips : Refill(ip)' = Bucket!Least(Burst, Refill(ip) + d * Rate)
        BY <2>1, <3>1, <3>2, ElapseLevel
      <3>4. Bucket!Drip
        BY <3>1, <3>3 DEF Bucket!Drip, Level
      <3> QED
        BY <3>4 DEF Bucket!BucketNext
    <2>3. ASSUME NEW ip \in Ips, Allow(ip) PROVE Bucket!BucketNext
      <3>1. \A k \in Ips : Refill(k)' = IF k = ip /\ Refill(ip) >= Cost
                                        THEN Refill(ip) - Cost ELSE Refill(k)
        BY <2>1, <2>3, AllowLevel
      <3>2. reply' = [ip |-> ip, ok |-> Refill(ip) >= Cost]
        BY <2>3 DEF Allow
      <3>3. Bucket!Ask(ip)
        BY <3>1, <3>2 DEF Bucket!Ask, Level
      <3> QED
        BY <3>3 DEF Bucket!BucketNext
    <2>4. CASE UNCHANGED vars
      <3>1. \A ip \in Ips : Refill(ip)' = Refill(ip)
        BY <2>4 DEF vars, Refill, Found
      <3> QED
        BY <2>4, <3>1 DEF vars, Bucket!bucketVars, Level
    <2> QED
      BY <2>2, <2>3, <2>4 DEF Next
  <1> QED
    BY <1>1, <1>2, ClockedInit, ClockedNext, PTL DEF Spec, BehavesAsBuckets, Bucket!BucketSpec

-------------------------------------------------------------------------------
(***************************************************************************)
(* Admissions within a window.                                             *)
(***************************************************************************)

\* What was admitted since call i and what is left is paid by burst and drip.
WindowInv ==
    /\ WindowBound
    /\ \A ip \in Ips : \A i \in 1 .. Len(log[ip]) :
           (Len(log[ip]) - i + 1) * Cost + Refill(ip) <= Burst + (now - log[ip][i]) * Rate

LEMMA CostAdds ==
    ASSUME NEW n \in Nat
    PROVE  n * Cost \in Nat /\ (n + 1) * Cost = n * Cost + Cost
  BY Sizes

\* A request paid from a bucket: cost and rest stay within what the bucket held.
LEMMA PaidFrom ==
    ASSUME NEW rest \in Nat, NEW held \in Nat, rest + Cost = held,
           NEW cost \in Nat, NEW limit \in Nat, cost + held <= limit
    PROVE  (cost + Cost) + rest <= limit
  BY Sizes

LEMMA Within ==
    ASSUME NEW cost \in Nat, NEW rest \in Nat, NEW drip \in Nat,
           cost + rest <= Burst + drip
    PROVE  cost <= Burst + drip
  BY Sizes

LEMMA WindowElapse ==
    ASSUME Clocked, Clocked', WindowInv, Elapse
    PROVE  WindowInv'
  <1>1. PICK d \in 1 .. MaxStep : now' = now + d /\ UNCHANGED <<state, reply, log>>
    BY DEF Elapse
  <1>2. d \in Nat /\ now \in Nat /\ d * Rate \in Nat
    BY Sizes, DripType DEF Clocked, TypeOK
  <1>3. ASSUME NEW ip \in Ips, NEW i \in 1 .. Len(log[ip])
        PROVE  (Len(log[ip]) - i + 1) * Cost + Refill(ip)'
                   <= Burst + ((now + d) - log[ip][i]) * Rate
    <2> DEFINE c == (Len(log[ip]) - i + 1) * Cost
               a == now - log[ip][i]
    <2>1. log[ip] \in Seq(Nat) /\ Len(log[ip]) \in Nat /\ log[ip][i] \in Nat
      BY DEF Clocked, TypeOK
    <2>2. log[ip][i] <= now
      BY <2>1 DEF Clocked
    <2>3. a \in Nat /\ a * Rate \in Nat /\ c \in Nat
      <3>1. a \in Nat
        BY <1>2, <2>1, <2>2
      <3>2. Len(log[ip]) - i + 1 \in Nat
        BY <2>1
      <3> QED
        BY <3>1, <3>2, DripType, CostAdds
    <2>4. ((now + d) - log[ip][i]) * Rate = a * Rate + d * Rate
      <3>1. (now + d) - log[ip][i] = a + d
        BY <1>2, <2>1
      <3> HIDE DEF a
      <3> QED
        BY <1>2, <2>3, <3>1, DripAdds
    <2>5. Refill(ip) \in 0 .. Burst /\ Refill(ip)' <= Refill(ip) + d * Rate
          /\ Refill(ip)' \in Nat
      BY <1>1, <1>2, RefillIs, ElapseLevel, Sizes DEF Bucket!Least
    <2>6. c + Refill(ip) <= Burst + a * Rate
      BY DEF WindowInv
    <2> HIDE DEF a, c
    <2>7. c + Refill(ip)' <= Burst + (a * Rate + d * Rate)
      BY <1>2, <2>3, <2>5, <2>6, Sizes
    <2> QED
      BY <2>4, <2>7 DEF c
  <1>4. WindowBound'
    BY <1>1 DEF WindowInv, WindowBound
  <1> QED
    BY <1>1, <1>3, <1>4 DEF WindowInv

LEMMA WindowAllow ==
    ASSUME Clocked, Clocked', WindowInv, NEW ip \in Ips, Allow(ip)
    PROVE  WindowInv'
  <1>1. /\ now' = now /\ now \in Nat /\ log \in [Ips -> Seq(Nat)]
        /\ \A k \in Ips : Refill(k) \in 0 .. Burst
    BY RefillIs DEF Allow, Clocked, TypeOK
  <1>2. CASE Refill(ip) < Cost
    <2>1. Refill(ip) \in Int /\ ~(Refill(ip) >= Cost)
      BY <1>1, <1>2, Sizes
    <2>2. log' = log
      BY <2>1 DEF Allow
    <2>3. \A k \in Ips : Refill(k)' = Refill(k)
      BY <2>1, AllowLevel
    <2> QED
      BY <1>1, <2>2, <2>3 DEF WindowInv, WindowBound
  <1>3. CASE Refill(ip) >= Cost
    <2> DEFINE old == log[ip]
               n == Len(old)
    <2>1. /\ log' = [log EXCEPT ![ip] = Append(@, now)]
          /\ Refill(ip)' = Refill(ip) - Cost
          /\ \A k \in Ips : k # ip => Refill(k)' = Refill(k)
      BY <1>3, AllowLevel DEF Allow
    <2>2. /\ old \in Seq(Nat) /\ n \in Nat
          /\ log'[ip] = Append(old, now) /\ Len(log'[ip]) = n + 1
          /\ log'[ip][n + 1] = now
          /\ \A i \in 1 .. n : log'[ip][i] = old[i]
          /\ \A k \in Ips : k # ip => log'[k] = log[k]
      BY <1>1, <2>1
    <2>3. Refill(ip)' \in Nat /\ Refill(ip)' + Cost = Refill(ip)
      <3>1. Refill(ip) \in 0 .. Burst
        BY <1>1
      <3> QED
        BY <1>3, <2>1, <3>1, Sizes
    <2>4. ASSUME NEW i \in 1 .. n + 1
          PROVE  (n + 1 - i + 1) * Cost + Refill(ip)' <= Burst + (now - log'[ip][i]) * Rate
      <3>1. CASE i = n + 1
        <4>1. (n + 1 - i + 1) * Cost = Cost
          BY <2>2, <3>1, Sizes
        <4>2. (now - log'[ip][i]) * Rate = 0
          BY <1>1, <2>2, <3>1, NoDrip
        <4>3. Refill(ip) \in Nat /\ Refill(ip) <= Burst
          BY <1>1, Sizes
        <4>4. Cost + Refill(ip)' <= Burst + 0
          BY <2>3, <4>3, Sizes
        <4> QED
          BY <4>1, <4>2, <4>4, Zenon
      <3>2. CASE i \in 1 .. n
        <4>1. n - i + 1 \in Nat /\ n + 1 - i + 1 = (n - i + 1) + 1
          BY <2>2, <3>2
        <4>2. (n + 1 - i + 1) * Cost = (n - i + 1) * Cost + Cost /\ (n - i + 1) * Cost \in Nat
          BY <4>1, CostAdds
        <4>3. (n - i + 1) * Cost + Refill(ip) <= Burst + (now - log'[ip][i]) * Rate
          BY <2>2, <3>2 DEF WindowInv
        <4>4. (now - log'[ip][i]) * Rate \in Nat
          <5>1. old[i] \in Nat /\ old[i] <= now
            BY <2>2, <3>2 DEF Clocked
          <5>2. now - log'[ip][i] \in Nat
            BY <1>1, <2>2, <3>2, <5>1
          <5> QED
            BY <5>2, DripType
        <4>5. Refill(ip) \in Nat /\ Burst + (now - log'[ip][i]) * Rate \in Nat
          BY <1>1, <4>4, Sizes
        <4>6. ((n - i + 1) * Cost + Cost) + Refill(ip)' <= Burst + (now - log'[ip][i]) * Rate
          BY <2>3, <4>2, <4>3, <4>5, PaidFrom
        <4> QED
          BY <4>2, <4>6, Zenon
      <3> QED
        BY <2>2, <3>1, <3>2
    <2>5. ASSUME NEW j \in 1 .. n + 1, NEW i \in 1 .. j
          PROVE  (j - i + 1) * Cost <= Burst + (log'[ip][j] - log'[ip][i]) * Rate
      <3>1. CASE j \in 1 .. n
        <4>1. i \in 1 .. n /\ j \in DOMAIN log[ip]
          BY <2>2, <3>1
        <4> QED
          BY <2>2, <3>1, <4>1 DEF WindowInv, WindowBound
      <3>2. CASE j = n + 1
        <4>1. i \in 1 .. n + 1 /\ (n + 1 - i + 1) \in Nat
          BY <2>2, <3>2
        <4>2. (n + 1 - i + 1) * Cost \in Nat
          BY <4>1, CostAdds
        <4>3. log'[ip][i] \in Nat /\ log'[ip][i] <= now
          BY <1>1, <2>2, <4>1 DEF Clocked
        <4>4. (now - log'[ip][i]) * Rate \in Nat
          <5>1. now - log'[ip][i] \in Nat
            BY <1>1, <4>3
          <5> QED
            BY <5>1, DripType
        <4>5. (n + 1 - i + 1) * Cost + Refill(ip)' <= Burst + (now - log'[ip][i]) * Rate
          BY <2>4, <4>1
        <4>6. (n + 1 - i + 1) * Cost <= Burst + (now - log'[ip][i]) * Rate
          BY <2>3, <4>2, <4>4, <4>5, Within
        <4> QED
          BY <2>2, <3>2, <4>6
      <3> QED
        BY <2>2, <3>1, <3>2
    <2>6. DOMAIN log'[ip] = 1 .. n + 1
      BY <2>2
    <2>7. WindowBound'
      <3> SUFFICES ASSUME NEW k \in Ips, NEW j \in DOMAIN log'[k], NEW i \in 1 .. j
                   PROVE  (j - i + 1) * Cost <= Burst + (log'[k][j] - log'[k][i]) * Rate
        BY DEF WindowBound
      <3>1. CASE k = ip
        BY <2>5, <2>6, <3>1
      <3>2. CASE k # ip
        BY <2>2, <3>2 DEF WindowInv, WindowBound
      <3> QED
        BY <3>1, <3>2
    <2>8. ASSUME NEW k \in Ips, NEW i \in 1 .. Len(log'[k])
          PROVE  (Len(log'[k]) - i + 1) * Cost + Refill(k)'
                     <= Burst + (now' - log'[k][i]) * Rate
      <3>1. CASE k = ip
        <4>1. i \in 1 .. n + 1 /\ Len(log'[k]) = n + 1
          BY <2>2, <3>1
        <4>2. (n + 1 - i + 1) * Cost + Refill(ip)' <= Burst + (now - log'[ip][i]) * Rate
          BY <2>4, <4>1
        <4>3. Refill(k)' = Refill(ip)'
          BY <3>1 DEF Refill, Found
        <4>4. log'[k][i] = log'[ip][i]
          BY <3>1
        <4>5. now' = now
          BY <1>1
        <4>6. (Len(log'[k]) - i + 1) * Cost = (n + 1 - i + 1) * Cost
          <5>1. Len(log'[k]) - i + 1 = n + 1 - i + 1
            BY <2>2, <4>1
          <5> QED
            BY <5>1
        <4>7. (now' - log'[k][i]) * Rate = (now - log'[ip][i]) * Rate
          BY <4>4, <4>5
        <4> QED
          BY <4>2, <4>3, <4>6, <4>7
      <3>2. CASE k # ip
        BY <1>1, <2>1, <2>2, <3>2 DEF WindowInv
      <3> QED
        BY <3>1, <3>2
    <2> QED
      BY <2>7, <2>8 DEF WindowInv
  <1> QED
    BY <1>1, <1>2, <1>3, Sizes

(***************************************************************************)
(* No address is ever admitted more often than one burst and the drip of   *)
(* the elapsed time allow, in any window between two of its calls.         *)
(***************************************************************************)
THEOREM WindowBoundHolds == Spec => []WindowBound
  <1>1. Init => WindowInv
    BY DEF Init, WindowInv, WindowBound
  <1>2. Clocked /\ WindowInv /\ [Next]_vars => WindowInv'
    <2> SUFFICES ASSUME Clocked, WindowInv, [Next]_vars PROVE WindowInv'
      OBVIOUS
    <2>1. Clocked'
      BY ClockedNext
    <2>2. CASE UNCHANGED vars
      BY <2>2 DEF vars, WindowInv, WindowBound, Refill, Found
    <2> QED
      BY <2>1, <2>2, WindowElapse, WindowAllow DEF Next
  <1>3. WindowInv => WindowBound
    BY DEF WindowInv
  <1> QED
    BY <1>1, <1>2, <1>3, ClockedInit, ClockedNext, PTL DEF Spec

LEMMA SeenRecently ==
    ASSUME NEW n \in Nat, NEW t \in Nat, NEW l \in Nat, t <= n, ~(n - l > Idle)
    PROVE  t - l <= Idle
  BY Sizes

(***************************************************************************)
(* While the map is over its limit it holds no entry that was idle at any  *)
(* admitted call: only addresses seen within Idle can make it grow.        *)
(***************************************************************************)
THEOREM OverLimitIsFreshHolds == Spec => []OverLimitIsFresh
  <1>1. Init => OverLimitIsFresh
    BY DEF Init, OverLimitIsFresh
  <1>2. Clocked /\ OverLimitIsFresh /\ [Next]_vars => OverLimitIsFresh'
    <2> SUFFICES ASSUME Clocked, OverLimitIsFresh, [Next]_vars PROVE OverLimitIsFresh'
      OBVIOUS
    <2>1. /\ Clocked' /\ now \in Nat /\ state \in [Ips -> Entry]
          /\ log' \in [Ips -> Seq(Nat)] /\ state' \in [Ips -> Entry]
      BY ClockedNext DEF Clocked, TypeOK
    <2>2. CASE UNCHANGED <<state, log>>
      BY <2>2 DEF OverLimitIsFresh, Present
    <2>3. ASSUME NEW ip \in Ips, Allow(ip) PROVE OverLimitIsFresh'
      <3> DEFINE ok == Refill(ip) >= Cost
                 new == Touched(ip, ok)
      <3> SUFFICES ASSUME Cardinality(Present(state')) > MaxEntries,
                          NEW k \in Ips, state'[k].present, NEW m \in Ips,
                          NEW j \in DOMAIN log'[m]
                   PROVE  log'[m][j] - state'[k].last <= Idle
        BY DEF OverLimitIsFresh, Present
      <3>1. log'[m][j] \in Nat /\ log'[m][j] <= now /\ state'[k].last \in Nat
        <4>1. now' = now
          BY <2>3 DEF Allow
        <4>2. log'[m][j] <= now'
          BY <2>1 DEF Clocked
        <4>3. log'[m][j] \in Nat
          BY <2>1
        <4>4. state'[k].last \in Nat
          BY <2>1 DEF Entry
        <4> QED
          BY <4>1, <4>2, <4>3, <4>4
      <3>2. CASE ok
        <4>1. state' = Reap(new)
          BY <2>3, <3>2 DEF Allow
        <4>2. state'[k] = new[k] /\ ~(now - new[k].last > Idle)
          BY <4>1 DEF Reap, Missing
        <4> HIDE DEF new
        <4>3. ~(now - state'[k].last > Idle)
          BY <4>2, Zenon
        <4> QED
          BY <2>1, <3>1, <4>3, SeenRecently
      <3>3. CASE ~ok
        <4>1. state' = new /\ log' = log
          BY <2>3, <3>3 DEF Allow
        <4>2. state[ip].present
          BY <3>3, RefillIs, Sizes
        <4>3. /\ new[ip].present /\ new[ip].last = now
              /\ \A q \in Ips : q # ip => new[q] = state[q]
          BY <2>1 DEF Touched
        <4> HIDE DEF new
        <4>4. Present(state') = Present(state)
          BY <4>1, <4>2, <4>3 DEF Present
        <4>5. CASE k = ip
          BY <2>1, <3>1, <4>1, <4>3, <4>5, Sizes
        <4>6. CASE k # ip
          BY <4>1, <4>3, <4>4, <4>6 DEF OverLimitIsFresh, Present
        <4> QED
          BY <4>5, <4>6
      <3> QED
        BY <3>2, <3>3
    <2> QED
      BY <2>2, <2>3 DEF Next, Elapse, vars
  <1> QED
    BY <1>1, <1>2, ClockedInit, ClockedNext, PTL DEF Spec
=============================================================================
