---------------------------- MODULE LimiterProofs ----------------------------
(***************************************************************************)
(* For any keys, requests, burst, refill and stall: the sweep of the rate  *)
(* limiter is invisible, nobody gets more than the burst and the refills,  *)
(* and waiting helps. The invariant relates three things that the          *)
(* properties keep apart: how old a reading of the clock can be, how full  *)
(* a swept bucket would be for the oldest of them, and what a bucket's     *)
(* credit says of the requests let through.                                *)
(***************************************************************************)
EXTENDS Limiter, TLAPS

(* A request enters with a reading that is at most MaxStall old. *)
ReadingsAreFresh ==
    \A r \in Requests : req[r] # None =>
        req[r].now <= clock /\ clock - MaxStall <= req[r].now

(* Of each key: its bucket was last touched in the past; it is in the map  *)
(* as it is here, or would be full for every reading still to come; every  *)
(* request let through was earned; and what a refused client has earned    *)
(* since it was last let through has not been taken from it.               *)
BucketIsRight(k) ==
    /\ ideal[k].seen <= clock
    /\ ideal[k].credit <= Cap
    /\ IF k \in DOMAIN buckets THEN buckets[k] = ideal[k]
       ELSE ideal[k].seen + Cap <= clock - MaxStall
    /\ tally[k].paid <= ideal[k].seen + Cap - ideal[k].credit
    /\ ideal[k].credit >= Cap \/ ideal[k].credit >= ideal[k].seen - tally[k].last

IInv ==
    /\ TypeOK
    /\ DOMAIN buckets \subseteq DOMAIN ideal
    /\ ReadingsAreFresh
    /\ \A k \in DOMAIN ideal : BucketIsRight(k)

(* A step that only moves the clock, or only the requests, keeps every     *)
(* bucket as it is: what was long enough ago stays so.                     *)
LEMMA LaterIsRight ==
    ASSUME IInv, clock' \in Nat, clock <= clock', UNCHANGED <<buckets, ideal, tally>>
    PROVE  (\A k \in DOMAIN ideal : BucketIsRight(k))'
<1> SUFFICES ASSUME NEW k \in DOMAIN ideal PROVE BucketIsRight(k)'
  OBVIOUS
<1>1. ideal[k] \in Bucket /\ tally[k] \in Tally /\ BucketIsRight(k)
  BY DEF IInv, TypeOK
<1>2. clock \in Nat /\ MaxStall \in Nat /\ Cap \in Nat
  BY LimiterConstants DEF IInv, TypeOK
<1> QED BY <1>1, <1>2 DEF BucketIsRight, Bucket, Tally

(* The next bucket of a key and what is counted of it. Pure arithmetic:    *)
(* the three ways in which a request may find its bucket.                  *)
LEMMA TakenType ==
    ASSUME NEW b \in Bucket, NEW now \in Nat, b.credit <= Cap
    PROVE  /\ Taken(b, now) \in Bucket
           /\ Taken(b, now).seen = now
           /\ Taken(b, now).credit <= Cap
BY LimiterConstants DEF Bucket, Taken, Grants, Earned, Least

(* A bucket that would be full by now gives what a new one gives. *)
LEMMA FullIsFull ==
    ASSUME NEW b \in Bucket, NEW now \in Nat, b.seen + Cap <= now
    PROVE  Earned(b, now) = Cap /\ Taken(b, now) = Taken(Full(now), now)
<1>1. Cap \in Nat /\ Cap > 0 /\ b.seen \in Nat /\ b.credit \in Nat
  BY LimiterConstants DEF Bucket
<1>2. Earned(b, now) = Cap
  BY <1>1 DEF Earned, Least
<1>3. Earned(Full(now), now) = Cap
  BY <1>1 DEF Earned, Full
<1> QED BY <1>2, <1>3 DEF Taken, Grants

LEMMA FullType ==
    ASSUME NEW now \in Nat
    PROVE  Full(now) \in Bucket /\ Full(now).credit = Cap /\ Full(now).seen = now
BY LimiterConstants DEF Full, Bucket

(* One answer keeps the account of its key: b is the bucket the request    *)
(* finds in the map, old the one it would have found without sweeps.       *)
LEMMA AnswerIsRight ==
    ASSUME TypeOK,
           NEW k \in DOMAIN ideal, BucketIsRight(k),
           NEW now \in Nat,
           NEW b, b = ideal[k] \/ (b = Full(now) /\ ideal[k].seen + Cap <= now)
    PROVE  /\ b \in Bucket /\ b.credit <= Cap
           /\ Taken(ideal[k], now) = Taken(b, now)
           /\ Counted(k, now, b) \in Tally
           /\ Counted(k, now, b).paid <= now + Cap - Taken(b, now).credit
           /\ \/ Taken(b, now).credit >= Cap
              \/ Taken(b, now).credit >= now - Counted(k, now, b).last
<1> USE LimiterConstants
<1>1. ideal[k] \in Bucket /\ tally[k] \in Tally /\ k \in DOMAIN tally
  BY DEF TypeOK
<1>2. /\ Cap \in Nat /\ Refill \in Nat /\ Refill > 0 /\ Refill <= Cap
      /\ MaxStall \in Nat /\ clock \in Nat
  BY DEF TypeOK
<1>3. CASE b = ideal[k]
  <2>1. b = ideal[k]
    BY <1>3
  <2>2. b.credit \in Nat /\ b.seen \in Nat /\ tally[k].paid \in Int /\ tally[k].last \in Nat
    BY <1>1, <2>1 DEF Bucket, Tally
  <2>3. /\ b.credit <= Cap
        /\ tally[k].paid <= b.seen + Cap - b.credit
        /\ b.credit >= Cap \/ b.credit >= b.seen - tally[k].last
    BY <2>1 DEF BucketIsRight
  <2>4. CASE Grants(b, now)
    <3>1. Taken(b, now).credit = Earned(b, now) - Refill
      BY <2>4 DEF Taken
    <3>2. Counted(k, now, b) =
            [paid |-> tally[k].paid + Refill - (IF now < b.seen THEN b.seen - now ELSE 0), last |-> now]
      BY <1>1, <2>4 DEF Counted
    <3>3. Earned(b, now) \in Nat /\ Earned(b, now) >= Refill
      BY <1>2, <2>2, <2>4 DEF Earned, Least, Grants
    <3>4. Counted(k, now, b) \in Tally
      BY <1>2, <2>2, <3>2 DEF Tally
    <3>5. Counted(k, now, b).paid <= now + Cap - Taken(b, now).credit
      BY <1>2, <2>2, <2>3, <3>1, <3>2 DEF Earned, Least
    <3>6. Taken(b, now).credit >= now - Counted(k, now, b).last
      BY <3>1, <3>2, <3>3
    <3> QED BY <1>1, <2>1, <2>3, <3>4, <3>5, <3>6
  <2>5. CASE ~Grants(b, now)
    <3>1. Taken(b, now).credit = Earned(b, now)
      BY <2>5 DEF Taken
    <3>2. Counted(k, now, b) =
            [tally[k] EXCEPT !.paid = @ - (IF now < b.seen THEN b.seen - now ELSE 0)]
      BY <1>1, <2>5 DEF Counted
    <3>3. /\ Counted(k, now, b).paid = tally[k].paid - (IF now < b.seen THEN b.seen - now ELSE 0)
          /\ Counted(k, now, b).last = tally[k].last
          /\ Counted(k, now, b) \in Tally
      BY <1>1, <1>2, <2>2, <3>2 DEF Tally
    <3>4. Counted(k, now, b).paid <= now + Cap - Taken(b, now).credit
      BY <1>2, <2>2, <2>3, <3>1, <3>3 DEF Earned, Least
    <3>5. \/ Taken(b, now).credit >= Cap
          \/ Taken(b, now).credit >= now - Counted(k, now, b).last
      BY <1>2, <2>2, <2>3, <3>1, <3>3 DEF Earned, Least
    <3> QED BY <1>1, <2>1, <2>3, <3>3, <3>4, <3>5
  <2> QED BY <2>4, <2>5
<1>4. CASE b = Full(now) /\ ideal[k].seen + Cap <= now
  <2>1. b = Full(now) /\ b \in Bucket /\ b.credit = Cap /\ b.seen = now
    BY <1>4, FullType
  <2>2. /\ ideal[k].seen + Cap <= now
        /\ tally[k].paid <= ideal[k].seen + Cap - ideal[k].credit
        /\ ideal[k].seen \in Nat /\ ideal[k].credit \in Nat
        /\ tally[k].paid \in Int
    BY <1>1, <1>2, <1>4 DEF BucketIsRight, Bucket, Tally
  <2>3. Taken(ideal[k], now) = Taken(b, now)
    BY <1>1, <2>1, <2>2, FullIsFull
  <2>4. Earned(b, now) = Cap /\ Grants(b, now)
    BY <1>2, <2>1 DEF Earned, Grants
  <2>5. Taken(b, now).credit = Cap - Refill
    BY <2>4 DEF Taken
  <2>6. Counted(k, now, b) = [paid |-> tally[k].paid + Refill - 0, last |-> now]
    BY <1>1, <2>1, <2>4 DEF Counted
  <2>7. /\ Counted(k, now, b) \in Tally
        /\ Counted(k, now, b).paid <= now + Cap - Taken(b, now).credit
        /\ Taken(b, now).credit >= now - Counted(k, now, b).last
    BY <1>2, <2>2, <2>5, <2>6 DEF Tally
  <2> QED BY <1>2, <2>1, <2>3, <2>7
<1> QED BY <1>3, <1>4

(* The first request of a key finds a full bucket, and is let through. *)
LEMMA FirstAnswerIsRight ==
    ASSUME NEW k, k \notin DOMAIN tally, NEW now \in Nat, NEW b, b = Full(now)
    PROVE  /\ Counted(k, now, b) \in Tally
           /\ Counted(k, now, b).paid <= now + Cap - Taken(b, now).credit
           /\ Taken(b, now).credit >= now - Counted(k, now, b).last
<1>1. Cap \in Nat /\ Refill \in Nat /\ Refill <= Cap
  BY LimiterConstants
<1>2. b.credit = Cap /\ b.seen = now
  BY FullType
<1>3. Earned(b, now) = Cap /\ Grants(b, now)
  BY <1>1, <1>2 DEF Earned, Grants
<1>4. Taken(b, now).credit = Cap - Refill
  BY <1>3 DEF Taken
<1>5. Counted(k, now, b) = [paid |-> now + Refill - 0, last |-> now]
  BY <1>2, <1>3 DEF Counted
<1> QED BY <1>1, <1>4, <1>5 DEF Tally

(* What a sweep leaves is unchanged; what it takes would be full for the   *)
(* oldest reading that can still enter.                                    *)
LEMMA SweptIsRight ==
    ASSUME IInv, NEW now \in Nat, now <= clock
    PROVE  /\ DOMAIN Swept(now) \subseteq DOMAIN buckets
           /\ \A k \in DOMAIN Swept(now) : Swept(now)[k] = ideal[k]
           /\ \A k \in DOMAIN ideal \ DOMAIN Swept(now) : ideal[k].seen + Cap <= clock - MaxStall
<1>1. /\ \A k \in DOMAIN buckets : k \in DOMAIN ideal /\ buckets[k] = ideal[k]
      /\ \A k \in DOMAIN ideal \ DOMAIN buckets : ideal[k].seen + Cap <= clock - MaxStall
  BY DEF IInv, BucketIsRight
<1>2. CASE now - lastGC < GCPeriod
  BY <1>1, <1>2 DEF Swept
<1>3. CASE ~(now - lastGC < GCPeriod)
  <2>1. Swept(now) = [k \in {j \in DOMAIN buckets : ~IsIdle(buckets[j], now)} |-> buckets[k]]
    BY <1>3 DEF Swept
  <2>2. ASSUME NEW k \in DOMAIN buckets, IsIdle(buckets[k], now)
        PROVE  ideal[k].seen + Cap <= clock - MaxStall
    <3>1. ideal[k].seen \in Nat /\ now - ideal[k].seen > IdleTTL
      BY <1>1, <2>2 DEF IsIdle, IInv, TypeOK, Bucket
    <3> QED BY <3>1, LimiterConstants DEF IInv, TypeOK
  <2> QED BY <1>1, <2>1, <2>2
<1> QED BY <1>2, <1>3

LEMMA InitIsRight == Init => IInv
BY LimiterConstants DEF Init, IInv, TypeOK, ReadingsAreFresh, BucketIsRight

LEMMA AskIsRight ==
    ASSUME IInv, NEW r \in Requests, NEW k \in Keys, Ask(r, k)
    PROVE  IInv'
<1>1. clock \in Nat /\ UNCHANGED <<clock, buckets, lastGC, ideal, tally>>
  BY DEF IInv, TypeOK, Ask
<1>2. req' = [req EXCEPT ![r] = [key |-> k, now |-> clock]] /\ req \in [Requests -> {None} \cup [key : Keys, now : Nat]]
  BY DEF IInv, TypeOK, Ask
<1>3. TypeOK'
  BY <1>1, <1>2 DEF IInv, TypeOK
<1>4. ReadingsAreFresh'
  <2> SUFFICES ASSUME NEW q \in Requests, req'[q] # None
               PROVE  req'[q].now <= clock /\ clock - MaxStall <= req'[q].now
    BY <1>1 DEF ReadingsAreFresh
  <2>1. CASE q = r
    BY <1>1, <1>2, <2>1, LimiterConstants
  <2>2. CASE q # r
    BY <1>2, <2>2 DEF IInv, ReadingsAreFresh
  <2> QED BY <2>1, <2>2
<1>5. (\A j \in DOMAIN ideal : BucketIsRight(j))'
  BY <1>1, LaterIsRight
<1> QED BY <1>1, <1>3, <1>4, <1>5 DEF IInv

LEMMA AdvanceIsRight == ASSUME IInv, Advance PROVE IInv'
<1>1. /\ clock \in Nat /\ clock' = clock + 1
      /\ UNCHANGED <<buckets, lastGC, req, ideal, tally>>
  BY DEF IInv, TypeOK, Advance
<1>2. TypeOK'
  BY <1>1 DEF IInv, TypeOK
<1>3. ReadingsAreFresh'
  <2> SUFFICES ASSUME NEW q \in Requests, req[q] # None
               PROVE  req[q].now <= clock' /\ clock' - MaxStall <= req[q].now
    BY <1>1 DEF ReadingsAreFresh
  <2>1. req[q].now \in Nat
    BY DEF IInv, TypeOK
  <2>2. req[q].now <= clock /\ clock - req[q].now < MaxStall
    BY DEF IInv, ReadingsAreFresh, Advance
  <2> QED BY <1>1, <2>1, <2>2, LimiterConstants
<1>4. (\A j \in DOMAIN ideal : BucketIsRight(j))'
  BY <1>1, LaterIsRight
<1> QED BY <1>1, <1>2, <1>3, <1>4 DEF IInv

LEMMA ForgetIsRight == ASSUME IInv, Forget PROVE IInv'
<1>1. DOMAIN buckets' = {} /\ DOMAIN ideal' = {} /\ DOMAIN tally' = {} /\ clock' = clock
  BY DEF Forget
<1>2. TypeOK'
  <2>1. lastGC' \in Int
    BY LimiterConstants DEF IInv, TypeOK, Forget
  <2>2. req' \in [Requests -> {None} \cup [key : Keys, now : Nat]]
    BY DEF IInv, TypeOK, Forget
  <2> QED BY <1>1, <2>1, <2>2 DEF IInv, TypeOK
<1>3. ReadingsAreFresh'
  BY <1>1 DEF IInv, ReadingsAreFresh, Forget
<1> QED BY <1>1, <1>2, <1>3 DEF IInv

LEMMA AllowIsRight == ASSUME IInv, NEW r \in Requests, Allow(r) PROVE IInv'
<1> DEFINE k    == req[r].key
           now  == req[r].now
           left == Swept(now)
           b    == BucketOf(left, k, now)
<1>1. k \in Keys /\ now \in Nat /\ now <= clock /\ clock - MaxStall <= now
  BY DEF IInv, TypeOK, ReadingsAreFresh, Allow
<1>2. /\ buckets' = With(left, k, Taken(b, now))
      /\ ideal' = With(ideal, k, Taken(BucketOf(ideal, k, now), now))
      /\ tally' = With(tally, k, Counted(k, now, b))
      /\ lastGC' = IF now - lastGC < GCPeriod THEN lastGC ELSE now
      /\ req' = [req EXCEPT ![r] = None]
      /\ clock' = clock
  BY DEF Allow
<1>3. /\ DOMAIN left \subseteq DOMAIN ideal
      /\ \A j \in DOMAIN left : left[j] = ideal[j]
      /\ \A j \in DOMAIN ideal \ DOMAIN left : ideal[j].seen + Cap <= clock - MaxStall
  BY <1>1, SweptIsRight DEF IInv
<1>4. /\ clock \in Nat /\ MaxStall \in Nat /\ Cap \in Nat
      /\ DOMAIN tally = DOMAIN ideal /\ DOMAIN ideal \subseteq Keys
      /\ \A j \in DOMAIN ideal : ideal[j] \in Bucket /\ tally[j] \in Tally /\ BucketIsRight(j)
  BY LimiterConstants DEF IInv, TypeOK
<1> HIDE DEF k, now, left, b
(* The answer to this request. *)
<1>5. /\ b \in Bucket /\ b.credit <= Cap
      /\ Taken(BucketOf(ideal, k, now), now) = Taken(b, now)
      /\ Counted(k, now, b) \in Tally
      /\ Counted(k, now, b).paid <= now + Cap - Taken(b, now).credit
      /\ \/ Taken(b, now).credit >= Cap
         \/ Taken(b, now).credit >= now - Counted(k, now, b).last
  <2>1. CASE k \in DOMAIN ideal
    <3>1. BucketOf(ideal, k, now) = ideal[k]
      BY <2>1 DEF BucketOf
    <3>2. b = ideal[k] \/ (b = Full(now) /\ ideal[k].seen + Cap <= now)
      <4>1. CASE k \in DOMAIN left
        BY <1>3, <4>1 DEF b, BucketOf
      <4>2. CASE k \notin DOMAIN left
        <5>1. b = Full(now)
          BY <4>2 DEF b, BucketOf
        <5>2. ideal[k].seen + Cap <= clock - MaxStall /\ ideal[k].seen \in Nat
          BY <1>3, <1>4, <2>1, <4>2 DEF Bucket
        <5> QED BY <1>1, <1>4, <5>1, <5>2
      <4> QED BY <4>1, <4>2
    <3>3. TypeOK /\ BucketIsRight(k)
      BY <1>4, <2>1 DEF IInv
    <3> QED BY <1>1, <2>1, <3>1, <3>2, <3>3, AnswerIsRight
  <2>2. CASE k \notin DOMAIN ideal
    <3>1. b = Full(now) /\ BucketOf(ideal, k, now) = Full(now)
      BY <1>3, <2>2 DEF b, BucketOf
    <3>2. k \notin DOMAIN tally
      BY <1>4, <2>2
    <3>3. b \in Bucket /\ b.credit <= Cap
      BY <1>1, <1>4, <3>1, FullType
    <3> QED BY <1>1, <3>1, <3>2, <3>3, FirstAnswerIsRight
  <2> QED BY <2>1, <2>2
<1>6. /\ Taken(b, now) \in Bucket /\ Taken(b, now).seen = now
      /\ Taken(b, now).credit <= Cap
  BY <1>1, <1>5, TakenType
<1>7. /\ DOMAIN buckets' = DOMAIN left \cup {k}
      /\ DOMAIN ideal' = DOMAIN ideal \cup {k}
      /\ DOMAIN tally' = DOMAIN ideal \cup {k}
      /\ buckets'[k] = Taken(b, now) /\ ideal'[k] = Taken(b, now) /\ tally'[k] = Counted(k, now, b)
      /\ \A j \in DOMAIN left \ {k} : buckets'[j] = ideal[j]
      /\ \A j \in DOMAIN ideal \ {k} : ideal'[j] = ideal[j] /\ tally'[j] = tally[j]
  BY <1>2, <1>3, <1>4, <1>5 DEF With
<1>8. TypeOK'
  <2>1. lastGC' \in Int
    BY <1>1, <1>2 DEF IInv, TypeOK
  <2>2. req' \in [Requests -> {None} \cup [key : Keys, now : Nat]]
    BY <1>2 DEF IInv, TypeOK
  <2>3. \A j \in DOMAIN buckets' : buckets'[j] \in Bucket
    BY <1>3, <1>4, <1>6, <1>7
  <2>4. \A j \in DOMAIN ideal' : ideal'[j] \in Bucket /\ tally'[j] \in Tally
    BY <1>4, <1>5, <1>6, <1>7
  <2>5. /\ DOMAIN buckets' \subseteq Keys /\ DOMAIN ideal' \subseteq Keys
        /\ DOMAIN tally' = DOMAIN ideal' /\ clock' \in Nat
    BY <1>1, <1>2, <1>3, <1>4, <1>7
  <2> QED BY <2>1, <2>2, <2>3, <2>4, <2>5 DEF TypeOK
<1>9. ReadingsAreFresh'
  <2>1. \A q \in Requests : req'[q] # None => req'[q] = req[q]
    BY <1>2 DEF IInv, TypeOK
  <2> QED BY <1>2, <2>1 DEF IInv, ReadingsAreFresh
<1>10. ASSUME NEW j \in DOMAIN ideal' PROVE BucketIsRight(j)'
  <2>1. CASE j = k
    <3>1. ideal'[j].seen = now /\ ideal'[j].credit <= Cap
      BY <1>6, <1>7, <2>1
    <3>2. j \in DOMAIN buckets' /\ buckets'[j] = ideal'[j]
      BY <1>7, <2>1
    <3>3. tally'[j].paid <= ideal'[j].seen + Cap - ideal'[j].credit
      BY <1>5, <1>7, <2>1, <3>1
    <3>4. ideal'[j].credit >= Cap \/ ideal'[j].credit >= ideal'[j].seen - tally'[j].last
      BY <1>5, <1>7, <2>1, <3>1
    <3> QED BY <1>1, <1>2, <3>1, <3>2, <3>3, <3>4 DEF BucketIsRight
  <2>2. CASE j # k
    <3>1. j \in DOMAIN ideal /\ ideal'[j] = ideal[j] /\ tally'[j] = tally[j] /\ BucketIsRight(j)
      BY <1>4, <1>7, <2>2
    <3>2. IF j \in DOMAIN buckets' THEN buckets'[j] = ideal[j]
          ELSE ideal[j].seen + Cap <= clock - MaxStall
      BY <1>3, <1>7, <2>2, <3>1
    <3> QED BY <1>2, <3>1, <3>2 DEF BucketIsRight
  <2> QED BY <2>1, <2>2
<1>11. DOMAIN buckets' \subseteq DOMAIN ideal'
  BY <1>3, <1>7
<1> QED BY <1>8, <1>9, <1>10, <1>11 DEF IInv

LEMMA StepIsRight == IInv /\ [Next]_vars => IInv'
<1> SUFFICES ASSUME IInv, [Next]_vars PROVE IInv'
  OBVIOUS
<1>1. ASSUME NEW r \in Requests, NEW k \in Keys, Ask(r, k) PROVE IInv'
  BY <1>1, AskIsRight
<1>2. ASSUME NEW r \in Requests, Allow(r) PROVE IInv'
  BY <1>2, AllowIsRight
<1>3. CASE Forget
  BY <1>3, ForgetIsRight
<1>4. CASE Advance
  BY <1>4, AdvanceIsRight
<1>5. CASE UNCHANGED vars
  BY <1>5 DEF IInv, TypeOK, ReadingsAreFresh, BucketIsRight, vars
<1> QED BY <1>1, <1>2, <1>3, <1>4, <1>5 DEF Next

LEMMA Invariant == Spec => []IInv
<1> QED BY InitIsRight, StepIsRight, PTL DEF Spec

(* Every reachable state of the limiter has its type. *)
THEOREM TypeCorrect == Spec => []TypeOK
<1>1. IInv => TypeOK
  BY DEF IInv
<1> QED BY <1>1, Invariant, PTL

(* Readings still to be used are within MaxStall of the clock. *)
LEMMA ReadingsKnown ==
    ASSUME IInv, NEW now \in Readings
    PROVE  now \in Nat /\ now <= clock /\ clock - MaxStall <= now
BY LimiterConstants DEF Readings, IInv, TypeOK, ReadingsAreFresh

(* bucketIdleTTL is an hour and a sweep comes every ten minutes: as long   *)
(* as a full bucket and the longest stall fit into the former, no sweep    *)
(* changes the answer to any request, for any burst, refill and clients.   *)
THEOREM SweepChangesNothing == Spec => []SweepIsInvisible
<1>1. ASSUME IInv PROVE SweepIsInvisible
  <2> SUFFICES ASSUME NEW k \in DOMAIN ideal
               PROVE  IF k \in DOMAIN buckets THEN buckets[k] = ideal[k]
                      ELSE \A now \in Readings : Earned(ideal[k], now) = Cap
    BY DEF SweepIsInvisible
  <2>1. BucketIsRight(k) /\ ideal[k] \in Bucket
    BY <1>1 DEF IInv, TypeOK
  <2>2. ASSUME k \notin DOMAIN buckets, NEW now \in Readings
        PROVE  Earned(ideal[k], now) = Cap
    <3>1. now \in Nat /\ clock - MaxStall <= now
      BY <1>1, ReadingsKnown
    <3>2. ideal[k].seen + Cap <= now
      BY <1>1, <2>1, <2>2, <3>1, LimiterConstants DEF BucketIsRight, Bucket, IInv, TypeOK
    <3> QED BY <2>1, <3>1, <3>2, FullIsFull
  <2> QED BY <2>1, <2>2 DEF BucketIsRight
<1> QED BY <1>1, Invariant, PTL

(* allow never lets through more than the burst and one a refill, whatever *)
(* the sweeps, the restarts and the order in which the readings enter.     *)
THEOREM RateIsKept == Spec => []WithinRate
<1>1. ASSUME IInv PROVE WithinRate
  <2> SUFFICES ASSUME NEW k \in DOMAIN tally PROVE tally[k].paid <= clock + Cap
    BY DEF WithinRate
  <2>1. BucketIsRight(k) /\ ideal[k] \in Bucket /\ tally[k] \in Tally /\ clock \in Nat
    BY <1>1 DEF IInv, TypeOK
  <2> QED BY <2>1, LimiterConstants DEF BucketIsRight, Bucket, Tally
<1> QED BY <1>1, Invariant, PTL

(* A refused request costs nothing: who waits one refill is let through.   *)
THEOREM WaitingIsEnough == Spec => []WaitingHelps
<1>1. ASSUME IInv PROVE WaitingHelps
  <2> SUFFICES ASSUME NEW k \in DOMAIN buckets, NEW now \in Readings, ~Grants(buckets[k], now)
               PROVE  now - tally[k].last < Refill
    BY DEF WaitingHelps
  <2>1. /\ BucketIsRight(k) /\ buckets[k] = ideal[k]
        /\ ideal[k] \in Bucket /\ tally[k] \in Tally
    BY <1>1 DEF IInv, TypeOK, BucketIsRight
  <2>2. now \in Nat
    BY <1>1, ReadingsKnown
  <2>3. /\ ideal[k].credit \in Nat /\ ideal[k].seen \in Nat /\ tally[k].last \in Nat
        /\ ideal[k].credit >= Cap \/ ideal[k].credit >= ideal[k].seen - tally[k].last
    BY <2>1 DEF BucketIsRight, Bucket, Tally
  <2>4. Earned(ideal[k], now) < Refill
    BY <2>1, <2>2, <2>3, LimiterConstants DEF Grants, Earned, Least
  <2> QED BY <2>2, <2>3, <2>4, LimiterConstants DEF Earned, Least
<1> QED BY <1>1, Invariant, PTL
=============================================================================
