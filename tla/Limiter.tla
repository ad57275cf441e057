------------------------------- MODULE Limiter -------------------------------
(***************************************************************************)
(* limiterSet of internal/httpapi/ratelimit.go: a token bucket for every   *)
(* endpoint and client, kept in memory and swept when idle. allow reads    *)
(* the clock before it takes the lock, so requests may enter in another    *)
(* order than that of their readings; everything under the lock is one     *)
(* step. The process stops and starts again with no buckets, and so does   *)
(* the development endpoint that calls forget.                             *)
(*                                                                         *)
(* A bucket's tokens are counted in the time it takes to earn them: a      *)
(* token is Refill, a full bucket Burst * Refill. Keys stand for endpoint  *)
(* and client together.                                                    *)
(***************************************************************************)
EXTENDS Integers

CONSTANTS
    Keys,      \* endpoint and client
    Requests,  \* bound: requests in flight at once
    Burst, Refill, IdleTTL, GCPeriod,
    MaxStall,  \* bound: time between the reading of the clock and the lock
    MaxTime,   \* bound: the end of time
    None

Cap == Burst * Refill

\* login 8 * 20 s, signup and reset 5 * 2 min; an hour of idleness, a sweep in ten minutes.
ASSUME LimiterConstants ==
    /\ Burst \in Nat \ {0} /\ Refill \in Nat \ {0}
    /\ IdleTTL \in Nat /\ GCPeriod \in Nat /\ MaxStall \in Nat /\ MaxTime \in Nat
    /\ Cap \in Nat /\ Refill <= Cap
    /\ Cap + MaxStall <= IdleTTL
    /\ None \notin Nat /\ None \notin [key : Keys, now : Nat]

VARIABLES
    clock,
    buckets,  \* the map, by key
    lastGC,
    req,      \* of each request: the key and the reading it is about to use
    ideal,    \* history: the bucket of each key, had none ever been swept
    tally     \* history: of each key, since its first request after a start

vars == <<clock, buckets, lastGC, req, ideal, tally>>

Bucket == [credit : Nat, seen : Nat]

Tally == [paid : Int,   \* the first reading, and a Refill for each request let through,
                        \* less the time credited twice to readings out of order
          last : Nat]   \* the reading of the last request let through

Init ==
    /\ clock = 0
    /\ buckets = [k \in {} |-> None]
    /\ lastGC = 0 - GCPeriod
    /\ req = [r \in Requests |-> None]
    /\ ideal = [k \in {} |-> None]
    /\ tally = [k \in {} |-> None]

-----------------------------------------------------------------------------
Least(m, n) == IF m <= n THEN m ELSE n

\* Mutant: a sweep drops whatever has not been touched since the last one.
IdleAtSweep(bucket, now) == now - bucket.seen > GCPeriod

\* gc: nobody has touched the bucket in a while.
IsIdle(bucket, now) == now - bucket.seen > IdleTTL

Swept(now) ==
    IF now - lastGC < GCPeriod THEN buckets
    ELSE [k \in {j \in DOMAIN buckets : ~IsIdle(buckets[j], now)} |-> buckets[k]]

Full(now) == [credit |-> Cap, seen |-> now]

BucketOf(table, k, now) == IF k \in DOMAIN table THEN table[k] ELSE Full(now)

\* What has been earned since, up to a full bucket; nothing when the reading is older.
Earned(bucket, now) ==
    IF now > bucket.seen THEN Least(Cap, bucket.credit + (now - bucket.seen)) ELSE bucket.credit

Grants(bucket, now) == Earned(bucket, now) >= Refill

\* Mutant: a refused request starts the wait for a token anew.
TakenAnew(bucket, now) ==
    [credit |-> IF Grants(bucket, now) THEN Earned(bucket, now) - Refill ELSE 0, seen |-> now]

\* Mutant: the time since is earned by a refused request and left there to be earned again.
TakenTwice(bucket, now) ==
    [credit |-> IF Grants(bucket, now) THEN Earned(bucket, now) - Refill ELSE Earned(bucket, now),
     seen   |-> IF Grants(bucket, now) THEN now ELSE bucket.seen]

Taken(bucket, now) ==
    [credit |-> IF Grants(bucket, now) THEN Earned(bucket, now) - Refill ELSE Earned(bucket, now),
     seen   |-> now]

With(table, k, row) == [j \in DOMAIN table \cup {k} |-> IF j = k THEN row ELSE table[j]]

-----------------------------------------------------------------------------
\* rateLimit and the first lines of allow: the clock is read.
Ask(r, k) ==
    /\ req[r] = None
    /\ req' = [req EXCEPT ![r] = [key |-> k, now |-> clock]]
    /\ UNCHANGED <<clock, buckets, lastGC, ideal, tally>>

\* History: what the answer to a request for key k adds up to.
Counted(k, now, bucket) ==
    LET t == IF k \in DOMAIN tally THEN tally[k] ELSE [paid |-> now, last |-> now]
        twice == IF now < bucket.seen THEN bucket.seen - now ELSE 0
    IN IF Grants(bucket, now) THEN [paid |-> t.paid + Refill - twice, last |-> now]
       ELSE [t EXCEPT !.paid = @ - twice]

\* allow, under the lock.
Allow(r) ==
    /\ req[r] # None
    /\ LET k    == req[r].key
           now  == req[r].now
           left == Swept(now)
       IN /\ lastGC' = IF now - lastGC < GCPeriod THEN lastGC ELSE now
          /\ buckets' = With(left, k, Taken(BucketOf(left, k, now), now))
          /\ ideal' = With(ideal, k, Taken(BucketOf(ideal, k, now), now))
          /\ tally' = With(tally, k, Counted(k, now, BucketOf(left, k, now)))
    /\ req' = [req EXCEPT ![r] = None]
    /\ UNCHANGED clock

\* forget, and a stop and start of the process with its requests.
Forget ==
    /\ buckets' = [k \in {} |-> None]
    /\ ideal' = [k \in {} |-> None]
    /\ tally' = [k \in {} |-> None]
    /\ \/ UNCHANGED <<lastGC, req>>
       \/ lastGC' = 0 - GCPeriod /\ req' = [r \in Requests |-> None]
    /\ UNCHANGED clock

Advance ==
    /\ clock < MaxTime
    /\ \A r \in Requests : req[r] # None => clock - req[r].now < MaxStall
    /\ clock' = clock + 1
    /\ UNCHANGED <<buckets, lastGC, req, ideal, tally>>

Next ==
    \/ \E r \in Requests, k \in Keys : Ask(r, k)
    \/ \E r \in Requests : Allow(r)
    \/ Forget
    \/ Advance

Spec == Init /\ [][Next]_vars

-----------------------------------------------------------------------------
(* Properties.                                                             *)

\* The readings of the clock that are still to be used, or are yet to come.
Readings == {clock} \cup {req[r].now : r \in {q \in Requests : req[q] # None}}

TypeOK ==
    /\ clock \in Nat /\ lastGC \in Int
    /\ DOMAIN buckets \subseteq Keys /\ \A k \in DOMAIN buckets : buckets[k] \in Bucket
    /\ DOMAIN ideal \subseteq Keys /\ \A k \in DOMAIN ideal : ideal[k] \in Bucket
    /\ DOMAIN tally = DOMAIN ideal /\ \A k \in DOMAIN tally : tally[k] \in Tally
    /\ req \in [Requests -> {None} \cup [key : Keys, now : Nat]]

\* The sweep forgives nothing and takes nothing: a bucket that is still there is the one an
\* unswept limiter would have, and one that is gone would be full by now, also for a request
\* that read the clock before the sweep and enters after it.
SweepIsInvisible ==
    \A k \in DOMAIN ideal :
        IF k \in DOMAIN buckets THEN buckets[k] = ideal[k]
        ELSE \A now \in Readings : Earned(ideal[k], now) = Cap

\* allow lets a client through Burst times and then once per Refill, however its requests are
\* spread and swept between; readings that enter out of order are credited twice, no more.
WithinRate ==
    \A k \in DOMAIN tally : tally[k].paid <= clock + Cap

\* A refusal costs nothing: however often a client asks, it is turned away only within one
\* Refill of the last request let through, so waiting that long always helps.
WaitingHelps ==
    \A k \in DOMAIN buckets, now \in Readings :
        ~Grants(buckets[k], now) => now - tally[k].last < Refill
=============================================================================
