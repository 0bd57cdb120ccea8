------------------------------ MODULE RateLimiter ------------------------------
(***************************************************************************)
(* The ingest server's rate limiter: a token bucket per client behind one  *)
(* mutex.  A request reads the monotonic clock before it has the mutex, so *)
(* requests may be checked in another order than they were measured in.    *)
(***************************************************************************)
EXTENDS Integers, FiniteSets

CONSTANTS
  Clients,       \* "source:address"
  Checks,        \* requests served at a time
  Limits,        \* the rate limits settings ask for: [rate, burst]
  Unit,          \* tokens are counted in fractions: one request costs Unit
  MaxRate, MaxBurst,
  PRUNE_ABOVE, IDLE,
  LastInstant    \* bound: the last instant

Unset == -1

ASSUME RateLimiterAssumption ==
  /\ Unset \notin Clients
  /\ {Unit, MaxRate} \subseteq Nat \ {0}
  /\ {MaxBurst, PRUNE_ABOVE, IDLE, LastInstant} \subseteq Nat
  /\ Limits \subseteq [rate : 1 .. MaxRate, burst : Unit .. MaxBurst]

\* A bucket that was idle long enough to be pruned would be full again.
ASSUME IdleAssumption == MaxBurst <= MaxRate * IDLE

VARIABLES
  instant,    \* the monotonic clock
  measured,   \* per request: its client and the instant it read, or Unmeasured
  buckets,    \* per client: its bucket, or NoBucket
  promised,   \* history: per client, the instant and limit it was refused until
  watch       \* history: what one client was allowed since some instant

limiterVars == <<instant, measured, buckets, promised, watch>>

Instants == 0 .. LastInstant
Unmeasured == [client |-> Unset, at |-> Unset]
NoBucket == [tokens |-> 0, refreshed |-> Unset]
NoPromise == [at |-> Unset, limit |-> [rate |-> 0, burst |-> 0]]

\* `mark` is the instant the bucket was last filled up to, and `rewound` the
\* time by which requests measured before it set it back.
NoWatch == [client |-> Unset, from |-> 0, mark |-> 0, allowed |-> 0, rewound |-> 0]

Smaller(x, y) == IF x <= y THEN x ELSE y
Larger(x, y) == IF x <= y THEN y ELSE x

LimiterInit ==
  /\ instant = 0
  /\ measured = [r \in Checks |-> Unmeasured]
  /\ buckets = [c \in Clients |-> NoBucket]
  /\ promised = [c \in Clients |-> NoPromise]
  /\ watch = NoWatch

-----------------------------------------------------------------------------
\* duration_since, which is zero where `from` is later
Elapsed(from, to) == IF from <= to THEN to - from ELSE 0

\* Mutant: no cap.
RefilledWithoutCap(bucket, limit, now) ==
  bucket.tokens + limit.rate * Elapsed(bucket.refreshed, now)

Refilled(bucket, limit, now) ==
  Smaller(bucket.tokens + limit.rate * Elapsed(bucket.refreshed, now), limit.burst)

\* Mutant: the last second is not waited for.
RoundedDown(missing, rate, wait) == wait = 1 \/ (rate * wait <= missing /\ missing < rate * (wait + 1))

\* (missing / rate).ceil().max(1.0)
RoundedUp(missing, rate, wait) == rate * (wait - 1) < missing /\ missing <= rate * wait

Present == {c \in Clients : buckets[c] # NoBucket}

\* retain, when there are too many buckets
Pruned(now) ==
  IF Cardinality(Present) > PRUNE_ABOVE
  THEN [c \in Clients |-> IF c \in Present /\ Elapsed(buckets[c].refreshed, now) < IDLE
                          THEN buckets[c] ELSE NoBucket]
  ELSE buckets

\* entry(client).or_insert
Entered(bucket, limit, now) ==
  IF bucket = NoBucket THEN [tokens |-> limit.burst, refreshed |-> now] ELSE bucket

Told(c, now, limit, wait) == [promised EXCEPT ![c] = [at |-> now + wait, limit |-> limit]]

\* The watched bucket was pruned, or filled and perhaps set back.
WatchPruned(w, now) ==
  IF w.client \in Present /\ Pruned(now)[w.client] = NoBucket
  THEN [w EXCEPT !.mark = Larger(@, now)] ELSE w

WatchChecked(w, c, now, allowed) ==
  IF w.client # c THEN w
  ELSE [w EXCEPT !.mark = now, !.allowed = @ + allowed,
                 !.rewound = @ + Elapsed(now, w.mark)]

-----------------------------------------------------------------------------
\* Instant::now() is read.
Measure(r, c) ==
  /\ measured[r] = Unmeasured
  /\ measured' = [measured EXCEPT ![r] = [client |-> c, at |-> instant]]
  /\ UNCHANGED <<instant, buckets, promised, watch>>

\* The request has the mutex and its client's bucket has a token.
Allow(r, limit) ==
  LET c == measured[r].client
      now == measured[r].at
      tokens == Refilled(Entered(Pruned(now)[c], limit, now), limit, now)
  IN /\ measured[r] # Unmeasured
     /\ tokens >= Unit
     /\ buckets' = [Pruned(now) EXCEPT ![c] = [tokens |-> tokens - Unit, refreshed |-> now]]
     /\ promised' = [promised EXCEPT ![c] = NoPromise]
     /\ watch' = WatchChecked(WatchPruned(watch, now), c, now, 1)
     /\ measured' = [measured EXCEPT ![r] = Unmeasured]
     /\ UNCHANGED instant

\* It has none: 429, with the seconds until it will have one.
Refuse(r, limit, wait) ==
  LET c == measured[r].client
      now == measured[r].at
      tokens == Refilled(Entered(Pruned(now)[c], limit, now), limit, now)
  IN /\ measured[r] # Unmeasured
     /\ tokens < Unit /\ wait >= 1 /\ RoundedUp(Unit - tokens, limit.rate, wait)
     /\ buckets' = [Pruned(now) EXCEPT ![c] = [tokens |-> tokens, refreshed |-> now]]
     /\ promised' = Told(c, now, limit, wait)
     /\ watch' = WatchChecked(WatchPruned(watch, now), c, now, 0)
     /\ measured' = [measured EXCEPT ![r] = Unmeasured]
     /\ UNCHANGED instant

InstantPasses ==
  /\ instant < LastInstant
  /\ instant' = instant + 1
  /\ UNCHANGED <<measured, buckets, promised, watch>>

\* From now on, what is a client allowed?
Watch(c) ==
  /\ watch = NoWatch
  /\ watch' = [NoWatch EXCEPT !.client = c, !.from = instant, !.mark = instant]
  /\ UNCHANGED <<instant, measured, buckets, promised>>

LimiterNext ==
  \/ \E r \in Checks, c \in Clients : Measure(r, c)
  \/ \E r \in Checks, limit \in Limits : Allow(r, limit)
  \/ \E r \in Checks, limit \in Limits, wait \in 1 .. Unit : Refuse(r, limit, wait)
  \/ \E c \in Clients : Watch(c)
  \/ InstantPasses

LimiterSpec == LimiterInit /\ [][LimiterNext]_limiterVars

-----------------------------------------------------------------------------
(* Properties.                                                             *)

LimiterTypeOK ==
  /\ instant \in Instants
  /\ measured \in [Checks -> {Unmeasured} \union [client : Clients, at : Instants]]
  /\ buckets \in [Clients -> {NoBucket} \union [tokens : 0 .. MaxBurst, refreshed : Instants]]
  /\ promised \in [Clients -> {NoPromise} \union [at : Nat, limit : Limits]]
  /\ watch \in {NoWatch} \union
       [client : Clients, from : Instants, mark : Instants, allowed : Nat, rewound : Nat]

\* In no stretch of time is a client allowed more than a burst and the rate
\* times its length, but for the time that requests which reach the bucket
\* later than they were measured set it back by: pruning gives nothing away.
AdmissionBounded ==
  watch.allowed * Unit <= MaxBurst + MaxRate * (instant - watch.from + watch.rewound)

\* A client that was refused and asks again when it was told is allowed, as
\* long as the limit is the same and none of its requests was let in since,
\* whatever requests measured earlier did to its bucket, or pruning.
RetryAfterSuffices ==
  \A c \in Clients :
    LET at == promised[c].at  limit == promised[c].limit IN
    at # Unset => Refilled(Entered(buckets[c], limit, at), limit, at) >= Unit

=============================================================================
