----------------------------- MODULE RateLimiter -----------------------------
(***************************************************************************)
(* _FixedWindowRateLimiter of mcp_http_server.py.  A limiter is a record   *)
(* of the buckets it holds and the time of its last sweep.                 *)
(***************************************************************************)
EXTENDS Integers, Functions

CONSTANTS
  window_sec,   \* RATE_LIMIT_WINDOW_SEC
  SweepWindows  \* _sweep_interval_sec in windows: 5 in the code

ASSUME WindowAssumption == window_sec \in Nat \ {0}
ASSUME SweepAssumption == SweepWindows \in Nat \ {0}

NoBuckets == [k \in {} |-> [count |-> 0, start |-> 0]]
NewLimiter == [buckets |-> NoBuckets, last_sweep |-> 0]

_maybe_sweep(limiter, now) ==
  IF now - limiter.last_sweep < SweepWindows * window_sec THEN limiter
  ELSE [buckets |-> Restrict(limiter.buckets,
                      {k \in DOMAIN limiter.buckets :
                         now - limiter.buckets[k].start < window_sec}),
        last_sweep |-> now]

bucket(limiter, key, now) ==
  IF key \in DOMAIN limiter.buckets THEN limiter.buckets[key]
  ELSE [count |-> 0, start |-> now]

fresh_window(b, now) == now - b.start >= window_sec

(* Mutant: one request over the limit passes.                              *)
AllowsOneMore(limiter, key, limit, now) ==
  LET b == bucket(_maybe_sweep(limiter, now), key, now) IN
  fresh_window(b, now) \/ b.count <= limit

allows(limiter, key, limit, now) ==
  LET b == bucket(_maybe_sweep(limiter, now), key, now) IN
  fresh_window(b, now) \/ b.count < limit

SetBucket(limiter, key, b) ==
  [buckets |-> [k \in DOMAIN limiter.buckets \union {key} |->
                  IF k = key THEN b ELSE limiter.buckets[k]],
   last_sweep |-> limiter.last_sweep]

(* The limiter after allow(key).                                           *)
allow(limiter, key, limit, now) ==
  LET swept == _maybe_sweep(limiter, now)
      b == bucket(swept, key, now) IN
  IF fresh_window(b, now) THEN SetBucket(swept, key, [count |-> 1, start |-> now])
  ELSE IF allows(limiter, key, limit, now)
  THEN SetBucket(swept, key, [count |-> b.count + 1, start |-> b.start])
  ELSE swept
=============================================================================
