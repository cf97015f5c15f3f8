----------------------------- MODULE RateLimit ------------------------------
(***************************************************************************)
(* rate-limit.ts, for the requests of one address: every limited endpoint  *)
(* counts in the same bucket and compares the count with a limit of its    *)
(* own.  The window starts with the first request after the last one.      *)
(***************************************************************************)
EXTENDS Integers, Sequences, FiniteSets

CONSTANTS
  Window,       \* WINDOW_MS
  Limits        \* limits of the endpoints

ASSUME WindowAssumption == Window \in Nat \ {0}
ASSUME LimitsAssumption == Limits \subseteq Nat \ {0}

VARIABLES
  clock,        \* Date.now()
  bucket,       \* the address' entry of the map
  log           \* the requests that came, and whether they were let through

limiter == <<clock, bucket, log>>

\* The map has no entry for the address.
NoBucket == [count |-> 0, resetAt |-> 0]

\* Mutant: the window lasts until its end is over.
Fresh_Late == bucket.resetAt < clock

\* There is no window, or it is over.
Fresh == bucket.resetAt <= clock

\* Mutant: an endpoint compares the count it found.
RateLimited_CountBefore(limit) == ~Fresh /\ bucket.count > limit

\* A request of an endpoint with this limit is answered 429.
RateLimited(limit) == ~Fresh /\ bucket.count + 1 > limit

\* Refused requests are counted too.
CountRequest(limit) ==
  /\ bucket' = IF Fresh THEN [count |-> 1, resetAt |-> clock + Window]
                        ELSE [bucket EXCEPT !.count = @ + 1]
  /\ log' = Append(log, [at |-> clock, limit |-> limit, admitted |-> ~RateLimited(limit)])
  /\ UNCHANGED clock

\* Time passes.
Tick ==
  /\ clock' = clock + 1
  /\ UNCHANGED <<bucket, log>>

\* The requests of the last window.
Recent(t) == {i \in DOMAIN log : log[i].at > t - Window /\ log[i].at <= t}

\* An endpoint lets through at most twice its limit in any stretch as long as a window,
\* whatever else the address asks for.
AtMostTwiceTheLimit ==
  \A t \in 0 .. clock, n \in Limits :
    Cardinality({i \in Recent(t) : log[i].admitted /\ log[i].limit <= n}) <= 2 * n

\* Nobody is refused for what is longer ago than a window, nor below the limit.
RefusalsAreEarned ==
  \A i \in DOMAIN log :
    ~log[i].admitted =>
      Cardinality({j \in Recent(log[i].at) : j < i}) >= log[i].limit
=============================================================================
