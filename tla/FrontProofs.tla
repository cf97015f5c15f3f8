---------------------------- MODULE FrontProofs -----------------------------
(***************************************************************************)
(* Theorems about Front, for any accounts, plans, limits and pages.        *)
(***************************************************************************)
EXTENDS FrontInvariant, ConversionsProofs, FiniteSetTheorems, TLAPS

-----------------------------------------------------------------------------
(* The rate limiter.                                                       *)

\* The rest of an entry, and of a log, is well typed.
LEMMA LogFacts ==
  ASSUME NEW l \in Seq(Entry)
  PROVE  /\ Len(l) \in Nat /\ DOMAIN l = 1 .. Len(l)
         /\ \A i \in DOMAIN l : /\ l[i].at \in Nat
                                /\ l[i].limit \in Nat /\ l[i].limit >= 1
                                /\ l[i].admitted \in BOOLEAN
  <1>1. Len(l) \in Nat /\ DOMAIN l = 1 .. Len(l)
    OBVIOUS
  <1> SUFFICES ASSUME NEW i \in DOMAIN l
               PROVE  /\ l[i].at \in Nat
                      /\ l[i].limit \in Nat /\ l[i].limit >= 1
                      /\ l[i].admitted \in BOOLEAN
    BY <1>1
  <1>2. l[i] \in Entry
    OBVIOUS
  <1>3. l[i].at \in Nat /\ l[i].limit \in Limits /\ l[i].admitted \in BOOLEAN
    BY <1>2 DEF Entry
  <1>4. \A n \in Limits : n \in Nat /\ n >= 1
    BY LimitsAssumption
  <1> QED
    BY <1>3, <1>4

\* What Windows says, of numbers.
LEMMA WindowFacts ==
  ASSUME NEW l \in Seq(Entry), NEW b, NEW start, Windows(l, b, start)
  PROVE  /\ \A i \in 1 .. Len(l) :
              /\ start[i] \in 1 .. i /\ start[i] \in 1 .. Len(l)
              /\ start[start[i]] = start[i]
              /\ l[i].at < l[start[i]].at + Window
              /\ l[i].admitted <=> i - start[i] < l[i].limit
         /\ \A i, j \in 1 .. Len(l) :
              i <= j => /\ l[i].at <= l[j].at
                        /\ start[i] <= start[j]
                        /\ start[i] < start[j] => l[start[j]].at >= l[start[i]].at + Window
         /\ Len(l) > 0 => /\ b.count = Len(l) - start[Len(l)] + 1
                          /\ b.resetAt = l[start[Len(l)]].at + Window
  <1>1. Len(l) \in Nat /\ DOMAIN l = 1 .. Len(l) /\ (Len(l) > 0 => l # <<>>)
    OBVIOUS
  <1>2. \A i \in 1 .. Len(l) :
          /\ start[i] \in 1 .. i /\ start[i] \in 1 .. Len(l)
          /\ start[start[i]] = start[i]
          /\ l[i].at < l[start[i]].at + Window
          /\ l[i].admitted <=> i - start[i] < l[i].limit
    BY <1>1 DEF Windows
  <1>3. \A i \in 1 .. Len(l) : l[i].at \in Nat
    BY <1>1, LogFacts
  <1>4. ASSUME NEW i \in 1 .. Len(l), NEW j \in 1 .. Len(l), i <= j
        PROVE  /\ l[i].at <= l[j].at
               /\ start[i] <= start[j]
               /\ start[i] < start[j] => l[start[j]].at >= l[start[i]].at + Window
    <2>1. CASE i = j
      <3>1. start[i] \in Nat /\ l[i].at \in Nat
        BY <1>2, <1>3
      <3> QED
        BY <2>1, <3>1
    <2>2. CASE i < j
      BY <2>2, <1>1 DEF Windows
    <2> QED
      BY <1>1, <1>4, <2>1, <2>2
  <1>5. Len(l) > 0 => /\ b.count = Len(l) - start[Len(l)] + 1
                      /\ b.resetAt = l[start[Len(l)]].at + Window
    BY <1>1 DEF Windows
  <1> QED
    BY <1>2, <1>4, <1>5

\* What came with a window that is over, or never was, starts a window of its own; anything
\* else belongs to the window of the request before it.
LEMMA CountRequestFits ==
  ASSUME LimiterFits, NEW n \in Limits, CountRequest(n)
  PROVE  LimiterFits'
  <1> DEFINE m == Len(log)
             e == [at |-> clock, limit |-> n, admitted |-> ~RateLimited(n)]
  <1>1. PICK start \in [DOMAIN log -> Nat] : Windows(log, bucket, start)
    BY DEF LimiterFits
  <1>2. clock \in Nat /\ clock' = clock /\ n \in Nat /\ n >= 1 /\ Window \in Nat /\ Window >= 1
    BY LimitsAssumption, WindowAssumption DEF LimiterFits, CountRequest
  <1>3. m \in Nat /\ DOMAIN log = 1 .. m /\ log \in Seq(Entry)
    BY LogFacts DEF LimiterFits
  <1>4. \A i \in 1 .. m : /\ log[i].at \in Nat /\ log[i].at <= clock
                          /\ log[i].limit \in Nat /\ log[i].admitted \in BOOLEAN
    BY <1>3, LogFacts DEF LimiterFits
  <1>19. /\ \A i \in 1 .. m :
              /\ start[i] \in 1 .. i /\ start[i] \in 1 .. m
              /\ start[start[i]] = start[i]
              /\ log[i].at < log[start[i]].at + Window
              /\ log[i].admitted <=> i - start[i] < log[i].limit
         /\ \A i, j \in 1 .. m :
              i <= j => /\ log[i].at <= log[j].at
                        /\ start[i] <= start[j]
                        /\ start[i] < start[j] => log[start[j]].at >= log[start[i]].at + Window
         /\ m > 0 => /\ bucket.count = m - start[m] + 1
                     /\ bucket.resetAt = log[start[m]].at + Window
    BY <1>1, <1>3, WindowFacts
  <1>5. e \in Entry
    BY <1>2 DEF Entry, RateLimited
  <1>6. log' = Append(log, e) /\ log' \in Seq(Entry)
    BY <1>3, <1>5 DEF CountRequest
  <1>7. /\ Len(log') = m + 1 /\ DOMAIN log' = 1 .. m + 1
        /\ \A i \in 1 .. m : log'[i] = log[i]
        /\ log'[m + 1] = e
        /\ log' # <<>>
    BY <1>3, <1>5, <1>6
  <1>8. e.at = clock /\ e.limit = n /\ e.admitted = ~RateLimited(n)
    OBVIOUS
  <1> HIDE DEF e
  <1>9. /\ Fresh => bucket'.count = 1 /\ bucket'.resetAt = clock + Window
        /\ ~Fresh => bucket'.count = bucket.count + 1 /\ bucket'.resetAt = bucket.resetAt
        /\ DOMAIN bucket' = DOMAIN NoBucket
    BY DEF LimiterFits, CountRequest, NoBucket
  <1>10. m > 0 => /\ bucket.count = m - start[m] + 1
                  /\ bucket.resetAt = log[start[m]].at + Window
                  /\ start[m] \in 1 .. m /\ start[start[m]] = start[m]
    <2>1. m > 0 => m \in 1 .. m
      BY <1>3
    <2> QED
      BY <2>1, <1>19
  <1>11. ~Fresh => m > 0
    <2>1. m = 0 => log = <<>>
      BY <1>3
    <2> QED
      BY <2>1, <1>2, <1>3 DEF LimiterFits, Fresh, NoBucket
  <1> DEFINE s == IF Fresh THEN m + 1 ELSE start[m]
             next == [i \in 1 .. m + 1 |-> IF i = m + 1 THEN s ELSE start[i]]
  <1>12. /\ next \in [1 .. m + 1 -> Nat]
         /\ next[m + 1] = s
         /\ \A i \in 1 .. m : next[i] = start[i] /\ start[i] \in 1 .. i
    BY <1>1, <1>3, <1>10, <1>11, <1>19
  <1>13. /\ Fresh => s = m + 1
         /\ ~Fresh => s = start[m] /\ s \in 1 .. m
    BY <1>10, <1>11
  <1> HIDE DEF m, s, next
  <1>14. \A i \in 1 .. m + 1 :
           /\ next[i] \in 1 .. i
           /\ next[next[i]] = next[i]
           /\ log'[i].at < log'[next[i]].at + Window
           /\ log'[i].admitted <=> i - next[i] < log'[i].limit
    <2> SUFFICES ASSUME NEW i \in 1 .. m + 1
                 PROVE  /\ next[i] \in 1 .. i
                        /\ next[next[i]] = next[i]
                        /\ log'[i].at < log'[next[i]].at + Window
                        /\ log'[i].admitted <=> i - next[i] < log'[i].limit
      OBVIOUS
    <2>1. CASE i # m + 1
      <3>1. i \in 1 .. m /\ start[i] \in 1 .. m /\ next[i] = start[i]
        BY <2>1, <1>3, <1>12
      <3>2. next[start[i]] = start[start[i]]
        BY <3>1, <1>12
      <3> QED
        BY <3>1, <3>2, <1>3, <1>7, <1>19
    <2>2. CASE i = m + 1 /\ Fresh
      <3>1. next[i] = i /\ e.admitted
        BY <2>2, <1>8, <1>12, <1>13 DEF RateLimited
      <3> QED
        BY <2>2, <3>1, <1>2, <1>3, <1>7, <1>8
    <2>3. CASE i = m + 1 /\ ~Fresh
      <3>1. next[i] = start[m] /\ start[m] \in 1 .. m /\ next[start[m]] = start[m]
        BY <2>3, <1>3, <1>10, <1>11, <1>12, <1>13
      <3>2. log'[start[m]] = log[start[m]] /\ log[start[m]].at \in Nat
        BY <3>1, <1>4, <1>7
      <3>3. clock < log[start[m]].at + Window
        BY <2>3, <3>2, <1>2, <1>10, <1>11 DEF Fresh
      <3>4. bucket.count = m - start[m] + 1
        BY <2>3, <1>10, <1>11
      <3>5. e.admitted <=> m - start[m] + 2 <= n
        <4>1. e.admitted <=> ~(bucket.count + 1 > n)
          BY <2>3, <1>8 DEF RateLimited
        <4> QED
          BY <4>1, <3>1, <3>4, <1>2, <1>3
      <3> QED
        BY <2>3, <3>1, <3>2, <3>3, <3>5, <1>2, <1>3, <1>7, <1>8
    <2> QED
      BY <2>1, <2>2, <2>3
  <1>15. \A i, j \in 1 .. m + 1 :
           i < j => /\ log'[i].at <= log'[j].at
                    /\ next[i] <= next[j]
                    /\ next[i] < next[j] => log'[next[j]].at >= log'[next[i]].at + Window
    <2> SUFFICES ASSUME NEW i \in 1 .. m + 1, NEW j \in 1 .. m + 1, i < j
                 PROVE  /\ log'[i].at <= log'[j].at
                        /\ next[i] <= next[j]
                        /\ next[i] < next[j] => log'[next[j]].at >= log'[next[i]].at + Window
      OBVIOUS
    <2>1. i \in 1 .. m /\ next[i] = start[i] /\ start[i] \in 1 .. m
      BY <1>3, <1>12
    <2>2. log'[i] = log[i] /\ log'[start[i]] = log[start[i]]
      BY <2>1, <1>7
    <2>3. CASE j # m + 1
      <3>1. j \in 1 .. m /\ next[j] = start[j] /\ start[j] \in 1 .. m
        BY <2>3, <1>3, <1>12
      <3>2. log'[j] = log[j] /\ log'[start[j]] = log[start[j]]
        BY <3>1, <1>7
      <3> QED
        BY <2>1, <2>2, <3>1, <3>2, <1>3, <1>19
    <2>4. CASE j = m + 1
      <3>1. log'[j].at = clock /\ log[i].at <= clock /\ m > 0 /\ start[i] <= start[m]
            /\ (start[i] < start[m] => log[start[m]].at >= log[start[i]].at + Window)
        <4>1. i <= m /\ m > 0 /\ m \in 1 .. m
          BY <2>1, <1>3
        <4>2. log'[j].at = clock /\ log[i].at <= clock
          BY <2>1, <2>4, <1>4, <1>7, <1>8
        <4> QED
          BY <2>1, <4>1, <4>2, <1>19
      <3>2. start[m] \in 1 .. m /\ log[start[m]].at \in Nat /\ log[start[i]].at \in Nat
        BY <2>1, <3>1, <1>4, <1>10
      <3>3. CASE Fresh
        <4>1. next[j] = m + 1 /\ log[start[m]].at + Window <= clock
          BY <2>4, <3>1, <3>3, <1>10, <1>12, <1>13 DEF Fresh
        <4>2. log[start[i]].at + Window <= clock
          <5>1. start[i] = start[m] \/ start[i] < start[m]
            BY <2>1, <3>1, <3>2, <1>3
          <5> QED
            BY <4>1, <5>1, <3>1, <3>2, <1>2
        <4> QED
          BY <2>1, <2>2, <2>4, <3>1, <3>2, <4>1, <4>2, <1>2, <1>3, <1>7, <1>8
      <3>4. CASE ~Fresh
        <4>1. next[j] = start[m] /\ log'[start[m]] = log[start[m]]
          BY <2>4, <3>2, <3>4, <1>7, <1>12, <1>13
        <4> QED
          BY <2>1, <2>2, <3>1, <4>1
      <3> QED
        BY <3>3, <3>4
    <2> QED
      BY <2>3, <2>4
  <1>16. /\ bucket'.count = m + 1 - next[m + 1] + 1
         /\ bucket'.resetAt = log'[next[m + 1]].at + Window
    <2>1. CASE Fresh
      BY <2>1, <1>3, <1>7, <1>8, <1>9, <1>12, <1>13
    <2>2. CASE ~Fresh
      BY <2>2, <1>3, <1>7, <1>9, <1>10, <1>11, <1>12, <1>13
    <2> QED
      BY <2>1, <2>2
  <1>17. Windows(log', bucket', next)
    <2>1. \A i \in DOMAIN log' :
            /\ next[i] \in 1 .. i
            /\ next[next[i]] = next[i]
            /\ log'[i].at < log'[next[i]].at + Window
            /\ log'[i].admitted <=> i - next[i] < log'[i].limit
      BY <1>7, <1>14
    <2>2. \A i, j \in DOMAIN log' :
            i < j => /\ log'[i].at <= log'[j].at
                     /\ next[i] <= next[j]
                     /\ next[i] < next[j] => log'[next[j]].at >= log'[next[i]].at + Window
      BY <1>7, <1>15
    <2>3. /\ bucket'.count = Len(log') - next[Len(log')] + 1
          /\ bucket'.resetAt = log'[next[Len(log')]].at + Window
      BY <1>3, <1>7, <1>12, <1>13, <1>16
    <2> QED
      BY <2>1, <2>2, <2>3 DEF Windows
  <1>18. \A i \in DOMAIN log' : log'[i].at <= clock
    BY <1>2, <1>3, <1>4, <1>7, <1>8
  <1> QED
    BY <1>2, <1>6, <1>7, <1>9, <1>12, <1>17, <1>18 DEF LimiterFits, NoBucket

\* Time leaves the log and the bucket alone.
LEMMA TickFits ==
  ASSUME LimiterFits, Tick
  PROVE  LimiterFits'
  <1>1. clock \in Nat /\ clock' = clock + 1 /\ bucket' = bucket /\ log' = log
    BY DEF LimiterFits, Tick
  <1>2. \A i \in DOMAIN log : log[i].at \in Nat /\ log[i].at <= clock
    BY LogFacts DEF LimiterFits
  <1>3. \A i \in DOMAIN log' : log'[i].at <= clock'
    BY <1>1, <1>2
  <1>4. \E start \in [DOMAIN log' -> Nat] : Windows(log', bucket', start)
    BY <1>1 DEF LimiterFits
  <1> QED
    BY <1>1, <1>3, <1>4 DEF LimiterFits, NoBucket

LEMMA LimiterUnchanged ==
  ASSUME LimiterFits, UNCHANGED limiter
  PROVE  LimiterFits'
  BY DEF LimiterFits, limiter, NoBucket

\* The refused request's window has let its limit through by then.
LEMMA RefusedAfterEnough == LimiterFits => RefusalsAreEarned
  <1> SUFFICES ASSUME LimiterFits, NEW i \in DOMAIN log, ~log[i].admitted
               PROVE  Cardinality({j \in Recent(log[i].at) : j < i}) >= log[i].limit
    BY DEF RefusalsAreEarned
  <1>1. PICK start \in [DOMAIN log -> Nat] : Windows(log, bucket, start)
    BY DEF LimiterFits
  <1>2. /\ Len(log) \in Nat /\ DOMAIN log = 1 .. Len(log) /\ Window \in Nat
        /\ \A j \in DOMAIN log : log[j].at \in Nat /\ log[j].limit \in Nat
    BY LogFacts, WindowAssumption DEF LimiterFits
  <1>3. /\ start[i] \in 1 .. i /\ i - start[i] >= log[i].limit
        /\ log[i].at < log[start[i]].at + Window
    <2>1. start[i] \in 1 .. i /\ ~(i - start[i] < log[i].limit)
          /\ log[i].at < log[start[i]].at + Window
      BY <1>1 DEF Windows
    <2> QED
      BY <2>1, <1>2
  <1> DEFINE earlier == {j \in Recent(log[i].at) : j < i}
             mine == start[i] .. i - 1
  <1>4. ASSUME NEW j \in mine
        PROVE  j \in earlier
    <2>1. j \in DOMAIN log /\ j < i /\ start[i] \in DOMAIN log /\ j >= start[i]
      BY <1>2, <1>3
    <2>2. log[start[i]].at <= log[j].at
      <3>1. j = start[i] \/ start[i] < j
        BY <2>1, <1>2
      <3> QED
        BY <2>1, <3>1, <1>1, <1>2 DEF Windows
    <2>3. log[j].at <= log[i].at
      BY <2>1, <1>1 DEF Windows
    <2>4. log[j].at > log[i].at - Window
      BY <2>1, <2>2, <1>2, <1>3
    <2> QED
      BY <2>1, <2>3, <2>4 DEF Recent
  <1>5. earlier \subseteq 1 .. i
    BY <1>2 DEF Recent
  <1> HIDE DEF earlier
  <1>6. IsFiniteSet(earlier) /\ Cardinality(earlier) \in Nat
    <2>1. i \in Int /\ 1 \in Int
      BY <1>2
    <2>2. IsFiniteSet(1 .. i)
      BY <2>1, FS_Interval
    <2>3. IsFiniteSet(earlier)
      BY <2>2, <1>5, FS_Subset
    <2> QED
      BY <2>3, FS_CardinalityType
  <1>7. Cardinality(mine) = i - start[i]
    BY <1>2, <1>3, FS_Interval
  <1> HIDE DEF mine
  <1>8. Cardinality(mine) <= Cardinality(earlier)
    BY <1>4, <1>6, FS_Subset
  <1>9. Cardinality(earlier) >= log[i].limit
    BY <1>2, <1>3, <1>6, <1>7, <1>8
  <1> QED
    BY <1>9 DEF earlier

\* A stretch as long as a window touches two windows at most, and each lets through its
\* first requests only.
LEMMA TwoWindows == LimiterFits => AtMostTwiceTheLimit
  <1> SUFFICES ASSUME LimiterFits, NEW t \in 0 .. clock, NEW n \in Limits
               PROVE  Cardinality({i \in Recent(t) : log[i].admitted /\ log[i].limit <= n}) <= 2 * n
    BY DEF AtMostTwiceTheLimit
  <1>1. PICK start \in [DOMAIN log -> Nat] : Windows(log, bucket, start)
    BY DEF LimiterFits
  <1>2. /\ Len(log) \in Nat /\ DOMAIN log = 1 .. Len(log) /\ Window \in Nat
        /\ \A j \in DOMAIN log : log[j].at \in Nat /\ log[j].limit \in Nat
    BY LogFacts, WindowAssumption DEF LimiterFits
  <1>3. n \in Nat /\ n >= 1 /\ t \in Nat
    BY LimitsAssumption DEF LimiterFits
  <1> DEFINE passed == {i \in Recent(t) : log[i].admitted /\ log[i].limit <= n}
             first(i) == start[i] .. start[i] + n - 1
  <1>4. \A i \in passed : /\ i \in DOMAIN log /\ start[i] \in 1 .. i
                          /\ log[i].at > t - Window /\ log[i].at <= t
                          /\ i - start[i] < n
    <2> SUFFICES ASSUME NEW i \in passed
                 PROVE  /\ i \in DOMAIN log /\ start[i] \in 1 .. i
                        /\ log[i].at > t - Window /\ log[i].at <= t
                        /\ i - start[i] < n
      OBVIOUS
    <2>1. i \in DOMAIN log /\ log[i].at > t - Window /\ log[i].at <= t
          /\ log[i].admitted /\ log[i].limit <= n
      BY DEF Recent
    <2>2. start[i] \in 1 .. i /\ i - start[i] < log[i].limit
      BY <2>1, <1>1 DEF Windows
    <2> QED
      BY <2>1, <2>2, <1>2, <1>3
  <1> HIDE DEF passed
  <1>5. ASSUME NEW i \in passed, NEW j \in passed, NEW k \in passed
        PROVE  ~(start[i] < start[j] /\ start[j] < start[k])
    <2> SUFFICES ASSUME start[i] < start[j], start[j] < start[k]
                 PROVE  FALSE
      OBVIOUS
    <2>1. /\ i \in DOMAIN log /\ j \in DOMAIN log /\ k \in DOMAIN log
          /\ start[i] \in 1 .. i /\ start[j] \in 1 .. j /\ start[k] \in 1 .. k
          /\ start[j] \in DOMAIN log /\ start[k] \in DOMAIN log
      BY <1>2, <1>4
    <2>2. i < start[j]
      <3> SUFFICES ASSUME i >= start[j]
                   PROVE  FALSE
        BY <2>1, <1>2
      <3>1. start[start[j]] = start[j]
        BY <2>1, <1>1 DEF Windows
      <3>2. start[start[j]] <= start[i]
        <4>1. i = start[j] \/ start[j] < i
          BY <2>1, <1>2
        <4> QED
          BY <2>1, <3>1, <4>1, <1>1 DEF Windows
      <3> QED
        BY <2>1, <3>1, <3>2, <1>2
    <2>3. log[i].at <= log[start[j]].at
      BY <2>1, <2>2, <1>1 DEF Windows
    <2>4. j < k
      <3> SUFFICES ASSUME k <= j
                   PROVE  FALSE
        BY <2>1, <1>2
      <3>1. start[k] <= start[j]
        <4>1. k = j \/ k < j
          BY <2>1, <1>2
        <4> QED
          BY <2>1, <4>1, <1>1 DEF Windows
      <3> QED
        BY <2>1, <3>1, <1>2
    <2>5. log[start[k]].at >= log[start[j]].at + Window
      BY <2>1, <2>4, <1>1 DEF Windows
    <2>6. log[start[k]].at <= log[k].at
      <3>1. start[k] = k \/ start[k] < k
        BY <2>1, <1>2
      <3>2. CASE start[k] = k
        BY <2>1, <3>2, <1>2
      <3>3. CASE start[k] < k
        BY <2>1, <3>3, <1>1 DEF Windows
      <3> QED
        BY <3>1, <3>2, <3>3
    <2>7. log[i].at > t - Window /\ log[k].at <= t
      BY <1>4
    <2> QED
      <3>1. /\ log[i].at \in Nat /\ log[start[j]].at \in Nat
            /\ log[start[k]].at \in Nat /\ log[k].at \in Nat
        BY <2>1, <1>2
      <3>2. Window \in Nat /\ t \in Nat
        BY <1>2, <1>3
      <3> QED
        BY <2>3, <2>5, <2>6, <2>7, <3>1, <3>2
  <1>6. \A i \in passed : i \in first(i)
    BY <1>2, <1>3, <1>4
  <1>7. \A i \in passed : IsFiniteSet(first(i)) /\ Cardinality(first(i)) = n
    <2> TAKE i \in passed
    <2>1. start[i] \in Int /\ start[i] + n - 1 \in Int /\ start[i] <= start[i] + n - 1
      BY <1>2, <1>3, <1>4
    <2>2. IsFiniteSet(first(i)) /\ Cardinality(first(i)) = (start[i] + n - 1) - start[i] + 1
      BY <2>1, FS_Interval
    <2> QED
      BY <2>1, <2>2, <1>3, <1>2, <1>4
  <1>8. CASE passed = {}
    <2>1. Cardinality(passed) = 0
      BY <1>8, FS_EmptySet
    <2>2. Cardinality(passed) <= 2 * n
      BY <2>1, <1>3
    <2> QED
      BY <2>2 DEF passed
  <1>9. CASE passed # {}
    <2>1. PICK i \in passed : TRUE
      BY <1>9
    <2>2. \E j \in passed : \A k \in passed : start[k] = start[i] \/ start[k] = start[j]
      <3>1. CASE \A k \in passed : start[k] = start[i]
        BY <2>1, <3>1
      <3>2. CASE \E j \in passed : start[j] # start[i]
        <4>1. PICK j \in passed : start[j] # start[i]
          BY <3>2
        <4>2. ASSUME NEW k \in passed
              PROVE  start[k] = start[i] \/ start[k] = start[j]
          <5>1. start[i] \in Nat /\ start[j] \in Nat /\ start[k] \in Nat
            BY <1>4
          <5>2. /\ ~(start[i] < start[j] /\ start[j] < start[k])
                /\ ~(start[i] < start[k] /\ start[k] < start[j])
                /\ ~(start[j] < start[i] /\ start[i] < start[k])
                /\ ~(start[j] < start[k] /\ start[k] < start[i])
                /\ ~(start[k] < start[i] /\ start[i] < start[j])
                /\ ~(start[k] < start[j] /\ start[j] < start[i])
            BY <1>5, <2>1, <4>1
          <5> QED
            BY <4>1, <5>1, <5>2
        <4> QED
          BY <4>1, <4>2
      <3> QED
        BY <3>1, <3>2
    <2>3. PICK j \in passed : \A k \in passed : start[k] = start[i] \/ start[k] = start[j]
      BY <2>2
    <2>4. passed \subseteq (first(i) \cup first(j))
      BY <2>3, <1>6
    <2> DEFINE A == first(i)
               B == first(j)
    <2>5. IsFiniteSet(A) /\ IsFiniteSet(B) /\ Cardinality(A) = n /\ Cardinality(B) = n
      BY <1>7
    <2>6. passed \subseteq (A \cup B)
      BY <2>4
    <2> HIDE DEF A, B
    <2>7. /\ IsFiniteSet(A \cup B)
          /\ Cardinality(A \cup B) = Cardinality(A) + Cardinality(B) - Cardinality(A \cap B)
      BY <2>5, FS_Union
    <2>8. Cardinality(A \cap B) \in Nat
      BY <2>5, FS_Intersection, FS_CardinalityType
    <2>9. Cardinality(passed) <= Cardinality(A \cup B) /\ Cardinality(passed) \in Nat
      BY <2>6, <2>7, FS_Subset, FS_CardinalityType
    <2>10. Cardinality(passed) <= 2 * n
      BY <2>5, <2>7, <2>8, <2>9, <1>3
    <2> QED
      BY <2>10 DEF passed
  <1> QED
    BY <1>8, <1>9

-----------------------------------------------------------------------------
(* The pages of an account.                                                *)

DeskInv == DeskFits /\ ClosedForGoodWithoutOverlap /\ ReversedOnceWithoutOverlap

\* A call's fields.
LEMMA CallFacts ==
  ASSUME NEW c \in Seq(Call)
  PROVE  /\ Len(c) \in Nat /\ DOMAIN c = 1 .. Len(c)
         /\ \A i \in DOMAIN c : /\ c[i] \in Call
                                /\ c[i].op \in DeskOps
                                /\ c[i].stage \in {"sent", "looked", "served"}
                                /\ c[i].done \in BOOLEAN
  <1>1. Len(c) \in Nat /\ DOMAIN c = 1 .. Len(c) /\ \A i \in DOMAIN c : c[i] \in Call
    OBVIOUS
  <1>2. \A r \in Call : /\ r.op \in DeskOps /\ r.stage \in {"sent", "looked", "served"}
                        /\ r.done \in BOOLEAN
    BY DEF Call
  <1> QED
    BY <1>1, <1>2

\* The parts of the invariant, spelled out.
LEMMA DeskParts ==
  ASSUME DeskInv
  PROVE  /\ account \in Account
         /\ calls \in Seq(Call)
         /\ \A i \in DOMAIN calls : calls[i].met \subseteq DOMAIN calls
         /\ \A i \in DOMAIN calls : calls[i].done => calls[i].stage = "served"
         /\ \A i, j \in Underway : i # j => i \in calls[j].met
         /\ \A i \in Underway : Alone(i) => StillMay(calls[i].op)
         /\ \A i \in DOMAIN calls, j \in Underway :
              calls[i].done /\ calls[j].op \in Undoes(calls[i].op) /\ Alone(i) => j \in calls[i].met
         /\ ClosedForGoodWithoutOverlap
         /\ ReversedOnceWithoutOverlap
  <1>1. DeskFits /\ ClosedForGoodWithoutOverlap /\ ReversedOnceWithoutOverlap
    BY DEF DeskInv
  <1>2. \A i \in DOMAIN calls : /\ calls[i].met \subseteq DOMAIN calls
                                /\ calls[i].done => calls[i].stage = "served"
    BY <1>1, Zenon DEF DeskFits
  <1>3. /\ \A i \in DOMAIN calls : calls[i].met \subseteq DOMAIN calls
        /\ \A i \in DOMAIN calls : calls[i].done => calls[i].stage = "served"
    BY <1>2
  <1>4. account \in Account /\ calls \in Seq(Call)
    BY <1>1 DEF DeskFits
  <1>5. \A i, j \in Underway : i # j => i \in calls[j].met
    BY <1>1 DEF DeskFits
  <1>6. \A i \in Underway : Alone(i) => StillMay(calls[i].op)
    BY <1>1 DEF DeskFits
  <1>7. \A i \in DOMAIN calls, j \in Underway :
          calls[i].done /\ calls[j].op \in Undoes(calls[i].op) /\ Alone(i) => j \in calls[i].met
    BY <1>1 DEF DeskFits
  <1> QED
    BY <1>1, <1>3, <1>4, <1>5, <1>6, <1>7

\* Steps that change neither the account nor what the calls did and whom they met: a call
\* comes, is refused, fails or is answered.
LEMMA QuietStepFits ==
  ASSUME DeskInv, account' = account, calls' \in Seq(Call),
         DOMAIN calls \subseteq DOMAIN calls',
         \A i \in DOMAIN calls : /\ calls'[i].op = calls[i].op
                                 /\ calls'[i].done = calls[i].done
                                 /\ calls'[i].met = calls[i].met
                                 /\ calls'[i].stage \in {calls[i].stage, "served"},
         \A i \in DOMAIN calls' \ DOMAIN calls :
           calls'[i].stage = "sent" /\ ~calls'[i].done /\ calls'[i].met = {}
  PROVE  DeskInv'
  <1>0. /\ account \in Account
        /\ \A i \in DOMAIN calls : calls[i].met \subseteq DOMAIN calls
        /\ \A i \in DOMAIN calls : calls[i].done => calls[i].stage = "served"
        /\ \A i, j \in Underway : i # j => i \in calls[j].met
        /\ \A i \in Underway : Alone(i) => StillMay(calls[i].op)
        /\ \A i \in DOMAIN calls, j \in Underway :
             calls[i].done /\ calls[j].op \in Undoes(calls[i].op) /\ Alone(i) => j \in calls[i].met
    BY DeskParts
  <1>1. \A i \in Underway' : /\ i \in DOMAIN calls /\ i \in Underway /\ i \in DOMAIN calls'
                             /\ calls'[i].op = calls[i].op /\ calls'[i].met = calls[i].met
    <2> SUFFICES ASSUME NEW i \in DOMAIN calls', calls'[i].stage = "looked"
                 PROVE  i \in DOMAIN calls /\ calls[i].stage = "looked"
      BY DEF Underway
    <2>1. i \in DOMAIN calls
      OBVIOUS
    <2>2. calls'[i].stage \in {calls[i].stage, "served"}
      BY <2>1
    <2> QED
      BY <2>1, <2>2
  <1>2. \A i \in DOMAIN calls : Alone(i)' <=> Alone(i)
    <2> SUFFICES ASSUME NEW i \in DOMAIN calls
                 PROVE  Alone(i)' <=> Alone(i)
      OBVIOUS
    <2>1. calls'[i].met = calls[i].met /\ \A j \in calls[i].met : calls'[j].done = calls[j].done
      BY <1>0
    <2> QED
      BY <2>1 DEF Alone
  <1>3. \A i \in DOMAIN calls' :
          calls'[i].done => /\ i \in DOMAIN calls /\ calls[i].done
                            /\ calls'[i].op = calls[i].op /\ calls'[i].met = calls[i].met
    OBVIOUS
  <1>4. GivenBack => GivenBack'
    BY DEF GivenBack
  <1>5. account' \in Account /\ calls' \in Seq(Call)
    BY <1>0
  <1>6. \A i \in DOMAIN calls' : /\ calls'[i].met \subseteq DOMAIN calls'
                                 /\ calls'[i].done => calls'[i].stage = "served"
    <2> SUFFICES ASSUME NEW i \in DOMAIN calls'
                 PROVE  /\ calls'[i].met \subseteq DOMAIN calls'
                        /\ calls'[i].done => calls'[i].stage = "served"
      OBVIOUS
    <2>1. CASE i \in DOMAIN calls
      <3>1. calls[i].met \subseteq DOMAIN calls /\ calls'[i].met = calls[i].met
        BY <2>1, <1>0
      <3>2. calls'[i].done => calls[i].stage = "served" /\ calls'[i].stage \in {calls[i].stage, "served"}
        BY <2>1, <1>0
      <3> QED
        BY <3>1, <3>2
    <2>2. CASE i \notin DOMAIN calls
      BY <2>2
    <2> QED
      BY <2>1, <2>2
  <1>7. \A i, j \in Underway' : i # j => i \in calls'[j].met
    BY <1>0, <1>1
  <1>8. \A i \in Underway' : Alone(i)' => StillMay(calls[i].op)'
    <2> SUFFICES ASSUME NEW i \in Underway', Alone(i)'
                 PROVE  StillMay(calls[i].op)'
      OBVIOUS
    <2>1. StillMay(calls[i].op) /\ calls'[i].op = calls[i].op
      BY <1>0, <1>1, <1>2
    <2> QED
      BY <2>1 DEF StillMay, MayReverse, MayBlock, MayClose, MayMoveMoney, MayChangeStatus
  <1>9. \A i \in DOMAIN calls', j \in Underway' :
          calls'[i].done /\ calls'[j].op \in Undoes(calls'[i].op) /\ Alone(i)'
            => j \in calls'[i].met
    BY <1>0, <1>1, <1>2, <1>3
  <1>10. DeskFits'
    BY <1>5, <1>6, <1>7, <1>8, <1>9 DEF DeskFits
  <1>11. ClosedForGoodWithoutOverlap'
    BY <1>2, <1>3, <1>4 DEF DeskInv, ClosedForGoodWithoutOverlap
  <1>12. ReversedOnceWithoutOverlap'
    BY <1>2, <1>3 DEF DeskInv, ReversedOnceWithoutOverlap
  <1> QED
    BY <1>10, <1>11, <1>12 DEF DeskInv

\* A call that has looked meets the calls between their transactions, and they meet it.
LEMMA LookFits ==
  ASSUME DeskInv, NEW w \in DOMAIN calls, NEW op \in DeskOps, StillMay(op),
         calls[w].stage = "sent", calls[w].op = op, account' = account,
         calls' = [j \in DOMAIN calls |->
                     IF j = w THEN [calls[w] EXCEPT !.stage = "looked", !.met = Underway]
                     ELSE IF j \in Underway THEN [calls[j] EXCEPT !.met = @ \cup {w}]
                     ELSE calls[j]]
  PROVE  DeskInv'
  <1>0. /\ account \in Account
        /\ calls \in Seq(Call)
        /\ \A i \in DOMAIN calls : calls[i].met \subseteq DOMAIN calls
        /\ \A i \in DOMAIN calls : calls[i].done => calls[i].stage = "served"
        /\ \A i, j \in Underway : i # j => i \in calls[j].met
        /\ \A i \in Underway : Alone(i) => StillMay(calls[i].op)
        /\ \A i \in DOMAIN calls, j \in Underway :
             calls[i].done /\ calls[j].op \in Undoes(calls[i].op) /\ Alone(i) => j \in calls[i].met
        /\ ClosedForGoodWithoutOverlap
        /\ ReversedOnceWithoutOverlap
    BY DeskParts
  <1>1. Underway \subseteq DOMAIN calls /\ \A i \in Underway : calls[i].stage = "looked"
    BY DEF Underway
  <1>2. DOMAIN calls = 1 .. Len(calls) /\ Len(calls) \in Nat /\ Underway \in SUBSET Nat
    BY <1>0, <1>1, CallFacts
  <1>3. calls' \in Seq(Call) /\ DOMAIN calls' = DOMAIN calls
    <2>1. ASSUME NEW j \in DOMAIN calls
          PROVE  calls'[j] \in Call
      <3>1. calls[j] \in Call /\ j \in Nat
        BY <1>0, <1>2, CallFacts
      <3>2. CASE j = w
        <4>1. calls'[j] = [calls[j] EXCEPT !.stage = "looked", !.met = Underway]
          BY <3>2
        <4> QED
          BY <4>1, <3>1, <1>2 DEF Call
      <3>3. CASE j # w /\ j \in Underway
        <4>1. calls'[j] = [calls[j] EXCEPT !.met = @ \cup {w}] /\ w \in Nat
          BY <3>3, <1>2
        <4> QED
          BY <4>1, <3>1 DEF Call
      <3>4. CASE j # w /\ j \notin Underway
        BY <3>1, <3>4
      <3> QED
        BY <3>2, <3>3, <3>4
    <2> QED
      BY <2>1, <1>2
  <1>4. \A j \in DOMAIN calls :
          /\ calls'[j].op = calls[j].op
          /\ calls'[j].done = calls[j].done
          /\ calls'[j].stage = IF j = w THEN "looked" ELSE calls[j].stage
          /\ calls'[j].met = IF j = w THEN Underway
                             ELSE IF j \in Underway THEN calls[j].met \cup {w} ELSE calls[j].met
    <2> SUFFICES ASSUME NEW j \in DOMAIN calls
                 PROVE  /\ calls'[j].op = calls[j].op
                        /\ calls'[j].done = calls[j].done
                        /\ calls'[j].stage = IF j = w THEN "looked" ELSE calls[j].stage
                        /\ calls'[j].met = IF j = w THEN Underway
                             ELSE IF j \in Underway THEN calls[j].met \cup {w} ELSE calls[j].met
      OBVIOUS
    <2>1. calls[j] \in Call
      BY <1>0, CallFacts
    <2>2. CASE j = w
      BY <2>1, <2>2 DEF Call
    <2>3. CASE j # w /\ j \in Underway
      BY <2>1, <2>3 DEF Call
    <2>4. CASE j # w /\ j \notin Underway
      BY <2>4
    <2> QED
      BY <2>2, <2>3, <2>4
  <1>5. w \notin Underway /\ ~calls[w].done /\ ~calls'[w].done
    BY <1>0, <1>1, <1>4
  <1>6. Underway' = Underway \cup {w}
    BY <1>1, <1>3, <1>4 DEF Underway
  <1>7. \A i \in DOMAIN calls : i # w /\ Alone(i)' => Alone(i)
    <2> SUFFICES ASSUME NEW i \in DOMAIN calls, i # w, Alone(i)', NEW j \in calls[i].met
                 PROVE  ~calls[j].done
      BY DEF Alone
    <2>1. j \in DOMAIN calls /\ j \in calls'[i].met
      BY <1>0, <1>4
    <2> QED
      BY <2>1, <1>4 DEF Alone
  <1>8. \A i \in DOMAIN calls' :
          calls'[i].done => /\ i \in DOMAIN calls /\ i # w /\ i \notin Underway /\ calls[i].done
                            /\ calls'[i].op = calls[i].op /\ calls'[i].met = calls[i].met
    <2> SUFFICES ASSUME NEW i \in DOMAIN calls, calls'[i].done
                 PROVE  /\ i # w /\ i \notin Underway /\ calls[i].done
                        /\ calls'[i].op = calls[i].op /\ calls'[i].met = calls[i].met
      BY <1>3
    <2>1. i # w /\ calls[i].done /\ calls[i].stage = "served"
      BY <1>0, <1>4, <1>5
    <2>2. i \notin Underway
      BY <2>1, <1>1
    <2> QED
      BY <2>1, <2>2, <1>4
  <1>9. \A i \in DOMAIN calls' : /\ calls'[i].met \subseteq DOMAIN calls'
                                 /\ calls'[i].done => calls'[i].stage = "served"
    <2>1. \A i \in DOMAIN calls : calls'[i].met \subseteq DOMAIN calls
      BY <1>0, <1>1, <1>4
    <2>2. \A i \in DOMAIN calls : calls'[i].done => calls'[i].stage = "served"
      BY <1>0, <1>3, <1>4, <1>8
    <2> QED
      BY <2>1, <2>2, <1>3
  <1>10. \A i, j \in Underway' : i # j => i \in calls'[j].met
    BY <1>0, <1>1, <1>4, <1>5, <1>6
  <1>11. \A i \in Underway' : Alone(i)' => StillMay(calls[i].op)'
    <2> SUFFICES ASSUME NEW i \in Underway', Alone(i)'
                 PROVE  StillMay(calls[i].op)'
      OBVIOUS
    <2>1. StillMay(calls[i].op) /\ calls'[i].op = calls[i].op
      BY <1>0, <1>1, <1>4, <1>6, <1>7
    <2> QED
      BY <2>1 DEF StillMay, MayReverse, MayBlock, MayClose, MayMoveMoney, MayChangeStatus
  <1>12. ASSUME NEW i \in DOMAIN calls, calls[i].done, Alone(i)
         PROVE  op \notin Undoes(calls[i].op)
    <2>1. CASE calls[i].op = "close"
      <3>1. account.status = "CLOSED"
        BY <2>1, <1>0, <1>12 DEF ClosedForGoodWithoutOverlap
      <3>2. op \notin {"fund", "debit"}
        BY <3>1 DEF StillMay, MayMoveMoney
      <3>3. op \notin StatusOps
        BY <3>1 DEF StillMay, MayChangeStatus, ValidTransitions
      <3> QED
        BY <2>1, <3>2, <3>3 DEF Undoes
    <2>2. CASE calls[i].op = "reverse"
      <3>1. account.transfer = "REVERSED"
        BY <2>2, <1>0, <1>12 DEF ReversedOnceWithoutOverlap
      <3>2. op \notin TransferOps
        BY <3>1 DEF StillMay, MayBlock, MayReverse, TransferOps
      <3> QED
        BY <2>2, <3>2 DEF Undoes
    <2>3. CASE calls[i].op \notin {"close", "reverse"}
      BY <2>3 DEF Undoes
    <2> QED
      BY <2>1, <2>2, <2>3
  <1>13. \A i \in DOMAIN calls', j \in Underway' :
          calls'[i].done /\ calls'[j].op \in Undoes(calls'[i].op) /\ Alone(i)'
            => j \in calls'[i].met
    <2> SUFFICES ASSUME NEW i \in DOMAIN calls', NEW j \in Underway',
                        calls'[i].done, calls'[j].op \in Undoes(calls'[i].op), Alone(i)'
                 PROVE  j \in calls'[i].met
      OBVIOUS
    <2>1. /\ i \in DOMAIN calls /\ i # w /\ calls[i].done /\ Alone(i)
          /\ calls'[i].op = calls[i].op /\ calls'[i].met = calls[i].met
      BY <1>7, <1>8
    <2>2. calls[j].op \in Undoes(calls[i].op) /\ (j \in Underway \/ j = w)
      BY <2>1, <1>1, <1>4, <1>6
    <2>3. j # w
      BY <2>1, <2>2, <1>12
    <2> QED
      BY <2>1, <2>2, <2>3, <1>0
  <1>14. DeskFits'
    BY <1>0, <1>3, <1>9, <1>10, <1>11, <1>13 DEF DeskFits
  <1>15. GivenBack => GivenBack'
    BY <1>3, <1>4 DEF GivenBack
  <1>16. ClosedForGoodWithoutOverlap'
    BY <1>0, <1>7, <1>8, <1>15 DEF ClosedForGoodWithoutOverlap
  <1>17. ReversedOnceWithoutOverlap'
    BY <1>0, <1>7, <1>8 DEF ReversedOnceWithoutOverlap
  <1> QED
    BY <1>14, <1>16, <1>17 DEF DeskInv

\* What a call of this kind does to the account.
Does(op, new) ==
  /\ new \in Account
  /\ op = "close" => new.status = "CLOSED"
  /\ op = "reverse" => new.transfer = "REVERSED"
  /\ op \notin StatusOps => new.status = account.status
  /\ op \notin TransferOps => new.transfer = account.transfer
  /\ op \notin {"fund", "debit", "reverse"} => new.balance = account.balance

\* Whoever is between its transactions has met the call that writes, so it is alone no more;
\* and what was done alone is not undone by a call that had to meet it.
LEMMA WriteFits ==
  ASSUME DeskInv, NEW w \in DOMAIN calls, NEW op \in DeskOps, Does(op, account'),
         calls[w].stage = "looked", calls[w].op = op,
         calls' = [calls EXCEPT ![w].stage = "served", ![w].done = TRUE]
  PROVE  DeskInv'
  <1>0. /\ account \in Account
        /\ calls \in Seq(Call)
        /\ \A i \in DOMAIN calls : calls[i].met \subseteq DOMAIN calls
        /\ \A i \in DOMAIN calls : calls[i].done => calls[i].stage = "served"
        /\ \A i, j \in Underway : i # j => i \in calls[j].met
        /\ \A i \in Underway : Alone(i) => StillMay(calls[i].op)
        /\ \A i \in DOMAIN calls, j \in Underway :
             calls[i].done /\ calls[j].op \in Undoes(calls[i].op) /\ Alone(i) => j \in calls[i].met
        /\ ClosedForGoodWithoutOverlap
        /\ ReversedOnceWithoutOverlap
    BY DeskParts
  <1>1. w \in Underway /\ Underway \subseteq DOMAIN calls
        /\ \A i \in Underway : calls[i].stage = "looked"
    BY DEF Underway
  <1>2. calls[w] \in Call /\ DOMAIN calls = 1 .. Len(calls) /\ Len(calls) \in Nat
    BY <1>0, CallFacts
  <1>3. DOMAIN calls' = DOMAIN calls /\ calls' \in Seq(Call)
    <2>1. [calls[w] EXCEPT !.stage = "served", !.done = TRUE] \in Call
      BY <1>2 DEF Call
    <2>2. calls'[w] = [calls[w] EXCEPT !.stage = "served", !.done = TRUE]
      BY <1>2
    <2>3. \A j \in DOMAIN calls : calls'[j] \in Call
      <3> SUFFICES ASSUME NEW j \in DOMAIN calls, j # w
                   PROVE  calls'[j] \in Call
        BY <2>1, <2>2
      <3>1. calls'[j] = calls[j]
        OBVIOUS
      <3> QED
        BY <3>1, <1>0, CallFacts
    <2>4. calls' = [j \in DOMAIN calls |-> calls'[j]]
      OBVIOUS
    <2>5. DOMAIN calls' = DOMAIN calls
      OBVIOUS
    <2>6. calls \in Seq(Call) /\ DOMAIN calls = 1 .. Len(calls) /\ Len(calls) \in Nat
      BY <1>0, <1>2
    <2>7. calls' \in Seq(Call)
      BY <2>3, <2>4, <2>6
    <2> QED
      BY <2>5, <2>7
  <1>4. \A j \in DOMAIN calls :
          /\ calls'[j].op = calls[j].op
          /\ calls'[j].met = calls[j].met
          /\ calls'[j].done = IF j = w THEN TRUE ELSE calls[j].done
          /\ calls'[j].stage = IF j = w THEN "served" ELSE calls[j].stage
    <2> SUFFICES ASSUME NEW j \in DOMAIN calls
                 PROVE  /\ calls'[j].op = calls[j].op
                        /\ calls'[j].met = calls[j].met
                        /\ calls'[j].done = IF j = w THEN TRUE ELSE calls[j].done
                        /\ calls'[j].stage = IF j = w THEN "served" ELSE calls[j].stage
      OBVIOUS
    <2>1. CASE j = w
      BY <2>1, <1>2 DEF Call
    <2>2. CASE j # w
      BY <2>2
    <2> QED
      BY <2>1, <2>2
  <1>5. Underway' = Underway \ {w}
    BY <1>1, <1>3, <1>4 DEF Underway
  <1>6. \A i \in DOMAIN calls : Alone(i)' => Alone(i) /\ w \notin calls[i].met
    <2> SUFFICES ASSUME NEW i \in DOMAIN calls, Alone(i)'
                 PROVE  /\ w \notin calls[i].met
                        /\ \A j \in calls[i].met : ~calls[j].done
      BY DEF Alone
    <2>1. \A j \in calls[i].met : j \in DOMAIN calls /\ ~calls'[j].done
      BY <1>0, <1>4 DEF Alone
    <2> QED
      BY <2>1, <1>4
  <1>7. \A i \in DOMAIN calls' : /\ calls'[i].met \subseteq DOMAIN calls'
                                 /\ calls'[i].done => calls'[i].stage = "served"
    <2>1. \A i \in DOMAIN calls : calls'[i].met \subseteq DOMAIN calls
      BY <1>0, <1>4
    <2>2. \A i \in DOMAIN calls : calls'[i].done => calls'[i].stage = "served"
      BY <1>0, <1>4
    <2> QED
      BY <2>1, <2>2, <1>3
  <1>8. \A i, j \in Underway' : i # j => i \in calls'[j].met
    BY <1>0, <1>1, <1>4, <1>5
  <1>9. \A i \in Underway' : Alone(i)' => StillMay(calls[i].op)'
    BY <1>0, <1>1, <1>5, <1>6
  <1>10. \A i \in DOMAIN calls', j \in Underway' :
          calls'[i].done /\ calls'[j].op \in Undoes(calls'[i].op) /\ Alone(i)'
            => j \in calls'[i].met
    <2> SUFFICES ASSUME NEW i \in DOMAIN calls', NEW j \in Underway',
                        calls'[i].done, calls'[j].op \in Undoes(calls'[i].op), Alone(i)'
                 PROVE  j \in calls'[i].met
      OBVIOUS
    <2>1. i \in DOMAIN calls /\ j \in Underway /\ j # w /\ Alone(i)
          /\ calls[j].op \in Undoes(calls[i].op) /\ calls'[i].met = calls[i].met
      BY <1>1, <1>3, <1>4, <1>5, <1>6
    <2>2. CASE i = w
      BY <2>1, <2>2, <1>0, <1>1
    <2>3. CASE i # w
      BY <2>1, <2>3, <1>0, <1>4
    <2> QED
      BY <2>2, <2>3
  <1>11. DeskFits'
    <2>1. account' \in Account
      BY DEF Does
    <2> QED
      BY <2>1, <1>3, <1>7, <1>8, <1>9, <1>10 DEF DeskFits
  <1>12. ASSUME NEW i \in DOMAIN calls, i # w, calls[i].done, Alone(i)'
         PROVE  op \notin Undoes(calls[i].op)
    BY <1>12, <1>0, <1>1, <1>6
  <1>13. ClosedForGoodWithoutOverlap'
    <2> SUFFICES ASSUME NEW i \in DOMAIN calls', calls'[i].op = "close", calls'[i].done, Alone(i)'
                 PROVE  /\ account'.status = "CLOSED"
                        /\ account'.balance = 0 \/ GivenBack'
      BY DEF ClosedForGoodWithoutOverlap
    <2>1. i \in DOMAIN calls /\ calls[i].op = "close" /\ Alone(i)
      BY <1>3, <1>4, <1>6
    <2>2. CASE i = w
      <3>1. StillMay("close")
        BY <2>1, <2>2, <1>0, <1>1
      <3>2. account.balance = 0
        BY <3>1 DEF StillMay, MayClose
      <3> QED
        BY <2>1, <2>2, <3>2 DEF Does
    <2>3. CASE i # w
      <3>1. calls[i].done /\ account.status = "CLOSED" /\ (account.balance = 0 \/ GivenBack)
        BY <2>1, <2>3, <1>0, <1>4 DEF ClosedForGoodWithoutOverlap
      <3>2. op \notin StatusOps /\ op \notin {"fund", "debit"}
        BY <2>1, <2>3, <3>1, <1>12 DEF Undoes
      <3>3. GivenBack => GivenBack'
        BY <1>3, <1>4 DEF GivenBack
      <3>4. op = "reverse" => GivenBack'
        BY <1>3, <1>4 DEF GivenBack
      <3> QED
        BY <3>1, <3>2, <3>3, <3>4 DEF Does
    <2> QED
      BY <2>2, <2>3
  <1>14. ReversedOnceWithoutOverlap'
    <2> SUFFICES ASSUME NEW i \in DOMAIN calls', calls'[i].op = "reverse", calls'[i].done, Alone(i)'
                 PROVE  /\ account'.transfer = "REVERSED"
                        /\ \A j \in DOMAIN calls' :
                             calls'[j].op = "reverse" /\ calls'[j].done /\ j # i => ~Alone(j)'
      BY DEF ReversedOnceWithoutOverlap
    <2>1. i \in DOMAIN calls /\ calls[i].op = "reverse" /\ Alone(i)
      BY <1>3, <1>4, <1>6
    <2>2. CASE i = w
      <3>1. account'.transfer = "REVERSED"
        BY <2>1, <2>2 DEF Does
      <3>2. ASSUME NEW j \in DOMAIN calls', calls'[j].op = "reverse", calls'[j].done, j # i, Alone(j)'
            PROVE  FALSE
        <4>1. op \notin Undoes("reverse")
          BY <2>2, <3>2, <1>3, <1>4, <1>12
        <4> QED
          BY <2>1, <2>2, <4>1 DEF Undoes, TransferOps
      <3> QED
        BY <3>1, <3>2
    <2>3. CASE i # w
      <3>1. op \notin TransferOps
        BY <2>1, <2>3, <1>4, <1>12 DEF Undoes
      <3>2. account.transfer = "REVERSED"
        BY <2>1, <2>3, <1>0, <1>4 DEF ReversedOnceWithoutOverlap
      <3>3. ASSUME NEW j \in DOMAIN calls', calls'[j].op = "reverse", calls'[j].done, j # i, Alone(j)'
            PROVE  FALSE
        <4>1. j \in DOMAIN calls /\ j # w /\ calls[j].op = "reverse" /\ calls[j].done /\ Alone(j)
          BY <3>1, <3>3, <1>3, <1>4, <1>6 DEF TransferOps
        <4> QED
          BY <2>1, <2>3, <3>3, <4>1, <1>0, <1>4 DEF ReversedOnceWithoutOverlap
      <3> QED
        BY <3>1, <3>2, <3>3 DEF Does
    <2> QED
      BY <2>2, <2>3
  <1> QED
    BY <1>11, <1>13, <1>14 DEF DeskInv

\* A call comes from a page.
LEMMA PressFits ==
  ASSUME DeskInv, NEW p \in Pages, NEW op \in DeskOps, Press(p, op)
  PROVE  DeskInv'
  <1> DEFINE c == [page |-> p, op |-> op, stage |-> "sent", done |-> FALSE,
                   heard |-> FALSE, silent |-> FALSE, met |-> {}]
  <1>1. account' = account /\ calls' = Append(calls, c) /\ calls \in Seq(Call)
    BY DeskParts DEF Press
  <1>2. c \in Call
    BY DEF Call
  <1>3. c.stage = "sent" /\ ~c.done /\ c.met = {}
    OBVIOUS
  <1> HIDE DEF c
  <1>4. /\ calls' \in Seq(Call) /\ Len(calls) \in Nat /\ DOMAIN calls = 1 .. Len(calls)
        /\ DOMAIN calls' = 1 .. Len(calls) + 1
        /\ \A i \in 1 .. Len(calls) : calls'[i] = calls[i]
        /\ calls'[Len(calls) + 1] = c
    BY <1>1, <1>2
  <1>5. \A i \in DOMAIN calls : /\ calls'[i].op = calls[i].op
                                /\ calls'[i].done = calls[i].done
                                /\ calls'[i].met = calls[i].met
                                /\ calls'[i].stage \in {calls[i].stage, "served"}
    BY <1>4
  <1>6. \A i \in DOMAIN calls' \ DOMAIN calls :
          calls'[i].stage = "sent" /\ ~calls'[i].done /\ calls'[i].met = {}
    <2> TAKE i \in DOMAIN calls' \ DOMAIN calls
    <2>1. i = Len(calls) + 1
      <3>1. i \in 1 .. Len(calls) + 1 /\ i \notin 1 .. Len(calls) /\ Len(calls) \in Nat
        BY <1>4
      <3> QED
        BY <3>1
    <2>2. calls'[i] = c
      BY <2>1, <1>4
    <2> QED
      BY <2>2, <1>3
  <1>7. DOMAIN calls \subseteq DOMAIN calls'
    BY <1>4
  <1> QED
    BY <1>1, <1>4, <1>5, <1>6, <1>7, QuietStepFits

\* A call is refused or fails, or its answer arrives or is lost.
LEMMA AnswerFits ==
  ASSUME DeskInv, NEW w \in DOMAIN calls, account' = account,
         \/ Refuse(w)
         \/ calls' = [calls EXCEPT ![w].heard = TRUE]
         \/ calls' = [calls EXCEPT ![w].silent = TRUE]
  PROVE  DeskInv'
  <1>1. /\ calls \in Seq(Call) /\ calls[w] \in Call
        /\ Len(calls) \in Nat /\ DOMAIN calls = 1 .. Len(calls)
    BY DeskParts, CallFacts
  <1>2. /\ DOMAIN calls' = DOMAIN calls
        /\ calls' = [j \in DOMAIN calls |-> calls'[j]]
        /\ \A j \in DOMAIN calls : j # w => calls'[j] = calls[j]
        /\ \/ calls'[w] = [calls[w] EXCEPT !.stage = "served"]
           \/ calls'[w] = [calls[w] EXCEPT !.heard = TRUE]
           \/ calls'[w] = [calls[w] EXCEPT !.silent = TRUE]
    <2>1. CASE Refuse(w)
      BY <2>1, <1>1 DEF Refuse
    <2>2. CASE calls' = [calls EXCEPT ![w].heard = TRUE]
      BY <2>2, <1>1
    <2>3. CASE calls' = [calls EXCEPT ![w].silent = TRUE]
      BY <2>3, <1>1
    <2> QED
      BY <2>1, <2>2, <2>3
  <1>3. /\ calls'[w] \in Call
        /\ calls'[w].op = calls[w].op /\ calls'[w].done = calls[w].done
        /\ calls'[w].met = calls[w].met /\ calls'[w].stage \in {calls[w].stage, "served"}
    <2>1. CASE calls'[w] = [calls[w] EXCEPT !.stage = "served"]
      BY <2>1, <1>1 DEF Call
    <2>2. CASE calls'[w] = [calls[w] EXCEPT !.heard = TRUE]
      BY <2>2, <1>1 DEF Call
    <2>3. CASE calls'[w] = [calls[w] EXCEPT !.silent = TRUE]
      BY <2>3, <1>1 DEF Call
    <2> QED
      BY <2>1, <2>2, <2>3, <1>2
  <1>4. calls' \in Seq(Call)
    <2>1. \A j \in DOMAIN calls : calls'[j] \in Call
      BY <1>1, <1>2, <1>3, CallFacts
    <2> QED
      BY <2>1, <1>1, <1>2
  <1>5. \A i \in DOMAIN calls : /\ calls'[i].op = calls[i].op
                                /\ calls'[i].done = calls[i].done
                                /\ calls'[i].met = calls[i].met
                                /\ calls'[i].stage \in {calls[i].stage, "served"}
    BY <1>2, <1>3
  <1>6. \A i \in DOMAIN calls' \ DOMAIN calls :
          calls'[i].stage = "sent" /\ ~calls'[i].done /\ calls'[i].met = {}
    BY <1>2
  <1> QED
    BY <1>2, <1>4, <1>5, <1>6, QuietStepFits

LEMMA DeskUnchanged ==
  ASSUME DeskInv, UNCHANGED <<account, calls>>
  PROVE  DeskInv'
  <1>1. calls' = calls /\ account' = account /\ calls' \in Seq(Call)
    BY DeskParts
  <1>2. \A i \in DOMAIN calls' \ DOMAIN calls :
          calls'[i].stage = "sent" /\ ~calls'[i].done /\ calls'[i].met = {}
    BY <1>1
  <1>3. \A i \in DOMAIN calls : /\ calls'[i].op = calls[i].op
                                /\ calls'[i].done = calls[i].done
                                /\ calls'[i].met = calls[i].met
                                /\ calls'[i].stage \in {calls[i].stage, "served"}
    BY <1>1
  <1> QED
    BY <1>1, <1>2, <1>3, QuietStepFits

\* Every form makes a call of one of the kinds.
LEMMA PressedFits ==
  ASSUME DeskInv, NEW p \in Pages, Pressed(p)
  PROVE  DeskInv'
  <1>1. \E op \in DeskOps : Press(p, op)
    BY DEF Pressed, AdminAccountDetail, AdminTransferDetail, SessionCall, AccountDetail,
           CreateAccountForm, FundForm, DebitForm, FreezeForm, BlockTransferForm,
           ReverseTransferForm, RenameForm, CloseAccountForm, DeskOps, StatusOps,
           TransferOps, OwnerOps
  <1> QED
    BY <1>1, PressFits

\* A call goes on only if it may, whatever the limiter says.
LEMMA RoutesFit ==
  ASSUME DeskInv, NEW i \in DOMAIN calls, Routes(i)
  PROVE  DeskInv'
  <1> DEFINE Goes(op) ==
        /\ op \in DeskOps
        /\ calls[i].stage = "sent" /\ calls[i].op = op /\ account' = account
        /\ \/ Refuse(i)
           \/ /\ StillMay(op)
              /\ calls' = [j \in DOMAIN calls |->
                     IF j = i THEN [calls[i] EXCEPT !.stage = "looked", !.met = Underway]
                     ELSE IF j \in Underway THEN [calls[j] EXCEPT !.met = @ \cup {i}]
                     ELSE calls[j]]
  <1>20. ASSUME NEW op, Goes(op)
         PROVE  DeskInv'
    BY <1>20, LookFits, AnswerFits
  <1> SUFFICES \E op : Goes(op)
    BY <1>20
    <1>1. CASE PostFund(i)
    <2>1. Goes("fund")
      BY <1>1 DEF PostFund, Limited, Look, DeskOps, StatusOps, TransferOps, OwnerOps,
                 StillMay
    <2> QED
      BY <2>1
  <1>2. CASE PostDebit(i)
    <2>1. Goes("debit")
      BY <1>2 DEF PostDebit, Limited, Look, DeskOps, StatusOps, TransferOps, OwnerOps,
                 StillMay
    <2> QED
      BY <2>1
  <1>3. CASE PostBlock(i)
    <2>1. Goes("block")
      BY <1>3 DEF PostBlock, Limited, Look, DeskOps, StatusOps, TransferOps, OwnerOps,
                 StillMay
    <2> QED
      BY <2>1
  <1>4. CASE PostReverse(i)
    <2>1. Goes("reverse")
      BY <1>4 DEF PostReverse, Limited, Look, DeskOps, StatusOps, TransferOps, OwnerOps,
                 StillMay
    <2> QED
      BY <2>1
  <1>5. CASE PostFreeze(i)
    <2>1. Goes("freeze")
      BY <1>5 DEF PostFreeze, Unlimited, Look, DeskOps, StatusOps, TransferOps, OwnerOps,
                 StillMay
    <2> QED
      BY <2>1
  <1>6. CASE PostUnfreeze(i)
    <2>1. Goes("unfreeze")
      BY <1>6 DEF PostUnfreeze, Unlimited, Look, DeskOps, StatusOps, TransferOps, OwnerOps,
                 StillMay
    <2> QED
      BY <2>1
  <1>7. CASE PostSetReceiveOnly(i)
    <2>1. Goes("setReceiveOnly")
      BY <1>7 DEF PostSetReceiveOnly, Unlimited, Look, DeskOps, StatusOps, TransferOps, OwnerOps,
                 StillMay
    <2> QED
      BY <2>1
  <1>8. CASE PostUnsetReceiveOnly(i)
    <2>1. Goes("unsetReceiveOnly")
      BY <1>8 DEF PostUnsetReceiveOnly, Unlimited, Look, DeskOps, StatusOps, TransferOps, OwnerOps,
                 StillMay
    <2> QED
      BY <2>1
  <1>9. CASE PostClose(i)
    <2>1. Goes("close")
      BY <1>9 DEF PostClose, MayClose, Unlimited, Look, DeskOps, StatusOps, TransferOps, OwnerOps,
                 StillMay
    <2> QED
      BY <2>1
  <1>10. CASE PatchAccount(i)
    <2>1. Goes("rename")
      BY <1>10 DEF PatchAccount, Unlimited, Look, DeskOps, StatusOps, TransferOps, OwnerOps,
                 StillMay
    <2> QED
      BY <2>1
  <1>11. CASE PostAccount(i)
    <2>1. Goes("open")
      BY <1>11 DEF PostAccount, Unlimited, Look, DeskOps, StatusOps, TransferOps, OwnerOps,
                 StillMay
    <2> QED
      BY <2>1
  <1> QED
    BY <1>1, <1>2, <1>3, <1>4, <1>5, <1>6, <1>7, <1>8, <1>9, <1>10, <1>11 DEF Routes

\* Each service does to the account what its call is for, or fails.
LEMMA ServicesFit ==
  ASSUME DeskInv, NEW i \in DOMAIN calls, Services(i)
  PROVE  DeskInv'
  <1> DEFINE Acts(op) ==
        /\ op \in DeskOps
        /\ calls[i].stage = "looked" /\ calls[i].op = op
        /\ Does(op, account')
        /\ calls' = [calls EXCEPT ![i].stage = "served", ![i].done = TRUE]
  <1>20. ASSUME NEW op, Acts(op)
         PROVE  DeskInv'
    BY <1>20, WriteFits
  <1>21. /\ account \in Account /\ account.balance \in Nat /\ account.owned \in Nat
         /\ Sum \in Nat
    BY DeskParts, DeskAssumption DEF Account
  <1>22. ASSUME NEW op \in StatusOps, ChangeStatus(i, op)
         PROVE  Acts(op)
    <2>1. NewStatus(op) \in {"ACTIVE", "FROZEN", "RECEIVE_ONLY", "CLOSED"}
      BY <1>22 DEF NewStatus, StatusOps
    <2>2. op = "close" => NewStatus(op) = "CLOSED"
      BY DEF NewStatus
    <2>3. account' = [account EXCEPT !.status = NewStatus(op)]
      BY <1>22 DEF ChangeStatus, Write
    <2>4. Does(op, account')
      BY <2>1, <2>2, <2>3, <1>21 DEF Does, Account, StatusOps
    <2> QED
      BY <2>4, <1>22 DEF ChangeStatus, Write, DeskOps
  <1>1. CASE FundAccount(i)
    <2>1. account' = [account EXCEPT !.balance = @ + Sum]
      BY <1>1 DEF FundAccount, Write
    <2>2. Does("fund", account')
      BY <2>1, <1>21 DEF Does, Account, StatusOps, TransferOps
    <2>3. Acts("fund")
      BY <2>2, <1>1 DEF FundAccount, Write, DeskOps
    <2> QED
      BY <2>3, <1>20
  <1>2. CASE DebitAccount(i)
    <2>1. account' = [account EXCEPT !.balance = @ - Sum] /\ account.balance - Sum \in Nat
      BY <1>2, <1>21 DEF DebitAccount, Write
    <2>2. Does("debit", account')
      BY <2>1, <1>21 DEF Does, Account, StatusOps, TransferOps
    <2>3. Acts("debit")
      BY <2>2, <1>2 DEF DebitAccount, Write, DeskOps
    <2> QED
      BY <2>3, <1>20
  <1>3. CASE FreezeAccount(i)
    BY <1>3, <1>20, <1>22 DEF FreezeAccount, StatusOps
  <1>4. CASE UnfreezeAccount(i)
    BY <1>4, <1>20, <1>22 DEF UnfreezeAccount, StatusOps
  <1>5. CASE SetReceiveOnly(i)
    BY <1>5, <1>20, <1>22 DEF SetReceiveOnly, StatusOps
  <1>6. CASE UnsetReceiveOnly(i)
    BY <1>6, <1>20, <1>22 DEF UnsetReceiveOnly, StatusOps
  <1>7. CASE CloseAccount(i)
    BY <1>7, <1>20, <1>22 DEF CloseAccount, StatusOps
  <1>8. CASE RenameAccount(i)
    <2>1. account' = [account EXCEPT !.named = TRUE]
      BY <1>8 DEF RenameAccount, Write
    <2>2. Does("rename", account')
      BY <2>1, <1>21 DEF Does, Account, StatusOps, TransferOps
    <2>3. Acts("rename")
      BY <2>2, <1>8 DEF RenameAccount, Write, DeskOps, OwnerOps
    <2> QED
      BY <2>3, <1>20
  <1>9. CASE BlockTransfer(i)
    <2>1. account' = [account EXCEPT !.transfer = "BLOCKED"]
      BY <1>9 DEF BlockTransfer, Write
    <2>2. Does("block", account')
      BY <2>1, <1>21 DEF Does, Account, StatusOps, TransferOps
    <2>3. Acts("block")
      BY <2>2, <1>9 DEF BlockTransfer, Write, DeskOps, TransferOps
    <2> QED
      BY <2>3, <1>20
  <1>10. CASE ReverseTransfer(i)
    <2>1. account' = [account EXCEPT !.transfer = "REVERSED", !.balance = @ + Sum]
      BY <1>10 DEF ReverseTransfer, Write
    <2>4. account' = [status |-> account.status, balance |-> account.balance + Sum,
                      named |-> account.named, transfer |-> "REVERSED", owned |-> account.owned]
      BY <2>1, <1>21 DEF Account
    <2>5. account.balance + Sum \in Nat
      BY <1>21
    <2>6. /\ account' \in Account
          /\ account'.transfer = "REVERSED" /\ account'.status = account.status
      BY <2>4, <2>5, <1>21 DEF Account
    <2>2. Does("reverse", account')
      BY <2>6 DEF Does, StatusOps, TransferOps
    <2>3. Acts("reverse")
      BY <2>2, <1>10 DEF ReverseTransfer, Write, DeskOps, TransferOps
    <2> QED
      BY <2>3, <1>20
  <1>11. CASE CreateCustomerAccount(i)
    <2>1. account' = [account EXCEPT !.owned = @ + 1]
      BY <1>11 DEF CreateCustomerAccount, Write
    <2>2. Does("open", account')
      BY <2>1, <1>21 DEF Does, Account, StatusOps, TransferOps
    <2>3. Acts("open")
      BY <2>2, <1>11 DEF CreateCustomerAccount, Write, DeskOps, OwnerOps
    <2> QED
      BY <2>3, <1>20
  <1>12. CASE WriteFails(i)
    BY <1>12, AnswerFits DEF WriteFails
  <1> QED
    BY <1>1, <1>2, <1>3, <1>4, <1>5, <1>6, <1>7, <1>8, <1>9, <1>10, <1>11, <1>12 DEF Services

\* Every step of the pages and the services behind them.
LEMMA DeskNextFits ==
  ASSUME DeskInv, DeskNext
  PROVE  DeskInv'
  <1>1. CASE \E p \in Pages : Pressed(p)
    BY <1>1, PressedFits
  <1>2. CASE \E i \in DOMAIN calls : Services(i)
    BY <1>2, ServicesFit
  <1>3. CASE \E i \in DOMAIN calls : Hear(i) \/ Silence(i)
    <2>1. PICK i \in DOMAIN calls : Hear(i) \/ Silence(i)
      BY <1>3
    <2>2. /\ account' = account
          /\ \/ calls' = [calls EXCEPT ![i].heard = TRUE]
             \/ calls' = [calls EXCEPT ![i].silent = TRUE]
      BY <2>1 DEF Hear, HearError, HearSuccess, HearClosed, HearRenamed, Hears, Silence
    <2> QED
      BY <2>2, AnswerFits
  <1>4. CASE \E p \in Pages : Reload(p)
    BY <1>4, DeskUnchanged DEF Reload
  <1> QED
    BY <1>1, <1>2, <1>3, <1>4 DEF DeskNext

-----------------------------------------------------------------------------
(* The transfer form.                                                      *)

\* A function on an interval is a sequence, and the other way round.
LEMMA FunctionIsSequence ==
  ASSUME NEW s, NEW n \in Nat, NEW T, s \in [1 .. n -> T]
  PROVE  s \in Seq(T) /\ Len(s) = n
  OBVIOUS

LEMMA SequenceIsFunction ==
  ASSUME NEW s, NEW T, s \in Seq(T)
  PROVE  s \in [1 .. Len(s) -> T] /\ Len(s) \in Nat /\ DOMAIN s = 1 .. Len(s)
  OBVIOUS

\* Every sequence is one of its own elements.
LEMMA SelfTyped ==
  ASSUME NEW s, NEW U, s \in Seq(U)
  PROVE  s \in Seq({s[j] : j \in DOMAIN s})
  <1> DEFINE T == {s[j] : j \in DOMAIN s}
  <1>1. s \in [1 .. Len(s) -> U] /\ Len(s) \in Nat /\ DOMAIN s = 1 .. Len(s)
    BY SequenceIsFunction
  <1>2. \A j \in 1 .. Len(s) : s[j] \in T
    BY <1>1
  <1> HIDE DEF T
  <1>3. s \in [1 .. Len(s) -> T]
    BY <1>1, <1>2
  <1>4. s \in Seq(T)
    BY <1>1, <1>3, FunctionIsSequence
  <1> QED
    BY <1>4 DEF T

\* What AttemptsShow says of the sequence, with room for one more element.
LEMMA AttemptsFacts ==
  ASSUME AttemptsShow, NEW r
  PROVE  /\ Len(attempts) \in Nat /\ Len(attempts) <= MaxSubmits
         /\ DOMAIN attempts = 1 .. Len(attempts)
         /\ \E U : r \in U /\ attempts \in Seq(U) /\ attempts \in [1 .. Len(attempts) -> U]
  <1> DEFINE S == {attempts[j] : j \in DOMAIN attempts}
             U == S \cup {r}
  <1>1. attempts \in Seq(S) /\ Len(attempts) \in 0 .. MaxSubmits
    BY DEF AttemptsShow
  <1>2. \A j \in DOMAIN attempts : attempts[j] \in U
    OBVIOUS
  <1>3. r \in U
    OBVIOUS
  <1> HIDE DEF S, U
  <1>4. attempts \in [1 .. Len(attempts) -> S] /\ DOMAIN attempts = 1 .. Len(attempts)
        /\ Len(attempts) \in Nat
    BY <1>1, SequenceIsFunction
  <1>5. attempts \in [1 .. Len(attempts) -> U]
    BY <1>2, <1>4
  <1>6. attempts \in Seq(U)
    BY <1>4, <1>5, FunctionIsSequence
  <1> QED
    BY <1>1, <1>3, <1>4, <1>5, <1>6

\* An attempt that is answered, lost or served keeps what it is made of.
LEMMA AttemptChanged ==
  ASSUME AttemptsShow, NEW k \in DOMAIN attempts, NEW r, DOMAIN r = AttemptFields,
         r.type = attempts[k].type, r.iban = attempts[k].iban,
         r.shown = attempts[k].shown, r.late = attempts[k].late,
         attempts' = [attempts EXCEPT ![k] = r]
  PROVE  /\ AttemptsShow'
         /\ DOMAIN attempts' = DOMAIN attempts
         /\ \A j \in DOMAIN attempts : /\ attempts'[j].type = attempts[j].type
                                       /\ attempts'[j].iban = attempts[j].iban
  <1>1. /\ Len(attempts) \in Nat /\ Len(attempts) <= MaxSubmits
        /\ DOMAIN attempts = 1 .. Len(attempts)
    BY AttemptsFacts
  <1>2. PICK U : r \in U /\ attempts \in [1 .. Len(attempts) -> U]
    BY AttemptsFacts
  <1>3. /\ DOMAIN attempts' = DOMAIN attempts
        /\ attempts'[k] = r
        /\ \A j \in DOMAIN attempts : j # k => attempts'[j] = attempts[j]
    OBVIOUS
  <1>4. attempts' \in [1 .. Len(attempts) -> U]
    BY <1>2
  <1>5. attempts' \in Seq(U) /\ Len(attempts') = Len(attempts)
    BY <1>1, <1>4, FunctionIsSequence
  <1>6. attempts' \in Seq({attempts'[j] : j \in DOMAIN attempts'})
    BY <1>5, SelfTyped
  <1>7. \A j \in DOMAIN attempts :
          /\ DOMAIN attempts'[j] = AttemptFields
          /\ attempts'[j].type = attempts[j].type
          /\ attempts'[j].iban = attempts[j].iban
          /\ attempts'[j].type = "LOCAL" =>
               attempts'[j].shown \in AccountWith(attempts'[j].iban) \/ attempts'[j].late
    <2> SUFFICES ASSUME NEW j \in DOMAIN attempts
                 PROVE  /\ DOMAIN attempts'[j] = AttemptFields
                        /\ attempts'[j].type = attempts[j].type
                        /\ attempts'[j].iban = attempts[j].iban
                        /\ attempts'[j].type = "LOCAL" =>
                             attempts'[j].shown \in AccountWith(attempts'[j].iban) \/ attempts'[j].late
      OBVIOUS
    <2>1. /\ DOMAIN attempts[j] = AttemptFields
          /\ attempts[j].type = "LOCAL" =>
               attempts[j].shown \in AccountWith(attempts[j].iban) \/ attempts[j].late
      BY DEF AttemptsShow
    <2>2. CASE j = k
      BY <2>1, <2>2, <1>3
    <2>3. CASE j # k
      BY <2>1, <2>3, <1>3
    <2> QED
      BY <2>2, <2>3
  <1>8. AttemptsShow'
    <2>1. \A j \in DOMAIN attempts' :
            /\ DOMAIN attempts'[j] = AttemptFields
            /\ attempts'[j].type = "LOCAL" =>
                 attempts'[j].shown \in AccountWith(attempts'[j].iban) \/ attempts'[j].late
      BY <1>3, <1>7
    <2>2. Len(attempts') \in 0 .. MaxSubmits
      BY <1>5 DEF AttemptsShow
    <2> QED
      BY <2>1, <2>2, <1>6 DEF AttemptsShow, AccountWith
  <1> QED
    BY <1>3, <1>7, <1>8

\* An attempt is submitted.
LEMMA AttemptAdded ==
  ASSUME AttemptsShow, NEW r, DOMAIN r = AttemptFields, Len(attempts) < MaxSubmits,
         r.type = "LOCAL" => r.shown \in AccountWith(r.iban) \/ r.late,
         attempts' = Append(attempts, r)
  PROVE  /\ AttemptsShow'
         /\ DOMAIN attempts \subseteq DOMAIN attempts'
         /\ \A j \in DOMAIN attempts : attempts'[j] = attempts[j]
  <1>1. /\ Len(attempts) \in Nat /\ Len(attempts) <= MaxSubmits
        /\ DOMAIN attempts = 1 .. Len(attempts)
    BY AttemptsFacts
  <1>2. PICK U : r \in U /\ attempts \in Seq(U)
    BY AttemptsFacts
  <1>3. /\ attempts' \in Seq(U) /\ Len(attempts') = Len(attempts) + 1
        /\ DOMAIN attempts' = 1 .. Len(attempts) + 1
        /\ attempts'[Len(attempts) + 1] = r
        /\ \A j \in 1 .. Len(attempts) : attempts'[j] = attempts[j]
    BY <1>2
  <1>4. attempts' \in Seq({attempts'[j] : j \in DOMAIN attempts'})
    BY <1>3, SelfTyped
  <1>5. \A j \in DOMAIN attempts' :
          /\ DOMAIN attempts'[j] = AttemptFields
          /\ attempts'[j].type = "LOCAL" =>
               attempts'[j].shown \in AccountWith(attempts'[j].iban) \/ attempts'[j].late
    <2> SUFFICES ASSUME NEW j \in 1 .. Len(attempts) + 1
                 PROVE  /\ DOMAIN attempts'[j] = AttemptFields
                        /\ attempts'[j].type = "LOCAL" =>
                             attempts'[j].shown \in AccountWith(attempts'[j].iban) \/ attempts'[j].late
      BY <1>3
    <2>1. CASE j = Len(attempts) + 1
      BY <2>1, <1>3
    <2>2. CASE j # Len(attempts) + 1
      <3>1. j \in 1 .. Len(attempts) /\ j \in DOMAIN attempts
        BY <2>2, <1>1
      <3> QED
        BY <3>1, <1>3 DEF AttemptsShow
    <2> QED
      BY <2>1, <2>2
  <1>6. Len(attempts') \in 0 .. MaxSubmits
    BY <1>1, <1>3, BoundsAssumption
  <1>7. AttemptsShow'
    BY <1>4, <1>5, <1>6 DEF AttemptsShow, AccountWith
  <1>8. DOMAIN attempts \subseteq DOMAIN attempts'
    BY <1>1, <1>3
  <1> QED
    BY <1>1, <1>3, <1>7, <1>8

\* Payments stay what they were when the attempts do.
LEMMA PaymentsKept ==
  ASSUME PaymentsFit, paid' = paid, DOMAIN attempts \subseteq DOMAIN attempts',
         \A j \in DOMAIN attempts : /\ attempts'[j].type = attempts[j].type
                                    /\ attempts'[j].iban = attempts[j].iban
  PROVE  PaymentsFit'
  <1> SUFFICES ASSUME NEW k \in 1 .. MaxSubmits, paid[k] # None
               PROVE  /\ k \in DOMAIN attempts'
                      /\ attempts'[k].type = "LOCAL" => paid[k].to \in AccountWith(attempts'[k].iban)
    BY DEF PaymentsFit, AccountWith
  <1>1. /\ k \in DOMAIN attempts
        /\ attempts[k].type = "LOCAL" => paid[k].to \in AccountWith(attempts[k].iban)
    BY DEF PaymentsFit
  <1> QED
    BY <1>1

\* Steps that change neither an attempt nor the payments.
LEMMA FormOnlyFits ==
  ASSUME FormFits, FormShows', UNCHANGED <<plan, attempts, paid>>
  PROVE  FormFits'
  <1>1. AttemptsShow'
    BY DEF FormFits, AttemptsShow, AccountWith
  <1>2. PaymentsFit'
    BY PaymentsKept DEF FormFits
  <1> QED
    BY <1>1, <1>2 DEF FormFits

\* A recipient found for the IBAN that was checked is shown for it, unless the IBAN was
\* changed meanwhile; typing forgets the recipient, and no other field bears on it.
LEMMA BrowserFits ==
  ASSUME FormFits, BrowserNext, UNCHANGED paid
  PROVE  FormFits'
  <1>1. FormShows /\ AttemptsShow /\ PaymentsFit /\ plan \in Plans
    BY DEF FormFits
  <1>2. ASSUME NEW p, NEW v, TypeIban(p, v)
        PROVE  FormFits'
    <2>1. form'.status = "idle" /\ DOMAIN form' = FormFields
      BY <1>1, <1>2 DEF TypeIban, Unchecked, FormShows, FormFields
    <2> QED
      BY <2>1, <1>2, FormOnlyFits DEF TypeIban, FormShows
  <1>3. ASSUME NEW t, SwitchType(t)
        PROVE  FormFits'
    <2>1. form'.status = "idle" /\ DOMAIN form' = FormFields
      BY <1>1, <1>3 DEF SwitchType, Unchecked, FormShows, FormFields
    <2> QED
      BY <2>1, <1>3, FormOnlyFits DEF SwitchType, FormShows
  <1>4. ASSUME NEW a, TypeAmount(a) \/ PickCurrency(a)
        PROVE  FormFits'
    <2>1. /\ DOMAIN form' = FormFields /\ form'.status = form.status
          /\ form'.recipient = form.recipient /\ form'.iban = form.iban /\ form'.late = form.late
      BY <1>1, <1>4 DEF TypeAmount, PickCurrency, FormShows, FormFields
    <2>2. FormShows'
      BY <2>1, <1>1 DEF FormShows, AccountWith
    <2> QED
      BY <2>2, <1>4, FormOnlyFits DEF TypeAmount, PickCurrency
  <1>5. CASE VerifyRecipient
    <2>1. DOMAIN form' = FormFields /\ form'.status \in {"error", "checking"}
      BY <1>1, <1>5 DEF VerifyRecipient, FormShows, FormFields
    <2> QED
      BY <2>1, <1>5, FormOnlyFits DEF VerifyRecipient, FormShows
  <1>6. ASSUME NEW j \in DOMAIN checks, AnswerCheck(j)
        PROVE  FormFits'
    <2>1. CASE \E a \in Recipient(checks[j].iban) :
                 form' = [form EXCEPT !.status = "local", !.recipient = a,
                                      !.late = checks[j].iban # form.iban]
      <3>1. PICK a \in Recipient(checks[j].iban) :
              form' = [form EXCEPT !.status = "local", !.recipient = a,
                                   !.late = checks[j].iban # form.iban]
        BY <2>1
      <3>2. /\ DOMAIN form' = FormFields /\ form'.recipient = a /\ form'.iban = form.iban
            /\ form'.late = (checks[j].iban # form.iban)
        BY <3>1, <1>1 DEF FormShows, FormFields
      <3>3. a \in AccountWith(checks[j].iban)
        BY DEF Recipient
      <3>4. FormShows'
        BY <3>2, <3>3 DEF FormShows, AccountWith
      <3> QED
        BY <3>4, <1>6, FormOnlyFits DEF AnswerCheck
    <2>2. CASE \/ form' = [form EXCEPT !.status = "external"]
               \/ form' = [form EXCEPT !.status = "error", !.message = "error"]
      <3>1. DOMAIN form' = FormFields /\ form'.status # "local"
        BY <2>2, <1>1 DEF FormShows, FormFields
      <3> QED
        BY <3>1, <1>6, FormOnlyFits DEF AnswerCheck, FormShows
    <2> QED
      BY <2>1, <2>2, <1>6 DEF AnswerCheck
  <1>7. CASE Submit
    <2>1. FormShows'
      <3>1. /\ DOMAIN form' = FormFields /\ form'.status = form.status
            /\ form'.recipient = form.recipient /\ form'.iban = form.iban /\ form'.late = form.late
        BY <1>1, <1>7 DEF Submit, FormShows, FormFields
      <3> QED
        BY <3>1, <1>1 DEF FormShows, AccountWith
    <2>2. CASE Unverified
      BY <2>1, <2>2, <1>7, FormOnlyFits DEF Submit
    <2>3. CASE ~Unverified
      <3> DEFINE r ==
             [type |-> form.type, from |-> form.from, iban |-> form.iban,
              currency |-> form.currency, amount |-> form.amount, preview |-> Preview,
              payee |-> form.payee, shown |-> form.recipient, late |-> form.late,
              intention |-> intention, stage |-> "sent", silent |-> FALSE, refused |-> FALSE]
      <3>1. attempts' = Append(attempts, r) /\ Len(attempts) < plan.submits /\ plan' = plan
        BY <2>3, <1>7 DEF Submit
      <3>2. /\ DOMAIN r = AttemptFields /\ r.type = form.type /\ r.shown = form.recipient
            /\ r.iban = form.iban /\ r.late = form.late
        BY DEF AttemptFields
      <3> HIDE DEF r
      <3>3. r.type = "LOCAL" => r.shown \in AccountWith(r.iban) \/ r.late
        BY <2>3, <3>2, <1>1 DEF Unverified, FormShows
      <3>4. Len(attempts) < MaxSubmits
        <4>1. plan.submits \in 0 .. MaxSubmits
          BY <1>1, PlansAssumption
        <4>2. Len(attempts) \in Nat
          BY <1>1, AttemptsFacts
        <4> QED
          BY <3>1, <4>1, <4>2, BoundsAssumption
      <3>5. /\ AttemptsShow' /\ DOMAIN attempts \subseteq DOMAIN attempts'
            /\ \A j \in DOMAIN attempts : attempts'[j] = attempts[j]
        BY <3>1, <3>2, <3>3, <3>4, <1>1, AttemptAdded
      <3>6. PaymentsFit'
        BY <3>5, <1>1, PaymentsKept
      <3> QED
        BY <2>1, <3>1, <3>5, <3>6, <1>1 DEF FormFits
    <2> QED
      BY <2>2, <2>3
  <1>8. ASSUME NEW k \in DOMAIN attempts, Deliver(k) \/ LoseAnswer(k)
        PROVE  FormFits'
    <2>1. FormShows'
      <3>1. CASE form' = AfterError
        <4>1. /\ DOMAIN form' = FormFields /\ form'.status = form.status
              /\ form'.recipient = form.recipient /\ form'.iban = form.iban /\ form'.late = form.late
          BY <3>1, <1>1 DEF AfterError, FormShows, FormFields
        <4> QED
          BY <4>1, <1>1 DEF FormShows, AccountWith
      <3>2. CASE form' = Cleared
        <4>1. DOMAIN form' = FormFields /\ form'.status = "idle"
          BY <3>2 DEF Cleared, Blank, FormFields
        <4> QED
          BY <4>1 DEF FormShows
      <3> QED
        BY <3>1, <3>2, <1>8 DEF Deliver, LoseAnswer
    <2>2. DOMAIN attempts[k] = AttemptFields
      BY <1>1 DEF AttemptsShow
    <2>3. \E r : /\ attempts' = [attempts EXCEPT ![k] = r]
                 /\ DOMAIN r = AttemptFields
                 /\ r.type = attempts[k].type /\ r.iban = attempts[k].iban
                 /\ r.shown = attempts[k].shown /\ r.late = attempts[k].late
      <3>1. CASE Deliver(k)
        <4> DEFINE r == [attempts[k] EXCEPT !.stage = "done"]
        <4>1. attempts' = [attempts EXCEPT ![k] = r]
          BY <3>1 DEF Deliver
        <4>2. /\ DOMAIN r = AttemptFields
              /\ r.type = attempts[k].type /\ r.iban = attempts[k].iban
              /\ r.shown = attempts[k].shown /\ r.late = attempts[k].late
          BY <2>2 DEF AttemptFields
        <4> QED
          BY <4>1, <4>2
      <3>2. CASE LoseAnswer(k)
        <4> DEFINE r == [attempts[k] EXCEPT !.silent = TRUE]
        <4>1. attempts' = [attempts EXCEPT ![k] = r]
          BY <3>2 DEF LoseAnswer
        <4>2. /\ DOMAIN r = AttemptFields
              /\ r.type = attempts[k].type /\ r.iban = attempts[k].iban
              /\ r.shown = attempts[k].shown /\ r.late = attempts[k].late
          BY <2>2 DEF AttemptFields
        <4> QED
          BY <4>1, <4>2
      <3> QED
        BY <3>1, <3>2, <1>8
    <2>4. /\ AttemptsShow' /\ DOMAIN attempts' = DOMAIN attempts
          /\ \A j \in DOMAIN attempts : /\ attempts'[j].type = attempts[j].type
                                        /\ attempts'[j].iban = attempts[j].iban
      BY <2>3, <1>1, AttemptChanged
    <2>5. PaymentsFit'
      BY <2>4, <1>1, PaymentsKept
    <2>6. plan' = plan
      BY <1>8 DEF Deliver, LoseAnswer
    <2> QED
      BY <2>1, <2>4, <2>5, <2>6, <1>1 DEF FormFits
  <1> QED
    BY <1>2, <1>3, <1>4, <1>5, <1>6, <1>7, <1>8 DEF BrowserNext

\* A local attempt that is not refused pays an account with its IBAN.
LEMMA ServeFits ==
  ASSUME FormFits, NEW k \in DOMAIN attempts, Serve(k)
  PROVE  FormFits'
  <1> DEFINE t == attempts[k]
  <1>1. /\ FormShows /\ AttemptsShow /\ PaymentsFit /\ plan \in Plans
        /\ plan' = plan /\ form' = form
    BY DEF FormFits, Serve
  <1>2. DOMAIN t = AttemptFields
    BY <1>1 DEF AttemptsShow
  <1>3. \E r : /\ attempts' = [attempts EXCEPT ![k] = r]
               /\ DOMAIN r = AttemptFields
               /\ r.type = t.type /\ r.iban = t.iban /\ r.shown = t.shown /\ r.late = t.late
    <2>1. CASE attempts' = [attempts EXCEPT ![k].stage = "served"]
      <3> DEFINE r == [t EXCEPT !.stage = "served"]
      <3>1. attempts' = [attempts EXCEPT ![k] = r]
        BY <2>1
      <3>2. /\ DOMAIN r = AttemptFields
            /\ r.type = t.type /\ r.iban = t.iban /\ r.shown = t.shown /\ r.late = t.late
        BY <1>2 DEF AttemptFields
      <3> QED
        BY <3>1, <3>2
    <2>2. CASE attempts' = [attempts EXCEPT ![k].stage = "served", ![k].refused = TRUE]
      <3> DEFINE r == [t EXCEPT !.stage = "served", !.refused = TRUE]
      <3>1. attempts' = [attempts EXCEPT ![k] = r]
        BY <2>2
      <3>2. /\ DOMAIN r = AttemptFields
            /\ r.type = t.type /\ r.iban = t.iban /\ r.shown = t.shown /\ r.late = t.late
        BY <1>2 DEF AttemptFields
      <3> QED
        BY <3>1, <3>2
    <2> QED
      BY <2>1, <2>2 DEF Serve
  <1>4. /\ AttemptsShow' /\ DOMAIN attempts' = DOMAIN attempts
        /\ \A j \in DOMAIN attempts : /\ attempts'[j].type = attempts[j].type
                                      /\ attempts'[j].iban = attempts[j].iban
    BY <1>1, <1>3, AttemptChanged
  <1>5. FormShows'
    BY <1>1 DEF FormShows, AccountWith
  <1>6. PaymentsFit'
    <2>1. CASE paid' = paid
      BY <2>1, <1>1, <1>4, PaymentsKept
    <2>2. CASE /\ t.type = "LOCAL" => ~LocalRefused(t)
               /\ paid' = [paid EXCEPT ![k] = Recorded(t)]
      <3>1. DOMAIN paid' = 1 .. MaxSubmits
        BY <2>2, <1>1 DEF PaymentsFit
      <3>2. t.type = "LOCAL" => Recorded(t).to \in AccountWith(t.iban)
        <4>1. t.type = "LOCAL" => AccountWith(t.iban) # {}
          BY <2>2 DEF LocalRefused
        <4>2. t.type = "LOCAL" => Recorded(t).to = CHOOSE a \in AccountWith(t.iban) : TRUE
          BY DEF Recorded
        <4> QED
          BY <4>1, <4>2
      <3>3. ASSUME NEW j \in 1 .. MaxSubmits, paid'[j] # None
            PROVE  /\ j \in DOMAIN attempts'
                   /\ attempts'[j].type = "LOCAL" => paid'[j].to \in AccountWith(attempts'[j].iban)
        <4>1. CASE j = k
          <5>1. paid'[j] = Recorded(t)
            BY <2>2, <4>1, <1>1 DEF PaymentsFit
          <5> QED
            BY <4>1, <5>1, <3>2, <1>4
        <4>2. CASE j # k
          <5>1. paid'[j] = paid[j]
            BY <2>2, <4>2, <1>1 DEF PaymentsFit
          <5>2. /\ j \in DOMAIN attempts
                /\ attempts[j].type = "LOCAL" => paid[j].to \in AccountWith(attempts[j].iban)
            BY <3>3, <5>1, <1>1 DEF PaymentsFit
          <5> QED
            BY <5>1, <5>2, <1>4
        <4> QED
          BY <4>1, <4>2
      <3> QED
        BY <3>1, <3>3 DEF PaymentsFit, AccountWith
    <2> QED
      BY <2>1, <2>2 DEF Serve
  <1> QED
    BY <1>1, <1>4, <1>5, <1>6 DEF FormFits

\* Only one account has the IBAN, so the one paid is the one that was shown for it.
LEMMA ShownIsPaid == FormFits => PayeeWasShown
  <1> SUFFICES ASSUME FormFits, NEW k \in DOMAIN attempts, paid[k] # None,
                      attempts[k].type = "LOCAL", ~attempts[k].late
               PROVE  paid[k].to = attempts[k].shown
    BY DEF PayeeWasShown, Paid
  <1>1. attempts[k].shown \in AccountWith(attempts[k].iban)
    BY DEF FormFits, AttemptsShow
  <1>2. k \in 1 .. MaxSubmits
    <2>1. Len(attempts) \in Nat /\ Len(attempts) <= MaxSubmits /\ DOMAIN attempts = 1 .. Len(attempts)
      BY AttemptsFacts DEF FormFits
    <2> QED
      BY <2>1, BoundsAssumption
  <1>3. paid[k].to \in AccountWith(attempts[k].iban)
    BY <1>2 DEF FormFits, PaymentsFit
  <1> QED
    BY <1>1, <1>3, IbansAssumption DEF AccountWith

-----------------------------------------------------------------------------
(* What the fields hold.                                                   *)

\* No account's IBAN is a slip away from another's.
LEMMA NoSlip ==
  ASSUME NEW a \in Payees, NEW b \in Payees
  PROVE  ~Slip(IbanOf[a], IbanOf[b])
  <1> DEFINE v == IbanOf[a]
             w == IbanOf[b]
             wrong == {i \in DOMAIN v : v[i] # w[i]}
  <1> SUFFICES ASSUME Slip(v, w)
               PROVE  FALSE
    OBVIOUS
  <1>1. /\ Currency[a] \in Currencies /\ Currency[b] \in Currencies
        /\ Number[a] \in Seq(Digits) /\ Number[b] \in Seq(Digits)
        /\ v = GenerateIban(Currency[a], Number[a]) /\ w = GenerateIban(Currency[b], Number[b])
    BY PayeesAssumption DEF IbanOf
  <1> HIDE DEF v, w
  <1>2. TwoIbans(v, w, Currency[a], Currency[b], Number[a], Number[b])
    BY <1>1 DEF Slip, TwoIbans
  <1>3. v \in Seq(Chars)
    BY <1>1, IbanParts
  <1>4. Len(v) \in Nat /\ DOMAIN v = 1 .. Len(v)
    BY <1>3, LenProperties
  <1>5. IsFiniteSet(wrong)
    <2>1. IsFiniteSet(1 .. Len(v))
      BY <1>4, FS_Interval
    <2>2. wrong \subseteq 1 .. Len(v)
      BY <1>4
    <2> QED
      BY <2>1, <2>2, FS_Subset
  <1>6. CASE Cardinality(wrong) = 1
    <2> HIDE DEF wrong
    <2>1. PICK k : wrong = {k}
      BY <1>5, <1>6, FS_Singleton
    <2>2. k \in 1 .. Len(v) /\ v[k] # w[k] /\ \A j \in 1 .. Len(v) : j # k => v[j] = w[j]
      BY <1>4, <2>1 DEF wrong
    <2> QED
      BY <1>2, <2>2, NoCharacterWrong
  <1>7. CASE \E k \in wrong : wrong = {k, k + 1} /\ v[k] = w[k + 1] /\ v[k + 1] = w[k]
    <2>1. PICK k \in wrong : wrong = {k, k + 1} /\ v[k] = w[k + 1] /\ v[k + 1] = w[k]
      BY <1>7
    <2>2. /\ k \in 1 .. Len(v) /\ k + 1 \in 1 .. Len(v) /\ v[k] # w[k]
          /\ \A j \in 1 .. Len(v) : j # k /\ j # k + 1 => v[j] = w[j]
      <3> HIDE DEF wrong
      <3>1. k \in wrong /\ k + 1 \in wrong
        BY <2>1
      <3>2. \A j \in 1 .. Len(v) : j # k /\ j # k + 1 => j \notin wrong
        BY <2>1
      <3> QED
        BY <1>4, <3>1, <3>2 DEF wrong
    <2> QED
      BY <1>2, <2>1, <2>2, NoNeighboursSwapped
  <1> QED
    BY <1>6, <1>7 DEF Slip

\* So what is typed by somebody who means to pay an account is its IBAN.
LEMMA TypedIsMeant ==
  ASSUME NEW p, NEW iban, Meant(p, iban), NEW a \in AccountWith(iban)
  PROVE  a = p
  <1>1. a \in Payees /\ IbanOf[a] = iban
    BY DEF AccountWith
  <1>2. CASE p \in Payees /\ iban \in Typed[p]
    <2>1. iban \in {IbanOf[p]} \cup {IbanOf[b] : b \in {b \in Payees : Slip(IbanOf[p], IbanOf[b])}}
      BY <1>2 DEF Typed
    <2>2. {b \in Payees : Slip(IbanOf[p], IbanOf[b])} = {}
      BY <1>2, NoSlip
    <2>3. iban = IbanOf[p]
      BY <2>1, <2>2
    <2> QED
      BY <1>1, <1>2, <2>3, IbansAssumption
  <1>3. CASE p = None /\ iban = Foreign
    BY <1>1, <1>3, IbansAssumption
  <1> QED
    BY <1>2, <1>3 DEF Meant

\* The rows of an attempt are typed.
LEMMA RecordedTyped ==
  ASSUME plan \in Plans, NEW t, AttemptTyped(t),
         t.type = "LOCAL" => AccountWith(t.iban) # {}
  PROVE  /\ Recorded(t) \in Payment
         /\ Recorded(t).cents = ParseAmountToCents(t.amount)
         /\ t.type = "INTERNATIONAL" /\ t.currency # t.from =>
              Recorded(t).converted = ConvertFx(t.from, t.currency, Recorded(t).cents)
         /\ t.type = "INTERNATIONAL" /\ t.currency = t.from => Recorded(t).converted = None
  <1> DEFINE cents == ParseAmountToCents(t.amount)
             to == IF t.type = "LOCAL" THEN CHOOSE a \in AccountWith(t.iban) : TRUE ELSE None
             converted == IF t.type = "INTERNATIONAL" /\ t.currency # t.from
                          THEN ConvertFx(t.from, t.currency, cents) ELSE None
  <1>1. cents \in Nat
    <2>1. t.amount \in Amount /\ WellFormed(t.amount)
      BY PlansAssumption DEF AttemptTyped
    <2> QED
      BY <2>1, AmountIsNatural
  <1>2. to \in Payees \cup {None}
    <2>1. AccountWith(t.iban) \subseteq Payees
      BY DEF AccountWith
    <2> QED
      BY <2>1
  <1> HIDE DEF cents
  <1>3. converted \in Nat \cup {None}
    <2>1. t.from \in Currencies /\ t.currency \in Currencies
      BY DEF AttemptTyped
    <2>2. ConvertFx(t.from, t.currency, cents) \in Nat
      BY <1>1, <2>1, ConversionRounds
    <2> QED
      BY <2>2
  <1>4. Recorded(t) = [to |-> to, cents |-> cents, converted |-> converted]
    BY DEF Recorded, cents
  <1> HIDE DEF to, converted
  <1>5. Recorded(t).cents = cents /\ Recorded(t).converted = converted /\ Recorded(t) \in Payment
    BY <1>1, <1>2, <1>3, <1>4 DEF Payment
  <1> QED
    BY <1>5 DEF cents, converted

\* Steps of the form alone.
LEMMA FormFieldsFit ==
  ASSUME FieldsFit, FormTyped(form'), UNCHANGED <<plan, attempts, paid, clock>>,
         edits' \in 0 .. MaxEdits
  PROVE  FieldsFit'
  BY DEF FieldsFit, FormTyped, AttemptTyped, Meant, Recorded, AccountWith

\* The terms of an attempt, which no answer changes.
SameTerms(r, t) ==
  /\ r.type = t.type /\ r.from = t.from /\ r.iban = t.iban /\ r.currency = t.currency
  /\ r.amount = t.amount /\ r.preview = t.preview /\ r.payee = t.payee

LEMMA TermsKept ==
  ASSUME NEW r, NEW t, SameTerms(r, t), AttemptTyped(t), r.stage \in {"sent", "served", "done"}
  PROVE  AttemptTyped(r) /\ Recorded(r) = Recorded(t)
  <1>1. Recorded(r) = Recorded(t)
    BY DEF SameTerms, Recorded
  <1> QED
    BY <1>1 DEF SameTerms, AttemptTyped

\* An attempt that is served, answered or lost.
LEMMA AttemptFieldsFit ==
  ASSUME FieldsFit, FormFits, NEW k \in DOMAIN attempts, NEW r, SameTerms(r, attempts[k]),
         r.stage \in {"sent", "served", "done"}, attempts' = [attempts EXCEPT ![k] = r],
         paid' = paid \/ paid' = [paid EXCEPT ![k] = Recorded(attempts[k])],
         FormTyped(form'), UNCHANGED <<plan, edits, clock>>
  PROVE  FieldsFit'
  <1>1. AttemptTyped(r) /\ Recorded(r) = Recorded(attempts[k])
    BY TermsKept DEF FieldsFit
  <1>2. /\ DOMAIN attempts' = DOMAIN attempts /\ attempts'[k] = r
        /\ \A j \in DOMAIN attempts : j # k => attempts'[j] = attempts[j]
    OBVIOUS
  <1>3. \A j \in DOMAIN attempts' : AttemptTyped(attempts'[j])
    BY <1>1, <1>2 DEF FieldsFit
  <1>4. ASSUME NEW j \in 1 .. MaxSubmits, paid'[j] # None
        PROVE  paid'[j] = Recorded(attempts'[j])
    <2>1. DOMAIN paid = 1 .. MaxSubmits
      BY DEF FormFits, PaymentsFit
    <2>2. paid[j] # None => j \in DOMAIN attempts /\ paid[j] = Recorded(attempts[j])
      BY DEF FormFits, PaymentsFit, FieldsFit
    <2>3. CASE j = k
      <3>1. paid'[j] = paid[j] \/ paid'[j] = Recorded(attempts[k])
        BY <2>1, <2>3
      <3> QED
        BY <1>1, <1>2, <1>4, <2>2, <2>3, <3>1
    <2>4. CASE j # k
      <3>1. paid'[j] = paid[j]
        BY <2>1, <2>4
      <3> QED
        BY <1>2, <1>4, <2>2, <2>4, <3>1
    <2> QED
      BY <2>3, <2>4
  <1>5. FormTyped(form)'
    BY DEF FormTyped, Meant
  <1>6. \A j \in DOMAIN attempts' : AttemptTyped(attempts[j])'
    BY <1>3 DEF AttemptTyped, Meant, Recorded, AccountWith
  <1>7. \A j \in 1 .. MaxSubmits : paid'[j] # None => paid'[j] = Recorded(attempts[j])'
    BY <1>4 DEF Recorded, AccountWith
  <1>8. edits' \in 0 .. MaxEdits /\ clock' \in 0 .. plan'.time
    BY DEF FieldsFit
  <1> QED
    BY <1>5, <1>6, <1>7, <1>8 DEF FieldsFit

LEMMA CurrencyIsKnown ==
  ASSUME NEW iban, NEW otherwise \in Currencies
  PROVE  CurrencyFromIban(iban, otherwise) \in Currencies
  BY DEF CurrencyFromIban

\* An attempt is submitted with the terms of the form.
LEMMA SubmitTyped ==
  ASSUME FieldsFit, FormFits, Submit, UNCHANGED <<paid, clock>>
  PROVE  FieldsFit'
  <1>1. DOMAIN form = FormFields /\ AttemptsShow /\ PaymentsFit /\ plan \in Plans
    BY DEF FormFits, FormShows
  <1>2. FormTyped(form')
    <2>1. /\ form'.type = form.type /\ form'.from = form.from /\ form'.currency = form.currency
          /\ form'.status = form.status /\ form'.recipient = form.recipient
          /\ form'.amount = form.amount /\ form'.iban = form.iban /\ form'.payee = form.payee
      BY <1>1 DEF Submit, FormFields
    <2>2. CASE form' = [form EXCEPT !.message = "error"]
      <3>1. form'.loading = form.loading /\ form'.message = "error"
        BY <1>1, <2>2 DEF FormFields
      <3> QED
        BY <2>1, <3>1 DEF FieldsFit, FormTyped
    <2>3. CASE form' = [form EXCEPT !.loading = TRUE, !.message = "none"]
      <3>1. form'.loading = TRUE /\ form'.message = "none"
        BY <1>1, <2>3 DEF FormFields
      <3> QED
        BY <2>1, <3>1 DEF FieldsFit, FormTyped
    <2> QED
      BY <2>2, <2>3 DEF Submit
  <1>3. UNCHANGED <<plan, edits>> /\ edits \in 0 .. MaxEdits
    BY DEF Submit, FieldsFit
  <1>4. CASE Unverified
    BY <1>2, <1>3, <1>4, FormFieldsFit DEF Submit
  <1>5. CASE ~Unverified
    <2> DEFINE r ==
           [type |-> form.type, from |-> form.from, iban |-> form.iban,
            currency |-> form.currency, amount |-> form.amount, preview |-> Preview,
            payee |-> form.payee, shown |-> form.recipient, late |-> form.late,
            intention |-> intention, stage |-> "sent", silent |-> FALSE, refused |-> FALSE]
    <2>1. attempts' = Append(attempts, r) /\ form.iban # Empty /\ form.amount # None
      BY <1>5 DEF Submit, MaySubmit, Complete
    <2>2. AttemptTyped(r)
      <3>1. /\ r.type = form.type /\ r.from = form.from /\ r.currency = form.currency
            /\ r.amount = form.amount /\ r.preview = Preview /\ r.iban = form.iban
            /\ r.payee = form.payee /\ r.stage = "sent"
        OBVIOUS
      <3>2. r.type = "INTERNATIONAL" => r.preview = Recorded(r).converted
        <4> HIDE DEF r
        <4>1. Recorded(r).converted =
                IF r.type = "INTERNATIONAL" /\ r.currency # r.from
                THEN ConvertFx(r.from, r.currency, ParseAmountToCents(r.amount)) ELSE None
          BY DEF Recorded
        <4> QED
          BY <2>1, <3>1, <4>1 DEF Preview
      <3> HIDE DEF r
      <3> QED
        BY <2>1, <3>1, <3>2 DEF FieldsFit, FormTyped, AttemptTyped
    <2> HIDE DEF r
    <2>3. PICK U : r \in U /\ attempts \in Seq(U)
      BY <1>1, AttemptsFacts
    <2>4. Len(attempts) \in Nat /\ DOMAIN attempts = 1 .. Len(attempts)
      BY <1>1, AttemptsFacts
    <2>5. /\ DOMAIN attempts' = 1 .. Len(attempts) + 1
          /\ attempts'[Len(attempts) + 1] = r
          /\ \A j \in 1 .. Len(attempts) : attempts'[j] = attempts[j]
      BY <2>1, <2>3
    <2>6. \A j \in DOMAIN attempts' : AttemptTyped(attempts'[j])
      <3> SUFFICES ASSUME NEW j \in 1 .. Len(attempts) + 1
                   PROVE  AttemptTyped(attempts'[j])
        BY <2>5
      <3>1. j \in 1 .. Len(attempts) \/ j = Len(attempts) + 1
        BY <2>4
      <3> QED
        BY <2>2, <2>4, <2>5, <3>1 DEF FieldsFit
    <2>7. \A j \in 1 .. MaxSubmits : paid'[j] # None => paid'[j] = Recorded(attempts'[j])
      <3> SUFFICES ASSUME NEW j \in 1 .. MaxSubmits, paid[j] # None
                   PROVE  paid[j] = Recorded(attempts'[j])
        OBVIOUS
      <3>1. j \in DOMAIN attempts /\ paid[j] = Recorded(attempts[j])
        BY <1>1 DEF PaymentsFit, FieldsFit
      <3> QED
        BY <2>4, <2>5, <3>1
    <2>8. FormTyped(form)'
      BY <1>2, <1>3 DEF FormTyped, Meant
    <2>9. \A j \in DOMAIN attempts' : AttemptTyped(attempts[j])'
      BY <1>3, <2>6 DEF AttemptTyped, Meant, Recorded, AccountWith
    <2>10. \A j \in 1 .. MaxSubmits : paid'[j] # None => paid'[j] = Recorded(attempts[j])'
      BY <2>7 DEF Recorded, AccountWith
    <2>11. edits' \in 0 .. MaxEdits /\ clock' \in 0 .. plan'.time
      BY <1>3 DEF FieldsFit
    <2> QED
      BY <2>8, <2>9, <2>10, <2>11 DEF FieldsFit
  <1> QED
    BY <1>4, <1>5

\* A verified recipient is an account, a currency one of the three, and an attempt is made
\* with the terms of the form.
LEMMA BrowserTyped ==
  ASSUME FieldsFit, FormFits, BrowserNext, UNCHANGED <<paid, clock>>
  PROVE  FieldsFit'
  <1>1. DOMAIN form = FormFields /\ AttemptsShow /\ PaymentsFit /\ plan \in Plans
    BY DEF FormFits, FormShows
  <1>2. FormTyped(form) /\ edits \in 0 .. MaxEdits
    BY DEF FieldsFit
  <1>3. ASSUME NEW p, NEW v, TypeIban(p, v), Meant(p, v)
        PROVE  FieldsFit'
    <2>1. CurrencyFromIban(v, form.currency) \in Currencies
      BY <1>2, CurrencyIsKnown DEF FormTyped
    <2> DEFINE c == CurrencyFromIban(v, form.currency)
    <2>2. /\ form'.type = form.type /\ form'.from = form.from /\ form'.currency = c
          /\ form'.status = "idle" /\ form'.recipient = None /\ form'.amount = form.amount
          /\ form'.loading = form.loading /\ form'.message = form.message
          /\ form'.iban = v /\ form'.payee = p
      <3> HIDE DEF c
      <3>1. form' = [Unchecked(form) EXCEPT !.iban = v, !.payee = p, !.currency = c]
        BY <1>3 DEF TypeIban, c
      <3> QED
        BY <1>1, <3>1 DEF Unchecked, FormFields
    <2>3. FormTyped(form')
      BY <1>2, <1>3, <2>1, <2>2 DEF FormTyped
    <2>4. edits' \in 0 .. MaxEdits
      BY <1>2, <1>3, BoundsAssumption DEF TypeIban
    <2> QED
      BY <1>3, <2>3, <2>4, FormFieldsFit DEF TypeIban
  <1>4. ASSUME NEW t \in Types, SwitchType(t)
        PROVE  FieldsFit'
    <2>1. FormTyped(form')
      BY <1>1, <1>2, <1>4 DEF SwitchType, Unchecked, FormTyped, FormFields
    <2> QED
      BY <1>2, <1>4, <2>1, FormFieldsFit DEF SwitchType
  <1>5. ASSUME NEW a \in plan.amounts, TypeAmount(a)
        PROVE  FieldsFit'
    <2>1. FormTyped(form')
      BY <1>1, <1>2, <1>5 DEF TypeAmount, FormTyped, FormFields
    <2> QED
      BY <1>2, <1>5, <2>1, FormFieldsFit DEF TypeAmount
  <1>6. ASSUME NEW c \in plan.currencies, PickCurrency(c)
        PROVE  FieldsFit'
    <2>1. c \in Currencies
      BY <1>1, PlansAssumption
    <2>2. FormTyped(form')
      BY <1>1, <1>2, <1>6, <2>1 DEF PickCurrency, FormTyped, FormFields
    <2> QED
      BY <1>2, <1>6, <2>2, FormFieldsFit DEF PickCurrency
  <1>7. CASE VerifyRecipient
    <2>1. FormTyped(form')
      <3>1. CASE form' = [form EXCEPT !.status = "error", !.message = "error"]
        BY <1>1, <1>2, <3>1 DEF FormTyped, FormFields
      <3>2. CASE form' = [form EXCEPT !.status = "checking", !.recipient = None, !.message = "none"]
        BY <1>1, <1>2, <3>2 DEF FormTyped, FormFields
      <3> QED
        BY <1>7, <3>1, <3>2 DEF VerifyRecipient
    <2> QED
      BY <1>2, <1>7, <2>1, FormFieldsFit DEF VerifyRecipient
  <1>8. ASSUME NEW j \in DOMAIN checks, AnswerCheck(j)
        PROVE  FieldsFit'
    <2>1. FormTyped(form')
      <3>1. ASSUME NEW a \in Recipient(checks[j].iban),
                   form' = [form EXCEPT !.status = "local", !.recipient = a,
                                        !.late = checks[j].iban # form.iban]
            PROVE  FormTyped(form')
        <4>1. a \in Payees /\ a # None
          BY PayeesAssumption DEF Recipient, AccountWith
        <4>2. /\ form'.type = form.type /\ form'.from = form.from /\ form'.currency = form.currency
              /\ form'.status = "local" /\ form'.recipient = a /\ form'.amount = form.amount
              /\ form'.loading = form.loading /\ form'.message = form.message
              /\ form'.iban = form.iban /\ form'.payee = form.payee
          BY <1>1, <3>1 DEF FormFields
        <4> QED
          BY <1>2, <4>1, <4>2 DEF FormTyped
      <3>2. CASE form' = [form EXCEPT !.status = "external"]
        BY <1>1, <1>2, <3>2 DEF FormTyped, FormFields
      <3>3. CASE form' = [form EXCEPT !.status = "error", !.message = "error"]
        BY <1>1, <1>2, <3>3 DEF FormTyped, FormFields
      <3> QED
        BY <1>8, <3>1, <3>2, <3>3 DEF AnswerCheck
    <2> QED
      BY <1>2, <1>8, <2>1, FormFieldsFit DEF AnswerCheck
  <1>9. CASE Submit
    BY <1>9, SubmitTyped
  <1>10. ASSUME NEW k \in DOMAIN attempts, Deliver(k) \/ LoseAnswer(k)
         PROVE  FieldsFit'
    <2>1. FormTyped(form')
      <3>1. CASE form' = AfterError
        BY <1>1, <1>2, <3>1 DEF AfterError, FormTyped, FormFields
      <3>2. CASE form' = Cleared
        BY <1>1, <1>2, <3>2 DEF Cleared, Blank, FormTyped, FormFields
      <3> QED
        BY <1>10, <3>1, <3>2 DEF Deliver, LoseAnswer
    <2>2. DOMAIN attempts[k] = AttemptFields /\ AttemptTyped(attempts[k])
      BY <1>1 DEF AttemptsShow, FieldsFit
    <2>3. UNCHANGED <<plan, edits>>
      BY <1>10 DEF Deliver, LoseAnswer
    <2>4. CASE Deliver(k)
      <3> DEFINE r == [attempts[k] EXCEPT !.stage = "done"]
      <3>1. attempts' = [attempts EXCEPT ![k] = r]
        BY <2>4 DEF Deliver
      <3>2. SameTerms(r, attempts[k]) /\ r.stage = "done"
        BY <2>2 DEF SameTerms, AttemptFields
      <3> HIDE DEF r
      <3> QED
        BY <2>1, <2>3, <3>1, <3>2, AttemptFieldsFit
    <2>5. CASE LoseAnswer(k)
      <3> DEFINE r == [attempts[k] EXCEPT !.silent = TRUE]
      <3>1. attempts' = [attempts EXCEPT ![k] = r]
        BY <2>5 DEF LoseAnswer
      <3>2. SameTerms(r, attempts[k]) /\ r.stage \in {"sent", "served", "done"}
        BY <2>2 DEF SameTerms, AttemptFields, AttemptTyped
      <3> HIDE DEF r
      <3> QED
        BY <2>1, <2>3, <3>1, <3>2, AttemptFieldsFit
    <2> QED
      BY <1>10, <2>4, <2>5
  <1>11. ASSUME NEW p \in Payees, NEW v \in Typed[p], TypeIban(p, v)
         PROVE  FieldsFit'
    BY <1>3, <1>11 DEF Meant
  <1>12. CASE TypeIban(None, Foreign)
    BY <1>3, <1>12 DEF Meant
  <1> QED
    BY <1>4, <1>5, <1>6, <1>7, <1>8, <1>9, <1>10, <1>11, <1>12 DEF BrowserNext

\* What the route records is what the attempt asked for.
LEMMA ServeTyped ==
  ASSUME FieldsFit, FormFits, NEW k \in DOMAIN attempts, Serve(k), UNCHANGED plan,
         clock' = clock
  PROVE  FieldsFit'
  <1> DEFINE t == attempts[k]
  <1>1. DOMAIN t = AttemptFields /\ AttemptTyped(t)
    BY DEF FormFits, AttemptsShow, FieldsFit
  <1>2. FormTyped(form') /\ UNCHANGED <<plan, edits, clock>>
    BY DEF Serve, FieldsFit
  <1>3. CASE paid' = paid /\ attempts' = [attempts EXCEPT ![k].stage = "served", ![k].refused = TRUE]
    <2> DEFINE r == [t EXCEPT !.stage = "served", !.refused = TRUE]
    <2>1. attempts' = [attempts EXCEPT ![k] = r]
      BY <1>3
    <2>2. SameTerms(r, attempts[k]) /\ r.stage = "served"
      BY <1>1 DEF SameTerms, AttemptFields
    <2> HIDE DEF r
    <2> QED
      BY <1>2, <1>3, <2>1, <2>2, AttemptFieldsFit
  <1>4. CASE /\ paid' = [paid EXCEPT ![k] = Recorded(t)]
             /\ attempts' = [attempts EXCEPT ![k].stage = "served"]
    <2> DEFINE r == [t EXCEPT !.stage = "served"]
    <2>1. attempts' = [attempts EXCEPT ![k] = r]
      BY <1>4
    <2>2. SameTerms(r, attempts[k]) /\ r.stage = "served"
      BY <1>1 DEF SameTerms, AttemptFields
    <2> HIDE DEF r
    <2> QED
      BY <1>2, <1>4, <2>1, <2>2, AttemptFieldsFit
  <1> QED
    BY <1>3, <1>4 DEF Serve

-----------------------------------------------------------------------------
(* What is meant once.                                                     *)

\* Steps that leave the attempts alone, and the form waiting if it was.
LEMMA AttemptsUnchanged ==
  ASSUME AttemptsWait, UNCHANGED <<attempts, paid, intention>>, form.loading => form'.loading
  PROVE  AttemptsWait'
  BY DEF AttemptsWait, Open, Paid

\* An answer, a lost one and a served request move one attempt on.
LEMMA AttemptMoved ==
  ASSUME AttemptsWait, NEW k \in DOMAIN attempts, attempts[k].stage # "done", ~attempts[k].silent,
         NEW r, attempts' = [attempts EXCEPT ![k] = r], r.intention = attempts[k].intention,
         paid' = paid,
         \/ /\ r.stage = "done" /\ ~r.silent /\ r.refused = attempts[k].refused
            /\ attempts[k].stage = "served"
            /\ intention' = IF attempts[k].refused THEN intention ELSE intention + 1
         \/ /\ r.stage = attempts[k].stage /\ r.silent /\ r.refused = attempts[k].refused
            /\ intention' = intention
  PROVE  AttemptsWait'
  <1>1. /\ DOMAIN attempts' = DOMAIN attempts
        /\ attempts'[k] = r
        /\ \A j \in DOMAIN attempts : j # k => attempts'[j] = attempts[j]
    OBVIOUS
  <1>2. /\ Open(k) /\ Paid' = Paid /\ Paid \subseteq DOMAIN attempts
        /\ intention \in Nat /\ intention' \in Nat /\ intention <= intention'
        /\ attempts[k].intention = intention
    BY <1>1 DEF AttemptsWait, Open, Paid
  <1>3. \A j \in DOMAIN attempts : ~Open(j)'
    <2> SUFFICES ASSUME NEW j \in DOMAIN attempts
                 PROVE  ~Open(j)'
      OBVIOUS
    <2>1. CASE j = k
      BY <2>1, <1>1 DEF Open
    <2>2. CASE j # k
      <3>1. ~Open(j)
        BY <2>2, <1>2 DEF AttemptsWait
      <3> QED
        BY <3>1, <2>2, <1>1 DEF Open
    <2> QED
      BY <2>1, <2>2
  <1>4. \A j \in DOMAIN attempts :
          /\ attempts'[j].intention \in 0 .. intention'
          /\ attempts'[j].stage = "done" =>
               ~attempts'[j].silent /\ (attempts'[j].refused \/ attempts'[j].intention < intention')
          /\ j \in Paid => ~attempts'[j].refused
          /\ attempts'[j].stage = "sent" => j \notin Paid /\ ~attempts'[j].refused
    <2> SUFFICES ASSUME NEW j \in DOMAIN attempts
                 PROVE  /\ attempts'[j].intention \in 0 .. intention'
                        /\ attempts'[j].stage = "done" =>
                             /\ ~attempts'[j].silent
                             /\ attempts'[j].refused \/ attempts'[j].intention < intention'
                        /\ j \in Paid => ~attempts'[j].refused
                        /\ attempts'[j].stage = "sent" => j \notin Paid /\ ~attempts'[j].refused
      OBVIOUS
    <2>1. /\ attempts[j].intention \in 0 .. intention
          /\ attempts[j].stage = "done" =>
               ~attempts[j].silent /\ (attempts[j].refused \/ attempts[j].intention < intention)
          /\ j \in Paid => ~attempts[j].refused
          /\ attempts[j].stage = "sent" => j \notin Paid /\ ~attempts[j].refused
      BY DEF AttemptsWait
    <2>2. CASE j = k
      BY <2>1, <2>2, <1>1, <1>2
    <2>3. CASE j # k
      BY <2>1, <2>3, <1>1, <1>2
    <2> QED
      BY <2>2, <2>3
  <1>5. ASSUME NEW i \in Paid, NEW j \in Paid, attempts'[i].intention = attempts'[j].intention
        PROVE  i = j \/ attempts'[i].silent \/ attempts'[j].silent
    <2>1. attempts[i].intention = attempts[j].intention
      BY <1>1, <1>2, <1>5
    <2>2. i = j \/ attempts[i].silent \/ attempts[j].silent
      BY <2>1 DEF AttemptsWait
    <2>3. attempts[i].silent => attempts'[i].silent
      BY <1>1, <1>2
    <2>4. attempts[j].silent => attempts'[j].silent
      BY <1>1, <1>2
    <2> QED
      BY <2>2, <2>3, <2>4
  <1> QED
    BY <1>1, <1>2, <1>3, <1>4, <1>5 DEF AttemptsWait

\* A form that waits for nothing sends the next attempt, of which nothing is paid yet.
LEMMA SubmitWaits ==
  ASSUME FormFits, AttemptsWait, Submit, UNCHANGED paid
  PROVE  AttemptsWait'
  <1> DEFINE r ==
         [type |-> form.type, from |-> form.from, iban |-> form.iban,
          currency |-> form.currency, amount |-> form.amount, preview |-> Preview,
          payee |-> form.payee, shown |-> form.recipient, late |-> form.late,
          intention |-> intention, stage |-> "sent", silent |-> FALSE, refused |-> FALSE]
  <1>1. FormShows /\ AttemptsShow /\ PaymentsFit /\ plan \in Plans
    BY DEF FormFits
  <1>2. CASE UNCHANGED attempts /\ form' = [form EXCEPT !.message = "error"]
    <2>1. form'.loading = form.loading /\ UNCHANGED intention
      BY <1>1, <1>2 DEF FormShows, FormFields, Submit
    <2> QED
      BY <1>2, <2>1, AttemptsUnchanged
  <1>3. CASE attempts' = Append(attempts, r) /\ form' = [form EXCEPT !.loading = TRUE, !.message = "none"]
    <2>1. form'.loading /\ ~form.loading /\ intention' = intention /\ Len(attempts) < plan.submits
      BY <1>1, <1>3 DEF FormShows, FormFields, Submit, MaySubmit
    <2>2. r.intention = intention /\ r.stage = "sent" /\ ~r.silent /\ ~r.refused
      OBVIOUS
    <2>3. attempts' = Append(attempts, r)
      BY <1>3
    <2> HIDE DEF r
    <2>4. /\ Len(attempts) \in Nat /\ Len(attempts) <= MaxSubmits
          /\ DOMAIN attempts = 1 .. Len(attempts)
      BY <1>1, AttemptsFacts
    <2>5. PICK U : r \in U /\ attempts \in Seq(U)
      BY <1>1, AttemptsFacts
    <2> DEFINE n == Len(attempts) + 1
    <2>6. /\ DOMAIN attempts' = DOMAIN attempts \cup {n} /\ n \notin DOMAIN attempts
          /\ attempts'[n] = r
          /\ \A j \in DOMAIN attempts : attempts'[j] = attempts[j]
      BY <2>3, <2>4, <2>5
    <2>7. n \in 1 .. MaxSubmits
      <3>1. plan.submits \in 0 .. MaxSubmits
        BY <1>1, PlansAssumption
      <3> QED
        BY <3>1, <2>1, <2>4, BoundsAssumption
    <2> HIDE DEF n
    <2>8. Paid' = Paid
      <3>1. paid[n] = None
        BY <2>6, <2>7, <1>1 DEF PaymentsFit
      <3> QED
        BY <3>1, <2>6 DEF Paid
    <2>9. \A j \in DOMAIN attempts : ~Open(j) /\ ~Open(j)'
      BY <2>1, <2>6 DEF AttemptsWait, Open
    <2>10. \A j, k \in DOMAIN attempts' : Open(j)' /\ Open(k)' => j = k
      BY <2>6, <2>9
    <2>11. intention \in Nat /\ Paid \subseteq DOMAIN attempts
      BY DEF AttemptsWait, Paid
    <2>12. \A j \in DOMAIN attempts' :
             /\ attempts'[j].intention \in 0 .. intention'
             /\ Open(j)' => form'.loading /\ attempts'[j].intention = intention'
             /\ attempts'[j].stage = "done" =>
                  ~attempts'[j].silent /\ (attempts'[j].refused \/ attempts'[j].intention < intention')
             /\ j \in Paid' => ~attempts'[j].refused
             /\ attempts'[j].stage = "sent" => j \notin Paid' /\ ~attempts'[j].refused
      <3> SUFFICES ASSUME NEW j \in DOMAIN attempts'
                   PROVE  /\ attempts'[j].intention \in 0 .. intention'
                          /\ Open(j)' => form'.loading /\ attempts'[j].intention = intention'
                          /\ attempts'[j].stage = "done" =>
                               /\ ~attempts'[j].silent
                               /\ attempts'[j].refused \/ attempts'[j].intention < intention'
                          /\ j \in Paid' => ~attempts'[j].refused
                          /\ attempts'[j].stage = "sent" => j \notin Paid' /\ ~attempts'[j].refused
        OBVIOUS
      <3>1. CASE j = n
        BY <3>1, <2>1, <2>2, <2>6, <2>8, <2>11
      <3>2. CASE j # n
        <4>1. j \in DOMAIN attempts /\ attempts'[j] = attempts[j]
          BY <3>2, <2>6
        <4>2. /\ attempts[j].intention \in 0 .. intention
              /\ attempts[j].stage = "done" =>
                   ~attempts[j].silent /\ (attempts[j].refused \/ attempts[j].intention < intention)
              /\ j \in Paid => ~attempts[j].refused
              /\ attempts[j].stage = "sent" => j \notin Paid /\ ~attempts[j].refused
          BY <4>1 DEF AttemptsWait
        <4> QED
          BY <4>1, <4>2, <2>1, <2>8, <2>9
      <3> QED
        BY <3>1, <3>2
    <2>13. \A i, j \in Paid' :
             attempts'[i].intention = attempts'[j].intention =>
               i = j \/ attempts'[i].silent \/ attempts'[j].silent
      <3> SUFFICES ASSUME NEW i \in Paid, NEW j \in Paid,
                          attempts'[i].intention = attempts'[j].intention
                   PROVE  i = j \/ attempts'[i].silent \/ attempts'[j].silent
        BY <2>8
      <3>1. attempts'[i] = attempts[i] /\ attempts'[j] = attempts[j]
        BY <2>6, <2>11
      <3> QED
        BY <3>1 DEF AttemptsWait
    <2> QED
      BY <2>1, <2>10, <2>11, <2>12, <2>13 DEF AttemptsWait
  <1> QED
    BY <1>2, <1>3 DEF Submit

\* Every step of the browser.
LEMMA BrowserWaits ==
  ASSUME FormFits, AttemptsWait, BrowserNext, UNCHANGED paid
  PROVE  AttemptsWait'
  <1>1. DOMAIN form = FormFields /\ AttemptsShow
    BY DEF FormFits, FormShows
  <1>2. ASSUME UNCHANGED <<attempts, intention>>,
               \/ \E p, v : TypeIban(p, v)
               \/ \E t : SwitchType(t)
               \/ \E a : TypeAmount(a) \/ PickCurrency(a)
               \/ VerifyRecipient
               \/ \E j \in DOMAIN checks : AnswerCheck(j)
        PROVE  AttemptsWait'
    <2>1. form'.loading = form.loading
      BY <1>1, <1>2 DEF TypeIban, SwitchType, TypeAmount, PickCurrency, VerifyRecipient, AnswerCheck,
                        Unchecked, FormFields
    <2> QED
      BY <1>2, <2>1, AttemptsUnchanged
  <1>3. ASSUME NEW k \in DOMAIN attempts, Deliver(k) \/ LoseAnswer(k)
        PROVE  AttemptsWait'
    <2>1. DOMAIN attempts[k] = AttemptFields
      BY <1>1 DEF AttemptsShow
    <2>2. CASE Deliver(k)
      <3> DEFINE r == [attempts[k] EXCEPT !.stage = "done"]
      <3>1. attempts' = [attempts EXCEPT ![k] = r]
        BY <2>2 DEF Deliver
      <3>2. /\ r.intention = attempts[k].intention /\ r.stage = "done" /\ r.silent = attempts[k].silent
            /\ r.refused = attempts[k].refused
        BY <2>1 DEF AttemptFields
      <3> HIDE DEF r
      <3>3. /\ attempts[k].stage = "served" /\ ~attempts[k].silent
            /\ intention' = IF attempts[k].refused THEN intention ELSE intention + 1
        BY <2>2 DEF Deliver
      <3> QED
        BY <3>1, <3>2, <3>3, AttemptMoved
    <2>3. CASE LoseAnswer(k)
      <3> DEFINE r == [attempts[k] EXCEPT !.silent = TRUE]
      <3>1. attempts' = [attempts EXCEPT ![k] = r]
        BY <2>3 DEF LoseAnswer
      <3>2. /\ r.intention = attempts[k].intention /\ r.stage = attempts[k].stage /\ r.silent
            /\ r.refused = attempts[k].refused
        BY <2>1 DEF AttemptFields
      <3> HIDE DEF r
      <3>3. attempts[k].stage # "done" /\ ~attempts[k].silent /\ intention' = intention
        BY <2>3 DEF LoseAnswer
      <3> QED
        BY <3>1, <3>2, <3>3, AttemptMoved
    <2> QED
      BY <1>3, <2>2, <2>3
  <1>4. CASE Submit
    BY <1>4, SubmitWaits
  <1> QED
    BY <1>2, <1>3, <1>4 DEF BrowserNext, TypeIban, SwitchType, TypeAmount, PickCurrency,
                            VerifyRecipient, AnswerCheck

\* What is paid is paid for an attempt that waits for its answer, unless nobody waits.
LEMMA ServeWaits ==
  ASSUME FormFits, AttemptsWait, NEW k \in DOMAIN attempts, Serve(k)
  PROVE  AttemptsWait'
  <1>1. AttemptsShow /\ PaymentsFit /\ DOMAIN attempts[k] = AttemptFields
    BY DEF FormFits, AttemptsShow
  <1>2. form' = form /\ intention' = intention /\ attempts[k].stage = "sent"
    BY DEF Serve
  <1>3. \E r : /\ attempts' = [attempts EXCEPT ![k] = r]
               /\ r.stage = "served" /\ r.silent = attempts[k].silent
               /\ r.intention = attempts[k].intention
               /\ \/ r.refused /\ paid' = paid
                  \/ r.refused = attempts[k].refused /\ \E v : paid' = [paid EXCEPT ![k] = v]
    <2>1. CASE attempts' = [attempts EXCEPT ![k].stage = "served", ![k].refused = TRUE] /\ paid' = paid
      <3> DEFINE r == [attempts[k] EXCEPT !.stage = "served", !.refused = TRUE]
      <3>1. attempts' = [attempts EXCEPT ![k] = r]
        BY <2>1
      <3>2. r.stage = "served" /\ r.silent = attempts[k].silent /\ r.refused
            /\ r.intention = attempts[k].intention
        BY <1>1 DEF AttemptFields
      <3> QED
        BY <2>1, <3>1, <3>2
    <2>2. CASE /\ attempts' = [attempts EXCEPT ![k].stage = "served"]
               /\ paid' = [paid EXCEPT ![k] = Recorded(attempts[k])]
      <3> DEFINE r == [attempts[k] EXCEPT !.stage = "served"]
      <3>1. attempts' = [attempts EXCEPT ![k] = r]
        BY <2>2
      <3>2. /\ r.stage = "served" /\ r.silent = attempts[k].silent
            /\ r.refused = attempts[k].refused /\ r.intention = attempts[k].intention
        BY <1>1 DEF AttemptFields
      <3> QED
        BY <2>2, <3>1, <3>2
    <2> QED
      BY <2>1, <2>2 DEF Serve
  <1>4. PICK r : /\ attempts' = [attempts EXCEPT ![k] = r]
                 /\ r.stage = "served" /\ r.silent = attempts[k].silent
                 /\ r.intention = attempts[k].intention
                 /\ \/ r.refused /\ paid' = paid
                    \/ r.refused = attempts[k].refused /\ \E v : paid' = [paid EXCEPT ![k] = v]
    BY <1>3
  <1>5. /\ DOMAIN attempts' = DOMAIN attempts
        /\ attempts'[k] = r
        /\ \A j \in DOMAIN attempts : j # k => attempts'[j] = attempts[j]
    BY <1>4
  <1>6. k \notin Paid /\ Paid \subseteq DOMAIN attempts
    BY <1>2 DEF AttemptsWait, Paid
  <1>7. Paid' \subseteq Paid \cup {k} /\ (r.refused => Paid' \subseteq Paid)
    <2>1. DOMAIN attempts \subseteq DOMAIN paid
      <3>1. Len(attempts) \in Nat /\ Len(attempts) <= MaxSubmits /\ DOMAIN attempts = 1 .. Len(attempts)
        BY <1>1, AttemptsFacts
      <3> QED
        BY <3>1, <1>1, BoundsAssumption DEF PaymentsFit
    <2>2. \A j \in DOMAIN attempts : j # k => paid'[j] = paid[j]
      BY <1>4, <2>1
    <2>3. Paid' \subseteq Paid \cup {k}
      BY <1>5, <2>2 DEF Paid
    <2>4. ~attempts[k].refused
      BY <1>2 DEF AttemptsWait
    <2>5. r.refused => Paid' = Paid
      BY <1>4, <1>5, <2>4 DEF Paid
    <2> QED
      BY <2>3, <2>5
  <1>8. intention \in Nat
    BY DEF AttemptsWait
  <1>9. \A j \in DOMAIN attempts : Open(j)' = Open(j)
    BY <1>2, <1>4, <1>5 DEF Open
  <1>10. \A j \in DOMAIN attempts' :
           /\ attempts'[j].intention \in 0 .. intention'
           /\ Open(j)' => form'.loading /\ attempts'[j].intention = intention'
           /\ attempts'[j].stage = "done" =>
                ~attempts'[j].silent /\ (attempts'[j].refused \/ attempts'[j].intention < intention')
           /\ j \in Paid' => ~attempts'[j].refused
           /\ attempts'[j].stage = "sent" => j \notin Paid' /\ ~attempts'[j].refused
    <2> SUFFICES ASSUME NEW j \in DOMAIN attempts
                 PROVE  /\ attempts'[j].intention \in 0 .. intention'
                        /\ Open(j)' => form'.loading /\ attempts'[j].intention = intention'
                        /\ attempts'[j].stage = "done" =>
                             /\ ~attempts'[j].silent
                             /\ attempts'[j].refused \/ attempts'[j].intention < intention'
                        /\ j \in Paid' => ~attempts'[j].refused
                        /\ attempts'[j].stage = "sent" => j \notin Paid' /\ ~attempts'[j].refused
      BY <1>5
    <2>1. /\ attempts[j].intention \in 0 .. intention
          /\ Open(j) => form.loading /\ attempts[j].intention = intention
          /\ attempts[j].stage = "done" =>
               ~attempts[j].silent /\ (attempts[j].refused \/ attempts[j].intention < intention)
          /\ j \in Paid => ~attempts[j].refused
          /\ attempts[j].stage = "sent" => j \notin Paid /\ ~attempts[j].refused
      BY DEF AttemptsWait
    <2>2. attempts'[j].intention = attempts[j].intention
      BY <1>4, <1>5
    <2>3. CASE j = k
      BY <2>1, <2>2, <2>3, <1>2, <1>4, <1>5, <1>6, <1>7, <1>9
    <2>4. CASE j # k
      BY <2>1, <2>2, <2>4, <1>2, <1>5, <1>7, <1>9
    <2> QED
      BY <2>3, <2>4
  <1>11. \A i, j \in DOMAIN attempts' : Open(i)' /\ Open(j)' => i = j
    BY <1>5, <1>9 DEF AttemptsWait
  <1>12. ASSUME NEW i \in Paid, attempts[i].intention = attempts[k].intention
         PROVE  attempts[i].silent \/ attempts[k].silent
    <2> SUFFICES ASSUME ~attempts[i].silent, ~attempts[k].silent
                 PROVE  FALSE
      OBVIOUS
    <2>1. Open(k) /\ i # k
      BY <1>2, <1>6 DEF Open
    <2>2. attempts[i].intention = intention
      BY <2>1, <1>12 DEF AttemptsWait
    <2>3. ~Open(i)
      BY <2>1, <1>6 DEF AttemptsWait
    <2>4. attempts[i].stage = "done" /\ ~attempts[i].refused
      BY <2>3, <1>6 DEF Open, AttemptsWait
    <2>5. attempts[i].intention < intention
      BY <2>4, <1>6 DEF AttemptsWait
    <2> QED
      BY <2>2, <2>5, <1>8
  <1>13. ASSUME NEW i \in Paid', NEW j \in Paid', attempts'[i].intention = attempts'[j].intention
         PROVE  i = j \/ attempts'[i].silent \/ attempts'[j].silent
    <2>1. /\ i \in Paid \cup {k} /\ j \in Paid \cup {k}
      BY <1>7
    <2>2. \A l \in Paid \cup {k} : /\ attempts'[l].intention = attempts[l].intention
                                   /\ attempts'[l].silent = attempts[l].silent
      BY <1>4, <1>5, <1>6
    <2>3. attempts[i].intention = attempts[j].intention
      BY <1>13, <2>1, <2>2
    <2>4. i = j \/ attempts[i].silent \/ attempts[j].silent
      BY <2>1, <2>3, <1>12 DEF AttemptsWait
    <2> QED
      BY <2>1, <2>2, <2>4
  <1> QED
    BY <1>2, <1>8, <1>10, <1>11, <1>13 DEF AttemptsWait

\* Services leave the forms as they are.
LEMMA CallsKeepWaiting ==
  ASSUME CallsWait, page' = page, DOMAIN calls' = DOMAIN calls,
         \A i \in DOMAIN calls : /\ calls'[i].page = calls[i].page
                                 /\ calls'[i].op = calls[i].op
                                 /\ calls'[i].silent = calls[i].silent
                                 /\ calls'[i].heard = calls[i].heard
  PROVE  CallsWait'
  BY DEF CallsWait

\* A page that is made anew keeps its forms.
LEMMA ReloadWaits ==
  ASSUME DeskInv, CallsWait, NEW p \in Pages, Reload(p)
  PROVE  CallsWait'
  <1>1. account \in Account /\ calls' = calls /\ page \in [Pages -> Page]
    BY DeskParts DEF CallsWait, Reload
  <1>2. page[p] \in Page /\ page' = [page EXCEPT ![p] = [page[p] EXCEPT !.shown = account]]
    BY <1>1 DEF Reload
  <1>3. /\ [page[p] EXCEPT !.shown = account] \in Page
        /\ [page[p] EXCEPT !.shown = account].waiting = page[p].waiting
    BY <1>1, <1>2 DEF Page
  <1>4. page' \in [Pages -> Page] /\ \A q \in Pages : page'[q].waiting = page[q].waiting
    BY <1>1, <1>2, <1>3
  <1>5. \A i \in DOMAIN calls : calls[i].page \in Pages
    <2>1. calls \in Seq(Call)
      BY DeskParts
    <2>2. \A i \in DOMAIN calls : calls[i] \in Call
      BY <2>1, CallFacts
    <2> QED
      BY <2>2 DEF Call
  <1> QED
    BY <1>1, <1>4, <1>5 DEF CallsWait

\* A form is sent only when no answer to it is due.
LEMMA PressWaits ==
  ASSUME DeskInv, CallsWait, NEW p \in Pages, NEW op \in DeskOps, Press(p, op)
  PROVE  CallsWait'
  <1> DEFINE c == [page |-> p, op |-> op, stage |-> "sent", done |-> FALSE,
                   heard |-> FALSE, silent |-> FALSE, met |-> {}]
  <1>1. /\ calls' = Append(calls, c) /\ calls \in Seq(Call) /\ page \in [Pages -> Page]
        /\ FormOf(op) \notin page[p].waiting
        /\ page' = [page EXCEPT ![p].waiting = @ \cup {FormOf(op)}]
    BY DeskParts DEF Press, CallsWait
  <1>2. c \in Call /\ c.page = p /\ c.op = op
    BY DEF Call
  <1> HIDE DEF c
  <1> DEFINE n == Len(calls) + 1
  <1>3. /\ Len(calls) \in Nat /\ DOMAIN calls = 1 .. Len(calls)
        /\ DOMAIN calls' = DOMAIN calls \cup {n}
        /\ \A i \in DOMAIN calls : i < n /\ i # n /\ calls'[i] = calls[i]
        /\ calls'[n] = c
    BY <1>1, <1>2
  <1>4. \A i \in DOMAIN calls : calls[i].page \in Pages
    <2>1. \A i \in DOMAIN calls : calls[i] \in Call
      BY <1>1, CallFacts
    <2> QED
      BY <2>1 DEF Call
  <1>5. /\ page' \in [Pages -> Page]
        /\ \A q \in Pages : page[q].waiting \subseteq page'[q].waiting
        /\ FormOf(op) \in page'[p].waiting
    <2>1. page[p] \in Page
      BY <1>1
    <2>2. /\ [page[p] EXCEPT !.waiting = @ \cup {FormOf(op)}] \in Page
          /\ [page[p] EXCEPT !.waiting = @ \cup {FormOf(op)}].waiting
               = page[p].waiting \cup {FormOf(op)}
      BY <2>1 DEF Page
    <2> QED
      BY <1>1, <2>1, <2>2
  <1>6. \A i \in DOMAIN calls' :
          calls'[i].silent \/ calls'[i].heard \/ FormOf(calls'[i].op) \in page'[calls'[i].page].waiting
    <2> SUFFICES ASSUME NEW i \in DOMAIN calls'
                 PROVE  \/ calls'[i].silent \/ calls'[i].heard
                        \/ FormOf(calls'[i].op) \in page'[calls'[i].page].waiting
      OBVIOUS
    <2>1. CASE i = n
      BY <2>1, <1>2, <1>3, <1>5
    <2>2. CASE i \in DOMAIN calls
      <3>1. calls[i].silent \/ calls[i].heard \/ FormOf(calls[i].op) \in page[calls[i].page].waiting
        BY <2>2 DEF CallsWait
      <3> QED
        BY <2>2, <3>1, <1>3, <1>4, <1>5
    <2> QED
      BY <2>1, <2>2, <1>3
  <1>7. ASSUME NEW i \in DOMAIN calls', NEW j \in DOMAIN calls', i < j,
               calls'[i].page = calls'[j].page, FormOf(calls'[i].op) = FormOf(calls'[j].op)
        PROVE  calls'[i].silent \/ calls'[i].heard
    <2>1. i \in DOMAIN calls /\ calls'[i] = calls[i]
      <3>1. i \in 1 .. Len(calls) + 1 /\ j \in 1 .. Len(calls) + 1
        BY <1>3
      <3>2. i \in 1 .. Len(calls)
        BY <3>1, <1>3, <1>7
      <3> QED
        BY <3>2, <1>3
    <2>2. CASE j = n
      <3>1. calls[i].page = p /\ FormOf(calls[i].op) = FormOf(op)
        BY <2>1, <2>2, <1>2, <1>3, <1>7
      <3> QED
        BY <2>1, <3>1, <1>1 DEF CallsWait
    <2>3. CASE j \in DOMAIN calls
      <3>1. calls'[j] = calls[j]
        BY <2>3, <1>3
      <3> QED
        BY <2>1, <2>3, <3>1, <1>7 DEF CallsWait
    <2> QED
      BY <2>2, <2>3, <1>3
  <1> QED
    BY <1>5, <1>6, <1>7 DEF CallsWait

\* An answer that arrives or is lost frees the form, and it was the only one due there.
LEMMA AnswerFrees ==
  ASSUME DeskInv, CallsWait, NEW w \in DOMAIN calls, ~calls[w].silent, ~calls[w].heard,
         \/ calls' = [calls EXCEPT ![w].heard = TRUE]
         \/ calls' = [calls EXCEPT ![w].silent = TRUE],
         \/ page' = [page EXCEPT ![calls[w].page] = Answered(w)]
         \/ \E shown \in Account :
              page' = [page EXCEPT ![calls[w].page] = [Answered(w) EXCEPT !.shown = shown]]
  PROVE  CallsWait'
  <1> DEFINE p == calls[w].page
             f == FormOf(calls[w].op)
  <1>1. /\ calls \in Seq(Call) /\ calls[w] \in Call /\ page \in [Pages -> Page]
        /\ Len(calls) \in Nat /\ DOMAIN calls = 1 .. Len(calls)
    BY DeskParts, CallFacts DEF CallsWait
  <1>2. \A i \in DOMAIN calls : calls[i].page \in Pages
    <2>1. \A i \in DOMAIN calls : calls[i] \in Call
      BY <1>1, CallFacts
    <2> QED
      BY <2>1 DEF Call
  <1>3. /\ DOMAIN calls' = DOMAIN calls
        /\ \A j \in DOMAIN calls : j # w => calls'[j] = calls[j]
        /\ calls'[w].silent \/ calls'[w].heard
        /\ calls'[w].page = p /\ calls'[w].op = calls[w].op
    BY <1>1 DEF Call
  <1>4. page[p] \in Page /\ p \in Pages
    BY <1>1, <1>2
  <1>5. Answered(w) \in Page /\ Answered(w).waiting = page[p].waiting \ {f}
    BY <1>4 DEF Answered, Page
  <1>6. /\ page' \in [Pages -> Page]
        /\ \A q \in Pages : q # p => page'[q].waiting = page[q].waiting
        /\ page'[p].waiting = page[p].waiting \ {f}
    <2>1. PICK v : /\ page' = [page EXCEPT ![p] = v] /\ v \in Page
                   /\ v.waiting = page[p].waiting \ {f}
      <3>1. CASE page' = [page EXCEPT ![p] = Answered(w)]
        BY <3>1, <1>5
      <3>2. ASSUME NEW shown \in Account,
                   page' = [page EXCEPT ![p] = [Answered(w) EXCEPT !.shown = shown]]
            PROVE  \E v : /\ page' = [page EXCEPT ![p] = v] /\ v \in Page
                          /\ v.waiting = page[p].waiting \ {f}
        <4>1. /\ [Answered(w) EXCEPT !.shown = shown] \in Page
              /\ [Answered(w) EXCEPT !.shown = shown].waiting = Answered(w).waiting
          BY <1>5 DEF Page
        <4> QED
          BY <3>2, <4>1, <1>5
      <3> QED
        BY <3>1, <3>2
    <2> HIDE DEF p, f
    <2> QED
      BY <2>1, <1>1, <1>4
  <1> HIDE DEF p, f
  <1>7. \A i \in DOMAIN calls :
          i # w /\ ~calls[i].silent /\ ~calls[i].heard => calls[i].page # p \/ FormOf(calls[i].op) # f
    <2> SUFFICES ASSUME NEW i \in DOMAIN calls, i # w, ~calls[i].silent, ~calls[i].heard,
                        calls[i].page = p, FormOf(calls[i].op) = f
                 PROVE  FALSE
      OBVIOUS
    <2>1. i < w \/ w < i
      BY <1>1
    <2> QED
      BY <2>1 DEF p, f, CallsWait
  <1>8. \A i \in DOMAIN calls' :
          calls'[i].silent \/ calls'[i].heard \/ FormOf(calls'[i].op) \in page'[calls'[i].page].waiting
    <2> SUFFICES ASSUME NEW i \in DOMAIN calls, i # w, ~calls[i].silent, ~calls[i].heard
                 PROVE  FormOf(calls[i].op) \in page'[calls[i].page].waiting
      BY <1>3
    <2>1. FormOf(calls[i].op) \in page[calls[i].page].waiting /\ calls[i].page \in Pages
      BY <1>2 DEF CallsWait
    <2>2. calls[i].page # p \/ FormOf(calls[i].op) # f
      BY <1>7
    <2> QED
      BY <2>1, <2>2, <1>6
  <1>9. ASSUME NEW i \in DOMAIN calls', NEW j \in DOMAIN calls', i < j,
               calls'[i].page = calls'[j].page, FormOf(calls'[i].op) = FormOf(calls'[j].op)
        PROVE  calls'[i].silent \/ calls'[i].heard
    <2>1. /\ calls'[i].page = calls[i].page /\ calls'[i].op = calls[i].op
          /\ calls'[j].page = calls[j].page /\ calls'[j].op = calls[j].op
      BY <1>3 DEF p
    <2>2. calls[i].silent \/ calls[i].heard
      BY <2>1, <1>3, <1>9 DEF CallsWait
    <2> QED
      BY <2>2, <1>3
  <1> QED
    BY <1>6, <1>8, <1>9 DEF CallsWait

\* All but one of A are in S.
LEMMA AllButOne ==
  ASSUME NEW D, IsFiniteSet(D), NEW A \in SUBSET D, NEW S \in SUBSET D,
         \A x, y \in A : x = y \/ x \in S \/ y \in S
  PROVE  Cardinality(A) <= 1 + Cardinality(S)
  <1>1. IsFiniteSet(S) /\ Cardinality(S) \in Nat /\ IsFiniteSet(A) /\ Cardinality(A) \in Nat
    BY FS_Subset, FS_CardinalityType
  <1>2. CASE A \subseteq S
    BY <1>1, <1>2, FS_Subset
  <1>3. CASE ~(A \subseteq S)
    <2>1. PICK x \in A : x \notin S
      BY <1>3
    <2>2. A \subseteq S \cup {x}
      BY <2>1
    <2>3. IsFiniteSet(S \cup {x}) /\ Cardinality(S \cup {x}) = Cardinality(S) + 1
      BY <1>1, <2>1, FS_AddElement
    <2>4. Cardinality(A) <= Cardinality(S \cup {x})
      BY <2>2, <2>3, FS_Subset
    <2> QED
      BY <1>1, <2>3, <2>4
  <1> QED
    BY <1>2, <1>3

\* Two payments with one intention: one of the attempts was left without an answer.  Two
\* calls of a form that went well and were answered: the first answer ended the intention.
LEMMA RepeatsAreSilent ==
  ASSUME FormFits, DeskInv, FormsWait
  PROVE  PaidTwiceOnlyAfterSilence
  <1>1. AttemptsWait /\ CallsWait /\ AttemptsShow
    BY DEF FormsWait, FormFits
  <1>2. TransfersRepeatOnlyAfterSilence
    <2> SUFFICES ASSUME NEW i \in 0 .. intention
                 PROVE  LET mine == {k \in DOMAIN attempts : attempts[k].intention = i} IN
                        Cardinality(mine \cap Paid)
                          <= 1 + Cardinality({k \in mine : attempts[k].silent})
      BY DEF TransfersRepeatOnlyAfterSilence
    <2> DEFINE mine == {k \in DOMAIN attempts : attempts[k].intention = i}
               A == mine \cap Paid
               S == {k \in mine : attempts[k].silent}
    <2>1. IsFiniteSet(DOMAIN attempts)
      <3>1. Len(attempts) \in Nat /\ DOMAIN attempts = 1 .. Len(attempts)
        BY <1>1, AttemptsFacts
      <3> QED
        BY <3>1, FS_Interval
    <2>2. A \in SUBSET DOMAIN attempts /\ S \in SUBSET DOMAIN attempts
      OBVIOUS
    <2>3. \A j, k \in A : j = k \/ j \in S \/ k \in S
      BY <1>1 DEF AttemptsWait
    <2> HIDE DEF A, S
    <2>4. Cardinality(A) <= 1 + Cardinality(S)
      BY <2>1, <2>2, <2>3, AllButOne
    <2> QED
      BY <2>4 DEF A, S
  <1>3. MovementsRepeatOnlyAfterSilence
    <2> SUFFICES ASSUME NEW i \in DOMAIN calls
                 PROVE  LET mine == {j \in DOMAIN calls : Again(i, j)} IN
                        Cardinality({j \in mine : calls[j].done})
                          <= 1 + Cardinality({j \in mine : calls[j].silent})
      BY DEF MovementsRepeatOnlyAfterSilence
    <2> DEFINE mine == {j \in DOMAIN calls : Again(i, j)}
               A == {j \in mine : calls[j].done}
               S == {j \in mine : calls[j].silent}
    <2>1. Len(calls) \in Nat /\ DOMAIN calls = 1 .. Len(calls) /\ IsFiniteSet(DOMAIN calls)
      <3>1. Len(calls) \in Nat /\ DOMAIN calls = 1 .. Len(calls)
        BY DeskParts, CallFacts
      <3> QED
        BY <3>1, FS_Interval
    <2>2. A \in SUBSET DOMAIN calls /\ S \in SUBSET DOMAIN calls
      OBVIOUS
    <2>3. ASSUME NEW j \in A, NEW k \in A, j < k, j \notin S
          PROVE  FALSE
      <3>1. /\ calls[j].page = calls[k].page /\ calls[j].op = calls[k].op
            /\ calls[j].page = calls[i].page /\ calls[j].op = calls[i].op
            /\ calls[j].done /\ ~calls[j].silent
        BY <2>3 DEF Again
      <3>2. calls[j].heard
        BY <3>1, <2>3, <1>1 DEF CallsWait
      <3>3. /\ j < i <=> j < j
            /\ j < i <=> j < k
        BY <3>1, <3>2 DEF Again
      <3> QED
        BY <2>1, <2>3, <3>3
    <2>4. \A j, k \in A : j = k \/ j < k \/ k < j
      BY <2>1
    <2> HIDE DEF A, S
    <2>5. \A j, k \in A : j = k \/ j \in S \/ k \in S
      BY <2>3, <2>4
    <2>6. Cardinality(A) <= 1 + Cardinality(S)
      BY <2>1, <2>2, <2>5, AllButOne
    <2> QED
      BY <2>6 DEF A, S
  <1> QED
    BY <1>2, <1>3 DEF PaidTwiceOnlyAfterSilence

\* Every form makes a call of one of the kinds.
LEMMA PressedWaits ==
  ASSUME DeskInv, CallsWait, NEW p \in Pages, Pressed(p)
  PROVE  CallsWait'
  <1>1. \E op \in DeskOps : Press(p, op)
    BY DEF Pressed, AdminAccountDetail, AdminTransferDetail, SessionCall, AccountDetail,
           CreateAccountForm, FundForm, DebitForm, FreezeForm, BlockTransferForm,
           ReverseTransferForm, RenameForm, CloseAccountForm, DeskOps, StatusOps,
           TransferOps, OwnerOps
  <1> QED
    BY <1>1, PressWaits

\* A service writes into calls only how far a call is, that it went well and whom it met.
LEMMA StagesKeepWaiting ==
  ASSUME DeskInv, CallsWait, NEW w \in DOMAIN calls, page' = page,
         \/ Refuse(w)
         \/ calls' = [calls EXCEPT ![w].stage = "served", ![w].done = TRUE]
         \/ calls' = [j \in DOMAIN calls |->
                     IF j = w THEN [calls[w] EXCEPT !.stage = "looked", !.met = Underway]
                     ELSE IF j \in Underway THEN [calls[j] EXCEPT !.met = @ \cup {w}]
                     ELSE calls[j]]
  PROVE  CallsWait'
  <1>1. \A j \in DOMAIN calls : calls[j] \in Call
    BY DeskParts, CallFacts
  <1> DEFINE Kept(c, d) == c.page = d.page /\ c.op = d.op /\ c.silent = d.silent /\ c.heard = d.heard
  <1>2. \A c \in Call : Kept([c EXCEPT !.stage = "served"], c)
    BY DEF Call
  <1>3. \A c \in Call : Kept([c EXCEPT !.stage = "served", !.done = TRUE], c)
    BY DEF Call
  <1>4. \A c \in Call : \A S : Kept([c EXCEPT !.stage = "looked", !.met = S], c)
    BY DEF Call
  <1>5. \A c \in Call : Kept([c EXCEPT !.met = @ \cup {w}], c)
    BY DEF Call
  <1>6. \A c : Kept(c, c)
    OBVIOUS
  <1> HIDE DEF Kept
  <1>7. DOMAIN calls' = DOMAIN calls /\ \A j \in DOMAIN calls : Kept(calls'[j], calls[j])
    <2>1. CASE Refuse(w)
      <3>1. /\ DOMAIN calls' = DOMAIN calls
            /\ calls'[w] = [calls[w] EXCEPT !.stage = "served"]
            /\ \A j \in DOMAIN calls : j # w => calls'[j] = calls[j]
        BY <2>1 DEF Refuse
      <3>2. Kept(calls'[w], calls[w])
        BY <3>1, <1>1, <1>2
      <3> QED
        BY <3>1, <3>2, <1>6
    <2>2. CASE calls' = [calls EXCEPT ![w].stage = "served", ![w].done = TRUE]
      <3>1. /\ DOMAIN calls' = DOMAIN calls
            /\ calls'[w] = [calls[w] EXCEPT !.stage = "served", !.done = TRUE]
            /\ \A j \in DOMAIN calls : j # w => calls'[j] = calls[j]
        BY <2>2
      <3>2. Kept(calls'[w], calls[w])
        BY <3>1, <1>1, <1>3
      <3> QED
        BY <3>1, <3>2, <1>6
    <2>3. CASE calls' = [j \in DOMAIN calls |->
                     IF j = w THEN [calls[w] EXCEPT !.stage = "looked", !.met = Underway]
                     ELSE IF j \in Underway THEN [calls[j] EXCEPT !.met = @ \cup {w}]
                     ELSE calls[j]]
      <3>1. /\ DOMAIN calls' = DOMAIN calls
            /\ \A j \in DOMAIN calls :
                 \/ j = w /\ calls'[j] = [calls[w] EXCEPT !.stage = "looked", !.met = Underway]
                 \/ calls'[j] = [calls[j] EXCEPT !.met = @ \cup {w}]
                 \/ calls'[j] = calls[j]
        BY <2>3
      <3>2. \A j \in DOMAIN calls : Kept(calls'[j], calls[j])
        <4> TAKE j \in DOMAIN calls
        <4>1. CASE j = w /\ calls'[j] = [calls[w] EXCEPT !.stage = "looked", !.met = Underway]
          <5>1. Kept([calls[w] EXCEPT !.stage = "looked", !.met = Underway], calls[w])
            BY <1>1, <1>4
          <5> QED
            BY <4>1, <5>1
        <4>2. CASE calls'[j] = [calls[j] EXCEPT !.met = @ \cup {w}]
          <5>1. Kept([calls[j] EXCEPT !.met = @ \cup {w}], calls[j])
            BY <1>1, <1>5
          <5> QED
            BY <4>2, <5>1
        <4>3. CASE calls'[j] = calls[j]
          BY <4>3, <1>6
        <4> QED
          BY <3>1, <4>1, <4>2, <4>3
      <3> QED
        BY <3>1, <3>2
    <2> QED
      BY <2>1, <2>2, <2>3
  <1> QED
    BY <1>7, CallsKeepWaiting DEF Kept

\* Every step of the pages and the services behind them, and of the routes.
LEMMA DeskNextWaits ==
  ASSUME DeskInv, CallsWait,
         DeskNext \/ \E i \in DOMAIN calls : Routes(i)
  PROVE  CallsWait'
  <1>1. CASE \E p \in Pages : Pressed(p)
    BY <1>1, PressedWaits
  <1>2. ASSUME NEW i \in DOMAIN calls, Services(i)
        PROVE  CallsWait'
    <2>1. page' = page /\ (Refuse(i) \/ calls' = [calls EXCEPT ![i].stage = "served", ![i].done = TRUE])
      BY <1>2 DEF Services, FundAccount, DebitAccount, FreezeAccount, UnfreezeAccount, SetReceiveOnly,
                  UnsetReceiveOnly, CloseAccount, RenameAccount, BlockTransfer, ReverseTransfer,
                  CreateCustomerAccount, WriteFails, ChangeStatus, Write
    <2> QED
      BY <2>1, StagesKeepWaiting
  <1>3. ASSUME NEW i \in DOMAIN calls, Routes(i)
        PROVE  CallsWait'
    <2>1. \E op, mayGoOn : Look(i, op, mayGoOn)
      BY <1>3 DEF Routes, PostFund, PostDebit, PostBlock, PostReverse, PostFreeze, PostUnfreeze,
                  PostSetReceiveOnly, PostUnsetReceiveOnly, PostClose, PatchAccount, PostAccount,
                  Limited, Unlimited
    <2> QED
      BY <2>1, StagesKeepWaiting DEF Look
  <1>4. ASSUME NEW i \in DOMAIN calls, Hear(i) \/ Silence(i)
        PROVE  CallsWait'
    <2>1. /\ ~calls[i].silent /\ ~calls[i].heard
          /\ \/ calls' = [calls EXCEPT ![i].heard = TRUE]
             \/ calls' = [calls EXCEPT ![i].silent = TRUE]
      BY <1>4 DEF Hear, HearError, HearSuccess, HearClosed, HearRenamed, Hears, Silence
    <2>2. account \in Account /\ page[calls[i].page].shown \in Account
      <3>1. account \in Account /\ calls[i] \in Call /\ page \in [Pages -> Page]
        BY DeskParts, CallFacts DEF CallsWait
      <3>2. calls[i].page \in Pages
        BY <3>1 DEF Call
      <3> QED
        BY <3>1, <3>2 DEF Page
    <2>3. \/ page' = [page EXCEPT ![calls[i].page] = Answered(i)]
          \/ \E shown \in Account :
               page' = [page EXCEPT ![calls[i].page] = [Answered(i) EXCEPT !.shown = shown]]
      BY <1>4, <2>2 DEF Hear, HearError, HearSuccess, HearClosed, HearRenamed, Hears, Silence
    <2> QED
      BY <2>1, <2>3, AnswerFrees
  <1>5. ASSUME NEW p \in Pages, Reload(p)
        PROVE  CallsWait'
    BY <1>5, ReloadWaits
  <1> QED
    BY <1>1, <1>2, <1>3, <1>4, <1>5 DEF DeskNext

-----------------------------------------------------------------------------
(* All of it.                                                              *)

LEMMA InitInv == Init => FrontInv
  <1> SUFFICES ASSUME Init
               PROVE  FrontInv
    OBVIOUS
  <1>1. LimiterFits
    <2>1. clock = 0 /\ log = <<>> /\ bucket = NoBucket
      BY DEF Init
    <2>2. DOMAIN log = {} /\ log \in Seq(Entry) /\ Len(log) = 0
      BY <2>1
    <2>3. Windows(log, bucket, <<>>) /\ <<>> \in [DOMAIN log -> Nat]
      BY <2>1, <2>2 DEF Windows
    <2> QED
      BY <2>1, <2>2, <2>3 DEF LimiterFits
  <1>2. FormFits
    <2>1. /\ plan \in Plans /\ form = Blank(plan.from) /\ attempts = <<>>
          /\ paid = [k \in 1 .. MaxSubmits |-> None]
      BY DEF Init
    <2>2. FormShows
      BY <2>1 DEF FormShows, Blank, FormFields
    <2>3. DOMAIN attempts = {} /\ Len(attempts) = 0
      BY <2>1
    <2>4. attempts \in Seq({attempts[k] : k \in DOMAIN attempts})
      BY <2>1
    <2>5. AttemptsShow
      BY <2>3, <2>4, BoundsAssumption DEF AttemptsShow
    <2>6. PaymentsFit
      BY <2>1 DEF PaymentsFit
    <2> QED
      BY <2>1, <2>2, <2>5, <2>6 DEF FormFits
  <1>3. DeskInv
    <2>1. /\ account = [status |-> "ACTIVE", balance |-> 0, named |-> FALSE,
                        transfer |-> "COMPLETED", owned |-> 1]
          /\ calls = <<>>
      BY DEF Init
    <2>2. account \in Account
      BY <2>1 DEF Account
    <2>3. DOMAIN calls = {} /\ calls \in Seq(Call) /\ Underway = {}
      BY <2>1 DEF Underway
    <2> QED
      BY <2>2, <2>3 DEF DeskInv, DeskFits, ClosedForGoodWithoutOverlap, ReversedOnceWithoutOverlap
  <1>4. FormsWait
    <2>1. /\ attempts = <<>> /\ intention = 0 /\ calls = <<>> /\ account \in Account
          /\ page = [p \in Pages |-> [shown |-> account, waiting |-> {}]]
      BY <1>3, DeskParts DEF Init
    <2>2. DOMAIN attempts = {} /\ DOMAIN calls = {} /\ Paid = {}
      BY <2>1 DEF Paid
    <2>3. [shown |-> account, waiting |-> {}] \in Page
      BY <2>1 DEF Page
    <2>4. AttemptsWait
      BY <2>1, <2>2 DEF AttemptsWait
    <2>5. CallsWait
      BY <2>1, <2>2, <2>3 DEF CallsWait
    <2> QED
      BY <2>4, <2>5 DEF FormsWait
  <1>5. FieldsFit
    <2>1. /\ plan \in Plans /\ form = Blank(plan.from) /\ attempts = <<>> /\ edits = 0 /\ clock = 0
          /\ paid = [k \in 1 .. MaxSubmits |-> None]
      BY DEF Init
    <2>2. plan.from \in Currencies /\ plan.time \in Nat
      BY <2>1, PlansAssumption
    <2>3. "EUR" \in Currencies
      BY DEF Currencies
    <2>4. FormTyped(form)
      BY <2>1, <2>2, <2>3 DEF FormTyped, Blank, Types
    <2>5. DOMAIN attempts = {}
      BY <2>1
    <2>6. edits \in 0 .. MaxEdits /\ clock \in 0 .. plan.time
      BY <2>1, <2>2, BoundsAssumption
    <2> QED
      BY <2>1, <2>4, <2>5, <2>6 DEF FieldsFit
  <1> QED
    BY <1>1, <1>2, <1>3, <1>4, <1>5 DEF FrontInv, DeskInv

LEMMA StepInv == FrontInv /\ [Next]_vars => FrontInv'
  <1> SUFFICES ASSUME LimiterFits, FormFits, FieldsFit, AttemptsWait, CallsWait, DeskInv,
                      [Next]_vars
               PROVE  /\ LimiterFits' /\ FormFits' /\ FieldsFit'
                      /\ AttemptsWait' /\ CallsWait' /\ DeskInv'
    BY DEF FrontInv, DeskInv, FormsWait
  <1>1. ASSUME UNCHANGED limiter
        PROVE  LimiterFits'
    BY <1>1, LimiterUnchanged
  <1>2. ASSUME UNCHANGED desk
        PROVE  DeskInv' /\ CallsWait'
    BY <1>2, DeskUnchanged, CallsKeepWaiting DEF desk
  <1>3. ASSUME UNCHANGED <<browser, paid>>
        PROVE  FormFits' /\ AttemptsWait'
    BY <1>3, FormOnlyFits, AttemptsUnchanged DEF browser, FormFits, FormShows, AccountWith
  <1>11. ASSUME UNCHANGED <<browser, paid, clock>>
         PROVE  FieldsFit'
    BY <1>11, FormFieldsFit DEF browser, FieldsFit
  <1>4. CASE BrowserNext /\ UNCHANGED <<limiter, paid, desk>>
    BY <1>1, <1>2, <1>4, BrowserFits, BrowserTyped, BrowserWaits DEF limiter
  <1>5. CASE DeskNext /\ UNCHANGED <<browser, limiter, paid>>
    BY <1>1, <1>3, <1>5, <1>11, DeskNextFits, DeskNextWaits DEF limiter
  <1>6. ASSUME NEW k \in DOMAIN attempts, Serve(k)
        PROVE  /\ LimiterFits' /\ FormFits' /\ FieldsFit'
               /\ AttemptsWait' /\ CallsWait' /\ DeskInv'
    <2>1. LimiterFits'
      BY <1>6, CountRequestFits, LimitsOfRoutesAssumption DEF Serve
    <2>2. DeskInv' /\ CallsWait'
      BY <1>2, <1>6 DEF Serve
    <2>3. FieldsFit'
      BY <1>6, ServeTyped DEF Serve, CountRequest
    <2> QED
      BY <2>1, <2>2, <2>3, <1>6, ServeFits, ServeWaits
  <1>7. ASSUME NEW i \in DOMAIN calls, Routes(i)
        PROVE  /\ LimiterFits' /\ FormFits' /\ FieldsFit'
               /\ AttemptsWait' /\ CallsWait' /\ DeskInv'
    <2>1. (CountRequest(AdminLimit) \/ UNCHANGED limiter) /\ UNCHANGED <<browser, paid>>
      BY <1>7 DEF Routes, PostFund, PostDebit, PostBlock, PostReverse, PostFreeze, PostUnfreeze,
                  PostSetReceiveOnly, PostUnsetReceiveOnly, PostClose, PatchAccount, PostAccount,
                  Limited, Unlimited
    <2>2. LimiterFits'
      BY <2>1, <1>1, CountRequestFits, LimitsOfRoutesAssumption
    <2>3. FieldsFit'
      BY <2>1, <1>11 DEF CountRequest, limiter
    <2> QED
      BY <2>1, <2>2, <2>3, <1>3, <1>7, RoutesFit, DeskNextWaits
  <1>8. ASSUME NEW n \in OtherLimits, OtherRequest(n)
        PROVE  /\ LimiterFits' /\ FormFits' /\ FieldsFit'
               /\ AttemptsWait' /\ CallsWait' /\ DeskInv'
    <2>1. LimiterFits'
      BY <1>8, CountRequestFits, LimitsOfRoutesAssumption DEF OtherRequest
    <2>2. FieldsFit'
      BY <1>8, <1>11 DEF OtherRequest, CountRequest
    <2> QED
      BY <2>1, <2>2, <1>2, <1>3, <1>8 DEF OtherRequest
  <1>9. CASE clock < plan.time /\ Tick /\ UNCHANGED <<browser, paid, desk>>
    <2>1. clock' = clock + 1 /\ UNCHANGED <<plan, form, attempts, paid, edits>>
      BY <1>9 DEF Tick, browser
    <2>2. clock' \in 0 .. plan.time
      <3>1. plan.time \in Nat /\ clock \in 0 .. plan.time
        BY PlansAssumption DEF FormFits, FieldsFit
      <3> QED
        BY <1>9, <2>1, <3>1
    <2>3. FieldsFit'
      BY <2>1, <2>2 DEF FieldsFit, FormTyped, AttemptTyped, Meant, Recorded, AccountWith
    <2> QED
      BY <2>3, <1>2, <1>3, <1>9, TickFits
  <1>10. CASE UNCHANGED vars
    BY <1>1, <1>2, <1>3, <1>10, <1>11 DEF vars, limiter
  <1> QED
    BY <1>4, <1>5, <1>6, <1>7, <1>8, <1>9, <1>10 DEF Next

\* Every part of the invariant holds in every state of every behaviour.
THEOREM FrontInvariantHolds == Spec => []FrontInv
  BY InitInv, StepInv, PTL DEF Spec

\* However the requests of an address are spread over time and endpoints, an endpoint lets
\* through at most twice its limit in any stretch as long as a window: the most a fixed
\* window can promise.
THEOREM LimitIsAtMostDoubled == Spec => []AtMostTwiceTheLimit
  <1>1. FrontInv => AtMostTwiceTheLimit
    BY TwoWindows DEF FrontInv
  <1> QED
    BY <1>1, FrontInvariantHolds, PTL

\* Nobody is answered 429 below the limit of the endpoint.
THEOREM RefusalsNeedRequests == Spec => []RefusalsAreEarned
  <1>1. FrontInv => RefusalsAreEarned
    BY RefusedAfterEnough DEF FrontInv
  <1> QED
    BY <1>1, FrontInvariantHolds, PTL

\* A local payment reaches the account the form showed as verified, unless a check's answer
\* arrived after the IBAN was changed: for any accounts whose IBANs differ.
THEOREM VerifiedIsPaid == Spec => []PayeeWasShown
  <1>1. FrontInv => PayeeWasShown
    BY ShownIsPaid DEF FrontInv
  <1> QED
    BY <1>1, FrontInvariantHolds, PTL

\* What a user means once is paid, funded, debited or opened twice only after an attempt that
\* was left without an answer, however many attempts, answers and pages there are.
THEOREM OncePaidUnlessSilent == Spec => []PaidTwiceOnlyAfterSilence
  <1>1. FrontInv => PaidTwiceOnlyAfterSilence
    BY RepeatsAreSilent DEF FrontInv, DeskInv
  <1> QED
    BY <1>1, FrontInvariantHolds, PTL

\* What a call that met no other closed stays closed, whatever stale page is pressed.
THEOREM ClosedStaysClosed == Spec => []ClosedForGoodWithoutOverlap
  <1>1. FrontInv => ClosedForGoodWithoutOverlap
    BY DEF FrontInv
  <1> QED
    BY <1>1, FrontInvariantHolds, PTL

\* Money given back by a call that met no other is not given back again by such a call.
THEOREM ReversedAtMostOnce == Spec => []ReversedOnceWithoutOverlap
  <1>1. FrontInv => ReversedOnceWithoutOverlap
    BY DEF FrontInv
  <1> QED
    BY <1>1, FrontInvariantHolds, PTL

\* The form, the attempts and the rows have the types the code declares, whatever is typed,
\* answered or lost.
THEOREM FrontTypes == Spec => []TypeOK
  <1>1. FrontInv => TypeOK
    <2> SUFFICES ASSUME FormFits, FieldsFit, DeskFits
                 PROVE  TypeOK
      BY DEF FrontInv
    <2>1. \A k \in 1 .. MaxSubmits :
            /\ paid[k] = None \/ paid[k] \in Payment
            /\ paid[k] # None => k \in DOMAIN attempts
      <3> SUFFICES ASSUME NEW k \in 1 .. MaxSubmits, paid[k] # None
                   PROVE  paid[k] \in Payment /\ k \in DOMAIN attempts
        OBVIOUS
      <3>1. k \in DOMAIN attempts /\ (attempts[k].type = "LOCAL" => AccountWith(attempts[k].iban) # {})
        BY DEF FormFits, PaymentsFit
      <3>2. AttemptTyped(attempts[k]) /\ paid[k] = Recorded(attempts[k])
        BY <3>1 DEF FieldsFit
      <3> QED
        BY <3>1, <3>2, RecordedTyped DEF FormFits
    <2>2. \A k \in DOMAIN attempts : attempts[k].stage \in {"sent", "served", "done"}
      BY DEF FieldsFit, AttemptTyped
    <2>3. account \in Account /\ \A i \in DOMAIN calls : calls[i].met \subseteq DOMAIN calls
      BY DEF DeskFits
    <2> QED
      BY <2>1, <2>2, <2>3 DEF TypeOK, FieldsFit, FormTyped
  <1> QED
    BY <1>1, FrontInvariantHolds, PTL

\* What the recipient's bank is told is what the form previewed, rounded to the nearest cent:
\* for every amount that may be typed and every pair of currencies.
THEOREM PreviewsAreRecorded == Spec => []PreviewIsRecorded
  <1>1. FrontInv => PreviewIsRecorded
    <2> SUFFICES ASSUME FormFits, FieldsFit, NEW k \in Paid, attempts[k].type = "INTERNATIONAL"
                 PROVE  LET t == attempts[k]
                            rate == FxRate(t.from, t.currency)
                            error == 2 * (paid[k].converted * rate[2] - paid[k].cents * rate[1])
                        IN /\ paid[k].converted = t.preview
                           /\ paid[k].converted # None => error \in -rate[2] .. rate[2]
      BY DEF FrontInv, PreviewIsRecorded
    <2> DEFINE t == attempts[k]
               rate == FxRate(t.from, t.currency)
               cents == ParseAmountToCents(t.amount)
    <2>1. k \in DOMAIN attempts /\ k \in 1 .. MaxSubmits
      <3>1. Len(attempts) \in Nat /\ Len(attempts) <= MaxSubmits /\ DOMAIN attempts = 1 .. Len(attempts)
        BY AttemptsFacts DEF FormFits
      <3> QED
        BY <3>1, BoundsAssumption DEF Paid
    <2>2. AttemptTyped(t) /\ paid[k] = Recorded(t)
      BY <2>1 DEF FieldsFit, Paid
    <2>3. t.preview = paid[k].converted
      BY <2>2 DEF AttemptTyped
    <2>4. /\ paid[k].cents = cents
          /\ t.currency # t.from => paid[k].converted = ConvertFx(t.from, t.currency, paid[k].cents)
          /\ t.currency = t.from => paid[k].converted = None
      BY <2>2, RecordedTyped DEF FormFits
    <2>5. t.from \in Currencies /\ t.currency \in Currencies /\ cents \in Nat
      <3>1. t.amount \in Amount /\ WellFormed(t.amount)
        BY <2>2, PlansAssumption DEF AttemptTyped, FormFits
      <3> QED
        BY <2>2, <3>1, AmountIsNatural DEF AttemptTyped
    <2> HIDE DEF t, cents
    <2>6. 2 * (ConvertFx(t.from, t.currency, cents) * rate[2] - cents * rate[1]) \in 1 - rate[2] .. rate[2]
      BY <2>5, ConversionRounds
    <2>7. rate[2] \in Nat
      BY <2>5, FxRates
    <2> HIDE DEF rate
    <2>8. \A x : x \in 1 - rate[2] .. rate[2] => x \in -rate[2] .. rate[2]
      BY <2>7
    <2> QED
      BY <2>3, <2>4, <2>6, <2>8 DEF t, rate
  <1> QED
    BY <1>1, FrontInvariantHolds, PTL

\* A local payment reaches the account that was meant, though one character of its IBAN was
\* typed wrong or two neighbours were swapped: for account numbers of any digits, because
\* division by 97 tells every such pair apart.
THEOREM SlipsReachNobodyElse == Spec => []PayeeIsTheOneMeant
  <1>1. FrontInv => PayeeIsTheOneMeant
    <2> SUFFICES ASSUME FormFits, FieldsFit, NEW k \in Paid, attempts[k].type = "LOCAL"
                 PROVE  paid[k].to = attempts[k].payee
      BY DEF FrontInv, PayeeIsTheOneMeant
    <2>1. k \in DOMAIN attempts /\ k \in 1 .. MaxSubmits
      <3>1. Len(attempts) \in Nat /\ Len(attempts) <= MaxSubmits /\ DOMAIN attempts = 1 .. Len(attempts)
        BY AttemptsFacts DEF FormFits
      <3> QED
        BY <3>1, BoundsAssumption DEF Paid
    <2>2. paid[k].to \in AccountWith(attempts[k].iban)
      BY <2>1 DEF FormFits, PaymentsFit, Paid
    <2>3. Meant(attempts[k].payee, attempts[k].iban)
      BY <2>1 DEF FieldsFit, AttemptTyped
    <2> QED
      BY <2>2, <2>3, TypedIsMeant
  <1> QED
    BY <1>1, FrontInvariantHolds, PTL
=============================================================================
