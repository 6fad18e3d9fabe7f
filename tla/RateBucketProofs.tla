-------------------------- MODULE RateBucketProofs --------------------------
(***************************************************************************)
(* For every number of workers, burst, period and clock: when the requests *)
(* of a key are charged one after the other, no window of time admits more *)
(* than it should, and a refused client that waits is served.              *)
(***************************************************************************)
EXTENDS RateBucket, TLAPS

-----------------------------------------------------------------------------
(* Arithmetic.                                                             *)

LEMMA Scaled ==
    ASSUME NEW a \in Int, NEW b \in Int, NEW p \in Nat, a <= b
    PROVE  a * p <= b * p
  BY SMT

LEMMA Quotient ==
    ASSUME NEW n \in Nat, NEW p \in Nat \ {0}
    PROVE  /\ n \div p \in Nat
           /\ (n \div p) * p <= n
           /\ n < (n \div p) * p + p
           /\ n >= p => n \div p >= 1
  BY SMT
-----------------------------------------------------------------------------
(* What a refill and a charge do to a bucket and to its account.           *)

Stored(b) == b \in Buckets /\ b.tokens \in 0..(Capacity - 1) /\ b.last \in Nat

(* A refill changes nothing within a period, fills the bucket and re-bases *)
(* its clock, or grants g tokens and moves the clock by exactly their cost. *)
LEMMA RefillCases ==
    ASSUME RateAssumption, Period # 0, NEW b, Stored(b), NEW t \in Nat
    PROVE  \/ Refill(b, t) = b /\ t < b.last + Period
           \/ \E g \in Nat \ {0} :
                /\ g * Period <= t - b.last
                /\ t - b.last < g * Period + Period
                /\ \/ /\ b.tokens + g >= Capacity
                      /\ Refill(b, t) = Bucket(Capacity, t)
                   \/ /\ b.tokens + g < Capacity
                      /\ Refill(b, t) = Bucket(b.tokens + g, b.last + g * Period)
<1>1. Period \in Nat \ {0} /\ b.last \in Nat
  BY DEF RateAssumption, Stored
<1>2. CASE t < b.last
  BY <1>1, <1>2 DEF Refill, Granted
<1>3. CASE t >= b.last
  <2>1. t - b.last \in Nat
    BY <1>1, <1>3
  <2> DEFINE g == (t - b.last) \div Period
  <2>2. /\ g \in Nat
        /\ g * Period <= t - b.last
        /\ t - b.last < g * Period + Period
    BY <1>1, <2>1, Quotient
  <2>3. Granted(b, t) = g
    BY <1>1, <1>3 DEF Granted
  <2> HIDE DEF g
  <2>4. CASE g = 0
    BY <1>1, <2>2, <2>3, <2>4 DEF Refill
  <2>5. CASE g # 0
    BY <1>1, <2>2, <2>3, <2>5 DEF Refill, Stored, Buckets
  <2>6. QED
    BY <2>4, <2>5
<1>4. QED
  BY <1>1, <1>2, <1>3

(* The refilled bucket is one: within the burst, its clock no later than   *)
(* it was or than the request's stamp, and with no token lost.             *)
LEMMA RefillTyped ==
    ASSUME RateAssumption, NEW b, Stored(b), NEW t \in Nat
    PROVE  /\ Refill(b, t) \in Buckets
           /\ Refill(b, t).tokens \in b.tokens..Capacity
           /\ Refill(b, t).last \in Nat
           /\ Refill(b, t).last <= b.last \/ Refill(b, t).last <= t
<1>1. b \in Buckets /\ b.tokens \in 0..(Capacity - 1) /\ b.last \in Nat
  BY DEF Stored
<1>2. Capacity \in Nat \ {0} /\ Period \in Nat
  BY DEF RateAssumption
<1>3. CASE Period = 0
  BY <1>1, <1>2, <1>3 DEF Refill, Bucket, Buckets, Smaller
<1>4. CASE Period # 0
  <2>1. CASE Refill(b, t) = b
    BY <1>1, <1>2, <2>1
  <2>2. CASE Refill(b, t) = Bucket(Capacity, t)
    BY <1>1, <1>2, <2>2 DEF Bucket, Buckets
  <2>3. ASSUME NEW g \in Nat \ {0}, g * Period <= t - b.last,
               b.tokens + g < Capacity,
               Refill(b, t) = Bucket(b.tokens + g, b.last + g * Period)
        PROVE  /\ Refill(b, t) \in Buckets
               /\ Refill(b, t).tokens \in b.tokens..Capacity
               /\ Refill(b, t).last \in Nat
               /\ Refill(b, t).last <= t
    <3>1. g * Period \in Nat
      BY <1>2
    <3>2. QED
      BY <1>1, <1>2, <2>3, <3>1 DEF Bucket, Buckets
  <2>4. QED
    BY <1>4, <2>1, <2>2, <2>3, RefillCases
<1>5. QED
  BY <1>3, <1>4

(* The time a refill pays with covers the tokens it grants.                *)
LEMMA RefillKeepsAccount ==
    ASSUME RateAssumption, mark \in Nat, NEW b, Stored(b), NEW t \in Nat,
           NEW c \in Nat, Account(c, b)
    PROVE  Account(c, Refill(b, t))
<1>1. b \in Buckets /\ b.tokens \in 0..(Capacity - 1) /\ b.last \in Nat
  BY DEF Stored
<1>2. Capacity \in Nat \ {0} /\ Period \in Nat
  BY DEF RateAssumption
<1>3. CASE Period = 0
  BY <1>1, <1>2, <1>3 DEF Refill, Bucket, Buckets, Smaller, Account
<1>4. CASE Period # 0
  <2>1. CASE Refill(b, t) = b
    BY <2>1
  <2>2. ASSUME NEW g \in Nat \ {0}, g * Period <= t - b.last,
               t - b.last < g * Period + Period,
               \/ /\ b.tokens + g >= Capacity
                  /\ Refill(b, t) = Bucket(Capacity, t)
               \/ /\ b.tokens + g < Capacity
                  /\ Refill(b, t) = Bucket(b.tokens + g, b.last + g * Period)
        PROVE  Account(c, Refill(b, t))
    <3> DEFINE S == (c + b.tokens) * Period
               G == g * Period
               F == Capacity * Period
    <3>1. S \in Nat /\ G \in Nat /\ F \in Nat
      BY <1>1, <1>2
    <3>2. G >= Period
      BY <1>2, <2>2, Scaled
    <3>3. (c + (b.tokens + g)) * Period = S + G
      BY <1>1, <1>2, <2>2
    <3>4. (c + Capacity) * Period <= S + G \/ ~(b.tokens + g >= Capacity)
      <4>1. (c + Capacity) * Period <= (c + (b.tokens + g)) * Period
              \/ ~(b.tokens + g >= Capacity)
        BY <1>1, <1>2, <2>2, Scaled
      <4>2. QED
        BY <3>3, <4>1
    <3>5. b.last >= mark => S <= F + (b.last - mark)
      BY <1>4 DEF Account
    <3>6. b.last < mark /\ c > 0 => mark - b.last < Period /\ S <= F - Period
      BY <1>1, <1>4 DEF Account
    <3>7. CASE b.tokens + g >= Capacity
      <4>1. Refill(b, t) = Bucket(Capacity, t)
        BY <1>1, <1>2, <2>2, <3>7
      <4>2. t >= mark => (c + Capacity) * Period <= F + (t - mark)
        <5>1. CASE b.last >= mark
          BY <1>1, <1>2, <2>2, <3>1, <3>4, <3>5, <3>7, <5>1
        <5>2. CASE b.last < mark /\ c > 0
          BY <1>1, <1>2, <2>2, <3>1, <3>4, <3>6, <3>7, <5>2
        <5>3. CASE c = 0
          BY <1>1, <1>2, <2>2, <5>3
        <5>4. QED
          BY <1>1, <5>1, <5>2, <5>3
      <4>3. t < mark /\ c > 0 => FALSE
        BY <1>1, <1>2, <2>2, <3>1, <3>2, <3>6
      <4>4. QED
        BY <1>2, <1>4, <4>1, <4>2, <4>3 DEF Account, Bucket
    <3>8. CASE b.tokens + g < Capacity
      <4>1. Refill(b, t) = Bucket(b.tokens + g, b.last + G)
        BY <1>1, <1>2, <2>2, <3>8
      <4>2. b.last + G >= mark => S + G <= F + (b.last + G - mark)
        <5>1. CASE b.last >= mark
          BY <1>1, <3>1, <3>5, <5>1
        <5>2. CASE b.last < mark /\ c > 0
          BY <1>1, <1>2, <3>1, <3>6, <5>2
        <5>3. CASE c = 0
          <6>1. S + G <= F
            <7>1. (b.tokens + g) * Period <= F
              BY <1>1, <1>2, <2>2, <3>8, Scaled
            <7>2. QED
              BY <1>1, <1>2, <2>2, <3>3, <5>3, <7>1
          <6>2. QED
            BY <1>1, <3>1, <6>1
        <5>4. QED
          BY <1>1, <5>1, <5>2, <5>3
      <4>3. b.last + G < mark /\ c > 0 => FALSE
        BY <1>1, <1>2, <3>1, <3>2, <3>6
      <4>4. QED
        BY <1>1, <1>2, <1>4, <2>2, <3>1, <3>3, <4>1, <4>2, <4>3
        DEF Account, Bucket
    <3>9. QED
      BY <1>1, <1>2, <2>2, <3>7, <3>8
  <2>3. QED
    BY <1>4, <2>1, <2>2, RefillCases
<1>5. QED
  BY <1>3, <1>4

(* A bucket whose time is before `mark` when a request of the window comes *)
(* to it is not full, and lags less than a period.                         *)
LEMMA RefillCatchesUp ==
    ASSUME RateAssumption, mark \in Nat, Period # 0, NEW b, Stored(b),
           NEW t \in Nat, t >= mark, Refill(b, t).last < mark
    PROVE  /\ mark - Refill(b, t).last < Period
           /\ Refill(b, t).tokens < Capacity
<1>1. b \in Buckets /\ b.tokens \in 0..(Capacity - 1) /\ b.last \in Nat
  BY DEF Stored
<1>2. Capacity \in Nat \ {0} /\ Period \in Nat
  BY DEF RateAssumption
<1>3. CASE Refill(b, t) = b /\ t < b.last + Period
  BY <1>1, <1>2, <1>3
<1>4. CASE Refill(b, t) = Bucket(Capacity, t)
  BY <1>4 DEF Bucket
<1>5. ASSUME NEW g \in Nat \ {0}, t - b.last < g * Period + Period,
             b.tokens + g < Capacity,
             Refill(b, t) = Bucket(b.tokens + g, b.last + g * Period)
      PROVE  /\ mark - Refill(b, t).last < Period
             /\ Refill(b, t).tokens < Capacity
  <2>1. g * Period \in Nat
    BY <1>2
  <2>2. QED
    BY <1>1, <1>2, <1>5, <2>1 DEF Bucket
<1>6. QED
  BY <1>3, <1>4, <1>5, RefillCases

(* A refill that leaves a bucket empty has left it alone.                  *)
LEMMA RefillOfEmpty ==
    ASSUME RateAssumption, Period # 0, NEW b, Stored(b), NEW t \in Nat,
           Refill(b, t).tokens = 0
    PROVE  Refill(b, t) = b
<1>1. Capacity \in Nat \ {0} /\ b.tokens \in 0..(Capacity - 1)
  BY DEF RateAssumption, Stored
<1>2. QED
  BY <1>1, RefillCases DEF Bucket

(* A charge moves a token from the bucket to the count.                    *)
LEMMA ChargeKeepsAccount ==
    ASSUME RateAssumption, mark \in Nat, NEW c \in Nat,
           NEW k \in 1..Capacity, NEW l \in Nat, Account(c, Bucket(k, l))
    PROVE  /\ Account(c, Bucket(k - 1, l))
           /\ (Period # 0 /\ l < mark => mark - l < Period /\ k < Capacity)
                => Account(c + 1, Bucket(k - 1, l))
<1>1. Capacity \in Nat \ {0} /\ Period \in Nat
  BY DEF RateAssumption
<1>2. CASE Period = 0
  BY <1>1, <1>2 DEF Account, Bucket
<1>3. CASE Period # 0
  <2>1. (c + (k - 1)) * Period <= (c + k) * Period
    BY <1>1, Scaled
  <2>2. (c + 1) + (k - 1) = c + k
    BY <1>1
  <2>3. c = 0 /\ k < Capacity => (c + k) * Period <= Capacity * Period - Period
    <3>1. k < Capacity => k * Period <= (Capacity - 1) * Period
      BY <1>1, Scaled
    <3>2. (Capacity - 1) * Period = Capacity * Period - Period
      BY <1>1
    <3>3. QED
      BY <1>1, <3>1, <3>2
  <2>4. /\ (c + k) * Period \in Int /\ (c + (k - 1)) * Period \in Int
        /\ Capacity * Period \in Int
    BY <1>1
  <2>5. CASE l >= mark
    BY <1>1, <1>3, <2>1, <2>2, <2>4, <2>5 DEF Account, Bucket
  <2>6. CASE l < mark
    BY <1>1, <1>3, <2>1, <2>2, <2>3, <2>4, <2>6 DEF Account, Bucket
  <2>7. QED
    BY <2>5, <2>6
<1>4. QED
  BY <1>2, <1>3

-----------------------------------------------------------------------------
(* The requests.                                                           *)

(* What a request in its commit finds is within bounds, carries the whole  *)
(* account and every promise made, and is up to date if the request        *)
(* counts.                                                                 *)
LEMMA FoundIsSound ==
    ASSUME RateAssumption, NoneAssumption, BucketInv, NEW w \in Workers,
           loaded[w] # None \/ row = None
    PROVE  /\ Found(w) \in Buckets
           /\ Found(w).tokens \in 0..Capacity
           /\ Found(w).last \in 0..clock
           /\ Account(counted, Found(w))
           /\ (Period # 0 /\ now[w] >= mark /\ Found(w).last < mark) =>
                mark - Found(w).last < Period /\ Found(w).tokens < Capacity
           /\ Found(w).tokens = 0 => Promised(Found(w))
<1>1. /\ Capacity \in Nat \ {0} /\ Period \in Nat /\ now[w] \in Nat
      /\ mark \in Nat /\ counted \in Nat /\ clock \in Nat /\ now[w] <= clock
  BY DEF RateAssumption, BucketInv, TypeOK
<1>2. CASE loaded[w] = None
  <2>1. Found(w) = Bucket(Capacity, now[w])
    BY <1>2 DEF Found
  <2>2. row = None /\ counted = 0
    BY <1>2 DEF BucketInv, Ledger
  <2>3. Capacity * Period \in Nat
    BY <1>1
  <2>4. Account(0, Bucket(Capacity, now[w]))
    BY <1>1, <2>3 DEF Account, Bucket
  <2>5. /\ Bucket(Capacity, now[w]) \in Buckets
        /\ Bucket(Capacity, now[w]).tokens = Capacity
        /\ Bucket(Capacity, now[w]).last = now[w]
    BY <1>1 DEF Bucket, Buckets
  <2>6. QED
    BY <1>1, <2>1, <2>2, <2>4, <2>5
<1>3. CASE loaded[w] # None
  <2>1. loaded[w] = row /\ row # None
    BY <1>3 DEF BucketInv, ReadsAreCurrent
  <2>2. Found(w) = Refill(row, now[w])
    BY <1>3, <2>1 DEF Found
  <2>3. Stored(row) /\ row.last \in 0..clock
    BY <1>1, <2>1 DEF BucketInv, TypeOK, Ledger, Stored
  <2>4. Account(counted, row) /\ Promised(row)
    BY <2>1 DEF BucketInv, Ledger
  <2>5. /\ Refill(row, now[w]) \in Buckets
        /\ Refill(row, now[w]).tokens \in row.tokens..Capacity
        /\ Refill(row, now[w]).last \in Nat
        /\ Refill(row, now[w]).last <= row.last
             \/ Refill(row, now[w]).last <= now[w]
    BY <1>1, <2>3, RefillTyped
  <2>6. Account(counted, Refill(row, now[w]))
    BY <1>1, <2>3, <2>4, RefillKeepsAccount
  <2>7. (Period # 0 /\ now[w] >= mark /\ Refill(row, now[w]).last < mark) =>
            /\ mark - Refill(row, now[w]).last < Period
            /\ Refill(row, now[w]).tokens < Capacity
    BY <1>1, <2>3, RefillCatchesUp
  <2>8. Refill(row, now[w]).tokens = 0 => Promised(Refill(row, now[w]))
    <3>1. Period # 0 /\ Refill(row, now[w]).tokens = 0
            => Refill(row, now[w]) = row
      BY <1>1, <2>3, RefillOfEmpty
    <3>2. Period = 0 => Promised(Refill(row, now[w]))
      BY DEF Promised
    <3>3. QED
      BY <2>4, <3>1, <3>2
  <2>9. row.tokens \in Nat /\ row.last \in 0..clock
    BY <2>3 DEF Stored
  <2>10. QED
    BY <1>1, <2>2, <2>5, <2>6, <2>7, <2>8, <2>9
<1>4. QED
  BY <1>2, <1>3

(* A commit writes the charged bucket, whichever columns its UPDATE names. *)
LEMMA WrittenIsCharged ==
    ASSUME RateAssumption, NoneAssumption, BucketInv, NEW w \in Workers,
           loaded[w] # None \/ row = None
    PROVE  /\ Written(w) = Charged(w)
           /\ Found(w) = Bucket(Found(w).tokens, Found(w).last)
           /\ Charged(w) = IF Admits(w)
                           THEN Bucket(Found(w).tokens - 1, Found(w).last)
                           ELSE Found(w)
<1>1. Found(w) \in Buckets
  BY FoundIsSound
<1>2. Found(w) = Bucket(Found(w).tokens, Found(w).last)
  BY <1>1 DEF Buckets, Bucket
<1>3. Charged(w) = IF Admits(w)
                   THEN Bucket(Found(w).tokens - 1, Found(w).last)
                   ELSE Found(w)
  BY <1>1 DEF Charged, Buckets, Bucket
<1>4. Charged(w) \in Buckets
  BY <1>1, <1>3 DEF Buckets, Bucket
<1>5. CASE row = None
  BY <1>2, <1>3, <1>5 DEF Written
<1>6. CASE row # None
  <2>1. loaded[w] = row
    BY <1>6 DEF BucketInv, ReadsAreCurrent
  <2>2. Charged(w).tokens = row.tokens
          => [Charged(w) EXCEPT !.tokens = row.tokens] = Charged(w)
    BY <1>4 DEF Buckets
  <2>3. QED
    BY <1>2, <1>3, <1>6, <2>1, <2>2 DEF Written
<1>7. QED
  BY <1>5, <1>6

LEMMA CommitKeepsLedger ==
    ASSUME RateAssumption, NoneAssumption, BucketInv, NEW w \in Workers,
           Commit(w)
    PROVE  /\ row' \in Buckets
           /\ row'.tokens \in 0..Capacity /\ row'.last \in 0..clock
           /\ counted' \in Nat /\ promise' \in Nat \cup {None}
           /\ Ledger'
<1>1. /\ Capacity \in Nat \ {0} /\ Period \in Nat /\ now[w] \in Nat
      /\ mark \in Nat /\ counted \in Nat /\ clock \in Nat
      /\ promise \in Nat \cup {None}
  BY DEF RateAssumption, BucketInv, TypeOK
<1>2. /\ loaded[w] # None \/ row = None
      /\ row' = Written(w)
      /\ counted' = IF Admits(w) /\ now[w] >= mark THEN counted + 1 ELSE counted
      /\ promise' = IF Admits(w) THEN None
                    ELSE IF promise = None THEN clock + Wait ELSE promise
      /\ clock' = clock /\ mark' = mark
  BY DEF Commit
<1> DEFINE k == Found(w).tokens
           l == Found(w).last
<1>3. /\ Found(w) = Bucket(k, l)
      /\ row' = IF Admits(w) THEN Bucket(k - 1, l) ELSE Bucket(k, l)
  BY <1>2, WrittenIsCharged
<1>4. /\ k \in 0..Capacity /\ l \in 0..clock
      /\ Account(counted, Bucket(k, l))
      /\ (Period # 0 /\ now[w] >= mark /\ l < mark) =>
           mark - l < Period /\ k < Capacity
      /\ k = 0 => Promised(Bucket(k, l))
  BY <1>2, <1>3, FoundIsSound
<1>5. Admits(w) <=> k >= 1
  BY DEF Admits
<1> HIDE DEF k, l
<1>6. CASE k >= 1
  <2>1. row' = Bucket(k - 1, l) /\ promise' = None
    BY <1>2, <1>3, <1>5, <1>6
  <2>2. /\ Account(counted, Bucket(k - 1, l))
        /\ (Period # 0 /\ l < mark => mark - l < Period /\ k < Capacity)
             => Account(counted + 1, Bucket(k - 1, l))
    BY <1>1, <1>4, <1>6, ChargeKeepsAccount
  <2>3. Account(counted', row') /\ counted' \in Nat
    <3>1. CASE now[w] >= mark
      BY <1>1, <1>2, <1>4, <1>5, <1>6, <2>1, <2>2, <3>1
    <3>2. CASE ~(now[w] >= mark)
      BY <1>1, <1>2, <2>1, <2>2, <3>2
    <3>3. QED
      BY <3>1, <3>2
  <2>4. /\ row' \in Buckets /\ row' # None
        /\ row'.tokens \in 0..(Capacity - 1) /\ row'.last \in 0..clock
    BY <1>1, <1>4, <1>6, <2>1 DEF Bucket, Buckets, NoneAssumption
  <2>5. Promised(row)'
    BY <2>1 DEF Promised
  <2>6. Account(counted, row)'
    BY <1>2, <2>3 DEF Account
  <2>7. Ledger'
    BY <1>1, <2>4, <2>5, <2>6 DEF Ledger
  <2>8. QED
    BY <1>1, <2>1, <2>3, <2>4, <2>7
<1>7. CASE k = 0
  <2>1. row' = Bucket(0, l) /\ counted' = counted
    BY <1>2, <1>3, <1>5, <1>7
  <2>2. promise' = IF promise = None THEN clock + Wait ELSE promise
    BY <1>2, <1>5, <1>7
  <2>3. /\ row' \in Buckets /\ row' # None
        /\ row'.tokens = 0 /\ row'.last = l
    BY <1>1, <1>4, <2>1 DEF Bucket, Buckets, NoneAssumption
  <2>4. promise' \in Nat
    BY <1>1, <2>2 DEF Wait
  <2>5. Account(counted, row)'
    BY <1>2, <1>4, <1>7, <2>1 DEF Account
  <2>6. Period # 0 => promise' >= l + Period
    <3>1. CASE promise = None
      BY <1>1, <1>4, <2>2, <3>1 DEF Wait
    <3>2. CASE promise # None
      <4>1. Promised(Bucket(0, l))
        BY <1>4, <1>7
      <4>2. QED
        BY <2>2, <3>2, <4>1 DEF Promised, Bucket
    <3>3. QED
      BY <3>1, <3>2
  <2>7. Promised(row)'
    BY <2>3, <2>6 DEF Promised
  <2>8. Ledger'
    BY <1>1, <2>3, <2>5, <2>7 DEF Ledger
  <2>9. QED
    BY <1>1, <1>4, <2>1, <2>3, <2>4, <2>8
<1>8. QED
  BY <1>4, <1>6, <1>7

(* Everything but a commit leaves the bucket and its history alone, and    *)
(* lets the clock only move forward.                                       *)
LEMMA QuietStep ==
    ASSUME BucketInv, row' = row, UNCHANGED history,
           clock' \in clock..MaxClock
    PROVE  /\ Ledger'
           /\ clock' \in 0..MaxClock
           /\ row' \in Buckets \cup {None}
           /\ row' # None => row'.tokens \in 0..Capacity /\ row'.last \in 0..clock'
           /\ mark' \in Nat /\ counted' \in Nat /\ promise' \in Nat \cup {None}
<1>1. mark' = mark /\ counted' = counted /\ promise' = promise
  BY DEF history
<1>2. Ledger'
  BY <1>1 DEF BucketInv, Ledger, Account, Promised
<1>3. QED
  BY <1>1, <1>2 DEF BucketInv, TypeOK

(* One step of the bucket.                                                 *)
LEMMA BucketStep ==
    ASSUME RateAssumption, NoneAssumption, Serialized,
           BucketInv, [Next]_vars
    PROVE  BucketInv'
<1>1. TypeOK /\ ReadsAreCurrent /\ Ledger
  BY DEF BucketInv
<1>2. CASE Tick
  <2>1. /\ clock' \in clock..MaxClock /\ row' = row /\ UNCHANGED history
        /\ UNCHANGED <<lock, pc, now, loaded>>
    BY <1>1, <1>2 DEF Tick, TypeOK, RateAssumption
  <2>2. clock' >= clock
    BY <1>1, <2>1 DEF TypeOK
  <2>3. TypeOK'
    BY <1>1, <2>1, <2>2, QuietStep DEF TypeOK
  <2>4. ReadsAreCurrent'
    BY <1>1, <2>1 DEF ReadsAreCurrent
  <2>5. QED
    BY <2>1, <2>3, <2>4, QuietStep DEF BucketInv
<1>3. ASSUME NEW w \in Workers, Stamp(w)
      PROVE  BucketInv'
  <2>1. clock' = clock /\ row' = row /\ UNCHANGED history /\ lock' = lock
        /\ loaded' = loaded /\ clock' \in clock..MaxClock
    BY <1>1, <1>3 DEF Stamp, TypeOK
  <2>2. TypeOK'
    BY <1>1, <1>3, <2>1, QuietStep DEF TypeOK, Stamp
  <2>3. ReadsAreCurrent'
    BY <1>1, <1>3, <2>1 DEF ReadsAreCurrent, Stamp, TypeOK
  <2>4. QED
    BY <2>1, <2>2, <2>3, QuietStep DEF BucketInv
<1>4. ASSUME NEW w \in Workers, Load(w)
      PROVE  BucketInv'
  <2>1. clock' = clock /\ row' = row /\ UNCHANGED history /\ now' = now
        /\ clock' \in clock..MaxClock
    BY <1>1, <1>4 DEF Load, TypeOK
  <2>2. TypeOK'
    BY <1>1, <1>4, <2>1, QuietStep DEF TypeOK, Load
  <2>3. ReadsAreCurrent'
    BY <1>1, <1>4, <2>1 DEF ReadsAreCurrent, Load, TypeOK, NoneAssumption
  <2>4. QED
    BY <2>1, <2>2, <2>3, QuietStep DEF BucketInv
<1>5. ASSUME NEW w \in Workers, Release(w), clock' = clock, now' = now,
             mark' = mark,
             /\ row' \in Buckets \cup {None}
             /\ row' # None => row'.tokens \in 0..Capacity /\ row'.last \in 0..clock
             /\ counted' \in Nat /\ promise' \in Nat \cup {None}
      PROVE  TypeOK'
  BY <1>1, <1>5 DEF TypeOK, Release
<1>6. ASSUME NEW w \in Workers, InsertRefused(w) \/ Abort(w)
      PROVE  BucketInv'
  <2>1. clock' = clock /\ row' = row /\ UNCHANGED history /\ now' = now
        /\ Release(w)
    BY <1>6 DEF InsertRefused, Abort
  <2>2. clock' \in clock..MaxClock
    BY <1>1, <2>1 DEF TypeOK
  <2>3. TypeOK'
    BY <1>5, <2>1, <2>2, QuietStep DEF history
  <2>4. ReadsAreCurrent'
    BY <1>1, <2>1 DEF ReadsAreCurrent, Release, TypeOK
  <2>5. QED
    BY <2>1, <2>2, <2>3, <2>4, QuietStep DEF BucketInv
<1>7. ASSUME NEW w \in Workers, Commit(w)
      PROVE  BucketInv'
  <2>1. Release(w) /\ clock' = clock /\ now' = now /\ mark' = mark
    BY <1>7 DEF Commit
  <2>2. /\ row' \in Buckets
        /\ row'.tokens \in 0..Capacity /\ row'.last \in 0..clock
        /\ counted' \in Nat /\ promise' \in Nat \cup {None}
        /\ Ledger'
    BY <1>7, CommitKeepsLedger
  <2>3. TypeOK'
    BY <1>5, <2>1, <2>2
  <2>4. ReadsAreCurrent'
    <3>1. ASSUME NEW v \in Workers, loaded'[v] # None
          PROVE  FALSE
      <4>1. v # w /\ loaded[v] # None
        BY <1>1, <2>1, <3>1 DEF Release, TypeOK
      <4>2. RowLocks
        BY <4>1 DEF Serialized
      <4>3. lock = v /\ row = loaded[v]
        BY <1>1, <4>1, <4>2 DEF ReadsAreCurrent
      <4>4. loaded[w] # None
        BY <1>7, <4>1, <4>3 DEF Commit
      <4>5. lock = w
        BY <1>1, <4>2, <4>4 DEF ReadsAreCurrent
      <4>6. QED
        BY <4>1, <4>3, <4>5
    <3>2. QED
      BY <3>1 DEF ReadsAreCurrent
  <2>5. QED
    BY <2>2, <2>3, <2>4 DEF BucketInv
<1>8. CASE UNCHANGED vars
  <2>1. clock' \in clock..MaxClock /\ row' = row /\ UNCHANGED history
        /\ UNCHANGED <<clock, lock, pc, now, loaded>>
    BY <1>1, <1>8 DEF vars, history, TypeOK
  <2>2. TypeOK'
    BY <1>1, <2>1, QuietStep DEF TypeOK
  <2>3. ReadsAreCurrent'
    BY <1>1, <2>1 DEF ReadsAreCurrent
  <2>4. QED
    BY <2>1, <2>2, <2>3, QuietStep DEF BucketInv
<1>9. QED
  BY <1>2, <1>3, <1>4, <1>6, <1>7, <1>8 DEF Next

-----------------------------------------------------------------------------
(* The theorems.                                                           *)

(* AC-5.3's row lock at work: reads are current, stored values in bounds,  *)
(* and the account is kept.                                                *)
THEOREM BucketInvariant ==
    ASSUME Serialized
    PROVE  Spec => []BucketInv
<1>1. Init => BucketInv
  BY RateAssumption DEF Init, BucketInv, TypeOK, ReadsAreCurrent, Ledger
<1>2. BucketInv /\ [Next]_vars => BucketInv'
  BY RateAssumption, NoneAssumption, BucketStep
<1>3. QED
  BY <1>1, <1>2, PTL DEF Spec

(* AC-5.1, AC-5.3: whenever the counting starts, the requests admitted are *)
(* at most the burst plus what the time since has earned.                  *)
THEOREM NoOverdraw ==
    ASSUME Serialized
    PROVE  Spec => []WindowBound
<1>1. BucketInv => WindowBound
  <2>1. SUFFICES ASSUME BucketInv, counted > 0 \/ Period = 0
                 PROVE  WindowBound
    BY DEF WindowBound
  <2>2. /\ Capacity \in Nat \ {0} /\ Period \in Nat
        /\ mark \in Nat /\ counted \in Nat /\ clock \in Nat
    BY <2>1, RateAssumption DEF RateAssumption, BucketInv, TypeOK
  <2>3. CASE row = None
    BY <2>1, <2>2, <2>3 DEF BucketInv, Ledger, WindowBound
  <2>4. CASE row # None
    <3>1. /\ row.tokens \in Nat /\ row.last \in 0..clock
          /\ Account(counted, row)
      BY <2>1, <2>2, <2>4 DEF BucketInv, TypeOK, Ledger
    <3>2. CASE Period = 0
      BY <2>2, <3>1, <3>2 DEF Account, WindowBound
    <3>3. CASE Period # 0
      <4>1. counted * Period <= (counted + row.tokens) * Period
        BY <2>2, <3>1, Scaled
      <4>2. /\ counted * Period \in Nat /\ Capacity * Period \in Nat
            /\ (counted + row.tokens) * Period \in Nat
        BY <2>2, <3>1
      <4>3. CASE row.last >= mark
        BY <2>2, <3>1, <3>3, <4>1, <4>2, <4>3 DEF Account, WindowBound
      <4>4. CASE row.last < mark
        BY <2>1, <2>2, <3>1, <3>3, <4>1, <4>2, <4>4 DEF Account, WindowBound
      <4>5. QED
        BY <2>2, <3>1, <4>3, <4>4
    <3>4. QED
      BY <3>2, <3>3
  <2>5. QED
    BY <2>3, <2>4
<1>2. QED
  BY <1>1, BucketInvariant, PTL

(* AC-5.2: a refused client that waits as long as Retry-After says finds a *)
(* token, unless another request was admitted in the meantime.             *)
THEOREM RetryAfterHonoured ==
    ASSUME Serialized
    PROVE  Spec => []RetryHonoured
<1>1. BucketInv => RetryHonoured
  <2>1. SUFFICES ASSUME BucketInv, Period # 0, promise # None, clock >= promise
                 PROVE  row # None /\ Refill(row, clock).tokens >= 1
    BY DEF RetryHonoured
  <2>2. Capacity \in Nat \ {0} /\ Period \in Nat /\ clock \in Nat
        /\ promise \in Nat
    BY <2>1, RateAssumption DEF RateAssumption, BucketInv, TypeOK
  <2>3. row # None /\ Stored(row) /\ Promised(row)
    BY <2>1, <2>2 DEF BucketInv, Ledger, TypeOK, Stored
  <2>4. row.tokens \in Nat /\ row.last \in Nat
    BY <2>2, <2>3 DEF Stored
  <2>5. Refill(row, clock).tokens \in row.tokens..Capacity
    BY <2>2, <2>3, RateAssumption, RefillTyped
  <2>6. CASE row.tokens >= 1
    BY <2>2, <2>3, <2>4, <2>5, <2>6
  <2>7. CASE promise >= row.last + Period
    <3>1. \/ clock < row.last + Period
          \/ Refill(row, clock).tokens = Capacity
          \/ \E g \in Nat \ {0} : Refill(row, clock).tokens = row.tokens + g
      BY <2>1, <2>2, <2>3, RateAssumption, RefillCases DEF Bucket
    <3>2. QED
      BY <2>1, <2>2, <2>3, <2>4, <2>7, <3>1
  <2>8. QED
    BY <2>1, <2>3, <2>6, <2>7 DEF Promised
<1>2. QED
  BY <1>1, BucketInvariant, PTL
=============================================================================
