----------------------------- MODULE RateBucket -----------------------------
(***************************************************************************)
(* The token bucket of one API key: RateBucketRepository.refill_and_consume *)
(* as run by several worker processes on the row they share.  A request    *)
(* stamps its `now`, opens a transaction, loads the row (on Postgres under *)
(* a row lock that is kept to the end of the transaction; SQLite ignores   *)
(* FOR UPDATE and its SELECT opens no transaction), computes the refill    *)
(* and the charge, and commits.                                            *)
(*                                                                         *)
(* Time is counted in ticks.  Period is the number of ticks one token      *)
(* takes, 1 / TASKQ_RATE_PER_SEC; 0 stands for a rate <= 0, which turns    *)
(* the refill off.  The rounding of floats and of microseconds is left     *)
(* out.                                                                    *)
(***************************************************************************)
EXTENDS Integers

CONSTANTS
    Workers,        \* worker processes; each has one request in its handler
    Capacity,       \* TASKQ_RATE_BURST
    Period,         \* ticks per token
    Dialect,        \* "sqlite" or "postgres"
    None,           \* no row, no stamp, no lock holder, no promise
    MaxClock        \* bound on the clock, for TLC

ASSUME RateAssumption ==
    /\ Capacity \in Nat \ {0}
    /\ Period \in Nat
    /\ MaxClock \in Nat
ASSUME DialectAssumption == Dialect \in {"sqlite", "postgres"}
ASSUME NoneAssumption == None \notin Workers \cup Int \cup [tokens : Int, last : Int]

VARIABLES
    clock,      \* wall clock
    row,        \* the rate_buckets row of the key, None before the first charge
    lock,       \* the worker that holds the row lock
    pc,         \* "idle", "stamped" (now is taken), "loaded" (row is read)
    now,        \* stamp of the request in progress
    loaded      \* what the request read: a row or None

(* History, for the properties only: how many admitted requests carry a    *)
(* stamp from `mark` on, and the earliest time at which a refused client   *)
(* was told to find a token, none admitted since.                          *)
VARIABLES mark, counted, promise

vars == <<clock, row, lock, pc, now, loaded, mark, counted, promise>>
history == <<mark, counted, promise>>

Bucket(tokens, last) == [tokens |-> tokens, last |-> last]
Smaller(a, b) == IF a < b THEN a ELSE b

(* Rows are locked by their first reader and stay locked to its commit.    *)
RowLocks == Dialect = "postgres"

Init ==
    /\ clock = 0
    /\ row = None
    /\ lock = None
    /\ pc = [w \in Workers |-> "idle"]
    /\ now = [w \in Workers |-> 0]
    /\ loaded = [w \in Workers |-> None]
    /\ mark \in 0..MaxClock /\ counted = 0 /\ promise = None

-----------------------------------------------------------------------------
(* _refill.  int() truncates, so a stamp older than `last` grants nothing, *)
(* like one that is not a full period younger.                             *)
Granted(b, t) == IF t < b.last THEN 0 ELSE (t - b.last) \div Period
Refill(b, t) ==
    IF Period = 0 THEN Bucket(Smaller(b.tokens, Capacity), b.last)
    ELSE LET g == Granted(b, t)
         IN  IF g = 0 THEN b
             ELSE IF b.tokens + g >= Capacity THEN Bucket(Capacity, t)
             ELSE Bucket(b.tokens + g, b.last + g * Period)

(* The bucket a request finds: the refilled row, or a full one.            *)
Found(w) == IF loaded[w] = None THEN Bucket(Capacity, now[w])
                                ELSE Refill(loaded[w], now[w])
Admits(w) == Found(w).tokens >= 1
Charged(w) == IF Admits(w) THEN [Found(w) EXCEPT !.tokens = @ - 1] ELSE Found(w)

(* The UPDATE carries last_refill, and tokens only where the value differs *)
(* from the one that was loaded.                                           *)
Written(w) ==
    IF row = None \/ Charged(w).tokens # loaded[w].tokens THEN Charged(w)
    ELSE [Charged(w) EXCEPT !.tokens = row.tokens]

(* _wait_seconds for a cost of 1: the shortfall is one token, and a rate   *)
(* <= 0 is answered with one tick.  The header rounds up, which only       *)
(* lengthens the wait.                                                     *)
WaitNothing == 0                            \* faulty variant: retry at once
Wait == IF Period = 0 THEN 1 ELSE Period

-----------------------------------------------------------------------------
Tick ==
    /\ clock < MaxClock
    /\ clock' = clock + 1
    /\ UNCHANGED <<row, lock, pc, now, loaded, history>>

(* now = _utc_now(), before the transaction.                               *)
Stamp(w) ==
    /\ pc[w] = "idle"
    /\ pc' = [pc EXCEPT ![w] = "stamped"]
    /\ now' = [now EXCEPT ![w] = clock]
    /\ UNCHANGED <<clock, row, lock, loaded, history>>

(* session.get(..., with_for_update=True); a missing row locks nothing.    *)
LoadUnlocked(w) ==                          \* faulty variant: a plain get
    /\ pc[w] = "stamped"
    /\ pc' = [pc EXCEPT ![w] = "loaded"]
    /\ loaded' = [loaded EXCEPT ![w] = row]
    /\ UNCHANGED <<clock, row, lock, now, history>>
Load(w) ==
    /\ pc[w] = "stamped"
    /\ RowLocks /\ row # None => lock = None
    /\ lock' = IF RowLocks /\ row # None THEN w ELSE lock
    /\ pc' = [pc EXCEPT ![w] = "loaded"]
    /\ loaded' = [loaded EXCEPT ![w] = row]
    /\ UNCHANGED <<clock, row, now, history>>

(* The end of a transaction, however it ends.                              *)
Release(w) ==
    /\ pc' = [pc EXCEPT ![w] = "idle"]
    /\ loaded' = [loaded EXCEPT ![w] = None]
    /\ lock' = IF lock = w THEN None ELSE lock

(* UPDATE of the row that was loaded, or INSERT of the first one.          *)
Commit(w) ==
    /\ pc[w] = "loaded"
    /\ loaded[w] # None \/ row = None
    /\ row' = Written(w)
    /\ Release(w)
    /\ counted' = IF Admits(w) /\ now[w] >= mark THEN counted + 1 ELSE counted
    /\ promise' = IF Admits(w) THEN None
                  ELSE IF promise = None THEN clock + Wait ELSE promise
    /\ UNCHANGED <<clock, now, mark>>

(* Two first requests of a key: the second INSERT violates the primary key *)
(* and the request ends in a 500.                                          *)
InsertRefused(w) ==
    /\ pc[w] = "loaded"
    /\ loaded[w] = None /\ row # None
    /\ Release(w)
    /\ UNCHANGED <<clock, row, now, history>>

(* The transaction is rolled back, or the worker dies in it.               *)
Abort(w) ==
    /\ pc[w] \in {"stamped", "loaded"}
    /\ Release(w)
    /\ UNCHANGED <<clock, row, now, history>>

Next ==
    \/ Tick
    \/ \E w \in Workers :
         Stamp(w) \/ Load(w) \/ Commit(w) \/ InsertRefused(w) \/ Abort(w)

Spec == Init /\ [][Next]_vars

-----------------------------------------------------------------------------
Buckets == [tokens : Int, last : Int]

(* The stored bucket never holds more than the burst nor a token count     *)
(* below zero, and neither it nor a stamp is ahead of the clock.           *)
TypeOK ==
    /\ clock \in 0..MaxClock
    /\ row \in Buckets \cup {None}
    /\ row # None => row.tokens \in 0..Capacity /\ row.last \in 0..clock
    /\ lock \in Workers \cup {None}
    /\ pc \in [Workers -> {"idle", "stamped", "loaded"}]
    /\ now \in [Workers -> Nat]
    /\ \A w \in Workers : now[w] <= clock
    /\ loaded \in [Workers -> Buckets \cup {None}]
    /\ mark \in Nat
    /\ counted \in Nat
    /\ promise \in Nat \cup {None}

(* Requests of one key are charged one after the other: the row lock, or a *)
(* single worker.                                                          *)
Serialized == RowLocks \/ \A v, w \in Workers : v = w

(* What the row lock is for: a request that has read the row reads what it *)
(* will overwrite, and the count of no other request can come in between.  *)
ReadsAreCurrent ==
    \A w \in Workers :
        loaded[w] # None => /\ pc[w] = "loaded"
                            /\ loaded[w] = row
                            /\ RowLocks => lock = w

(* The account behind WindowBound.  The c tokens handed out since `mark`   *)
(* and those still in bucket b were there at `mark` or have been paid for  *)
(* with time up to b.last; a bucket whose time is still before `mark` owes *)
(* less than one period.                                                   *)
Account(c, b) ==
    IF Period = 0 THEN c + b.tokens <= Capacity
    ELSE IF b.last >= mark
         THEN (c + b.tokens) * Period <= Capacity * Period + (b.last - mark)
         ELSE c > 0 => /\ mark - b.last < Period
                       /\ (c + b.tokens) * Period <= Capacity * Period - Period

(* What a refused client was promised is in bucket b, or on its way.       *)
Promised(b) ==
    (Period # 0 /\ promise # None) =>
        b.tokens >= 1 \/ promise >= b.last + Period

(* A stored bucket is never full: the request that fills it takes a token. *)
Ledger ==
    IF row = None THEN counted = 0 /\ promise = None
    ELSE row.tokens < Capacity /\ Account(counted, row) /\ Promised(row)

BucketInv == TypeOK /\ ReadsAreCurrent /\ Ledger

(* AC-5.1 and AC-5.3: from whatever moment one starts to count, the        *)
(* requests admitted up to now are at most the burst plus the tokens the   *)
(* elapsed time has earned -- with late stamps, stamps out of order,       *)
(* aborted transactions and the first request's seeding.                   *)
WindowBound ==
    IF Period = 0 THEN counted <= Capacity
    ELSE counted > 0 => counted * Period <= Capacity * Period + (clock - mark)

(* AC-5.2: a client that was refused and waits as long as Retry-After says *)
(* finds a token, unless another request was admitted in the meantime.     *)
RetryHonoured ==
    (Period # 0 /\ promise # None) =>
        (clock >= promise => row # None /\ Refill(row, clock).tokens >= 1)
=============================================================================
