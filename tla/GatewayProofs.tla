--------------------------- MODULE GatewayProofs ---------------------------
(***************************************************************************)
(* Proofs about Gateway.  The pipeline implements the bucket, so what      *)
(* RateBucketProofs shows of every bucket holds of this one; the rest is   *)
(* that each handler that runs is one of the bucket's counted grants, and  *)
(* that a key that is revoked lets no later request in.                    *)
(***************************************************************************)
EXTENDS Gateway, RateBucketProofs, FiniteSetTheorems

(* Every step of the pipeline is a step of the bucket or leaves it alone.  *)
LEMMA StepIsBucketStep == [GatewayNext]_gatewayVars => [Next]_vars
<1> SUFFICES ASSUME [GatewayNext]_gatewayVars PROVE [Next]_vars
  OBVIOUS
<1>1. CASE Tick
  BY <1>1 DEF Next
<1>2. ASSUME NEW o \in Operators, Command(o) PROVE UNCHANGED vars
  BY <1>2 DEF Command, CreateInsert, CreatePrint, RevokeFind, RevokeCommit, CommandDies
<1>3. ASSUME NEW w \in Workers, Receive(w) PROVE UNCHANGED vars
  BY <1>3 DEF Receive
<1>4. ASSUME NEW w \in Workers, RequestStep(w) PROVE [Next]_vars
  <2>1. CASE Throttle(w)
    BY <2>1 DEF Throttle, Next
  <2>2. CASE Charge(w)
    BY <2>2 DEF Charge, Next
  <2>3. CASE ChargeFails(w)
    BY <2>3 DEF ChargeFails, Next
  <2>4. CASE Identify(w) \/ Reject(w) \/ BodyRefused(w) \/ Respond(w)
    BY <2>4 DEF Identify, Reject, BodyRefused, Respond
  <2>5. ASSUME NEW required \in Scopes, Forbid(w, required) \/ Handle(w, required)
        PROVE  UNCHANGED vars
    BY <2>5 DEF Forbid, Handle
  <2>6. QED
    BY <1>4, <2>1, <2>2, <2>3, <2>4, <2>5 DEF RequestStep
<1>5. ASSUME NEW w \in Workers, WorkerDies(w) PROVE [Next]_vars
  BY <1>5 DEF WorkerDies, Next
<1>6. CASE UNCHANGED gatewayVars
  BY <1>6 DEF gatewayVars
<1>7. QED
  BY <1>1, <1>2, <1>3, <1>4, <1>5, <1>6 DEF GatewayNext

(* The pipeline implements the token bucket: composing it with keys,       *)
(* scopes and dying workers does to the row only what RateBucket allows.   *)
THEOREM GatewayImplementsBucket == GatewaySpec => Spec
<1>1. GatewayInit => Init
  BY DEF GatewayInit
<1>2. QED
  BY <1>1, StepIsBucketStep, PTL DEF GatewaySpec, Spec

-----------------------------------------------------------------------------
(* Control: what the other properties need to know of keys and stages.     *)
KeyInv ==
    /\ GatewayTypeOK
    /\ PrintedKeyStored
    /\ \A o \in Operators : cli[o] # "idle" => key # "none"
    /\ \A w \in Workers : late[w] => key = "revoked"
    /\ \A w \in Workers : stage[w] = "idle" => ~late[w] /\ ~took[w]
    /\ RevokedStaysOut
    /\ AnswerTellsCharge

(* The row lock and the types of the bucket it rests on.                   *)
LockInv ==
    /\ pc \in [Workers -> {"idle", "stamped", "loaded"}]
    /\ lock \in Workers \cup {None}
    /\ NoStrandedLock

(* A step of the bucket for w that is not its commit moves w's pc only.    *)
LEMMA BucketSteps ==
    ASSUME NEW w \in Workers, LockInv
    PROVE  /\ Stamp(w) => /\ pc[w] = "idle" /\ pc' = [pc EXCEPT ![w] = "stamped"]
                          /\ lock' = lock
           /\ Load(w) => /\ pc[w] = "stamped" /\ pc' = [pc EXCEPT ![w] = "loaded"]
                         /\ lock' \in {w, lock}
           /\ Commit(w) \/ InsertRefused(w) \/ Abort(w) =>
                /\ pc[w] # "idle" /\ pc' = [pc EXCEPT ![w] = "idle"]
                /\ lock' = IF lock = w THEN None ELSE lock
  BY DEF Stamp, Load, Commit, InsertRefused, Abort, Release, LockInv

LEMMA KeyStep ==
    ASSUME LockInv, KeyInv, [GatewayNext]_gatewayVars
    PROVE  KeyInv'
<1> USE DEF KeyInv, GatewayTypeOK, PrintedKeyStored, RevokedStaysOut,
            AnswerTellsCharge, Stages, keys, requests
<1>1. CASE Tick /\ UNCHANGED <<keys, requests>>
  BY <1>1 DEF Tick
<1>2. ASSUME NEW o \in Operators, Command(o) PROVE KeyInv'
  <2>1. pc' = pc
    BY <1>2 DEF Command, CreateInsert, CreatePrint, RevokeFind, RevokeCommit, CommandDies, vars
  <2>2. CASE CreateInsert(o)
    BY <2>1, <2>2 DEF CreateInsert
  <2>3. CASE CreatePrint(o)
    BY <2>1, <2>3 DEF CreatePrint
  <2>4. CASE RevokeFind(o)
    BY <2>1, <2>4 DEF RevokeFind
  <2>5. CASE RevokeCommit(o)
    BY <2>1, <2>5 DEF RevokeCommit
  <2>6. CASE CommandDies(o)
    BY <2>1, <2>6 DEF CommandDies
  <2>7. QED
    BY <1>2, <2>2, <2>3, <2>4, <2>5, <2>6 DEF Command
<1>3. ASSUME NEW w \in Workers, Receive(w) PROVE KeyInv'
  BY <1>3 DEF Receive, Goto, vars
<1>4. ASSUME NEW w \in Workers, RequestStep(w) PROVE KeyInv'
  <2>1. CASE Identify(w)
    BY <2>1 DEF Identify, Goto, vars
  <2>2. CASE Reject(w)
    BY <2>2 DEF Reject, Goto, vars
  <2>3. CASE Throttle(w)
    BY <2>3, BucketSteps DEF Throttle, LockInv
  <2>4. CASE Charge(w)
    <3>1. pc' = [pc EXCEPT ![w] = "idle"]
      BY <2>4, BucketSteps DEF Charge
    <3>2. /\ stage[w] = "known" /\ ~late[w]
          /\ stage' = [stage EXCEPT ![w] = IF Admits(w) THEN "admitted" ELSE "refused"]
          /\ took' = [took EXCEPT ![w] = Admits(w)]
          /\ UNCHANGED <<key, cli, printed, late, handled>>
      BY <2>4 DEF Charge, Goto
    <3>3. Admits(w) \in BOOLEAN
      BY DEF Admits
    <3>4. CASE Admits(w)
      BY <3>1, <3>2, <3>4 DEF LockInv
    <3>5. CASE ~Admits(w)
      BY <3>1, <3>2, <3>3, <3>5 DEF LockInv
    <3>6. QED
      BY <3>4, <3>5
  <2>5. CASE ChargeFails(w)
    BY <2>5, BucketSteps DEF ChargeFails, Goto, LockInv
  <2>6. CASE BodyRefused(w)
    BY <2>6 DEF BodyRefused, Goto, vars
  <2>7. ASSUME NEW required \in Scopes, Forbid(w, required)
        PROVE  KeyInv'
    BY <2>7 DEF Forbid, Goto, vars
  <2>8. ASSUME NEW required \in Scopes, Handle(w, required)
        PROVE  KeyInv'
    BY <2>8 DEF Handle, Goto, vars
  <2>9. CASE Respond(w)
    BY <2>9 DEF Respond, Forget, Goto, vars
  <2>10. QED
    BY <1>4, <2>1, <2>2, <2>3, <2>4, <2>5, <2>6, <2>7, <2>8, <2>9 DEF RequestStep
<1>5. ASSUME NEW w \in Workers, WorkerDies(w) PROVE KeyInv'
  <2>1. pc' = [pc EXCEPT ![w] = "idle"]
    BY <1>5, BucketSteps DEF WorkerDies, LockInv, vars
  <2>2. QED
    BY <1>5, <2>1 DEF WorkerDies, Forget, Goto, LockInv
<1>6. CASE UNCHANGED gatewayVars
  BY <1>6 DEF gatewayVars, vars
<1>7. QED
  BY <1>1, <1>2, <1>3, <1>4, <1>5, <1>6 DEF GatewayNext

LEMMA LockStep ==
    ASSUME NoneAssumption, KeyInv, LockInv, [GatewayNext]_gatewayVars
    PROVE  LockInv'
<1> stage \in [Workers -> Stages]
  BY DEF KeyInv, GatewayTypeOK
<1>1. CASE Tick /\ UNCHANGED <<keys, requests>>
  BY <1>1 DEF Tick, LockInv, NoStrandedLock, requests
<1>2. ASSUME NEW o \in Operators, Command(o) PROVE LockInv'
  BY <1>2 DEF Command, CreateInsert, CreatePrint, RevokeFind, RevokeCommit,
              CommandDies, vars, requests, LockInv, NoStrandedLock
<1>3. ASSUME NEW w \in Workers, UNCHANGED vars, pc[w] = "idle",
             NEW s, stage' = [stage EXCEPT ![w] = s]
      PROVE  LockInv'
  BY <1>3 DEF vars, LockInv, NoStrandedLock
<1>4. ASSUME NEW w \in Workers, NEW s, stage' = [stage EXCEPT ![w] = s],
             Commit(w) \/ InsertRefused(w) \/ Abort(w)
      PROVE  LockInv'
  <2>1. pc' = [pc EXCEPT ![w] = "idle"] /\ lock' = IF lock = w THEN None ELSE lock
    BY <1>4, BucketSteps
  <2>2. QED
    BY <1>4, <2>1 DEF LockInv, NoStrandedLock
<1>5. ASSUME NEW w \in Workers, Receive(w) PROVE LockInv'
  BY <1>3, <1>5 DEF Receive, Goto, KeyInv, GatewayTypeOK, LockInv
<1>6. ASSUME NEW w \in Workers, RequestStep(w) PROVE LockInv'
  <2>1. CASE Throttle(w)
    <3>1. CASE Stamp(w)
      BY <2>1, <3>1, BucketSteps DEF Throttle, requests, LockInv, NoStrandedLock
    <3>2. CASE Load(w)
      BY <2>1, <3>2, BucketSteps DEF Throttle, requests, LockInv, NoStrandedLock
    <3>3. QED
      BY <2>1, <3>1, <3>2 DEF Throttle
  <2>2. CASE Charge(w)
    BY <1>4, <2>2 DEF Charge, Goto
  <2>3. CASE ChargeFails(w)
    BY <1>4, <2>3 DEF ChargeFails, Goto
  <2>4. CASE Identify(w) \/ Reject(w)
    BY <1>3, <2>4 DEF Identify, Reject, Goto, KeyInv, GatewayTypeOK, LockInv
  <2>5. CASE BodyRefused(w) \/ Respond(w)
    BY <1>3, <2>5 DEF BodyRefused, Respond, Forget, Goto, KeyInv, GatewayTypeOK, LockInv
  <2>6. ASSUME NEW required \in Scopes, Forbid(w, required) \/ Handle(w, required)
        PROVE  LockInv'
    BY <1>3, <2>6 DEF Forbid, Handle, Goto, KeyInv, GatewayTypeOK, LockInv
  <2>7. QED
    BY <1>6, <2>1, <2>2, <2>3, <2>4, <2>5, <2>6 DEF RequestStep
<1>7. ASSUME NEW w \in Workers, WorkerDies(w) PROVE LockInv'
  BY <1>3, <1>4, <1>7 DEF WorkerDies, Forget, Goto
<1>8. CASE UNCHANGED gatewayVars
  BY <1>8 DEF gatewayVars, vars, requests, LockInv, NoStrandedLock
<1>9. QED
  BY <1>1, <1>2, <1>5, <1>6, <1>7, <1>8 DEF GatewayNext

LEMMA ControlHolds == GatewaySpec => [](KeyInv /\ LockInv)
<1>1. ASSUME GatewayInit PROVE KeyInv /\ LockInv
  <2>1. /\ \A w \in Workers : pc[w] = "idle" /\ stage[w] = "idle" /\ ~late[w] /\ ~took[w]
        /\ \A o \in Operators : cli[o] = "idle"
        /\ pc \in [Workers -> {"idle", "stamped", "loaded"}] /\ lock = None
        /\ key = "none" /\ printed = FALSE /\ handled = 0
    BY <1>1 DEF GatewayInit, Init
  <2>2. GatewayTypeOK
    <3>1. /\ stage \in [Workers -> Stages] /\ late \in [Workers -> BOOLEAN]
          /\ took \in [Workers -> BOOLEAN] /\ cli \in [Operators -> {"idle", "inserted", "found"}]
      BY <1>1, Zenon DEF GatewayInit, Stages
    <3>2. QED
      BY <2>1, <3>1 DEF GatewayTypeOK
  <2>3. KeyInv
    BY <2>1, <2>2 DEF KeyInv, PrintedKeyStored, RevokedStaysOut, AnswerTellsCharge
  <2>4. LockInv
    BY <2>1 DEF LockInv, NoStrandedLock
  <2>5. QED
    BY <2>3, <2>4
<1>2. KeyInv /\ LockInv /\ [GatewayNext]_gatewayVars => (KeyInv /\ LockInv)'
  BY NoneAssumption, KeyStep, LockStep
<1>3. QED
  BY <1>1, <1>2, PTL DEF GatewaySpec

(* Types of the pipeline, for any number of workers and operators.         *)
THEOREM GatewayTyped == GatewaySpec => []GatewayTypeOK
<1>1. KeyInv => GatewayTypeOK
  BY DEF KeyInv
<1>2. QED
  BY <1>1, ControlHolds, PTL

(* AC-3.4: nothing that arrives after a committed revoke gets past         *)
(* require_auth, on any worker.                                            *)
THEOREM RevokedKeysStayOut == GatewaySpec => []RevokedStaysOut
<1>1. KeyInv => RevokedStaysOut
  BY DEF KeyInv
<1>2. QED
  BY <1>1, ControlHolds, PTL

(* AC-3.3: no plaintext is shown whose row is not stored.                  *)
THEOREM PrintedKeysAreStored == GatewaySpec => []PrintedKeyStored
<1>1. KeyInv => PrintedKeyStored
  BY DEF KeyInv
<1>2. QED
  BY <1>1, ControlHolds, PTL

(* The order of authentication and charge: who is turned away by either    *)
(* has paid nothing, and no body is read and no handler runs for free.     *)
THEOREM AnswersTellCharges == GatewaySpec => []AnswerTellsCharge
<1>1. KeyInv => AnswerTellsCharge
  BY DEF KeyInv
<1>2. QED
  BY <1>1, ControlHolds, PTL

(* No way a request can end leaves the row of the bucket locked.           *)
THEOREM NoLockIsStranded == GatewaySpec => []NoStrandedLock
<1>1. LockInv => NoStrandedLock
  BY DEF LockInv
<1>2. QED
  BY <1>1, ControlHolds, PTL

-----------------------------------------------------------------------------
(* The ledger: a handler that ran for a counted request, or will, is one   *)
(* of the bucket's counted grants.                                         *)
LedgerInv ==
    /\ counted \in Nat /\ handled \in Nat /\ clock \in Int
    /\ now \in [Workers -> Int] /\ mark \in Int
    /\ handled + Cardinality(Paid) <= counted

LEMMA PaidIsFinite == IsFiniteSet(Paid) /\ Cardinality(Paid) \in Nat
<1>1. Paid \in SUBSET Workers
  BY DEF Paid
<1>2. QED
  BY <1>1, WorkersAssumption, FS_Subset, FS_CardinalityType DEF WorkersAssumption

(* A step that leaves the counts alone and lets none become paid.          *)
LEMMA FewerPaid ==
    ASSUME LedgerInv, Paid' \subseteq Paid, UNCHANGED <<counted, handled>>
    PROVE  handled' + Cardinality(Paid') <= counted'
<1>1. Cardinality(Paid') <= Cardinality(Paid) /\ Cardinality(Paid') \in Nat
  BY PaidIsFinite, FS_Subset, FS_CardinalityType
<1>2. QED
  BY <1>1, PaidIsFinite DEF LedgerInv

LEMMA LedgerStep ==
    ASSUME KeyInv, LockInv, LedgerInv, [GatewayNext]_gatewayVars
    PROVE  LedgerInv'
<1> stage \in [Workers -> Stages]
  BY DEF KeyInv, GatewayTypeOK
<1> USE DEF LedgerInv
<1>1. CASE Tick /\ UNCHANGED <<keys, requests>>
  <2>1. Paid' = Paid
    BY <1>1 DEF Tick, Paid, requests, history
  <2>2. QED
    BY <1>1, <2>1 DEF Tick, requests, history
<1>2. ASSUME UNCHANGED <<vars, requests>> PROVE LedgerInv'
  <2>1. Paid' = Paid
    BY <1>2 DEF Paid, requests, vars
  <2>2. QED
    BY <1>2, <2>1 DEF requests, vars
<1>3. ASSUME NEW o \in Operators, Command(o) PROVE LedgerInv'
  BY <1>2, <1>3
     DEF Command, CreateInsert, CreatePrint, RevokeFind, RevokeCommit, CommandDies
(* A request that leaves for a stage other than "admitted".                *)
<1>4. ASSUME NEW w \in Workers, NEW s, s # "admitted",
             stage' = [stage EXCEPT ![w] = s],
             UNCHANGED <<clock, now, mark, counted, handled>>
      PROVE  LedgerInv'
  <2>1. Paid' \subseteq Paid
    BY <1>4 DEF Paid
  <2>2. QED
    BY <1>4, <2>1, FewerPaid
<1>5. ASSUME NEW w \in Workers, Receive(w) \/ Identify(w) \/ Reject(w)
      PROVE  LedgerInv'
  BY <1>4, <1>5 DEF Receive, Identify, Reject, Goto, vars
<1>6. ASSUME NEW w \in Workers, Throttle(w) PROVE LedgerInv'
  <2>1. /\ stage[w] = "known" /\ stage' = stage /\ handled' = handled
        /\ clock' = clock /\ mark' = mark /\ counted' = counted
        /\ now' = now \/ now' = [now EXCEPT ![w] = clock]
    BY <1>6 DEF Throttle, Stamp, Load, requests, history
  <2>2. Paid' \subseteq Paid
    BY <2>1 DEF Paid
  <2>3. QED
    BY <2>1, <2>2, FewerPaid
<1>7. ASSUME NEW w \in Workers, Charge(w) PROVE LedgerInv'
  <2>1. /\ stage[w] = "known" /\ handled' = handled
        /\ stage' = [stage EXCEPT ![w] = IF Admits(w) THEN "admitted" ELSE "refused"]
        /\ counted' = IF Admits(w) /\ now[w] >= mark THEN counted + 1 ELSE counted
        /\ UNCHANGED <<clock, now, mark>>
    BY <1>7 DEF Charge, Commit, Goto
  <2>2. CASE Admits(w) /\ now[w] >= mark
    <3>1. Paid' = Paid \cup {w} /\ w \notin Paid
      BY <2>1, <2>2 DEF Paid
    <3>2. Cardinality(Paid') = Cardinality(Paid) + 1
      BY <3>1, PaidIsFinite, FS_AddElement
    <3>3. QED
      BY <2>1, <2>2, <3>2, PaidIsFinite
  <2>3. CASE ~(Admits(w) /\ now[w] >= mark)
    <3>1. Paid' \subseteq Paid
      BY <2>1, <2>3 DEF Paid
    <3>2. QED
      BY <2>1, <2>3, <3>1, FewerPaid
  <2>4. QED
    BY <2>2, <2>3
<1>8. ASSUME NEW w \in Workers, ChargeFails(w) PROVE LedgerInv'
  BY <1>4, <1>8 DEF ChargeFails, InsertRefused, Abort, Goto, history
<1>9. ASSUME NEW w \in Workers, BodyRefused(w) PROVE LedgerInv'
  BY <1>4, <1>9 DEF BodyRefused, Goto, vars
<1>10. ASSUME NEW w \in Workers, NEW required \in Scopes, Forbid(w, required)
       PROVE  LedgerInv'
  BY <1>4, <1>10 DEF Forbid, Goto, vars
<1>11. ASSUME NEW w \in Workers, NEW required \in Scopes, Handle(w, required)
       PROVE  LedgerInv'
  <2>1. /\ stage[w] = "admitted" /\ stage' = [stage EXCEPT ![w] = "answered"]
        /\ handled' = IF now[w] >= mark THEN handled + 1 ELSE handled
        /\ UNCHANGED <<clock, now, mark, counted>>
    BY <1>11 DEF Handle, Goto, vars
  <2>2. Paid' = Paid \ {w}
    BY <2>1 DEF Paid
  <2>3. Cardinality(Paid') = IF w \in Paid THEN Cardinality(Paid) - 1 ELSE Cardinality(Paid)
    BY <2>2, PaidIsFinite, FS_RemoveElement
  <2>4. w \in Paid <=> now[w] >= mark
    BY <2>1 DEF Paid
  <2>5. QED
    BY <2>1, <2>3, <2>4, PaidIsFinite
<1>12. ASSUME NEW w \in Workers, Respond(w) PROVE LedgerInv'
  BY <1>4, <1>12 DEF Respond, Forget, Goto, vars
<1>13. ASSUME NEW w \in Workers, WorkerDies(w) PROVE LedgerInv'
  BY <1>4, <1>13 DEF WorkerDies, Forget, Goto, Abort, vars, history
<1>14. CASE UNCHANGED gatewayVars
  BY <1>2, <1>14 DEF gatewayVars
<1>15. QED
  BY <1>1, <1>3, <1>5, <1>6, <1>7, <1>8, <1>9, <1>10, <1>11, <1>12, <1>13, <1>14
     DEF GatewayNext, RequestStep

LEMMA LedgerHolds == GatewaySpec => []LedgerInv
<1>1. ASSUME GatewayInit PROVE LedgerInv
  <2>1. Paid = {}
    BY <1>1 DEF GatewayInit, Paid
  <2>2. Cardinality(Paid) = 0
    BY <2>1, FS_EmptySet
  <2>3. now \in [Workers -> Int] /\ mark \in Int /\ counted = 0 /\ handled = 0 /\ clock = 0
    BY <1>1, RateAssumption DEF GatewayInit, Init, RateAssumption
  <2>4. QED
    BY <2>2, <2>3 DEF LedgerInv
<1>2. KeyInv /\ LockInv /\ LedgerInv /\ [GatewayNext]_gatewayVars => LedgerInv'
  BY LedgerStep
<1>3. QED
  BY <1>1, <1>2, ControlHolds, PTL DEF GatewaySpec

(* The window bound and the honoured Retry-After of every bucket are those *)
(* of the bucket behind the pipeline.                                      *)
THEOREM PipelineKeepsBudget ==
    ASSUME Serialized
    PROVE  GatewaySpec => [](WindowBound /\ RetryHonoured)
  BY GatewayImplementsBucket, NoOverdraw, RetryAfterHonoured, PTL

(* AC-5.1 end to end: the work done for a key, not only the charges of its *)
(* bucket, keeps within the burst and the earned tokens.                   *)
THEOREM HandlersKeepBudget ==
    ASSUME Serialized
    PROVE  GatewaySpec => []HandledWithinBudget
<1>1. ASSUME LedgerInv, WindowBound, handled > 0 \/ Period = 0
      PROVE  HandledWithinBudget
  <2>1. /\ counted \in Nat /\ handled \in Nat /\ handled <= counted
        /\ Period \in Nat /\ Capacity \in Nat /\ clock \in Int /\ mark \in Int
    BY <1>1, PaidIsFinite, RateAssumption DEF LedgerInv, RateAssumption
  <2>2. handled * Period <= counted * Period
    BY <2>1, Scaled
  <2>3. /\ handled * Period \in Nat /\ counted * Period \in Nat
        /\ Capacity * Period \in Nat
    BY <2>1
  <2>4. QED
    BY <1>1, <2>1, <2>2, <2>3 DEF WindowBound, HandledWithinBudget
<1>2. LedgerInv /\ WindowBound => HandledWithinBudget
  BY <1>1 DEF HandledWithinBudget
<1>3. QED
  BY <1>2, LedgerHolds, PipelineKeepsBudget, PTL
=============================================================================
