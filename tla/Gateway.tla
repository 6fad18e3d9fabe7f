------------------------------ MODULE Gateway ------------------------------
(***************************************************************************)
(* A /v1 request from its X-API-Key to its handler, beside the commands    *)
(* that create and revoke the key.  require_auth looks the key up, charges *)
(* its bucket and only then lets the handler check the scope; the charge   *)
(* is RateBucket's, step by step, so this module composes the two.         *)
(*                                                                         *)
(* One key and its bucket.  Requests with another key, or none, are the    *)
(* ones that are not identified here.  A handler of a worker awaits        *)
(* nothing, so a request is interleaved with those of other workers, with  *)
(* the commands, and with its own worker's end.                            *)
(***************************************************************************)
EXTENDS RateBucket, FiniteSets

CONSTANTS
    Operators,      \* people with a shell: each runs one key command at a time
    KeyScope        \* the --scope the key is created with

(* The order of scopes, lowest first.                                      *)
_SCOPE_ORDER == [read |-> 0, write |-> 1, admin |-> 2]
Scopes == DOMAIN _SCOPE_ORDER

ASSUME ScopeAssumption == KeyScope \in Scopes
ASSUME WorkersAssumption == IsFiniteSet(Workers)

VARIABLES
    key,        \* the api_keys row: "none", "active" or "revoked"
    cli,        \* per operator: "idle", "inserted" (to print), "found" (to revoke)
    printed,    \* the plaintext has been shown, so clients have it
    stage       \* per worker: how far its request is, or the answer it got

(* History: the key was revoked before the request arrived; the request    *)
(* took a token; handlers that ran for requests stamped from `mark` on.    *)
VARIABLES late, took, handled

keys == <<key, cli, printed>>
requests == <<stage, late, took, handled>>
gatewayVars == <<vars, keys, requests>>

(* "refused": 401, 429 or a 500 of the limiter; "forbidden": 403;          *)
(* "answered": whatever the body check or the handler said.                *)
Stages == {"idle", "received", "known", "admitted",
           "refused", "forbidden", "answered"}

GatewayInit ==
    /\ Init
    /\ key = "none"
    /\ cli = [o \in Operators |-> "idle"]
    /\ printed = FALSE
    /\ stage = [w \in Workers |-> "idle"]
    /\ late = [w \in Workers |-> FALSE]
    /\ took = [w \in Workers |-> FALSE]
    /\ handled = 0

-----------------------------------------------------------------------------
(* `key create`: the row is committed, then the plaintext is written.  The *)
(* token is fresh, so a second create makes another key.                   *)
CreatePrint(o) ==
    /\ cli[o] = "inserted"
    /\ printed' = TRUE
    /\ cli' = [cli EXCEPT ![o] = "idle"]
    /\ UNCHANGED <<vars, key, requests>>

CreateInsert(o) ==
    /\ cli[o] = "idle" /\ key = "none"
    /\ key' = "active"
    /\ cli' = [cli EXCEPT ![o] = "inserted"]
    /\ UNCHANGED <<vars, printed, requests>>

(* `key revoke`: SELECT, then UPDATE and commit; a key revoked already is  *)
(* revoked once more.  A hash nobody stored ends in exit code 1.           *)
RevokeFind(o) ==
    /\ cli[o] = "idle" /\ key # "none"
    /\ cli' = [cli EXCEPT ![o] = "found"]
    /\ UNCHANGED <<vars, key, printed, requests>>

RevokeToggle(o) ==                          \* faulty variant: flips the mark
    /\ cli[o] = "found"
    /\ key' = IF key = "active" THEN "revoked" ELSE "active"
    /\ cli' = [cli EXCEPT ![o] = "idle"]
    /\ UNCHANGED <<vars, printed, requests>>
RevokeCommit(o) ==
    /\ cli[o] = "found"
    /\ key' = "revoked"
    /\ cli' = [cli EXCEPT ![o] = "idle"]
    /\ UNCHANGED <<vars, printed, requests>>

(* The command dies, or its commit is refused: what is committed stays.    *)
CommandDies(o) ==
    /\ cli[o] # "idle"
    /\ cli' = [cli EXCEPT ![o] = "idle"]
    /\ UNCHANGED <<vars, key, printed, requests>>

-----------------------------------------------------------------------------
Goto(w, s) == stage' = [stage EXCEPT ![w] = s]

Receive(w) ==
    /\ stage[w] = "idle"
    /\ Goto(w, "received")
    /\ late' = [late EXCEPT ![w] = key = "revoked"]
    /\ UNCHANGED <<vars, keys, took, handled>>

(* verify_key finds an active row; only a printed key can be presented.    *)
Identify(w) ==
    /\ stage[w] = "received"
    /\ printed /\ key = "active"
    /\ Goto(w, "known")
    /\ UNCHANGED <<vars, keys, late, took, handled>>

(* 401: no key, an unknown or a revoked one, or the lookup raised.         *)
Reject(w) ==
    /\ stage[w] = "received"
    /\ Goto(w, "refused")
    /\ UNCHANGED <<vars, keys, late, took, handled>>

(* _enforce_rate_limit: the bucket's own steps, on the way to the charge.  *)
Throttle(w) ==
    /\ stage[w] = "known"
    /\ Stamp(w) \/ Load(w)
    /\ UNCHANGED <<keys, requests>>

ChargeUnheeded(w) ==                        \* faulty variant: decision ignored
    /\ stage[w] = "known"
    /\ Commit(w)
    /\ took' = [took EXCEPT ![w] = Admits(w)]
    /\ Goto(w, "admitted")
    /\ UNCHANGED <<keys, late, handled>>
Charge(w) ==
    /\ stage[w] = "known"
    /\ Commit(w)
    /\ took' = [took EXCEPT ![w] = Admits(w)]
    /\ Goto(w, IF Admits(w) THEN "admitted" ELSE "refused")
    /\ UNCHANGED <<keys, late, handled>>

(* 500: the first INSERT of another request came first, or the database    *)
(* refused the transaction.                                                *)
ChargeFails(w) ==
    /\ stage[w] = "known"
    /\ InsertRefused(w) \/ Abort(w)
    /\ Goto(w, "refused")
    /\ UNCHANGED <<keys, late, took, handled>>

verify_scope(have, required) == _SCOPE_ORDER[have] >= _SCOPE_ORDER[required]

(* The body is validated after the dependency and before the handler.      *)
BodyRefused(w) ==
    /\ stage[w] = "admitted"
    /\ Goto(w, "answered")
    /\ UNCHANGED <<vars, keys, late, took, handled>>

RefundForbidden(w, required) ==             \* faulty variant: gives it back
    /\ stage[w] = "admitted"
    /\ ~verify_scope(KeyScope, required)
    /\ Goto(w, "forbidden")
    /\ row' = [row EXCEPT !.tokens = @ + 1]
    /\ took' = [took EXCEPT ![w] = FALSE]
    /\ UNCHANGED <<clock, lock, pc, now, loaded, history, keys, late, handled>>
Forbid(w, required) ==
    /\ stage[w] = "admitted"
    /\ ~verify_scope(KeyScope, required)
    /\ Goto(w, "forbidden")
    /\ UNCHANGED <<vars, keys, late, took, handled>>

(* The handler past its scope check, whatever it answers.                  *)
Handle(w, required) ==
    /\ stage[w] = "admitted"
    /\ verify_scope(KeyScope, required)
    /\ Goto(w, "answered")
    /\ handled' = IF now[w] >= mark THEN handled + 1 ELSE handled
    /\ UNCHANGED <<vars, keys, late, took>>

(* The request is over: answered, or gone with its worker, which rolls its *)
(* transaction back.                                                       *)
Forget(w) ==
    /\ Goto(w, "idle")
    /\ late' = [late EXCEPT ![w] = FALSE]
    /\ took' = [took EXCEPT ![w] = FALSE]
    /\ UNCHANGED <<keys, handled>>

Respond(w) ==
    /\ stage[w] \in {"refused", "forbidden", "answered"}
    /\ Forget(w)
    /\ UNCHANGED vars

DieInTransaction(w) ==                      \* faulty variant: no rollback
    /\ stage[w] \in {"received", "known", "admitted"}
    /\ Forget(w)
    /\ UNCHANGED vars
WorkerDies(w) ==
    /\ stage[w] \in {"received", "known", "admitted"}
    /\ Forget(w)
    /\ IF pc[w] = "idle" THEN UNCHANGED vars ELSE Abort(w)

-----------------------------------------------------------------------------
Command(o) ==
    CreateInsert(o) \/ CreatePrint(o) \/ RevokeFind(o) \/ RevokeCommit(o) \/ CommandDies(o)

(* What a worker does with a request it has received.                      *)
RequestStep(w) ==
    \/ Identify(w) \/ Reject(w)
    \/ Throttle(w) \/ Charge(w) \/ ChargeFails(w)
    \/ BodyRefused(w)
    \/ \E required \in Scopes : Forbid(w, required) \/ Handle(w, required)
    \/ Respond(w)

GatewayNext ==
    \/ Tick /\ UNCHANGED <<keys, requests>>
    \/ \E o \in Operators : Command(o)
    \/ \E w \in Workers : Receive(w) \/ RequestStep(w) \/ WorkerDies(w)

GatewaySpec == GatewayInit /\ [][GatewayNext]_gatewayVars

-----------------------------------------------------------------------------
GatewayTypeOK ==
    /\ key \in {"none", "active", "revoked"}
    /\ cli \in [Operators -> {"idle", "inserted", "found"}]
    /\ printed \in BOOLEAN
    /\ stage \in [Workers -> Stages]
    /\ late \in [Workers -> BOOLEAN]
    /\ took \in [Workers -> BOOLEAN]
    /\ handled \in Nat
    /\ \A w \in Workers : pc[w] # "idle" => stage[w] = "known"

(* AC-3.4 across processes: once a revoke has committed, no request that   *)
(* arrives later is identified, charged or handled, whichever worker takes *)
(* it and whatever other commands run.                                     *)
RevokedStaysOut ==
    \A w \in Workers : late[w] => stage[w] \in {"received", "refused"}

(* AC-3.3: a plaintext that was shown belongs to a stored key; a command   *)
(* that dies in between leaves a key nobody knows, never the converse.     *)
PrintedKeyStored == printed => key # "none"

(* What the order of the layers promises on both sides of the charge: a    *)
(* 401, a 429 and a 500 of the limiter have taken nothing from the bucket, *)
(* and no work is free: a request whose body was read or whose handler ran *)
(* has paid one token.  What a 403 has paid is left open here: the code    *)
(* charges before it checks the scope, the architecture documents have it  *)
(* the other way round.                                                    *)
AnswerTellsCharge ==
    \A w \in Workers :
        /\ stage[w] \in {"received", "known", "refused"} => ~took[w]
        /\ stage[w] \in {"admitted", "answered"} => took[w]

(* Requests that are past the charge and stamped from `mark` on.           *)
Paid == {w \in Workers : stage[w] = "admitted" /\ now[w] >= mark}

(* AC-5.1 end to end: from any moment on, the handlers that ran are within *)
(* the burst plus what the elapsed time has earned -- the window bound of  *)
(* the bucket holds of the work the service does, not just of its charges. *)
HandledWithinBudget ==
    IF Period = 0 THEN handled <= Capacity
    ELSE handled > 0 => handled * Period <= Capacity * Period + (clock - mark)

(* A row lock belongs to a request that is in its transaction: whichever   *)
(* way a request ends, by its answer, a failure or its worker's death, the *)
(* workers that queue for the row are let on.                              *)
NoStrandedLock == lock # None => stage[lock] = "known" /\ pc[lock] = "loaded"
=============================================================================
