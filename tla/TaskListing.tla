---------------------------- MODULE TaskListing ----------------------------
(***************************************************************************)
(* GET /v1/tasks: a client walks the cursor pages of TaskRepository.list   *)
(* while other requests create, run and delete tasks.  A page is one read  *)
(* of the _MAX_LISTABLE newest rows that match the filter, cut behind the  *)
(* row the cursor names.                                                   *)
(*                                                                         *)
(* Rows are ordered by (created_at, id).  created_at is taken before the   *)
(* transaction of create, so rows may be committed in another order; ids   *)
(* are random, and numbers stand for their order.  The eviction of a       *)
(* homonym by create is a Delete here.                                     *)
(***************************************************************************)
EXTENDS Integers, FiniteSets, Sequences

CONSTANTS
    Ids,            \* tasks.id values
    None,           \* no cursor
    Filter,         \* the ?status= of the walk; "any": it has none
    Limit,          \* the ?limit= of the walk
    MaxListable,    \* _MAX_LISTABLE
    MaxClock,       \* bound on the clock
    MaxDeletes      \* bound on the deletes

ASSUME IdsAssumption == Ids \subseteq Nat /\ IsFiniteSet(Ids)
ASSUME NoneAssumption == None \notin Ids
ASSUME LimitAssumption == Limit \in Nat \ {0} /\ MaxListable \in Nat \ {0}
ASSUME FilterAssumption == Filter \in {"any", "pending", "running", "settled"}
ASSUME BoundsAssumption == MaxClock \in Nat /\ MaxDeletes \in Nat

VARIABLES
    clock,      \* wall clock
    status,     \* tasks.status; "unborn", "stamped" (create took its
                \* created_at) and "deleted" have no row, "settled" stands for
                \* the three terminal statuses
    created,    \* created_at
    deletes,    \* spent bound
    walk        \* the walk: pc, the cursor the client holds, the pages it
                \* got; for the properties only, the rows that could be listed
                \* when it began and match since, and whether a cursor was
                \* not found

vars == <<clock, status, created, deletes, walk>>

Stored == {"pending", "running", "settled"}
Walk(pc, cursor, pages, steady, lost) ==
    [pc |-> pc, cursor |-> cursor, pages |-> pages, steady |-> steady,
     lost |-> lost]

Init ==
    /\ clock = 0
    /\ status = [t \in Ids |-> "unborn"]
    /\ created = [t \in Ids |-> 0]
    /\ deletes = 0
    /\ walk = Walk("idle", None, <<>>, {}, FALSE)

-----------------------------------------------------------------------------
(* The query.                                                              *)

Newer(t, u) == created[t] > created[u] \/ (created[t] = created[u] /\ t > u)

(* ORDER BY created_at DESC, id DESC LIMIT n over the rows of S.           *)
FirstOf(S, n) == {t \in S : Cardinality({u \in S : Newer(u, t)}) < n}

(* The filter goes into the WHERE of the statement that carries the LIMIT; *)
(* the faulty variant filters the newest rows afterwards.                  *)
Matching == {t \in Ids : status[t] \in Stored /\ Filter \in {"any", status[t]}}
FilterWindow ==
    FirstOf({t \in Ids : status[t] \in Stored}, MaxListable) \cap Matching
Snapshots == FirstOf(Matching, MaxListable)

(* The rows behind the cursor; the faulty variant starts at its own row.   *)
BehindInclusive(c) ==
    {t \in Snapshots : c = None \/ t = c \/ Newer(c, t)}
Behind(c) == {t \in Snapshots : c = None \/ Newer(c, t)}

(* The cursor of the answer: the last row of the page, unless the page     *)
(* took all there was.  The faulty variant takes the last row of the       *)
(* window.                                                                 *)
Oldest(S) == {t \in S : \A u \in S : u = t \/ Newer(u, t)}
CursorOfWindow(rest, page) == IF rest = page THEN {None} ELSE Oldest(rest)
NextCursor(rest, page) == IF rest = page THEN {None} ELSE Oldest(page)

-----------------------------------------------------------------------------
(* The walk.                                                               *)

Turn(page, cursor) ==
    walk' = [walk EXCEPT !.pc = IF cursor = None THEN "ended" ELSE "walking",
                         !.cursor = cursor,
                         !.pages = Append(@, page),
                         !.steady = IF walk.pc = "idle" THEN Snapshots ELSE @]

(* A page: the first one, or the one behind a cursor whose row is there.   *)
ListPage ==
    /\ \/ walk.pc = "idle"
       \/ walk.pc = "walking" /\ walk.cursor \in Snapshots
    /\ LET rest == Behind(walk.cursor)
           page == FirstOf(rest, Limit)
       IN  \E c \in NextCursor(rest, page) : Turn(page, c)
    /\ UNCHANGED <<clock, status, created, deletes>>

(* The row of the cursor is not among the rows that were read: an empty    *)
(* page without a cursor.  In the faulty variant the request fails, and    *)
(* the client keeps its cursor.                                            *)
ListLostRaises ==
    /\ walk.pc = "walking"
    /\ walk.cursor \notin Snapshots
    /\ UNCHANGED vars
ListLost ==
    /\ walk.pc = "walking"
    /\ walk.cursor \notin Snapshots
    /\ walk' = [walk EXCEPT !.pc = "ended", !.cursor = None, !.lost = TRUE,
                            !.pages = Append(@, {})]
    /\ UNCHANGED <<clock, status, created, deletes>>

-----------------------------------------------------------------------------
(* The other requests.                                                     *)

Tick ==
    /\ clock < MaxClock
    /\ clock' = clock + 1
    /\ UNCHANGED <<status, created, deletes, walk>>

(* created_at = _utc_now(); the row follows with the commit.               *)
CreateStamp(t) ==
    /\ status[t] = "unborn"
    /\ status' = [status EXCEPT ![t] = "stamped"]
    /\ created' = [created EXCEPT ![t] = clock]
    /\ UNCHANGED <<clock, deletes, walk>>

CreateCommit(t) ==
    /\ status[t] = "stamped"
    /\ status' = [status EXCEPT ![t] = "pending"]
    /\ UNCHANGED <<clock, created, deletes, walk>>

(* A row that stops matching is no longer one the walk must show.          *)
Unsteady(t) == walk' = [walk EXCEPT !.steady = @ \ {t}]

(* update_status, in start_run and at the end of a run.                    *)
UpdateStatus(t) ==
    /\ status[t] \in Stored
    /\ status' = [status EXCEPT ![t] =
                    IF @ = "running" THEN "settled" ELSE "running"]
    /\ IF Filter = "any" THEN UNCHANGED walk ELSE Unsteady(t)
    /\ UNCHANGED <<clock, created, deletes>>

Delete(t) ==
    /\ deletes < MaxDeletes
    /\ status[t] \in Stored
    /\ status' = [status EXCEPT ![t] = "deleted"]
    /\ deletes' = deletes + 1
    /\ Unsteady(t)
    /\ UNCHANGED <<clock, created>>

Next ==
    \/ ListPage \/ ListLost
    \/ Tick
    \/ \E t \in Ids :
         CreateStamp(t) \/ CreateCommit(t) \/ UpdateStatus(t) \/ Delete(t)

Spec == Init /\ [][Next]_vars

(* The client asks on as long as it gets a cursor.                         *)
FairSpec == Spec /\ WF_vars((ListPage /\ walk.pc = "walking") \/ ListLost)

-----------------------------------------------------------------------------
(* The values the variables hold.                                          *)
TypeOK ==
    /\ clock \in 0..MaxClock
    /\ status \in [Ids -> Stored \cup {"unborn", "stamped", "deleted"}]
    /\ created \in [Ids -> 0..MaxClock]
    /\ deletes \in 0..MaxDeletes
    /\ walk \in [pc : {"idle", "walking", "ended"}, cursor : Ids \cup {None},
                pages : Seq(SUBSET Ids), steady : SUBSET Ids, lost : BOOLEAN]

Shown == UNION {walk.pages[i] : i \in DOMAIN walk.pages}

(* ADR-009: the pages of a walk go down the order (created_at, id), so no  *)
(* task is shown twice, whatever is created, run or deleted in between.    *)
NewestFirst ==
    \A i, j \in DOMAIN walk.pages :
        i < j => \A t \in walk.pages[i], u \in walk.pages[j] : Newer(t, u)

(* As long as the rows of its cursors are there, a walk passes over no row *)
(* that could be listed from its beginning on.                             *)
NothingPassedOver ==
    walk.pc = "walking" =>
        \A t \in walk.steady : t \in Shown \/ Newer(walk.cursor, t)

(* ... and the page without a cursor shows all the rest that is among the  *)
(* _MAX_LISTABLE newest rows at that moment.                               *)
LastPageCompletes ==
    [][(walk.pc # "ended" /\ walk'.pc = "ended" /\ ~walk'.lost)
         => \A t \in walk'.steady :
              Cardinality({u \in Matching : Newer(u, t)}) < MaxListable
                => t \in Shown']_vars

(* ADR-009, Consequences: a walk that comes to its end has shown every row *)
(* that could be listed when it began and still matches.                   *)
SkipsNothing == walk.pc = "ended" => walk.steady \subseteq Shown

(* A walk comes to its end, however many rows appear while it goes on.     *)
WalkEnds == walk.pc = "walking" ~> walk.pc = "ended"
=============================================================================
