------------------------- MODULE TaskListingProofs -------------------------
(***************************************************************************)
(* For every set of tasks, every limit, window and filter: the order and   *)
(* the completeness of a walk through the pages of the task list.          *)
(***************************************************************************)
EXTENDS TaskListing, FiniteSetTheorems, TLAPS

Typed ==
    /\ status \in [Ids -> Stored \cup {"unborn", "stamped", "deleted"}]
    /\ created \in [Ids -> Nat]
    /\ clock \in Nat
    /\ walk \in [pc : {"idle", "walking", "ended"}, cursor : Ids \cup {None},
                pages : Seq(SUBSET Ids), steady : SUBSET Ids, lost : BOOLEAN]

(* Every page that was given out lies before the cursor the client holds,  *)
(* and created_at of what was given out does not move any more.            *)
Fixed == {t \in Ids : status[t] \notin {"unborn", "stamped"}}
Progress ==
    /\ Shown \subseteq Fixed
    /\ walk.steady \subseteq Matching
    /\ walk.pc = "idle" => walk.pages = <<>>
    /\ walk.pc = "walking" <=> walk.cursor # None
    /\ walk.pc = "walking" =>
         /\ walk.cursor \in Shown
         /\ \A t \in Shown : t = walk.cursor \/ Newer(t, walk.cursor)

WalkInv == Typed /\ Progress /\ NewestFirst /\ NothingPassedOver

-----------------------------------------------------------------------------
(* (created_at, id) is a strict total order.                               *)
LEMMA NewerOrder ==
    ASSUME created \in [Ids -> Nat], NEW t \in Ids, NEW u \in Ids, NEW v \in Ids
    PROVE  /\ ~Newer(t, t)
           /\ Newer(t, u) /\ Newer(u, v) => Newer(t, v)
           /\ t = u \/ Newer(t, u) \/ Newer(u, t)
BY IdsAssumption DEF IdsAssumption, Newer

(* Whatever is newer than one of the n newest rows is one of them.         *)
LEMMA FirstOfClosed ==
    ASSUME created \in [Ids -> Nat], NEW S \in SUBSET Ids, NEW n \in Nat,
           NEW t \in S, NEW u \in FirstOf(S, n), Newer(t, u)
    PROVE  t \in FirstOf(S, n)
<1> DEFINE Above(x) == {v \in S : Newer(v, x)}
<1>1. u \in S /\ Cardinality(Above(u)) < n
  BY DEF FirstOf
<1>2. Above(t) \in SUBSET Above(u)
  BY <1>1, NewerOrder
<1>3. IsFiniteSet(Above(u))
  BY FS_Subset, IdsAssumption DEF IdsAssumption
<1>4. Cardinality(Above(t)) <= Cardinality(Above(u)) /\ IsFiniteSet(Above(t))
  BY <1>2, <1>3, FS_Subset
<1>5. Cardinality(Above(t)) \in Nat /\ Cardinality(Above(u)) \in Nat
  BY <1>3, <1>4, FS_CardinalityType
<1>6. QED
  BY <1>1, <1>4, <1>5 DEF FirstOf

LEMMA AppendPage ==
    ASSUME NEW s \in Seq(SUBSET Ids), NEW e \in SUBSET Ids
    PROVE  /\ Append(s, e) \in Seq(SUBSET Ids)
           /\ DOMAIN Append(s, e) = DOMAIN s \cup {Len(s) + 1}
           /\ \A i \in DOMAIN s : i < Len(s) + 1 /\ Append(s, e)[i] = s[i]
           /\ Append(s, e)[Len(s) + 1] = e
OBVIOUS

LEMMA QueryTypes ==
    ASSUME Typed
    PROVE  /\ Matching \subseteq Fixed
           /\ Matching \in SUBSET Ids
           /\ Snapshots \subseteq Matching
           /\ Shown \in SUBSET Ids
           /\ \A c : Behind(c) \subseteq Snapshots
           /\ \A S, n : FirstOf(S, n) \subseteq S
BY DEF Typed, Matching, Fixed, Snapshots, Shown, Behind, FirstOf, Stored

-----------------------------------------------------------------------------
LEMMA InitWalk == Init => WalkInv
<1> SUFFICES ASSUME Init PROVE WalkInv
  OBVIOUS
<1>1. Typed
  BY DEF Init, Typed, Walk
<1>2. walk.pages = <<>> /\ walk.pc = "idle" /\ walk.steady = {} /\ walk.cursor = None
  BY DEF Init, Walk
<1>3. Shown = {}
  BY <1>2 DEF Shown
<1>4. QED
  BY <1>1, <1>2, <1>3 DEF WalkInv, Progress, NewestFirst, NothingPassedOver

(* A page takes up below all that was shown, and leaves nothing above its  *)
(* last row.                                                               *)
LEMMA PageStep ==
    ASSUME WalkInv, ListPage
    PROVE  /\ WalkInv'
           /\ walk'.pc = "ended" =>
                \A t \in walk'.steady : t \in Snapshots => t \in Shown'
           /\ walk'.lost = walk.lost
<1> DEFINE rest == Behind(walk.cursor)
           page == FirstOf(rest, Limit)
<1>t. Typed /\ Progress /\ NewestFirst /\ NothingPassedOver
  BY DEF WalkInv
<1>u. status' = status /\ created' = created /\ clock' = clock
  BY DEF ListPage
<1>q. /\ Matching \subseteq Fixed /\ Matching \in SUBSET Ids
      /\ Snapshots \subseteq Matching /\ Shown \in SUBSET Ids
      /\ rest \subseteq Snapshots /\ page \subseteq rest
  BY <1>t, QueryTypes
<1>f. created \in [Ids -> Nat] /\ Limit \in Nat /\ MaxListable \in Nat
  BY <1>t, LimitAssumption DEF Typed, LimitAssumption
<1>p. PICK c \in NextCursor(rest, page) : Turn(page, c)
  BY DEF ListPage
<1>w. walk' = [walk EXCEPT !.pc = IF c = None THEN "ended" ELSE "walking",
                           !.cursor = c,
                           !.pages = Append(@, page),
                           !.steady = IF walk.pc = "idle" THEN Snapshots ELSE @]
  BY <1>p DEF Turn
<1>n. /\ c = None => rest = page
      /\ c # None => c \in page /\ \A u \in page : u = c \/ Newer(u, c)
  <2>1. None \notin page
    BY <1>q, NoneAssumption DEF NoneAssumption
  <2> QED
    BY <1>p, <2>1 DEF NextCursor, Oldest
<1>a. /\ walk.pages \in Seq(SUBSET Ids) /\ page \in SUBSET Ids
      /\ walk'.pages = Append(walk.pages, page)
      /\ walk'.cursor = c
      /\ walk'.pc = IF c = None THEN "ended" ELSE "walking"
      /\ walk'.steady = IF walk.pc = "idle" THEN Snapshots ELSE walk.steady
      /\ walk'.lost = walk.lost
  BY <1>t, <1>w, <1>q DEF Typed
<1>b. Shown' = Shown \cup page
  BY <1>a, AppendPage DEF Shown
<1>c. walk.pc \in {"idle", "walking"}
  BY DEF ListPage
<1>d. walk.pc = "idle" => Shown = {} /\ walk.cursor = None
  BY <1>t DEF Progress, Shown
<1>e. \A t \in Shown, u \in page : Newer(t, u)
  <2> SUFFICES ASSUME NEW t \in Shown, NEW u \in page PROVE Newer(t, u)
    OBVIOUS
  <2>1. walk.pc = "walking"
    BY <1>c, <1>d
  <2>2. walk.cursor \in Ids /\ (t = walk.cursor \/ Newer(t, walk.cursor))
    BY <2>1, <1>t, <1>q DEF Progress
  <2>3. Newer(walk.cursor, u)
    BY <2>1, <1>t DEF Behind, Progress, FirstOf
  <2>4. QED
    BY <2>2, <2>3, <1>q, <1>f, NewerOrder
<1>g. \A t, u : Newer(t, u)' <=> Newer(t, u)
  BY <1>u DEF Newer
<1>h. Fixed' = Fixed /\ Matching' = Matching
  BY <1>u DEF Fixed, Matching
(* A row of the walk that is not older than the new cursor was shown.      *)
<1>i. \A t \in walk'.steady :
        (c = None \/ ~Newer(c, t)) /\ (c = None => t \in Snapshots)
          => t \in Shown \cup page
  <2> SUFFICES ASSUME NEW t \in walk'.steady, t \notin Shown, t \notin page,
                      c = None \/ ~Newer(c, t), c = None => t \in Snapshots
               PROVE  FALSE
    OBVIOUS
  <2>1. t \in Matching
    BY <1>a, <1>t, <1>q DEF Progress
  <2>2. c # None => Newer(t, c)
    BY <2>1, <1>n, <1>q, <1>f, NewerOrder
  <2>3. t \in Snapshots
    BY <2>1, <2>2, <1>n, <1>q, <1>f, FirstOfClosed DEF Snapshots
  <2>4. walk.cursor = None \/ Newer(walk.cursor, t)
    <3>1. CASE walk.pc = "idle"
      BY <3>1, <1>d
    <3>2. CASE walk.pc = "walking"
      BY <3>2, <1>t, <1>a DEF NothingPassedOver
    <3>3. QED
      BY <3>1, <3>2, <1>c
  <2>5. t \in rest
    BY <2>3, <2>4 DEF Behind
  <2>6. CASE c = None
    BY <2>5, <2>6, <1>n
  <2>7. CASE c # None
    BY <2>2, <2>5, <2>7, <1>n, <1>q, <1>f, FirstOfClosed
  <2>8. QED
    BY <2>6, <2>7
<1>1. Typed'
  <2>1. walk'.pages \in Seq(SUBSET Ids)
    BY <1>a, AppendPage
  <2>2. c \in Ids \cup {None}
    BY <1>n, <1>q
  <2>3. Snapshots \in SUBSET Ids
    BY <1>q
  <2>4. QED
    BY <2>1, <2>2, <2>3, <1>t, <1>u, <1>w DEF Typed
<1>2. Progress'
  <2>1. walk'.steady \subseteq Matching
    BY <1>a, <1>t, <1>q DEF Progress
  <2>2. Shown' \subseteq Fixed
    BY <1>b, <1>t, <1>q DEF Progress
  <2>3. c # None => c \in Shown' /\ \A t \in Shown' : t = c \/ Newer(t, c)
    BY <1>b, <1>e, <1>n
  <2>4. walk'.pc # "idle"
    BY <1>a
  <2>5. QED
    BY <2>1, <2>2, <2>3, <2>4, <1>a, <1>g, <1>h DEF Progress
<1>3. NewestFirst'
  <2> SUFFICES ASSUME NEW i \in DOMAIN walk'.pages, NEW j \in DOMAIN walk'.pages,
                      i < j, NEW t \in walk'.pages[i], NEW u \in walk'.pages[j]
               PROVE  Newer(t, u)
    BY <1>g DEF NewestFirst
  <2>0. DOMAIN walk.pages = 1..Len(walk.pages) /\ Len(walk.pages) \in Nat
    BY <1>a
  <2>1. i \in DOMAIN walk.pages /\ walk'.pages[i] = walk.pages[i]
    BY <1>a, <2>0, AppendPage
  <2>2. CASE j \in DOMAIN walk.pages
    <3>1. walk'.pages[j] = walk.pages[j]
      BY <2>2, <1>a, AppendPage
    <3>2. QED
      BY <3>1, <2>1, <2>2, <1>t DEF NewestFirst
  <2>3. CASE j \notin DOMAIN walk.pages
    <3>1. walk'.pages[j] = page
      BY <2>3, <1>a, AppendPage
    <3>2. t \in Shown
      BY <2>1 DEF Shown
    <3>3. QED
      BY <3>1, <3>2, <1>e
  <2>4. QED
    BY <2>2, <2>3
<1>4. NothingPassedOver'
  <2> SUFFICES ASSUME walk'.pc = "walking", NEW t \in walk'.steady
               PROVE  t \in Shown' \/ Newer(walk'.cursor, t)
    BY <1>g DEF NothingPassedOver
  <2>1. c # None /\ walk'.cursor = c
    BY <1>a
  <2>2. QED
    BY <2>1, <1>i, <1>b
<1>5. walk'.pc = "ended" => \A t \in walk'.steady : t \in Snapshots => t \in Shown'
  BY <1>a, <1>b, <1>i
<1>6. QED
  BY <1>1, <1>2, <1>3, <1>4, <1>5, <1>a DEF WalkInv

LEMMA LostStep ==
    ASSUME WalkInv, ListLost
    PROVE  WalkInv' /\ walk'.lost
<1>t. Typed /\ Progress /\ NewestFirst /\ NothingPassedOver
  BY DEF WalkInv
<1>u. status' = status /\ created' = created /\ clock' = clock
  BY DEF ListLost
<1>a. /\ walk.pages \in Seq(SUBSET Ids) /\ {} \in SUBSET Ids
      /\ walk' = [walk EXCEPT !.pc = "ended", !.cursor = None, !.lost = TRUE,
                              !.pages = Append(@, {})]
  BY <1>t DEF ListLost, Typed
<1>b. /\ walk'.pages = Append(walk.pages, {}) /\ walk'.pc = "ended"
      /\ walk'.cursor = None /\ walk'.steady = walk.steady /\ walk'.lost
  BY <1>a, <1>t DEF Typed
<1>c. Shown' = Shown
  BY <1>a, <1>b, AppendPage DEF Shown
<1>d. Fixed' = Fixed /\ Matching' = Matching /\ \A t, u : Newer(t, u)' <=> Newer(t, u)
  BY <1>u DEF Fixed, Matching, Newer
<1>1. Typed'
  BY <1>a, <1>t, <1>u, AppendPage DEF Typed
<1>2. Progress' /\ NothingPassedOver'
  BY <1>b, <1>c, <1>d, <1>t DEF Progress, NothingPassedOver
<1>3. NewestFirst'
  <2> SUFFICES ASSUME NEW i \in DOMAIN walk'.pages, NEW j \in DOMAIN walk'.pages,
                      i < j, NEW t \in walk'.pages[i], NEW u \in walk'.pages[j]
               PROVE  Newer(t, u)
    BY <1>d DEF NewestFirst
  <2>0. DOMAIN walk.pages = 1..Len(walk.pages) /\ Len(walk.pages) \in Nat
    BY <1>a
  <2>1. j \in DOMAIN walk.pages /\ walk'.pages[j] = walk.pages[j]
    BY <1>a, <1>b, AppendPage
  <2>2. i \in DOMAIN walk.pages /\ walk'.pages[i] = walk.pages[i]
    BY <1>a, <1>b, <2>0, <2>1, AppendPage
  <2>3. QED
    BY <2>1, <2>2, <1>t DEF NewestFirst
<1>4. QED
  BY <1>1, <1>2, <1>3, <1>b DEF WalkInv

(* The other requests leave the pages and the order of what was shown.     *)
Others == Tick \/ \E t \in Ids :
            CreateStamp(t) \/ CreateCommit(t) \/ UpdateStatus(t) \/ Delete(t)

LEMMA OthersStep ==
    ASSUME WalkInv, Others
    PROVE  /\ WalkInv'
           /\ walk'.pc = walk.pc /\ walk'.lost = walk.lost
           /\ walk'.pages = walk.pages /\ walk'.cursor = walk.cursor
           /\ walk'.steady \subseteq walk.steady
<1>t. Typed /\ Progress /\ NewestFirst /\ NothingPassedOver
  BY DEF WalkInv
<1>w. /\ walk'.pc = walk.pc /\ walk'.lost = walk.lost
      /\ walk'.pages = walk.pages /\ walk'.cursor = walk.cursor
      /\ walk'.steady \subseteq walk.steady
      /\ walk' \in [pc : {"idle", "walking", "ended"}, cursor : Ids \cup {None},
                    pages : Seq(SUBSET Ids), steady : SUBSET Ids, lost : BOOLEAN]
  BY <1>t DEF Others, Typed, Tick, CreateStamp, CreateCommit, UpdateStatus, Delete,
              Unsteady
<1>1. Typed'
  BY <1>t, <1>w DEF Others, Typed, Tick, CreateStamp, CreateCommit, UpdateStatus,
                    Delete, Stored
<1>2. /\ Fixed \subseteq Fixed'
      /\ \A t \in Fixed : created'[t] = created[t]
  BY <1>t DEF Others, Typed, Tick, CreateStamp, CreateCommit, UpdateStatus,
              Delete, Stored, Fixed
<1>3. \A t, u \in Fixed : Newer(t, u)' <=> Newer(t, u)
  BY <1>2 DEF Newer
<1>4. walk'.steady \subseteq Matching'
  <2>1. CASE Tick
    BY <2>1, <1>t DEF Tick, Progress, Matching
  <2>2. ASSUME NEW t \in Ids, CreateStamp(t) \/ CreateCommit(t)
        PROVE  walk'.steady \subseteq Matching'
    BY <2>2, <1>t DEF CreateStamp, CreateCommit, Progress, Matching, Typed, Stored
  <2>3. ASSUME NEW t \in Ids, UpdateStatus(t)
        PROVE  walk'.steady \subseteq Matching'
    <3>1. walk.steady \subseteq Matching
      BY <1>t DEF Progress
    <3>2. CASE Filter = "any"
      BY <2>3, <3>1, <3>2, <1>t DEF UpdateStatus, Matching, Typed, Stored
    <3>3. CASE Filter # "any"
      <4>1. t \notin walk'.steady
        BY <2>3, <3>3, <1>t DEF UpdateStatus, Unsteady, Typed
      <4>2. \A u \in Ids \ {t} : status'[u] = status[u]
        BY <2>3, <1>t DEF UpdateStatus, Typed
      <4>3. QED
        BY <4>1, <4>2, <3>1, <1>w DEF Matching
    <3>4. QED
      BY <3>2, <3>3
  <2>4. ASSUME NEW t \in Ids, Delete(t)
        PROVE  walk'.steady \subseteq Matching'
    <3>1. t \notin walk'.steady
      BY <2>4, <1>t DEF Delete, Unsteady, Typed
    <3>2. \A u \in Ids \ {t} : status'[u] = status[u]
      BY <2>4, <1>t DEF Delete, Typed
    <3>3. QED
      BY <3>1, <3>2, <1>t, <1>w DEF Matching, Progress
  <2>5. QED
    BY <2>1, <2>2, <2>3, <2>4 DEF Others
<1>5. Shown' = Shown
  BY <1>w DEF Shown
<1>6. Progress'
  BY <1>2, <1>3, <1>4, <1>5, <1>w, <1>t DEF Progress
<1>7. NewestFirst'
  <2> SUFFICES ASSUME NEW i \in DOMAIN walk.pages, NEW j \in DOMAIN walk.pages,
                      i < j, NEW t \in walk.pages[i], NEW u \in walk.pages[j]
               PROVE  Newer(t, u)'
    BY <1>w DEF NewestFirst
  <2>1. t \in Fixed /\ u \in Fixed
    BY <1>t DEF Progress, Shown
  <2>2. QED
    BY <2>1, <1>3, <1>t DEF NewestFirst
<1>8. NothingPassedOver'
  <2> SUFFICES ASSUME walk.pc = "walking", NEW t \in walk'.steady
               PROVE  t \in Shown \/ Newer(walk.cursor, t)'
    BY <1>w, <1>5 DEF NothingPassedOver
  <2>1. t \in Fixed /\ walk.cursor \in Fixed
    BY <1>t, <1>w, QueryTypes DEF Progress
  <2>2. QED
    BY <2>1, <1>3, <1>w, <1>t DEF NothingPassedOver
<1>9. QED
  BY <1>1, <1>6, <1>7, <1>8, <1>w DEF WalkInv

-----------------------------------------------------------------------------
LEMMA NextWalk == WalkInv /\ [Next]_vars => WalkInv'
<1> SUFFICES ASSUME WalkInv, [Next]_vars PROVE WalkInv'
  OBVIOUS
<1>1. CASE ListPage
  BY <1>1, PageStep
<1>2. CASE ListLost
  BY <1>2, LostStep
<1>3. CASE Others
  BY <1>3, OthersStep
<1>4. CASE UNCHANGED vars
  BY <1>4 DEF vars, WalkInv, Typed, Progress, NewestFirst, NothingPassedOver, Shown,
              Fixed, Matching, Newer
<1>5. QED
  BY <1>1, <1>2, <1>3, <1>4 DEF Next, Others

THEOREM WalkInvariant == Spec => []WalkInv
<1>1. QED
  BY InitWalk, NextWalk, PTL DEF Spec

(* The variables keep their types; no row bears a stamp from the future,   *)
(* whenever create committed it.                                           *)
THEOREM ListingTyped == Spec => []TypeOK
<1> DEFINE Bounds == /\ clock \in 0..MaxClock /\ deletes \in 0..MaxDeletes
                     /\ \A t \in Ids : created[t] <= clock
<1>1. Init => Bounds
  BY BoundsAssumption DEF Init, BoundsAssumption
<1>2. WalkInv /\ Bounds /\ [Next]_vars => Bounds'
  <2> SUFFICES ASSUME Typed, Bounds, [Next]_vars PROVE Bounds'
    BY DEF WalkInv
  <2>1. CASE Tick
    BY <2>1, BoundsAssumption DEF Tick, Typed, BoundsAssumption
  <2>2. CASE \E t \in Ids : CreateStamp(t)
    <3> PICK t \in Ids : CreateStamp(t)
      BY <2>2
    <3>1. created' = [created EXCEPT ![t] = clock] /\ UNCHANGED <<clock, deletes>>
      BY DEF CreateStamp
    <3>2. QED
      BY <3>1 DEF Typed
  <2>3. CASE \E t \in Ids : Delete(t)
    BY <2>3, BoundsAssumption DEF Delete, BoundsAssumption
  <2>4. CASE UNCHANGED <<clock, created, deletes>>
    BY <2>4
  <2>5. QED
    BY <2>1, <2>2, <2>3, <2>4 DEF Next, ListPage, ListLost, CreateCommit, UpdateStatus, vars
<1>3. WalkInv /\ Bounds => TypeOK
  <2> SUFFICES ASSUME Typed, Bounds PROVE created \in [Ids -> 0..MaxClock]
    BY DEF WalkInv, Typed, TypeOK
  <2>1. \A t \in Ids : created[t] \in 0..MaxClock
    BY BoundsAssumption DEF Typed, BoundsAssumption
  <2>2. QED
    BY <2>1 DEF Typed
<1>4. QED
  BY <1>1, <1>2, <1>3, WalkInvariant, PTL DEF Spec

(* ADR-009: no task is shown twice in a walk, and the pages follow the     *)
(* order -- for every interleaving of creates, runs and deletes.           *)
THEOREM PagesDescend == Spec => []NewestFirst
<1>1. WalkInv => NewestFirst
  BY DEF WalkInv
<1>2. QED
  BY <1>1, WalkInvariant, PTL

(* As long as the client gets a cursor, the walk of repository.list has    *)
(* passed over no row that was listable from its beginning on.             *)
THEOREM WalksPassNothingOver == Spec => []NothingPassedOver
<1>1. WalkInv => NothingPassedOver
  BY DEF WalkInv
<1>2. QED
  BY <1>1, WalkInvariant, PTL

(* A walk whose last cursor was found ends with everything the window of   *)
(* _MAX_LISTABLE rows still holds.                                         *)
THEOREM LastPagesComplete == Spec => LastPageCompletes
<1> DEFINE Completes ==
        (walk.pc # "ended" /\ walk'.pc = "ended" /\ ~walk'.lost)
         => \A t \in walk'.steady :
              Cardinality({u \in Matching : Newer(u, t)}) < MaxListable
                => t \in Shown'
<1>1. WalkInv /\ [Next]_vars => [Completes]_vars
  <2> SUFFICES ASSUME WalkInv, Next PROVE Completes
    OBVIOUS
  <2>1. CASE ListPage
    <3>1. \A t \in walk'.steady : t \in Matching
      <4>1. WalkInv' /\ Matching' = Matching
        BY <2>1, PageStep DEF ListPage, Matching
      <4>2. QED
        BY <4>1 DEF WalkInv, Progress
    <3>2. \A t \in Matching :
             Cardinality({u \in Matching : Newer(u, t)}) < MaxListable => t \in Snapshots
      BY DEF Snapshots, FirstOf
    <3>3. QED
      BY <3>1, <3>2, <2>1, PageStep
  <2>2. CASE ListLost
    BY <2>2, LostStep
  <2>3. CASE Others
    BY <2>3, OthersStep
  <2>4. QED
    BY <2>1, <2>2, <2>3 DEF Next, Others
<1>2. QED
  BY <1>1, WalkInvariant, PTL DEF Spec, LastPageCompletes

-----------------------------------------------------------------------------
(* The walks for which the ADR is right without reserve: an unfiltered     *)
(* list that fits the window, with nothing deleted.                        *)

Calm == deletes = 0 /\ \A t \in Ids : status[t] # "deleted"
CalmInv == WalkInv /\ Calm /\ SkipsNothing

LEMMA AllListed ==
    ASSUME Cardinality(Ids) <= MaxListable, Typed
    PROVE  Matching \subseteq Snapshots
<1> SUFFICES ASSUME NEW t \in Matching PROVE t \in Snapshots
  OBVIOUS
<1> DEFINE Above == {u \in Matching : Newer(u, t)}
<1>1. t \in Ids /\ Above \in SUBSET Ids /\ IsFiniteSet(Ids)
  BY QueryTypes, IdsAssumption DEF IdsAssumption
<1>2. t \notin Above
  BY <1>1, NewerOrder DEF Typed
<1>3. /\ Cardinality(Above) <= Cardinality(Ids)
      /\ Cardinality(Above) # Cardinality(Ids)
      /\ IsFiniteSet(Above)
  BY <1>1, <1>2, FS_Subset
<1>4. Cardinality(Above) \in Nat /\ Cardinality(Ids) \in Nat
  BY <1>1, <1>3, FS_CardinalityType
<1>5. Cardinality(Above) < MaxListable
  BY <1>3, <1>4, LimitAssumption DEF LimitAssumption
<1>6. QED
  BY <1>5 DEF Snapshots, FirstOf

LEMMA CalmStep ==
    ASSUME Cardinality(Ids) <= MaxListable, MaxDeletes = 0, Filter = "any"
    PROVE  CalmInv /\ [Next]_vars => CalmInv'
<1> SUFFICES ASSUME CalmInv, [Next]_vars PROVE CalmInv'
  OBVIOUS
<1>t. WalkInv /\ Typed /\ Progress /\ Calm /\ SkipsNothing
  BY DEF CalmInv, WalkInv
<1>i. WalkInv'
  BY <1>t, NextWalk
<1>1. CASE ListPage
  <2>1. Calm'
    BY <1>1, <1>t DEF ListPage, Calm
  <2>2. walk'.steady \subseteq Matching
    <3>1. Matching' = Matching
      BY <1>1 DEF ListPage, Matching
    <3>2. QED
      BY <1>i, <3>1 DEF WalkInv, Progress
  <2>3. walk'.pc = "ended" => walk'.steady \subseteq Shown'
    BY <1>1, <1>t, <2>2, PageStep, AllListed
  <2>4. QED
    BY <1>i, <2>1, <2>3 DEF CalmInv, SkipsNothing
<1>2. CASE ListLost
  <2>1. walk.cursor \in Fixed /\ walk.cursor \notin Snapshots
    BY <1>2, <1>t DEF ListLost, Progress
  <2>2. walk.cursor \in Matching
    BY <2>1, <1>t DEF Fixed, Calm, Matching, Typed
  <2>3. QED
    BY <2>1, <2>2, <1>t, AllListed
<1>3. CASE Others
  <2>1. Calm'
    <3>1. ASSUME NEW t \in Ids, Delete(t) PROVE FALSE
      BY <3>1, <1>t DEF Delete, Calm
    <3>2. QED
      BY <3>1, <1>3, <1>t DEF Others, Tick, CreateStamp, CreateCommit,
                              UpdateStatus, Calm, Typed
  <2>2. SkipsNothing'
    <3>1. Shown' = Shown
      BY <1>3, <1>t, OthersStep DEF Shown
    <3>2. QED
      BY <3>1, <1>3, <1>t, OthersStep DEF SkipsNothing
  <2>3. QED
    BY <1>i, <2>1, <2>2 DEF CalmInv
<1>4. CASE UNCHANGED vars
  BY <1>4, <1>t, <1>i DEF vars, CalmInv, Calm, SkipsNothing, Shown
<1>5. QED
  BY <1>1, <1>2, <1>3, <1>4 DEF Next, Others

(* A walk that ends has shown every row it could list when it began: true  *)
(* of at most _MAX_LISTABLE tasks, no filter and no delete, whatever is    *)
(* created and run meanwhile.                                              *)
THEOREM SmallListsComplete ==
    ASSUME Cardinality(Ids) <= MaxListable, MaxDeletes = 0, Filter = "any"
    PROVE  Spec => []SkipsNothing
<1>1. Init => CalmInv
  <2>1. Init => walk.pc # "ended"
    BY DEF Init, Walk
  <2>2. QED
    BY <2>1, InitWalk DEF Init, CalmInv, Calm, SkipsNothing
<1>2. CalmInv /\ [Next]_vars => CalmInv'
  BY CalmStep
<1>3. CalmInv => SkipsNothing
  BY DEF CalmInv
<1>4. QED
  BY <1>1, <1>2, <1>3, PTL DEF Spec
=============================================================================
