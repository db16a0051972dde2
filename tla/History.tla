-------------------------------- MODULE History --------------------------------
(***************************************************************************)
(* The lists of a member: GET /payments/history over payments and          *)
(* GET /me/readings over readings.  Each page is a query of its own, the   *)
(* newest rows first, cut out by OFFSET and LIMIT, while rows go on being  *)
(* opened and committed; a client that wants the whole list asks for page  *)
(* after page until one is not full.                                       *)
(*                                                                         *)
(* Rows stand for those of one member: the others are filtered out by the  *)
(* query.  started_at, the first sort key of the readings, is written by   *)
(* nobody, which leaves created_at; no two rows of a member begin in the   *)
(* same microsecond.                                                       *)
(***************************************************************************)
EXTENDS Naturals, FiniteSets

CONSTANTS Entries,      \* payments.id or readings.id values
          Instants,     \* values of created_at; zero stands for no row
          PAGE_SIZE

ASSUME HistoryAssumption == Instants \subseteq Nat \ {0} /\ PAGE_SIZE \in Nat \ {0}

VARIABLES created_at,   \* of the rows inserted, those of open transactions too
          settled,      \* the rows whose transaction is committed
          walk          \* the client's walk over the pages

listings == <<created_at, settled, walk>>

-----------------------------------------------------------------------------
(* Types *)

NoWalk == [page |-> 0, seen |-> {}, owed |-> {}, ended |-> FALSE]
Walk   == [page : Nat, seen : SUBSET Entries, owed : SUBSET Entries, ended : BOOLEAN]

HistoryTypeOK ==
    /\ created_at \in [Entries -> Instants \cup {0}]
    /\ settled \subseteq Entries /\ IsFiniteSet(settled)
    /\ walk \in Walk

HistoryInit == created_at = [r \in Entries |-> 0] /\ settled = {} /\ walk = NoWalk

-----------------------------------------------------------------------------
(* Helpers *)

Inserted == {r \in Entries : created_at[r] # 0}

\* ORDER BY created_at DESC: the rows before a row in the list, and its place.
NewerThan(r) == {q \in settled : created_at[q] > created_at[r]}
Place(r)     == Cardinality(NewerThan(r))

Page_FromOne(page) ==
    {r \in settled : page * PAGE_SIZE <= Place(r) /\ Place(r) < (page + 1) * PAGE_SIZE}

\* OFFSET (page - 1) * PAGE_SIZE LIMIT PAGE_SIZE.
Page(page) ==
    {r \in settled : (page - 1) * PAGE_SIZE <= Place(r) /\ Place(r) < page * PAGE_SIZE}

-----------------------------------------------------------------------------
(* The rows: checkouts, subscriptions, readings *)

\* created_at is now(), the time the transaction began: a row may be committed
\* after one that is younger.
OpenEntry(r) ==
    /\ created_at[r] = 0
    /\ \E now \in Instants :
          /\ \A q \in Entries : created_at[q] < now
          /\ created_at' = [created_at EXCEPT ![r] = now]
    /\ UNCHANGED <<settled, walk>>

SettleEntry(r) ==
    /\ r \in Inserted \ settled
    /\ settled' = settled \cup {r}
    /\ UNCHANGED <<created_at, walk>>

\* The transaction is rolled back, and the row was never there.
DropEntry(r) ==
    /\ r \in Inserted \ settled
    /\ created_at' = [created_at EXCEPT ![r] = 0]
    /\ UNCHANGED <<settled, walk>>

-----------------------------------------------------------------------------
(* The pages *)

\* list_payment_history, list_my_readings.  A page that is not full is the
\* last; the walk owes its client the rows there were when it began.
ListPage ==
    LET page == walk.page + 1
    IN  /\ ~walk.ended
        /\ walk' = [page  |-> page,
                    seen  |-> walk.seen \cup Page(page),
                    owed  |-> IF page = 1 THEN settled ELSE walk.owed,
                    ended |-> Cardinality(Page(page)) < PAGE_SIZE]
        /\ UNCHANGED <<created_at, settled>>

\* The client opens the list again.
BeginWalk ==
    /\ walk.page > 0
    /\ walk' = NoWalk
    /\ UNCHANGED <<created_at, settled>>

-----------------------------------------------------------------------------

HistoryNext ==
    \/ \E r \in Entries : OpenEntry(r) \/ SettleEntry(r) \/ DropEntry(r)
    \/ ListPage \/ BeginWalk

HistorySpec == HistoryInit /\ [][HistoryNext]_listings

-----------------------------------------------------------------------------
(* Properties *)

\* Rows that appear, in whatever order they are committed, while a client goes
\* from page to page push older ones down and may show them twice, and never
\* make it miss one that was there when it began.
PagesMissNothing == walk.ended => walk.owed \subseteq walk.seen
=============================================================================
