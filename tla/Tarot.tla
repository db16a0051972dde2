-------------------------------- MODULE Tarot --------------------------------
(***************************************************************************)
(* The card of the day.  POST /tarot/today/flip reads the clock, looks for *)
(* the day's draw, asks check_weekly_free, which reads the clock for       *)
(* itself, inserts the draw under the date it read first, and streams the  *)
(* reading chunk by chunk; a draw that exists is streamed again without a  *)
(* second look at the quota.  Midnight may come between any two steps.     *)
(*                                                                         *)
(* The counter in Redis is left out: no caller passes a store.             *)
(***************************************************************************)
EXTENDS Naturals, FiniteSets

CONSTANTS Drawers,              \* users.id values
          Flips,                \* tasks of the web process
          WEEKLY_FREE_DRAWS,
          DaysPerWeek,          \* 7
          LastDay,              \* bound on the days of the walk
          MaxPieces             \* bound on the audio chunks of a stream

ASSUME TarotAssumption ==
    /\ WEEKLY_FREE_DRAWS \in Nat \ {0}
    /\ DaysPerWeek \in Nat \ {0}
    /\ LastDay \in Nat /\ MaxPieces \in Nat

VARIABLES kst,          \* the day in Seoul, from a Monday
          subscriber,   \* members with a subscription credit
          tarot_draws,  \* the table
          flip,         \* what each request has read and where it is
          pieces        \* stored audio chunks, by user and day of the draw

tarot == <<kst, subscriber, tarot_draws, flip, pieces>>

-----------------------------------------------------------------------------
(* Types *)

Days == 0 .. LastDay

\* free: not covered by a subscription; late: inserted on a later day than it
\* is dated.
TarotDraw == [user : Drawers, date_kst : Days, free : BOOLEAN, late : BOOLEAN]

Waiting == [stage |-> "waiting"]
Flip    == [stage : {"quota", "insert", "stream"}, user : Drawers, date_kst : Days,
            free : BOOLEAN, seq : 0 .. MaxPieces]

TarotTypeOK ==
    /\ kst \in Days
    /\ subscriber \subseteq Drawers
    /\ tarot_draws \subseteq TarotDraw
    /\ flip \in [Flips -> Flip \cup {Waiting}]
    /\ pieces \subseteq Drawers \X Days \X Nat

TarotInit ==
    /\ kst = 0
    /\ subscriber = {}
    /\ tarot_draws = {}
    /\ flip = [f \in Flips |-> Waiting]
    /\ pieces = {}

-----------------------------------------------------------------------------
(* Helpers *)

AtFlip(f, stage) == flip[f].stage = stage

DrawsOf(u)     == {d \in tarot_draws : d.user = u}
DrawnOn(u, d)  == \E t \in DrawsOf(u) : t.date_kst = d

\* _iso_week_bounds_kst.
Monday(d) == d - (d % DaysPerWeek)
Sunday(d) == Monday(d) + DaysPerWeek - 1

DrawsThisWeek_AfterMonday(u, d) ==
    Cardinality({t \in DrawsOf(u) : Monday(d) < t.date_kst /\ t.date_kst <= Sunday(d)})

\* _db_scan_draws_this_week, with the week of the day given.
DrawsThisWeek(u, d) ==
    Cardinality({t \in DrawsOf(u) : Monday(d) <= t.date_kst /\ t.date_kst <= Sunday(d)})

\* check_weekly_free, on the day it reads.
CheckWeeklyFree(u) ==
    LET used == DrawsThisWeek(u, kst) IN
    [is_unlimited |-> u \in subscriber,
     remaining    |-> IF used < WEEKLY_FREE_DRAWS THEN WEEKLY_FREE_DRAWS - used ELSE 0]

-----------------------------------------------------------------------------
(* The clock and the subscription *)

Midnight ==
    /\ kst < LastDay
    /\ kst' = kst + 1
    /\ UNCHANGED <<subscriber, tarot_draws, flip, pieces>>

\* The subscription begins, runs out of credit or ends.
TurnCredit(u) ==
    /\ subscriber' = (subscriber \cup {u}) \ (subscriber \cap {u})
    /\ UNCHANGED <<kst, tarot_draws, flip, pieces>>

-----------------------------------------------------------------------------
(* POST /tarot/today/flip *)

\* The date is read once; today's draw, if there is one, is streamed again.
FlipToday(f, u) ==
    /\ flip[f] = Waiting
    /\ flip' = [flip EXCEPT ![f] =
          [stage |-> IF DrawnOn(u, kst) THEN "stream" ELSE "quota",
           user |-> u, date_kst |-> kst, free |-> FALSE, seq |-> 0]]
    /\ UNCHANGED <<kst, subscriber, tarot_draws, pieces>>

\* 402 when there is neither a subscription nor a draw left this week.
CheckQuota(f) ==
    LET q == CheckWeeklyFree(flip[f].user) IN
    /\ AtFlip(f, "quota")
    /\ flip' = IF ~q.is_unlimited /\ q.remaining = 0
               THEN [flip EXCEPT ![f] = Waiting]
               ELSE [flip EXCEPT ![f].stage = "insert", ![f].free = ~q.is_unlimited]
    /\ UNCHANGED <<kst, subscriber, tarot_draws, pieces>>

\* The draw is dated as the request was; the loser of
\* tarot_draws_user_date_uq gets a 500.
InsertDraw(f) ==
    LET q == flip[f] IN
    /\ AtFlip(f, "insert")
    /\ IF DrawnOn(q.user, q.date_kst)
       THEN /\ flip' = [flip EXCEPT ![f] = Waiting]
            /\ UNCHANGED tarot_draws
       ELSE /\ tarot_draws' = tarot_draws \cup
                  {[user |-> q.user, date_kst |-> q.date_kst,
                    free |-> q.free, late |-> kst > q.date_kst]}
            /\ flip' = [flip EXCEPT ![f].stage = "stream"]
    /\ UNCHANGED <<kst, subscriber, pieces>>

\* run_tarot_pipeline: each chunk is stored under the draw and announced; a
\* second stream of the draw writes over the first one's.
PutTarotChunk(f) ==
    LET q == flip[f] IN
    /\ AtFlip(f, "stream")
    /\ q.seq < MaxPieces
    /\ pieces' = pieces \cup {<<q.user, q.date_kst, q.seq>>}
    /\ flip' = [flip EXCEPT ![f].seq = @ + 1]
    /\ UNCHANGED <<kst, subscriber, tarot_draws>>

\* The end event; or the client leaves, or an adapter raises: nothing of the
\* stream is recorded in the row.
EndFlip(f) ==
    /\ AtFlip(f, "stream")
    /\ flip' = [flip EXCEPT ![f] = Waiting]
    /\ UNCHANGED <<kst, subscriber, tarot_draws, pieces>>

-----------------------------------------------------------------------------

TarotNext ==
    \/ Midnight
    \/ \E u \in Drawers : TurnCredit(u)
    \/ \E f \in Flips :
         \/ \E u \in Drawers : FlipToday(f, u)
         \/ CheckQuota(f) \/ InsertDraw(f) \/ PutTarotChunk(f) \/ EndFlip(f)

TarotSpec == TarotInit /\ [][TarotNext]_tarot

-----------------------------------------------------------------------------
(* Properties *)

\* However flips of a member race with each other, with midnight and with the
\* subscription, a week holds no more free draws than WEEKLY_FREE_DRAWS, but
\* for those that were inserted on a later day than they are dated; and each
\* day holds one draw.
WeeklyQuota ==
    \A u \in Drawers, d \in Days :
        /\ Cardinality({t \in DrawsOf(u) : t.free /\ ~t.late
                                           /\ Monday(t.date_kst) = Monday(d)})
             <= WEEKLY_FREE_DRAWS
        /\ Cardinality({t \in DrawsOf(u) : t.date_kst = d}) <= 1
=============================================================================
