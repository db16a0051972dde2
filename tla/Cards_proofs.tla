------------------------------ MODULE Cards_proofs ------------------------------
(***************************************************************************)
(* The cards a member draws and the cards a member shares.                 *)
(*                                                                         *)
(* The card of the day, for any number of members and requests, any quota  *)
(* and any length of the week: how many free cards a week gives.           *)
(*                                                                         *)
(* Quote cards, for any number of cards, creating transactions and         *)
(* workers: a card that says baked has its image, a committed card without *)
(* an outcome has a job or had one that came before the commit, and the    *)
(* cards implement ShareLink.                                              *)
(***************************************************************************)
EXTENDS Tarot, ShareCards, FiniteSetTheorems, TLAPS

-----------------------------------------------------------------------------
(* Tarot: what is carried along *)

\* The draws of a week that count: free, and inserted on their own day.
Counted(u, d) == {t \in DrawsOf(u) : t.free /\ ~t.late /\ Monday(t.date_kst) = Monday(d)}

\* Nothing is dated after today.
Dated ==
    /\ \A t \in tarot_draws : t.date_kst <= kst
    /\ \A f \in Flips : flip[f] # Waiting => flip[f].date_kst <= kst

\* tarot_draws_user_date_uq.
OneADay ==
    \A s, t \in tarot_draws : s.user = t.user /\ s.date_kst = t.date_kst => s = t

WithinQuota == \A u \in Drawers, d \in Days : Cardinality(Counted(u, d)) <= WEEKLY_FREE_DRAWS

\* A request that may still insert a free draw of today finds room for it: the
\* only draw that could have taken it is today's.
RoomLeft ==
    \A f \in Flips :
        AtFlip(f, "insert") /\ flip[f].free /\ flip[f].date_kst = kst
        /\ ~DrawnOn(flip[f].user, kst)
            => Cardinality(Counted(flip[f].user, kst)) < WEEKLY_FREE_DRAWS

TarotInv == TarotTypeOK /\ IsFiniteSet(tarot_draws) /\ Dated /\ OneADay /\ WithinQuota /\ RoomLeft

-----------------------------------------------------------------------------

(* Tarot: weeks, sets and requests *)

LEMMA WeekDay ==
    ASSUME NEW a \in Nat
    PROVE  a % DaysPerWeek \in 0 .. DaysPerWeek - 1
BY TarotAssumption

\* Days with the same Monday lie in one week.
LEMMA SameWeek ==
    ASSUME NEW a \in Days, NEW b \in Days, Monday(a) = Monday(b)
    PROVE  Monday(b) <= a /\ a <= Sunday(b)
<1>1. a \in Nat /\ b \in Nat /\ DaysPerWeek \in Nat
  BY TarotAssumption DEF Days
<1>2. a % DaysPerWeek \in 0 .. DaysPerWeek - 1 /\ b % DaysPerWeek \in 0 .. DaysPerWeek - 1
  BY <1>1, WeekDay
<1> QED
  BY <1>1, <1>2 DEF Monday, Sunday

LEMMA CountedFinite ==
    ASSUME IsFiniteSet(tarot_draws), NEW u, NEW d
    PROVE  IsFiniteSet(Counted(u, d)) /\ Cardinality(Counted(u, d)) \in Nat
<1>1. Counted(u, d) \subseteq tarot_draws
  BY DEF Counted, DrawsOf
<1> QED
  BY <1>1, FS_Subset, FS_CardinalityType

\* The stage of a request tells of which kind its record is.
LEMMA FlipTyped ==
    ASSUME TarotTypeOK, NEW f \in Flips
    PROVE  /\ flip[f].stage # "waiting" => flip[f] \in Flip
           /\ flip[f] \in Flip => flip[f] # Waiting
BY DEF TarotTypeOK, Flip, Waiting

\* A step that leaves the clock and the table alone.
LEMMA FlipMoves ==
    ASSUME TarotInv, NEW f \in Flips, NEW q \in Flip \cup {Waiting},
           flip' = [flip EXCEPT ![f] = q], UNCHANGED <<kst, tarot_draws>>,
           subscriber' \subseteq Drawers, pieces' \subseteq Drawers \X Days \X Nat,
           q # Waiting => q.date_kst <= kst,
           q.stage = "insert" /\ q.free /\ q.date_kst = kst =>
              Cardinality(Counted(q.user, kst)) < WEEKLY_FREE_DRAWS
    PROVE  TarotInv'
<1>1. flip' \in [Flips -> Flip \cup {Waiting}] /\ \A g \in Flips : flip'[g] = IF g = f THEN q ELSE flip[g]
  BY DEF TarotInv, TarotTypeOK
<1>2. TarotTypeOK'
  BY <1>1 DEF TarotInv, TarotTypeOK
<1>3. \A u, d : Counted(u, d)' = Counted(u, d) /\ (DrawnOn(u, d)' <=> DrawnOn(u, d))
  BY DEF Counted, DrawsOf, DrawnOn
<1>4. IsFiniteSet(tarot_draws)' /\ Dated' /\ OneADay' /\ WithinQuota'
  BY <1>1, <1>3 DEF TarotInv, Dated, OneADay, WithinQuota
<1>5. RoomLeft'
  BY <1>1, <1>3 DEF TarotInv, RoomLeft, AtFlip
<1> QED
  BY <1>2, <1>4, <1>5 DEF TarotInv

-----------------------------------------------------------------------------
(* Tarot: the steps *)

LEMMA TarotStarts == TarotInit => TarotInv
<1> SUFFICES ASSUME TarotInit PROVE TarotInv
  OBVIOUS
<1>1. TarotTypeOK
  BY TarotAssumption DEF TarotInit, TarotTypeOK, Days
<1>2. \A u, d : Counted(u, d) = {}
  BY DEF TarotInit, Counted, DrawsOf
<1>3. WithinQuota
  BY <1>2, FS_EmptySet, TarotAssumption DEF WithinQuota
<1>4. IsFiniteSet(tarot_draws) /\ Dated /\ OneADay
  BY FS_EmptySet DEF TarotInit, Dated, OneADay
<1>5. RoomLeft
  BY DEF TarotInit, RoomLeft, AtFlip, Waiting
<1> QED
  BY <1>1, <1>3, <1>4, <1>5 DEF TarotInv

\* The quota that was read holds: what counts is part of the week that was scanned.
LEMMA QuotaRead ==
    ASSUME TarotInv, NEW u \in Drawers, CheckWeeklyFree(u).remaining # 0
    PROVE  Cardinality(Counted(u, kst)) < WEEKLY_FREE_DRAWS
<1> DEFINE W == {t \in DrawsOf(u) : Monday(kst) <= t.date_kst /\ t.date_kst <= Sunday(kst)}
<1>1. Counted(u, kst) \subseteq W
  BY SameWeek DEF Counted, DrawsOf, TarotInv, TarotTypeOK, TarotDraw
<1>2. W \subseteq tarot_draws
  BY DEF DrawsOf
<1>3. IsFiniteSet(W) /\ Cardinality(W) \in Nat
  BY <1>2, FS_Subset, FS_CardinalityType DEF TarotInv
<1>4. Cardinality(Counted(u, kst)) <= Cardinality(W) /\ Cardinality(Counted(u, kst)) \in Nat
  BY <1>1, <1>3, FS_Subset, CountedFinite DEF TarotInv
<1>5. Cardinality(W) < WEEKLY_FREE_DRAWS
  BY <1>3, TarotAssumption DEF CheckWeeklyFree, DrawsThisWeek
<1> QED
  BY <1>3, <1>4, <1>5, TarotAssumption

LEMMA InsertKeeps ==
    ASSUME TarotInv, NEW f \in Flips, InsertDraw(f), ~DrawnOn(flip[f].user, flip[f].date_kst)
    PROVE  TarotInv'
<1> DEFINE q == flip[f]
           n == [user |-> q.user, date_kst |-> q.date_kst,
                 free |-> q.free, late |-> kst > q.date_kst]
<1>1. q \in Flip /\ q.stage = "insert" /\ q # Waiting /\ q.date_kst <= kst /\ kst \in Nat
      /\ q.date_kst \in Nat /\ q.user \in Drawers
  BY FlipTyped, TarotAssumption DEF InsertDraw, AtFlip, TarotInv, TarotTypeOK, Dated, Flip, Days
<1>2. /\ tarot_draws' = tarot_draws \cup {n}
      /\ flip' = [flip EXCEPT ![f].stage = "stream"]
      /\ UNCHANGED <<kst, subscriber, pieces>>
  BY DEF InsertDraw
<1>3. n \in TarotDraw /\ n.user = q.user /\ n.date_kst = q.date_kst
      /\ n.free = q.free /\ (n.late <=> q.date_kst < kst)
  <2>1. (kst > q.date_kst) \in BOOLEAN /\ q.free \in BOOLEAN
    BY <1>1 DEF Flip
  <2>2. n \in TarotDraw
    BY <1>1, <2>1 DEF TarotDraw, Flip
  <2>3. n.user = q.user /\ n.date_kst = q.date_kst /\ n.free = q.free
        /\ n.late = (kst > q.date_kst)
    OBVIOUS
  <2>4. (kst > q.date_kst) <=> q.date_kst < kst
    BY <1>1
  <2> HIDE DEF n, q
  <2> QED
    BY <2>1, <2>2, <2>3, <2>4
<1>4. [q EXCEPT !.stage = "stream"] \in Flip
  BY <1>1 DEF Flip
<1>5. \A g \in Flips : flip'[g] = IF g = f THEN [q EXCEPT !.stage = "stream"] ELSE flip[g]
  BY <1>2 DEF TarotInv, TarotTypeOK
<1>6. TarotTypeOK'
  BY <1>2, <1>3, <1>4 DEF TarotInv, TarotTypeOK
<1>7. Dated'
  BY <1>1, <1>2, <1>3, <1>5 DEF TarotInv, Dated, Flip
<1>8. \A t \in tarot_draws : ~(t.user = n.user /\ t.date_kst = n.date_kst)
  BY <1>3 DEF DrawnOn, DrawsOf
<1>9. OneADay'
  BY <1>2, <1>8 DEF TarotInv, OneADay
<1>10. IsFiniteSet(tarot_draws')
  BY <1>2, FS_AddElement DEF TarotInv
\* The sets that count grow by the new draw, or stay.
<1>11. ASSUME NEW u, NEW d, u # n.user \/ ~n.free \/ n.late \/ Monday(n.date_kst) # Monday(d)
       PROVE  Counted(u, d)' = Counted(u, d)
  BY <1>2, <1>11 DEF Counted, DrawsOf
<1>12. ASSUME NEW u, NEW d, u = n.user, n.free, ~n.late, Monday(n.date_kst) = Monday(d)
       PROVE  Cardinality(Counted(u, d)') <= WEEKLY_FREE_DRAWS
  <2>1. n.date_kst = kst /\ Counted(u, d) = Counted(u, kst)
    BY <1>1, <1>3, <1>12 DEF Counted
  <2>2. Cardinality(Counted(u, d)) < WEEKLY_FREE_DRAWS
    BY <1>1, <1>3, <1>12, <2>1 DEF TarotInv, RoomLeft, AtFlip
  <2>3. Counted(u, d)' \subseteq Counted(u, d) \cup {n}
    BY <1>2 DEF Counted, DrawsOf
  <2>4. n \notin Counted(u, d)
    BY <1>8 DEF Counted, DrawsOf
  <2>5. /\ IsFiniteSet(Counted(u, d) \cup {n})
        /\ Cardinality(Counted(u, d) \cup {n}) = Cardinality(Counted(u, d)) + 1
        /\ Cardinality(Counted(u, d)) \in Nat
    BY <2>4, CountedFinite, FS_AddElement DEF TarotInv
  <2>6. Cardinality(Counted(u, d)') <= Cardinality(Counted(u, d)) + 1
    BY <2>3, <2>5, FS_Subset
  <2>7. Cardinality(Counted(u, d)') \in Nat
    BY <2>3, <2>5, FS_Subset, FS_CardinalityType
  <2> QED
    BY <2>2, <2>5, <2>6, <2>7, TarotAssumption
<1>13. WithinQuota'
  <2> SUFFICES ASSUME NEW u \in Drawers, NEW d \in Days
               PROVE  Cardinality(Counted(u, d)') <= WEEKLY_FREE_DRAWS
    BY DEF WithinQuota
  <2>1. CASE u # n.user \/ ~n.free \/ n.late \/ Monday(n.date_kst) # Monday(d)
    BY <1>11, <2>1 DEF TarotInv, WithinQuota
  <2>2. CASE u = n.user /\ n.free /\ ~n.late /\ Monday(n.date_kst) = Monday(d)
    BY <1>12, <2>2
  <2> QED
    BY <2>1, <2>2
<1>14. RoomLeft'
  <2> SUFFICES ASSUME NEW g \in Flips, AtFlip(g, "insert")', flip'[g].free,
                      flip'[g].date_kst = kst', ~DrawnOn(flip[g].user, kst)'
               PROVE  Cardinality(Counted(flip[g].user, kst)') < WEEKLY_FREE_DRAWS
    BY DEF RoomLeft
  <2>1. g # f /\ flip'[g] = flip[g] /\ kst' = kst
    BY <1>1, <1>2, <1>5 DEF AtFlip, Flip
  <2>2. ~DrawnOn(flip[g].user, kst)
    BY <1>2, <2>1 DEF DrawnOn, DrawsOf
  <2>3. Cardinality(Counted(flip[g].user, kst)) < WEEKLY_FREE_DRAWS
    BY <2>1, <2>2 DEF TarotInv, RoomLeft, AtFlip
  <2>4. flip[g].user # n.user \/ n.late
    <3>1. ~(flip[g].user = n.user /\ n.date_kst = kst)
      BY <1>2, <2>1 DEF DrawnOn, DrawsOf
    <3> QED
      BY <1>1, <1>3, <3>1
  <2>5. Counted(flip[g].user, kst)' = Counted(flip[g].user, kst)
    BY <1>2, <1>11, <2>1, <2>4
  <2> QED
    BY <2>3, <2>5
<1> QED
  BY <1>6, <1>7, <1>9, <1>10, <1>13, <1>14 DEF TarotInv

LEMMA TarotSteps == TarotInv /\ [TarotNext]_tarot => TarotInv'
<1> SUFFICES ASSUME TarotInv, [TarotNext]_tarot PROVE TarotInv'
  OBVIOUS
<1>1. /\ TarotTypeOK /\ kst \in Nat /\ flip \in [Flips -> Flip \cup {Waiting}]
      /\ subscriber \subseteq Drawers /\ pieces \subseteq Drawers \X Days \X Nat
  BY TarotAssumption DEF TarotInv, TarotTypeOK, Days
<1>2. CASE Midnight
  <2>1. kst' = kst + 1 /\ kst' \in Days /\ UNCHANGED <<subscriber, tarot_draws, flip, pieces>>
    BY <1>1, <1>2, TarotAssumption DEF Midnight, Days
  <2>2. TarotTypeOK'
    BY <1>1, <2>1 DEF TarotTypeOK
  <2>3. \A f \in Flips : flip[f] # Waiting => flip[f].date_kst \in Nat
    BY <1>1 DEF Flip, Days
  <2>4. \A t \in tarot_draws : t.date_kst \in Nat
    BY <1>1 DEF TarotTypeOK, TarotDraw, Days
  <2>5. Dated'
    BY <1>1, <2>1, <2>3, <2>4 DEF TarotInv, Dated
  <2>6. \A u, d : Counted(u, d)' = Counted(u, d)
    BY <2>1 DEF Counted, DrawsOf
  <2>7. OneADay' /\ WithinQuota' /\ IsFiniteSet(tarot_draws)'
    BY <2>1, <2>6 DEF TarotInv, OneADay, WithinQuota
  <2>8. RoomLeft'
    <3>1. \A f \in Flips : AtFlip(f, "insert") => flip[f] # Waiting
      BY DEF AtFlip, Waiting
    <3>2. \A f \in Flips : AtFlip(f, "insert") => flip[f].date_kst < kst'
      BY <1>1, <2>1, <2>3, <3>1 DEF TarotInv, Dated
    <3> QED
      BY <1>1, <2>1, <2>3, <3>1, <3>2 DEF RoomLeft, AtFlip
  <2> QED
    BY <2>2, <2>5, <2>7, <2>8 DEF TarotInv
<1>3. ASSUME NEW u \in Drawers, TurnCredit(u) PROVE TarotInv'
  <2>1. subscriber' \subseteq Drawers /\ UNCHANGED <<kst, tarot_draws, flip, pieces>>
    BY <1>1, <1>3 DEF TurnCredit
  <2> QED
    BY <2>1 DEF TarotInv, TarotTypeOK, Dated, OneADay, WithinQuota, RoomLeft, AtFlip, Counted,
                DrawsOf, DrawnOn
<1>4. ASSUME NEW f \in Flips, NEW u \in Drawers, FlipToday(f, u) PROVE TarotInv'
  <2> DEFINE q == [stage |-> IF DrawnOn(u, kst) THEN "stream" ELSE "quota",
                   user |-> u, date_kst |-> kst, free |-> FALSE, seq |-> 0]
  <2>1. q \in Flip /\ q.stage # "insert" /\ q.date_kst <= kst
    BY <1>1, TarotAssumption DEF Flip, TarotTypeOK
  <2>2. flip' = [flip EXCEPT ![f] = q] /\ UNCHANGED <<kst, subscriber, tarot_draws, pieces>>
    BY <1>4 DEF FlipToday
  <2> QED
    BY <1>1, <2>1, <2>2, FlipMoves
<1>5. ASSUME NEW f \in Flips, CheckQuota(f) PROVE TarotInv'
  <2>1. flip[f] \in Flip /\ flip[f].date_kst <= kst /\ flip[f].user \in Drawers
    BY <1>1, <1>5, FlipTyped DEF CheckQuota, AtFlip, TarotInv, Dated, Flip
  <2>2. UNCHANGED <<kst, subscriber, tarot_draws, pieces>>
    BY <1>5 DEF CheckQuota
  <2> DEFINE c == CheckWeeklyFree(flip[f].user)
             q == [flip[f] EXCEPT !.stage = "insert", !.free = ~c.is_unlimited]
  <2>3. CASE ~c.is_unlimited /\ c.remaining = 0
    <3>1. flip' = [flip EXCEPT ![f] = Waiting]
      BY <1>5, <2>3 DEF CheckQuota
    <3> QED
      BY <1>1, <2>2, <3>1, FlipMoves DEF Waiting
  <2>4. CASE c.is_unlimited \/ c.remaining # 0
    <3>1. c.is_unlimited \in BOOLEAN
      BY DEF CheckWeeklyFree
    <3>2. q \in Flip /\ q.user = flip[f].user /\ q.date_kst <= kst /\ q.free = ~c.is_unlimited
      BY <2>1, <3>1 DEF Flip
    <3>3. flip' = [flip EXCEPT ![f] = q]
      BY <1>1, <1>5, <2>4 DEF CheckQuota
    <3>4. q.free => Cardinality(Counted(q.user, kst)) < WEEKLY_FREE_DRAWS
      BY <2>1, <2>4, <3>2, QuotaRead
    <3> QED
      BY <1>1, <2>2, <3>2, <3>3, <3>4, FlipMoves
  <2> QED
    BY <2>3, <2>4
<1>6. ASSUME NEW f \in Flips, InsertDraw(f) PROVE TarotInv'
  <2>1. CASE DrawnOn(flip[f].user, flip[f].date_kst)
    <3>1. flip' = [flip EXCEPT ![f] = Waiting] /\ UNCHANGED <<kst, subscriber, tarot_draws, pieces>>
      BY <1>6, <2>1 DEF InsertDraw
    <3> QED
      BY <1>1, <3>1, FlipMoves DEF Waiting
  <2>2. CASE ~DrawnOn(flip[f].user, flip[f].date_kst)
    BY <1>6, <2>2, InsertKeeps
  <2> QED
    BY <2>1, <2>2
<1>7. ASSUME NEW f \in Flips, PutTarotChunk(f) PROVE TarotInv'
  <2> DEFINE q == [flip[f] EXCEPT !.seq = @ + 1]
  <2>1. flip[f] \in Flip /\ flip[f].date_kst <= kst /\ flip[f].stage = "stream"
    BY <1>1, <1>7, FlipTyped DEF PutTarotChunk, AtFlip, TarotInv, Dated
  <2>2. flip[f].seq < MaxPieces
    BY <1>7 DEF PutTarotChunk
  <2>3. q \in Flip /\ q.date_kst <= kst /\ q.stage # "insert"
    BY <2>1, <2>2, TarotAssumption DEF Flip
  <2>4. <<flip[f].user, flip[f].date_kst, flip[f].seq>> \in Drawers \X Days \X Nat
    BY <2>1, TarotAssumption DEF Flip
  <2>5. /\ flip' = [flip EXCEPT ![f] = q]
        /\ pieces' = pieces \cup {<<flip[f].user, flip[f].date_kst, flip[f].seq>>}
        /\ UNCHANGED <<kst, subscriber, tarot_draws>>
    BY <1>1, <1>7 DEF PutTarotChunk
  <2> QED
    BY <1>1, <2>3, <2>4, <2>5, FlipMoves
<1>8. ASSUME NEW f \in Flips, EndFlip(f) PROVE TarotInv'
  <2>1. flip' = [flip EXCEPT ![f] = Waiting] /\ UNCHANGED <<kst, subscriber, tarot_draws, pieces>>
    BY <1>8 DEF EndFlip
  <2> QED
    BY <1>1, <2>1, FlipMoves DEF Waiting
<1>9. CASE UNCHANGED tarot
  BY <1>9 DEF tarot, TarotInv, TarotTypeOK, Dated, OneADay, WithinQuota, RoomLeft, AtFlip, Counted,
              DrawsOf, DrawnOn
<1> QED
  BY <1>2, <1>3, <1>4, <1>5, <1>6, <1>7, <1>8, <1>9 DEF TarotNext

-----------------------------------------------------------------------------
(* Tarot: what follows *)

LEMMA TarotKeeps == TarotSpec => []TarotInv
BY TarotStarts, TarotSteps, PTL DEF TarotSpec

\* The draws, the clock and the requests keep their types.
THEOREM TarotTypeCorrect == TarotSpec => []TarotTypeOK
<1>1. TarotInv => TarotTypeOK
  BY DEF TarotInv
<1> QED
  BY <1>1, TarotKeeps, PTL

\* However flips race with each other, with midnight and with the subscription,
\* a week never holds more free draws than the quota, the late ones apart, and a
\* day never holds two.
THEOREM QuotaKept == TarotSpec => []WeeklyQuota
<1>1. TarotInv => WeeklyQuota
  <2> SUFFICES ASSUME TarotInv, NEW u \in Drawers, NEW d \in Days
               PROVE  /\ Cardinality(Counted(u, d)) <= WEEKLY_FREE_DRAWS
                      /\ Cardinality({t \in DrawsOf(u) : t.date_kst = d}) <= 1
    BY DEF WeeklyQuota, Counted
  <2> DEFINE S == {t \in DrawsOf(u) : t.date_kst = d}
  <2>1. \A s, t \in S : s = t
    BY DEF TarotInv, OneADay, DrawsOf
  <2>2. CASE S = {}
    <3>1. Cardinality(S) = 0
      BY <2>2, FS_EmptySet
    <3> QED
      BY <3>1 DEF TarotInv, WithinQuota
  <2>3. CASE S # {}
    <3>1. PICK s \in S : S = {s}
      BY <2>1, <2>3
    <3>2. Cardinality(S) = 1
      BY <3>1, FS_Singleton
    <3> QED
      BY <3>2 DEF TarotInv, WithinQuota
  <2> QED
    BY <2>2, <2>3
<1> QED
  BY <1>1, TarotKeeps, PTL

-----------------------------------------------------------------------------
(* Quote cards: what is carried along *)

Holding == {"enqueue", "commit"}        \* stages of a transaction with a row
Busy    == {"bake", "write"}            \* stages of a worker with a card

\* The row of an open transaction is its own and not committed.
HeldApart ==
    /\ \A m \in Makers : maker[m].stage \in Holding =>
          maker[m].card \in Rows \ Committed
    /\ \A m, n \in Makers :
          maker[m].stage \in Holding /\ maker[n].stage \in Holding /\ m # n =>
              maker[m].card # maker[n].card

\* The job is enqueued before the commit, and may have come too early.
JobFirst ==
    \A m \in Makers : maker[m].stage = "commit" => maker[m].card \in jobs \cup outrun

\* A worker has a committed card; what it read that was an outcome, still is
\* one, if perhaps another; and it says baked when the image is stored.
BakesTrue ==
    \A b \in Bakers : baker[b].stage \in Busy =>
        LET c == baker[b].card IN
        /\ c \in Committed
        /\ baker[b].seen # "pending" => quote_card[c].og_status # "pending"
        /\ baker[b].stage = "write" /\ baker[b].result = "baked" => c \in image

\* What a row says of its image is true before it is committed, too.
RowsTrue ==
    \A c \in Rows :
        quote_card[c].og_status = "baked" \/ quote_card[c].og_r2_key => c \in image

SharesInv == SharesTypeOK /\ HeldApart /\ JobFirst /\ BakesTrue /\ RowsTrue /\ PendingHasJob

-----------------------------------------------------------------------------
(* What tasks hold *)

\* The stage of a task tells of which kind its record is.
LEMMA TaskTyped ==
    ASSUME SharesTypeOK
    PROVE  /\ \A m \in Makers : maker[m].stage \in Holding \cup {"quote", "insert"} =>
                  maker[m] \in Maker
           /\ \A b \in Bakers : baker[b].stage \in Busy => baker[b] \in Baker
BY DEF SharesTypeOK, Rested, Holding, Busy

\* A transaction that moves on without a row, or stays with the one it had.
LEMMA MakerMoves ==
    ASSUME SharesInv, NEW m \in Makers, NEW n \in Maker \cup {Rested},
           maker' = [maker EXCEPT ![m] = n],
           n.stage \notin Holding,
           UNCHANGED <<quote_card, jobs, baker, image, outrun, falls>>
    PROVE  SharesInv'
<1>1. SharesTypeOK'
  BY DEF SharesInv, SharesTypeOK
<1>2. HeldApart' /\ JobFirst'
  BY DEF SharesInv, SharesTypeOK, HeldApart, JobFirst, Rows, Committed, Holding
<1>3. BakesTrue' /\ RowsTrue' /\ PendingHasJob'
  BY DEF SharesInv, BakesTrue, RowsTrue, PendingHasJob, Rows, Committed
<1> QED
  BY <1>1, <1>2, <1>3 DEF SharesInv

\* A worker that takes a record of which the invariant holds.
LEMMA BakerMoves ==
    ASSUME SharesInv, NEW b \in Bakers, NEW n \in Baker \cup {Rested},
           baker' = [baker EXCEPT ![b] = n],
           n.stage \in Busy =>
               /\ n.card \in Committed
               /\ n.seen # "pending" => quote_card[n.card].og_status # "pending"
               /\ n.stage = "write" /\ n.result = "baked" => n.card \in image',
           image \subseteq image', image' \subseteq Cards,
           UNCHANGED <<quote_card, maker, jobs, outrun>>, falls' \in 0 .. MaxFalls
    PROVE  SharesInv'
<1>1. SharesTypeOK'
  BY DEF SharesInv, SharesTypeOK
<1>2. HeldApart' /\ JobFirst'
  BY DEF SharesInv, HeldApart, JobFirst, Rows, Committed
<1>3. BakesTrue'
  BY DEF SharesInv, SharesTypeOK, BakesTrue, Rows, Committed
<1>4. RowsTrue' /\ PendingHasJob'
  BY DEF SharesInv, RowsTrue, PendingHasJob, Rows, Committed
<1> QED
  BY <1>1, <1>2, <1>3, <1>4 DEF SharesInv

-----------------------------------------------------------------------------
(* create_for_reading, create_for_tarot *)

LEMMA CreateForKeeps ==
    ASSUME SharesInv, NEW m \in Makers, NEW s \in Sources, CreateFor(m, s)
    PROVE  SharesInv'
<1> DEFINE n == [stage |-> "quote", source |-> s, card |-> Nothing, attempt |-> 0]
<1>1. n \in Maker /\ n.stage \notin Holding
  BY ShareCardsAssumption DEF Maker, Holding
<1>2. maker' = [maker EXCEPT ![m] = n]
  BY DEF CreateFor
<1> HIDE DEF n
<1> QED
  BY <1>1, <1>2, MakerMoves DEF CreateFor

LEMMA ExtractQuoteKeeps ==
    ASSUME SharesInv, NEW m \in Makers, ExtractQuote(m)
    PROVE  SharesInv'
<1> DEFINE n == [maker[m] EXCEPT !.stage = "insert"]
<1>1. maker[m] \in Maker
  BY TaskTyped DEF ExtractQuote, MakerAt, SharesInv
<1>2. n \in Maker /\ n.stage \notin Holding
  BY <1>1 DEF Maker, Holding
<1>3. maker' = [maker EXCEPT ![m] = n]
  BY DEF ExtractQuote
<1> HIDE DEF n
<1> QED
  BY <1>2, <1>3, MakerMoves DEF ExtractQuote

LEMMA InsertCardKeeps ==
    ASSUME SharesInv, NEW m \in Makers, NEW slug \in Slugs, InsertCard(m, slug)
    PROVE  SharesInv'
<1>1. maker[m] \in Maker
  BY TaskTyped DEF InsertCard, MakerAt, SharesInv
<1>2. CASE Collides(maker[m].source, slug) = {}
  <2>1. PICK c \in Unused :
          /\ quote_card' = [quote_card EXCEPT ![c] =
                [row |-> TRUE, source |-> maker[m].source, share_slug |-> slug,
                 og_status |-> "pending", og_r2_key |-> FALSE, committed |-> FALSE]]
          /\ maker' = [maker EXCEPT ![m].stage = "enqueue", ![m].card = c]
    BY <1>2 DEF InsertCard
  <2> DEFINE q == [row |-> TRUE, source |-> maker[m].source, share_slug |-> slug,
                   og_status |-> "pending", og_r2_key |-> FALSE, committed |-> FALSE]
             n == [maker[m] EXCEPT !.stage = "enqueue", !.card = c]
  <2>2. /\ q \in QuoteCard /\ q.row /\ ~q.committed
        /\ q.og_status # "baked" /\ ~q.og_r2_key
    BY <1>1 DEF QuoteCard, Maker, Status
  <2>3. c \in Cards /\ c \notin Rows
    BY DEF Unused
  <2>4. n \in Maker /\ n.stage = "enqueue" /\ n.card = c
    BY <1>1, <2>3 DEF Maker
  <2>5. maker' = [maker EXCEPT ![m] = n] /\ quote_card' = [quote_card EXCEPT ![c] = q]
    BY <2>1
  <2>6. UNCHANGED <<jobs, baker, image, outrun, falls>>
    BY DEF InsertCard
  <2> HIDE DEF q, n
  <2>7. Rows' = Rows \cup {c} /\ Committed' = Committed
    BY <2>2, <2>3, <2>5 DEF SharesInv, SharesTypeOK, Rows, Committed
  <2>8. SharesTypeOK'
    BY <2>2, <2>4, <2>5, <2>6 DEF SharesInv, SharesTypeOK
  <2>9. HeldApart'
    BY <2>3, <2>4, <2>5, <2>7 DEF SharesInv, SharesTypeOK, HeldApart, Holding, Committed
  <2>10. JobFirst'
    BY <2>4, <2>5, <2>6 DEF SharesInv, SharesTypeOK, JobFirst
  <2>11. BakesTrue'
    BY <2>3, <2>5, <2>6, <2>7 DEF SharesInv, SharesTypeOK, BakesTrue, Committed
  <2>12. RowsTrue' /\ PendingHasJob'
    BY <2>2, <2>3, <2>5, <2>6, <2>7 DEF SharesInv, SharesTypeOK, RowsTrue, PendingHasJob, Rows, Committed
  <2> QED
    BY <2>8, <2>9, <2>10, <2>11, <2>12 DEF SharesInv
<1>3. CASE Collides(maker[m].source, slug) # {}
  <2>1. UNCHANGED <<quote_card, jobs, baker, image, outrun, falls>>
    BY <1>3 DEF InsertCard
  <2>2. CASE maker[m].attempt + 1 = SLUG_COLLISION_MAX_RETRIES
    <3>1. maker' = [maker EXCEPT ![m] = Rested] /\ Rested.stage \notin Holding
      BY <1>3, <2>2 DEF InsertCard, Rested, Holding
    <3> QED
      BY <2>1, <3>1, MakerMoves
  <2>3. CASE maker[m].attempt + 1 # SLUG_COLLISION_MAX_RETRIES
    <3> DEFINE n == [maker[m] EXCEPT !.attempt = @ + 1]
    <3>1. n.stage \notin Holding
      BY <1>1 DEF InsertCard, MakerAt, Holding, Maker
    <3>2. maker' = [maker EXCEPT ![m] = n]
      BY <1>3, <2>3 DEF InsertCard
    <3>3. n \in Maker
      BY <1>1, <2>3, ShareCardsAssumption DEF Maker
    <3> HIDE DEF n
    <3> QED
      BY <2>1, <3>1, <3>2, <3>3, MakerMoves
  <2> QED
    BY <2>2, <2>3
<1> QED
  BY <1>2, <1>3

LEMMA EnqueueKeeps ==
    ASSUME SharesInv, NEW m \in Makers, EnqueueOgBake(m)
    PROVE  SharesInv'
<1> DEFINE n == [maker[m] EXCEPT !.stage = "commit"]
<1>1. maker[m] \in Maker /\ maker[m].stage \in Holding /\ maker[m].card \in Cards
  BY TaskTyped DEF EnqueueOgBake, MakerAt, SharesInv, HeldApart, Holding, Rows
<1>2. n \in Maker /\ n.stage \in Holding /\ n.card = maker[m].card
  BY <1>1 DEF Maker, Holding
<1>3. maker' = [maker EXCEPT ![m] = n] /\ jobs' = jobs \cup {maker[m].card}
  BY DEF EnqueueOgBake
<1>4. UNCHANGED <<quote_card, baker, image, outrun, falls>>
  BY DEF EnqueueOgBake
<1> HIDE DEF n
<1>5. SharesTypeOK'
  BY <1>1, <1>2, <1>3, <1>4 DEF SharesInv, SharesTypeOK
<1>6. HeldApart' /\ JobFirst'
  BY <1>1, <1>2, <1>3, <1>4 DEF SharesInv, SharesTypeOK, HeldApart, JobFirst, Rows, Committed
<1>7. BakesTrue' /\ RowsTrue' /\ PendingHasJob'
  BY <1>3, <1>4 DEF SharesInv, BakesTrue, RowsTrue, PendingHasJob, Rows, Committed
<1> QED
  BY <1>5, <1>6, <1>7 DEF SharesInv

LEMMA CommitCardKeeps ==
    ASSUME SharesInv, NEW m \in Makers, CommitCard(m)
    PROVE  SharesInv'
<1> DEFINE c == maker[m].card
           q == [quote_card[c] EXCEPT !.committed = TRUE]
<1>1. /\ maker[m].stage = "commit" /\ maker[m].stage \in Holding
      /\ c \in Cards /\ c \in Rows /\ quote_card[c] \in QuoteCard
  BY DEF CommitCard, MakerAt, SharesInv, HeldApart, Holding, Rows, SharesTypeOK, NoCard
<1>2. /\ q \in QuoteCard /\ q.row /\ q.committed
      /\ q.og_status = quote_card[c].og_status /\ q.og_r2_key = quote_card[c].og_r2_key
  BY <1>1 DEF QuoteCard
<1>3. /\ maker' = [maker EXCEPT ![m] = Rested] /\ quote_card' = [quote_card EXCEPT ![c] = q]
      /\ UNCHANGED <<jobs, baker, image, outrun, falls>>
  BY DEF CommitCard
<1> HIDE DEF q
<1>4. Rows' = Rows /\ Committed' = Committed \cup {c}
  BY <1>1, <1>2, <1>3 DEF SharesInv, SharesTypeOK, Rows, Committed
<1>5. SharesTypeOK'
  BY <1>1, <1>2, <1>3 DEF SharesInv, SharesTypeOK
<1>6. HeldApart' /\ JobFirst'
  BY <1>1, <1>3, <1>4 DEF SharesInv, SharesTypeOK, HeldApart, JobFirst, Holding, Rested
<1>7. BakesTrue'
  BY <1>1, <1>2, <1>3, <1>4 DEF SharesInv, SharesTypeOK, BakesTrue
<1>8. RowsTrue'
  BY <1>1, <1>2, <1>3, <1>4 DEF SharesInv, SharesTypeOK, RowsTrue
<1>9. PendingHasJob'
  BY <1>1, <1>2, <1>3, <1>4 DEF SharesInv, SharesTypeOK, PendingHasJob, JobFirst, Committed, Rows
<1> QED
  BY <1>5, <1>6, <1>7, <1>8, <1>9 DEF SharesInv

LEMMA AbortCardKeeps ==
    ASSUME SharesInv, NEW m \in Makers, AbortCard(m)
    PROVE  SharesInv'
<1> DEFINE c == maker[m].card
<1>1. maker[m].stage \in Holding /\ c \in Cards /\ c \in Rows /\ c \notin Committed
  BY DEF AbortCard, MakerAt, SharesInv, HeldApart, Holding, Rows
<1>2. /\ maker' = [maker EXCEPT ![m] = Rested]
      /\ quote_card' = [quote_card EXCEPT ![c] = NoCard]
      /\ UNCHANGED <<jobs, baker, image, outrun, falls>>
  BY DEF AbortCard
<1>3. Rows' = Rows \ {c} /\ Committed' = Committed
  BY <1>1, <1>2 DEF SharesInv, SharesTypeOK, Rows, Committed, NoCard
<1>4. SharesTypeOK'
  BY <1>1, <1>2 DEF SharesInv, SharesTypeOK
<1>5. HeldApart' /\ JobFirst'
  BY <1>1, <1>2, <1>3 DEF SharesInv, SharesTypeOK, HeldApart, JobFirst, Holding, Rested
<1>6. BakesTrue' /\ RowsTrue' /\ PendingHasJob'
  BY <1>1, <1>2, <1>3 DEF SharesInv, SharesTypeOK, BakesTrue, RowsTrue, PendingHasJob
<1> QED
  BY <1>4, <1>5, <1>6 DEF SharesInv

-----------------------------------------------------------------------------
(* og_bake *)

LEMMA TakeJobKeeps ==
    ASSUME SharesInv, NEW b \in Bakers, NEW c \in Cards, TakeJob(b, c)
    PROVE  SharesInv'
<1>1. CASE c \in Committed
  <2> DEFINE n == [stage |-> "bake", card |-> c, seen |-> quote_card[c].og_status,
                   attempt |-> 0, result |-> "failed"]
  <2>0. quote_card[c] \in QuoteCard
    BY <1>1 DEF SharesInv, SharesTypeOK, Committed, Rows, NoCard
  <2>1. quote_card[c].og_status \in Status
    BY <2>0 DEF QuoteCard
  <2>2. /\ n \in Baker /\ n.card = c /\ n.seen = quote_card[c].og_status
        /\ n.stage = "bake"
    BY <2>1, ShareCardsAssumption DEF Baker
  <2>3. baker' = [baker EXCEPT ![b] = n] /\ UNCHANGED <<quote_card, maker, jobs, image, outrun, falls>>
    BY <1>1 DEF TakeJob
  <2>4. image \subseteq image' /\ image' \subseteq Cards /\ falls' \in 0 .. MaxFalls
    BY <2>3 DEF SharesInv, SharesTypeOK
  <2> HIDE DEF n
  <2> QED
    BY <1>1, <2>2, <2>3, <2>4, BakerMoves
<1>2. CASE c \notin Committed
  <2>1. /\ jobs' = jobs \ {c} /\ outrun' = outrun \cup {c}
        /\ UNCHANGED <<quote_card, maker, baker, image, falls>>
    BY <1>2 DEF TakeJob
  <2>2. SharesTypeOK'
    BY <2>1 DEF SharesInv, SharesTypeOK
  <2>3. HeldApart' /\ JobFirst'
    BY <2>1 DEF SharesInv, HeldApart, JobFirst, Rows, Committed
  <2>4. BakesTrue' /\ RowsTrue' /\ PendingHasJob'
    BY <2>1 DEF SharesInv, BakesTrue, RowsTrue, PendingHasJob, Rows, Committed
  <2> QED
    BY <2>2, <2>3, <2>4 DEF SharesInv
<1> QED
  BY <1>1, <1>2

LEMMA UploadKeeps ==
    ASSUME SharesInv, NEW b \in Bakers, Upload(b)
    PROVE  SharesInv'
<1> DEFINE n == [baker[b] EXCEPT !.stage = "write", !.result = "baked"]
<1>1. baker[b] \in Baker /\ baker[b].stage \in Busy
  BY TaskTyped DEF Upload, BakerAt, SharesInv, Busy
<1>2. n \in Baker /\ n.card = baker[b].card /\ n.seen = baker[b].seen /\ n.card \in Cards
  BY <1>1 DEF Baker
<1>3. /\ baker' = [baker EXCEPT ![b] = n] /\ image' = image \cup {n.card}
      /\ UNCHANGED <<quote_card, maker, jobs, outrun, falls>>
  BY <1>2 DEF Upload
<1> HIDE DEF n
<1>4. /\ n.card \in Committed
      /\ n.seen # "pending" => quote_card[n.card].og_status # "pending"
      /\ n.card \in image'
  BY <1>1, <1>2, <1>3 DEF SharesInv, BakesTrue
<1>5. image \subseteq image' /\ image' \subseteq Cards /\ falls' \in 0 .. MaxFalls
  BY <1>2, <1>3 DEF SharesInv, SharesTypeOK
<1> QED
  BY <1>2, <1>3, <1>4, <1>5, BakerMoves

LEMMA UploadFailsKeeps ==
    ASSUME SharesInv, NEW b \in Bakers, UploadFails(b)
    PROVE  SharesInv'
<1> DEFINE a == [baker[b] EXCEPT !.attempt = @ + 1]
           f == [baker[b] EXCEPT !.stage = "write", !.result = "failed"]
<1>1. baker[b] \in Baker /\ baker[b].stage = "bake" /\ baker[b].stage \in Busy
  BY TaskTyped DEF UploadFails, BakerAt, SharesInv, Busy
<1>2. /\ baker[b].card \in Committed
      /\ baker[b].seen # "pending" => quote_card[baker[b].card].og_status # "pending"
  BY <1>1 DEF SharesInv, BakesTrue
<1>3. /\ UNCHANGED <<quote_card, maker, jobs, image, outrun, falls>>
      /\ image \subseteq image' /\ image' \subseteq Cards /\ falls' \in 0 .. MaxFalls
  BY DEF UploadFails, SharesInv, SharesTypeOK
<1>4. CASE baker[b].attempt + 1 < MAX_ATTEMPTS /\ baker' = [baker EXCEPT ![b] = a]
  <2>1. /\ a \in Baker /\ a.stage = "bake"
        /\ a.card = baker[b].card /\ a.seen = baker[b].seen
    BY <1>1, <1>4, ShareCardsAssumption DEF Baker
  <2> HIDE DEF a
  <2> QED
    BY <1>2, <1>3, <1>4, <2>1, BakerMoves
<1>5. CASE baker' = [baker EXCEPT ![b] = f]
  <2>1. /\ f \in Baker /\ f.result = "failed"
        /\ f.card = baker[b].card /\ f.seen = baker[b].seen
    BY <1>1 DEF Baker
  <2> HIDE DEF f
  <2> QED
    BY <1>2, <1>3, <1>5, <2>1, BakerMoves
<1> QED
  BY <1>4, <1>5 DEF UploadFails

LEMMA WriteStatusKeeps ==
    ASSUME SharesInv, NEW b \in Bakers, WriteStatus(b)
    PROVE  SharesInv'
<1> DEFINE c == baker[b].card
           old == quote_card[c]
           q == [old EXCEPT
                   !.og_status = IF baker[b].seen = baker[b].result THEN @ ELSE baker[b].result,
                   !.og_r2_key = @ \/ baker[b].result = "baked"]
<1>1. baker[b] \in Baker /\ baker[b].stage = "write" /\ baker[b].stage \in Busy
  BY TaskTyped DEF WriteStatus, BakerAt, SharesInv, Busy
<1>2. /\ c \in Committed /\ c \in Rows /\ c \in Cards
      /\ baker[b].seen # "pending" => old.og_status # "pending"
      /\ baker[b].result = "baked" => c \in image
  BY <1>1 DEF SharesInv, BakesTrue, Committed, Rows
<1>3. old \in QuoteCard /\ old.committed
  BY <1>2 DEF SharesInv, SharesTypeOK, Committed, Rows, NoCard
<1>4. baker[b].result \in {"baked", "failed"} /\ baker[b].seen \in Status
  BY <1>1 DEF Baker
<1>5. /\ q \in QuoteCard /\ q.row /\ q.committed
      /\ q.og_status = IF baker[b].seen = baker[b].result THEN old.og_status ELSE baker[b].result
      /\ q.og_r2_key = (old.og_r2_key \/ baker[b].result = "baked")
  BY <1>3, <1>4 DEF QuoteCard, Status
<1>6. /\ quote_card' = [quote_card EXCEPT ![c] = q] /\ jobs' = jobs \ {c}
      /\ baker' = [baker EXCEPT ![b] = Rested] /\ UNCHANGED <<maker, image, outrun, falls>>
  BY DEF WriteStatus
<1> HIDE DEF q
<1>7. q.og_status # "pending"
  BY <1>2, <1>4, <1>5
<1>8. q.og_status = "baked" \/ q.og_r2_key => c \in image
  <2>1. old.og_status = "baked" \/ old.og_r2_key => c \in image
    BY <1>2 DEF SharesInv, RowsTrue
  <2> QED
    BY <1>2, <1>5, <2>1
<1>9. Rows' = Rows /\ Committed' = Committed
  BY <1>2, <1>3, <1>5, <1>6 DEF SharesInv, SharesTypeOK, Rows, Committed
<1>10. SharesTypeOK'
  BY <1>2, <1>5, <1>6 DEF SharesInv, SharesTypeOK
<1>11. HeldApart'
  BY <1>6, <1>9 DEF SharesInv, HeldApart
<1>12. JobFirst'
  BY <1>2, <1>6 DEF SharesInv, HeldApart, JobFirst, Holding
<1>13. BakesTrue'
  BY <1>2, <1>6, <1>7, <1>9 DEF SharesInv, SharesTypeOK, BakesTrue, Busy, Rested
<1>14. RowsTrue' /\ PendingHasJob'
  BY <1>2, <1>6, <1>7, <1>8, <1>9 DEF SharesInv, SharesTypeOK, RowsTrue, PendingHasJob
<1> QED
  BY <1>10, <1>11, <1>12, <1>13, <1>14 DEF SharesInv

LEMMA FallKeeps ==
    ASSUME SharesInv, NEW b \in Bakers, Fall(b)
    PROVE  SharesInv'
<1>1. Rested.stage \notin Busy
  BY DEF Rested, Busy
<1>2. image \subseteq image' /\ image' \subseteq Cards /\ falls' \in 0 .. MaxFalls
  BY ShareCardsAssumption DEF Fall, SharesInv, SharesTypeOK
<1> QED
  BY <1>1, <1>2, BakerMoves DEF Fall

-----------------------------------------------------------------------------
(* The invariant, and what follows from it *)

LEMMA SharesStarts == SharesInit => SharesInv
<1> SUFFICES ASSUME SharesInit PROVE SharesInv
  OBVIOUS
<1>1. SharesTypeOK
  BY ShareCardsAssumption DEF SharesInit, SharesTypeOK
<1>2. Rows = {} /\ Committed = {}
  BY DEF SharesInit, Rows, Committed, NoCard
<1> QED
  BY <1>1, <1>2 DEF SharesInit, SharesInv, HeldApart, JobFirst, BakesTrue, RowsTrue, PendingHasJob,
     Rested, Holding, Busy

LEMMA SharesSteps == SharesInv /\ [SharesNext]_shares => SharesInv'
<1> SUFFICES ASSUME SharesInv, [SharesNext]_shares PROVE SharesInv'
  OBVIOUS
<1>1. ASSUME NEW m \in Makers, NEW s \in Sources, CreateFor(m, s) PROVE SharesInv'
  BY <1>1, CreateForKeeps
<1>2. ASSUME NEW m \in Makers, ExtractQuote(m) PROVE SharesInv'
  BY <1>2, ExtractQuoteKeeps
<1>3. ASSUME NEW m \in Makers, NEW slug \in Slugs, InsertCard(m, slug) PROVE SharesInv'
  BY <1>3, InsertCardKeeps
<1>4. ASSUME NEW m \in Makers, EnqueueOgBake(m) \/ CommitCard(m) \/ AbortCard(m) PROVE SharesInv'
  BY <1>4, EnqueueKeeps, CommitCardKeeps, AbortCardKeeps
<1>5. ASSUME NEW b \in Bakers, NEW c \in Cards, TakeJob(b, c) PROVE SharesInv'
  BY <1>5, TakeJobKeeps
<1>6. ASSUME NEW b \in Bakers, Upload(b) \/ UploadFails(b) \/ WriteStatus(b) \/ Fall(b)
      PROVE  SharesInv'
  BY <1>6, UploadKeeps, UploadFailsKeeps, WriteStatusKeeps, FallKeeps
<1>7. CASE UNCHANGED shares
  BY <1>7 DEF shares, SharesInv, SharesTypeOK, HeldApart, JobFirst, BakesTrue, RowsTrue, PendingHasJob,
     Rows, Committed
<1> QED
  BY <1>1, <1>2, <1>3, <1>4, <1>5, <1>6, <1>7 DEF SharesNext, BakerStep

\* The rows of open and ended transactions, the tasks of callers and workers
\* keep their types, for any number of them.
THEOREM SharesTypeCorrect == SharesSpec => []SharesTypeOK
<1>1. SharesInv => SharesTypeOK
  BY DEF SharesInv
<1> QED
  BY <1>1, SharesStarts, SharesSteps, PTL DEF SharesSpec

\* However often and by however many workers a card is baked, and wherever one
\* of them dies, a card that says baked or names an image has it in the store.
THEOREM BakedCardsHaveImages == SharesSpec => []BakedHasImage
<1>1. SharesInv => BakedHasImage
  BY DEF SharesInv, RowsTrue, BakedHasImage, Committed
<1> QED
  BY <1>1, SharesStarts, SharesSteps, PTL DEF SharesSpec

\* No order of enqueue, commit, bake, death and rerun leaves a committed card
\* pending without a job, save the one where the job came before the commit.
THEOREM PendingCardsHaveJobs == SharesSpec => []PendingHasJob
<1>1. SharesInv => PendingHasJob
  BY DEF SharesInv
<1> QED
  BY <1>1, SharesStarts, SharesSteps, PTL DEF SharesSpec

-----------------------------------------------------------------------------
(* The cards implement ShareLink *)

\* No two rows share a slug, those of open transactions included.
LinksApart ==
    \A c, d \in Rows : quote_card[c].share_slug = quote_card[d].share_slug => c = d

\* Nobody has written to a row that is not committed.
FreshRows ==
    \A c \in Rows \ Committed : quote_card[c].og_status = "pending" /\ ~quote_card[c].og_r2_key

\* A card that is baked, or was when its worker read it, names its image.
ImagesNamed ==
    /\ \A c \in Rows : quote_card[c].og_status = "baked" => quote_card[c].og_r2_key
    /\ \A b \in Bakers : baker[b].stage \in Busy /\ baker[b].seen = "baked" =>
          quote_card[baker[b].card].og_r2_key

LinkInv == LinksApart /\ FreshRows /\ ImagesNamed

\* What a link shows of a committed card.
Answer(c) == [card |-> c, og_status |-> quote_card[c].og_status,
              og_r2_key |-> quote_card[c].og_r2_key]

\* A link leads to the committed card that has its slug, or nowhere.
LEMMA Leads ==
    ASSUME LinksApart, NEW slug
    PROVE  /\ \A c \in Committed :
                 quote_card[c].share_slug = slug => BySlug(slug) = {Answer(c)}
           /\ (\A c \in Committed : quote_card[c].share_slug # slug) => BySlug(slug) = {}
           /\ \A a \in BySlug(slug) : a.card \in Committed
<1>1. Committed \subseteq Rows
  BY DEF Committed
<1>. QED BY <1>1 DEF LinksApart, BySlug, Answer

\* What is done to rows that are not committed is seen by nobody.
LEMMA LinksStay ==
    ASSUME Committed' = Committed, \A c \in Committed : quote_card'[c] = quote_card[c],
           UNCHANGED image
    PROVE  UNCHANGED Link!vars
<1>1. ASSUME NEW slug \in Slugs PROVE BySlug(slug)' = BySlug(slug)
  <2>1. {d \in Committed : quote_card[d].share_slug = slug}'
        = {d \in Committed : quote_card[d].share_slug = slug}
    OBVIOUS
  <2>. QED BY <2>1 DEF BySlug
<1>. QED BY <1>1 DEF Link!vars

\* A task that moves on and leaves the rows alone.
LEMMA LinkRests ==
    ASSUME LinkInv, UNCHANGED quote_card,
           \A b \in Bakers : baker'[b].stage \in Busy /\ baker'[b].seen = "baked" =>
              quote_card[baker'[b].card].og_r2_key
    PROVE  LinkInv'
<1>1. Rows' = Rows /\ Committed' = Committed
  BY DEF Rows, Committed
<1>. QED BY <1>1 DEF LinkInv, LinksApart, FreshRows, ImagesNamed

LEMMA InsertKeepsLinks ==
    ASSUME SharesInv, LinkInv, NEW m \in Makers, NEW slug \in Slugs, InsertCard(m, slug)
    PROVE  LinkInv' /\ UNCHANGED Link!vars
<1>1. CASE Collides(maker[m].source, slug) = {}
  <2>. DEFINE q == [row |-> TRUE, source |-> maker[m].source, share_slug |-> slug,
                    og_status |-> "pending", og_r2_key |-> FALSE, committed |-> FALSE]
  <2>1. PICK c \in Unused : quote_card' = [quote_card EXCEPT ![c] = q]
    BY <1>1 DEF InsertCard
  <2>2. UNCHANGED <<baker, image>>
    BY DEF InsertCard
  <2>3. /\ q.row /\ ~q.committed /\ q.share_slug = slug
        /\ q.og_status = "pending" /\ q.og_r2_key = FALSE
    OBVIOUS
  <2>. HIDE DEF q
  <2>4. c \in Cards /\ c \notin Rows /\ c \notin Committed
    BY DEF Unused, Committed
  <2>5. /\ quote_card'[c] = q /\ \A d \in Cards \ {c} : quote_card'[d] = quote_card[d]
    BY <2>1, <2>4 DEF SharesInv, SharesTypeOK
  <2>6. Rows' = Rows \cup {c} /\ Committed' = Committed
    BY <2>3, <2>4, <2>5 DEF Rows, Committed
  <2>7. \A d \in Rows : quote_card[d].share_slug # slug
    BY <1>1 DEF Collides
  <2>8. \A d \in Rows : d \in Cards \ {c}
    BY <2>4 DEF Rows
  <2>9. LinksApart'
    BY <2>3, <2>5, <2>6, <2>7, <2>8 DEF LinkInv, LinksApart
  <2>10. FreshRows'
    BY <2>3, <2>5, <2>6, <2>8 DEF LinkInv, FreshRows
  <2>11. ImagesNamed'
    <3>1. \A b \in Bakers : baker[b].stage \in Busy => baker[b].card \in Cards \ {c}
      BY <2>4 DEF SharesInv, BakesTrue, Committed, Rows
    <3>. QED BY <2>2, <2>3, <2>5, <2>6, <2>8, <3>1 DEF LinkInv, ImagesNamed
  <2>12. \A d \in Committed : quote_card'[d] = quote_card[d]
    BY <2>5, <2>8 DEF Committed
  <2>. QED BY <2>2, <2>6, <2>9, <2>10, <2>11, <2>12, LinksStay DEF LinkInv
<1>2. CASE Collides(maker[m].source, slug) # {}
  <2>1. UNCHANGED <<quote_card, baker, image>>
    BY <1>2 DEF InsertCard
  <2>2. Committed' = Committed
    BY <2>1 DEF Committed, Rows
  <2>3. LinkInv'
    BY <2>1, LinkRests DEF LinkInv, ImagesNamed
  <2>. QED BY <2>1, <2>2, <2>3, LinksStay
<1>. QED BY <1>1, <1>2

\* The commit publishes the card.
LEMMA CommitKeepsLinks ==
    ASSUME SharesInv, LinkInv, NEW m \in Makers, CommitCard(m)
    PROVE  LinkInv' /\ Link!Next
<1>1. PICK c \in Cards : c = maker[m].card
  BY DEF CommitCard, MakerAt, SharesInv, HeldApart, Holding, Rows
<1>2. c \in Cards /\ c \in Rows /\ c \notin Committed /\ quote_card[c] \in QuoteCard
  BY <1>1 DEF CommitCard, MakerAt, SharesInv, HeldApart, Holding, Rows, SharesTypeOK, NoCard
<1>3. PICK s \in Slugs : s = quote_card[c].share_slug
  BY <1>2 DEF QuoteCard
<1>. DEFINE q == [quote_card[c] EXCEPT !.committed = TRUE]
<1>4. /\ q.row /\ q.committed /\ q.share_slug = s
      /\ q.og_status = quote_card[c].og_status /\ q.og_r2_key = quote_card[c].og_r2_key
  BY <1>2, <1>3 DEF QuoteCard
<1>5. quote_card' = [quote_card EXCEPT ![c] = q] /\ UNCHANGED <<baker, image>>
  BY <1>1 DEF CommitCard
<1>. HIDE DEF q
<1>6. quote_card'[c] = q /\ \A d \in Cards \ {c} : quote_card'[d] = quote_card[d]
  BY <1>2, <1>5 DEF SharesInv, SharesTypeOK
<1>7. Rows' = Rows /\ Committed' = Committed \cup {c}
  BY <1>2, <1>4, <1>6 DEF Rows, Committed
<1>8. /\ Rows \subseteq Cards /\ Committed \subseteq Rows
      /\ \A d \in Rows : quote_card'[d].share_slug = quote_card[d].share_slug
                         /\ quote_card'[d].og_status = quote_card[d].og_status
                         /\ quote_card'[d].og_r2_key = quote_card[d].og_r2_key
  BY <1>4, <1>3, <1>6 DEF Rows, Committed
<1>9. LinkInv'
  <2>1. \A b \in Bakers : baker[b].stage \in Busy => baker[b].card \in Rows
    BY <1>8 DEF SharesInv, BakesTrue
  <2>. QED BY <1>5, <1>7, <1>8, <2>1 DEF LinkInv, LinksApart, FreshRows, ImagesNamed
<1>10. BySlug(s) = {} /\ BySlug(s)' = {Answer(c)'}
  <2>1. \A d \in Committed : quote_card[d].share_slug # s
    BY <1>2, <1>3, <1>8 DEF LinkInv, LinksApart
  <2>2. BySlug(s) = {}
    BY <2>1, Leads DEF LinkInv
  <2>3. \A d \in Committed' : quote_card'[d].share_slug = s <=> d = c
    BY <1>4, <1>6, <1>7, <1>8, <2>1
  <2>4. {d \in Committed' : quote_card'[d].share_slug = s} = {c}
    BY <1>7, <2>3
  <2>5. BySlug(s)' = {Answer(c)'}
    BY <2>4 DEF BySlug, Answer
  <2>. QED BY <2>2, <2>5
<1>11. Answer(c)' = [card |-> c, og_status |-> "pending", og_r2_key |-> FALSE]
  <2>1. quote_card'[c].og_status = "pending" /\ quote_card'[c].og_r2_key = FALSE
    BY <1>2, <1>8 DEF LinkInv, FreshRows, QuoteCard
  <2>. QED BY <2>1 DEF Answer
<1>12. ASSUME NEW t \in Slugs, t # s PROVE BySlug(t)' = BySlug(t)
  <2>1. {d \in Committed' : quote_card'[d].share_slug = t} = {d \in Committed : quote_card[d].share_slug = t}
    BY <1>4, <1>6, <1>7, <1>8, <1>12
  <2>2. \A d \in Committed : quote_card'[d].og_status = quote_card[d].og_status
                             /\ quote_card'[d].og_r2_key = quote_card[d].og_r2_key
    BY <1>8
  <2>. QED BY <2>1, <2>2 DEF BySlug
<1>13. \A t \in Slugs : \A a \in BySlug(t) : a.card # c
  BY <1>2, Leads DEF LinkInv
<1>14. [slug \in Slugs |-> BySlug(slug)]'
       = [[slug \in Slugs |-> BySlug(slug)] EXCEPT ![s] =
             {[card |-> c, og_status |-> "pending", og_r2_key |-> FALSE]}]
  BY <1>3, <1>10, <1>11, <1>12
<1>15. Link!Publish(s, c)
  BY <1>5, <1>3, <1>10, <1>13, <1>14 DEF Link!Publish
<1>. QED BY <1>2, <1>3, <1>9, <1>15 DEF Link!Next

LEMMA AbortKeepsLinks ==
    ASSUME SharesInv, LinkInv, NEW m \in Makers, AbortCard(m)
    PROVE  LinkInv' /\ UNCHANGED Link!vars
<1>. DEFINE c == maker[m].card
<1>1. c \in Cards /\ c \in Rows /\ c \notin Committed
  BY DEF AbortCard, MakerAt, SharesInv, HeldApart, Holding, Rows
<1>2. quote_card' = [quote_card EXCEPT ![c] = NoCard] /\ UNCHANGED <<baker, image>>
  BY DEF AbortCard
<1>3. /\ quote_card'[c] = NoCard /\ \A d \in Cards \ {c} : quote_card'[d] = quote_card[d]
      /\ NoCard.row = FALSE
  BY <1>1, <1>2 DEF SharesInv, SharesTypeOK, NoCard
<1>. HIDE DEF c
<1>4. Rows' = Rows \ {c} /\ Committed' = Committed
  BY <1>1, <1>3 DEF Rows, Committed
<1>5. \A d \in Rows' \cup Committed : d \in Cards \ {c} /\ quote_card'[d] = quote_card[d]
  BY <1>1, <1>3, <1>4 DEF Rows, Committed
<1>6. LinkInv'
  <2>1. \A b \in Bakers : baker[b].stage \in Busy => baker[b].card \in Committed
    BY DEF SharesInv, BakesTrue
  <2>. QED BY <1>2, <1>4, <1>5, <2>1 DEF LinkInv, LinksApart, FreshRows, ImagesNamed
<1>. QED BY <1>2, <1>4, <1>5, <1>6, LinksStay

\* A worker writes the outcome it has, or only the name of an image that the
\* card names already.
LEMMA WriteKeepsLinks ==
    ASSUME SharesInv, LinkInv, NEW b \in Bakers, WriteStatus(b)
    PROVE  LinkInv' /\ Link!Next
<1>1. PICK c \in Cards : c = baker[b].card
  BY TaskTyped DEF WriteStatus, BakerAt, SharesInv, Busy, Baker
<1>. DEFINE old == quote_card[c]
            q == [old EXCEPT
                    !.og_status = IF baker[b].seen = baker[b].result THEN @ ELSE baker[b].result,
                    !.og_r2_key = @ \/ baker[b].result = "baked"]
<1>2. baker[b] \in Baker /\ baker[b].stage = "write" /\ baker[b].stage \in Busy
  BY TaskTyped DEF WriteStatus, BakerAt, SharesInv, Busy
<1>3. /\ c \in Committed /\ c \in Rows /\ c \in Cards
      /\ baker[b].seen # "pending" => old.og_status # "pending"
      /\ baker[b].result = "baked" => c \in image
      /\ old.og_status = "baked" \/ old.og_r2_key => c \in image
      /\ old.og_status = "baked" => old.og_r2_key
      /\ baker[b].seen = "baked" => old.og_r2_key
  BY <1>1, <1>2 DEF SharesInv, BakesTrue, RowsTrue, Committed, Rows, LinkInv, ImagesNamed
<1>4. /\ old \in QuoteCard /\ old.committed
      /\ old.og_status \in Status /\ old.og_r2_key \in BOOLEAN
  <2>1. old \in QuoteCard /\ old.committed
    BY <1>3 DEF SharesInv, SharesTypeOK, Committed, Rows, NoCard
  <2>. HIDE DEF old
  <2>. QED BY <2>1 DEF QuoteCard
<1>5. PICK s \in Slugs : s = old.share_slug
  BY <1>4 DEF QuoteCard
<1>6. baker[b].result \in {"baked", "failed"} /\ baker[b].seen \in Status
  BY <1>2 DEF Baker
<1>7. /\ q.row /\ q.committed /\ q.share_slug = s
      /\ q.og_status = IF baker[b].seen = baker[b].result THEN old.og_status ELSE baker[b].result
      /\ q.og_r2_key = (old.og_r2_key \/ baker[b].result = "baked")
  <2>. HIDE DEF old
  <2>. QED BY <1>4, <1>5 DEF QuoteCard
<1>8. quote_card' = [quote_card EXCEPT ![c] = q] /\ UNCHANGED image
      /\ baker' = [baker EXCEPT ![b] = Rested] /\ Rested.stage \notin Busy
  BY <1>1 DEF WriteStatus, Rested, Busy
<1>. HIDE DEF q
<1>9. quote_card'[c] = q /\ \A d \in Cards \ {c} : quote_card'[d] = quote_card[d]
  BY <1>3, <1>8 DEF SharesInv, SharesTypeOK
<1>10. Rows' = Rows /\ Committed' = Committed /\ Rows \subseteq Cards /\ Committed \subseteq Rows
  BY <1>3, <1>4, <1>7, <1>9 DEF Rows, Committed
<1>11. /\ q.og_status \in Link!Outcomes
       /\ q.og_status = "baked" => c \in image
       /\ q.og_r2_key = (old.og_r2_key \/ q.og_status = "baked")
       /\ q.og_status = "baked" \/ old.og_r2_key => q.og_r2_key
  <2>1. q.og_status \in Link!Outcomes
    BY <1>3, <1>4, <1>6, <1>7 DEF Status, Link!Outcomes
  <2>2. q.og_status = "baked" => c \in image
    BY <1>3, <1>6, <1>7
  <2>3. baker[b].result = "baked" => q.og_status = "baked" \/ old.og_r2_key
    BY <1>3, <1>6, <1>7
  <2>4. q.og_status = "baked" => old.og_r2_key \/ baker[b].result = "baked"
    BY <1>3, <1>6, <1>7
  <2>5. q.og_r2_key = (old.og_r2_key \/ q.og_status = "baked")
    <3>. HIDE DEF old
    <3>. QED BY <1>7, <2>3, <2>4
  <2>6. q.og_status = "baked" \/ old.og_r2_key => q.og_r2_key
    <3>. HIDE DEF old
    <3>1. q.og_status = "baked" \/ old.og_r2_key => q.og_r2_key = TRUE
      BY <2>5, Zenon
    <3>. QED BY <3>1, Zenon
  <2>. QED BY <2>1, <2>2, <2>5, <2>6
<1>. HIDE DEF old
<1>12. LinkInv'
  <2>1. LinksApart'
    BY <1>7, <1>9, <1>10, <1>5 DEF LinkInv, LinksApart, old
  <2>2. FreshRows'
    BY <1>3, <1>9, <1>10 DEF LinkInv, FreshRows
  <2>3. \A d \in Rows : quote_card'[d].og_status = "baked" => quote_card'[d].og_r2_key
    <3>1. q.og_status = "baked" => q.og_r2_key
      BY <1>11
    <3>. QED BY <1>9, <1>10, <3>1 DEF LinkInv, ImagesNamed
  <2>4. ASSUME NEW k \in Bakers, baker'[k].stage \in Busy, baker'[k].seen = "baked"
        PROVE  quote_card'[baker'[k].card].og_r2_key
    <3>1. k # b /\ baker'[k] = baker[k]
      BY <1>8, <2>4 DEF SharesInv, SharesTypeOK
    <3>2. baker[k].card \in Cards /\ quote_card[baker[k].card].og_r2_key
      BY <1>10, <2>4, <3>1 DEF SharesInv, BakesTrue, LinkInv, ImagesNamed
    <3>3. CASE baker[k].card = c
      <4>1. q.og_r2_key
        BY <1>11, <3>2, <3>3 DEF old
      <4>. QED BY <1>9, <3>1, <3>3, <4>1
    <3>4. CASE baker[k].card # c
      BY <1>9, <3>1, <3>2, <3>4
    <3>. QED BY <3>3, <3>4
  <2>. QED BY <1>10, <2>1, <2>2, <2>3, <2>4 DEF LinkInv, ImagesNamed
<1>13. BySlug(s) = {Answer(c)} /\ BySlug(s)' = {Answer(c)'}
  <2>1. \A d \in Committed' : quote_card'[d].share_slug = s <=> d = c
    BY <1>3, <1>7, <1>9, <1>10, <1>5 DEF LinkInv, LinksApart, old
  <2>2. {d \in Committed' : quote_card'[d].share_slug = s} = {c}
    BY <1>3, <1>10, <2>1
  <2>3. BySlug(s)' = {Answer(c)'}
    BY <2>2 DEF BySlug, Answer
  <2>4. BySlug(s) = {Answer(c)}
    BY <1>3, <1>5, Leads DEF LinkInv, old
  <2>. QED BY <2>3, <2>4
<1>14. ASSUME NEW t \in Slugs, t # s PROVE BySlug(t)' = BySlug(t)
  <2>1. \A d \in Committed : quote_card'[d].share_slug = quote_card[d].share_slug
    BY <1>7, <1>9, <1>10, <1>5 DEF old
  <2>2. {d \in Committed' : quote_card'[d].share_slug = t} = {d \in Committed : quote_card[d].share_slug = t}
    BY <1>10, <2>1
  <2>3. \A d \in {e \in Committed : quote_card[e].share_slug = t} : quote_card'[d] = quote_card[d]
    BY <1>9, <1>10, <1>14, <1>5 DEF old
  <2>. QED BY <2>2, <2>3 DEF BySlug
<1>15. PICK a, outcome, seen :
          /\ a = Answer(c) /\ outcome = q.og_status
          /\ seen = [card |-> a.card, og_status |-> outcome,
                     og_r2_key |-> (a.og_r2_key \/ outcome = "baked")]
  OBVIOUS
<1>16. a.card = c /\ a.og_r2_key = old.og_r2_key
  BY <1>15 DEF Answer, old
<1>17. Answer(c)' = seen
  <2>1. Answer(c)' = [card |-> c, og_status |-> q.og_status, og_r2_key |-> q.og_r2_key]
    BY <1>9 DEF Answer
  <2>2. q.og_r2_key = (a.og_r2_key \/ outcome = "baked")
    BY <1>11, <1>15, <1>16, Zenon
  <2>. QED BY <1>15, <1>16, <2>1, <2>2, Zenon
<1>18. [slug \in Slugs |-> BySlug(slug)]'
       = [[slug \in Slugs |-> BySlug(slug)] EXCEPT ![s] = {seen}]
  BY <1>5, <1>13, <1>14, <1>17
<1>19. a \in [slug \in Slugs |-> BySlug(slug)][s]
  BY <1>5, <1>13, <1>15
<1>20. outcome \in Link!Outcomes /\ (outcome = "baked" => a.card \in image)
  BY <1>11, <1>15, <1>16
<1>21. Link!Settle(s, outcome)
  BY <1>8, <1>15, <1>18, <1>19, <1>20, Zenon DEF Link!Settle
<1>. QED BY <1>5, <1>12, <1>20, <1>21 DEF Link!Next

\* The image of a committed card is stored.
LEMMA UploadKeepsLinks ==
    ASSUME SharesInv, LinkInv, NEW b \in Bakers, Upload(b)
    PROVE  LinkInv' /\ Link!Next
<1>. DEFINE c == baker[b].card  s == quote_card[c].share_slug
            n == [baker[b] EXCEPT !.stage = "write", !.result = "baked"]
<1>1. baker[b] \in Baker /\ baker[b].stage \in Busy
  BY TaskTyped DEF Upload, BakerAt, SharesInv, Busy
<1>2. n.card = c /\ n.seen = baker[b].seen
  BY <1>1 DEF Baker
<1>3. baker' = [baker EXCEPT ![b] = n] /\ image' = image \cup {c} /\ UNCHANGED quote_card
  BY DEF Upload
<1>. HIDE DEF n
<1>4. c \in Committed /\ quote_card[c] \in QuoteCard
  BY <1>1 DEF SharesInv, BakesTrue, Committed, Rows, SharesTypeOK, NoCard
<1>5. s \in Slugs
  BY <1>4 DEF QuoteCard
<1>6. LinkInv'
  <2>1. \A k \in Bakers : baker'[k] = IF k = b THEN n ELSE baker[k]
    BY <1>3 DEF SharesInv, SharesTypeOK
  <2>. QED BY <1>1, <1>2, <1>3, <2>1, LinkRests DEF LinkInv, ImagesNamed
<1>7. BySlug(s) = {Answer(c)} /\ Answer(c).card = c
  BY <1>4, Leads DEF LinkInv, Answer
<1>8. [slug \in Slugs |-> BySlug(slug)]' = [slug \in Slugs |-> BySlug(slug)]
  BY <1>3 DEF BySlug, Committed, Rows
<1>9. Link!Store(s)
  BY <1>3, <1>5, <1>7, <1>8 DEF Link!Store
<1>. QED BY <1>5, <1>6, <1>9 DEF Link!Next

LEMMA LinkStarts == SharesInit => LinkInv /\ Link!Init
<1>1. SUFFICES ASSUME SharesInit PROVE LinkInv /\ Link!Init
  OBVIOUS
<1>2. Rows = {} /\ Committed = {}
  BY <1>1 DEF SharesInit, Rows, Committed, NoCard
<1>3. LinkInv
  BY <1>1, <1>2 DEF SharesInit, LinkInv, LinksApart, FreshRows, ImagesNamed, Rested, Busy
<1>4. \A slug : BySlug(slug) = {}
  BY <1>2 DEF BySlug
<1>. QED BY <1>1, <1>3, <1>4 DEF SharesInit, Link!Init

LEMMA LinkSteps ==
    SharesInv /\ LinkInv /\ [SharesNext]_shares => LinkInv' /\ [Link!Next]_(Link!vars)
<1>1. SUFFICES ASSUME SharesInv, LinkInv, [SharesNext]_shares
               PROVE  LinkInv' /\ [Link!Next]_(Link!vars)
  OBVIOUS
<1>2. ASSUME UNCHANGED <<quote_card, image>>,
             \A b \in Bakers : baker'[b].stage \in Busy /\ baker'[b].seen = "baked" =>
                quote_card[baker'[b].card].og_r2_key
      PROVE  LinkInv' /\ UNCHANGED Link!vars
  <2>1. Committed' = Committed
    BY <1>2 DEF Committed, Rows
  <2>. QED BY <1>1, <1>2, <2>1, LinkRests, LinksStay
<1>3. ASSUME UNCHANGED <<quote_card, image, baker>>
      PROVE  LinkInv' /\ UNCHANGED Link!vars
  BY <1>1, <1>2, <1>3 DEF LinkInv, ImagesNamed
<1>4. ASSUME NEW m \in Makers, NEW s \in Sources, CreateFor(m, s)
      PROVE  LinkInv' /\ UNCHANGED Link!vars
  BY <1>3, <1>4 DEF CreateFor
<1>5. ASSUME NEW m \in Makers, ExtractQuote(m) \/ EnqueueOgBake(m)
      PROVE  LinkInv' /\ UNCHANGED Link!vars
  BY <1>3, <1>5 DEF ExtractQuote, EnqueueOgBake
<1>6. ASSUME NEW m \in Makers, NEW slug \in Slugs, InsertCard(m, slug)
      PROVE  LinkInv' /\ UNCHANGED Link!vars
  BY <1>1, <1>6, InsertKeepsLinks
<1>7. ASSUME NEW m \in Makers, CommitCard(m) PROVE LinkInv' /\ Link!Next
  BY <1>1, <1>7, CommitKeepsLinks
<1>8. ASSUME NEW m \in Makers, AbortCard(m) PROVE LinkInv' /\ UNCHANGED Link!vars
  BY <1>1, <1>8, AbortKeepsLinks
<1>9. ASSUME NEW b \in Bakers, NEW c \in Cards, TakeJob(b, c)
      PROVE  LinkInv' /\ UNCHANGED Link!vars
  <2>1. CASE c \in Committed
    <3>. DEFINE n == [stage |-> "bake", card |-> c, seen |-> quote_card[c].og_status,
                      attempt |-> 0, result |-> "failed"]
    <3>1. baker' = [baker EXCEPT ![b] = n] /\ UNCHANGED <<quote_card, image>>
      BY <1>9, <2>1 DEF TakeJob
    <3>2. n.card = c /\ n.seen = quote_card[c].og_status
      OBVIOUS
    <3>. HIDE DEF n
    <3>3. \A k \in Bakers : baker'[k] = IF k = b THEN n ELSE baker[k]
      BY <1>1, <3>1 DEF SharesInv, SharesTypeOK
    <3>4. quote_card[c].og_status = "baked" => quote_card[c].og_r2_key
      BY <1>1, <2>1 DEF LinkInv, ImagesNamed, Committed
    <3>. QED BY <1>1, <1>2, <3>1, <3>2, <3>3, <3>4 DEF LinkInv, ImagesNamed
  <2>2. CASE c \notin Committed
    BY <1>3, <1>9, <2>2 DEF TakeJob
  <2>. QED BY <2>1, <2>2
<1>10. ASSUME NEW b \in Bakers, Upload(b) PROVE LinkInv' /\ Link!Next
  BY <1>1, <1>10, UploadKeepsLinks
<1>11. ASSUME NEW b \in Bakers, UploadFails(b) PROVE LinkInv' /\ UNCHANGED Link!vars
  <2>1. baker[b] \in Baker /\ baker[b].stage \in Busy /\ UNCHANGED <<quote_card, image>>
    BY <1>1, <1>11, TaskTyped DEF UploadFails, BakerAt, SharesInv, Busy
  <2>2. PICK n : baker' = [baker EXCEPT ![b] = n] /\ n.card = baker[b].card /\ n.seen = baker[b].seen
    <3>1. CASE baker' = [baker EXCEPT ![b].attempt = @ + 1]
      <4>. DEFINE n == [baker[b] EXCEPT !.attempt = @ + 1]
      <4>1. baker' = [baker EXCEPT ![b] = n] /\ n.card = baker[b].card /\ n.seen = baker[b].seen
        BY <2>1, <3>1 DEF Baker
      <4>. QED BY <4>1
    <3>2. CASE baker' = [baker EXCEPT ![b].stage = "write", ![b].result = "failed"]
      <4>. DEFINE n == [baker[b] EXCEPT !.stage = "write", !.result = "failed"]
      <4>1. baker' = [baker EXCEPT ![b] = n] /\ n.card = baker[b].card /\ n.seen = baker[b].seen
        BY <2>1, <3>2 DEF Baker
      <4>. QED BY <4>1
    <3>. QED BY <1>11, <3>1, <3>2 DEF UploadFails
  <2>3. \A k \in Bakers : baker'[k] = IF k = b THEN n ELSE baker[k]
    BY <1>1, <2>2 DEF SharesInv, SharesTypeOK
  <2>. QED BY <1>1, <1>2, <2>1, <2>2, <2>3 DEF LinkInv, ImagesNamed
<1>12. ASSUME NEW b \in Bakers, WriteStatus(b) PROVE LinkInv' /\ Link!Next
  BY <1>1, <1>12, WriteKeepsLinks
<1>13. ASSUME NEW b \in Bakers, Fall(b) PROVE LinkInv' /\ UNCHANGED Link!vars
  <2>1. baker' = [baker EXCEPT ![b] = Rested] /\ UNCHANGED <<quote_card, image>>
    BY <1>13 DEF Fall
  <2>2. \A k \in Bakers : baker'[k] = IF k = b THEN Rested ELSE baker[k]
    BY <1>1, <2>1 DEF SharesInv, SharesTypeOK
  <2>3. Rested.stage \notin Busy
    BY DEF Rested, Busy
  <2>. QED BY <1>1, <1>2, <2>1, <2>2, <2>3 DEF LinkInv, ImagesNamed
<1>14. CASE UNCHANGED shares
  BY <1>3, <1>14 DEF shares
<1>. QED BY <1>1, <1>4, <1>5, <1>6, <1>7, <1>8, <1>9, <1>10, <1>11, <1>12, <1>13, <1>14
         DEF SharesNext, BakerStep

\* Every behaviour of cards, callers and workers is one ShareLink allows: a link
\* that leads to a card leads to it for good, and says of its image what is so.
THEOREM KeepsLink == SharesSpec => LinkKept
<1>1. SharesInit => SharesInv /\ LinkInv /\ Link!Init
  BY SharesStarts, LinkStarts
<1>2. SharesInv /\ LinkInv /\ [SharesNext]_shares
      => (SharesInv /\ LinkInv)' /\ [Link!Next]_(Link!vars)
  BY SharesSteps, LinkSteps
<1>. QED BY <1>1, <1>2, PTL DEF SharesSpec, Link!Spec, LinkKept
=============================================================================
