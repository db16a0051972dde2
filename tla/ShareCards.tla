------------------------------ MODULE ShareCards ------------------------------
(***************************************************************************)
(* Quote cards and their images.  create_for_reading and create_for_tarot  *)
(* put a row into the caller's transaction, with a slug drawn again after  *)
(* a collision, and enqueue og_bake before the caller commits.  The job    *)
(* reads the row, draws and stores the image in up to three attempts and   *)
(* writes baked or failed.  A job is delivered at least once: again after  *)
(* its worker died, and possibly while another worker has it.              *)
(*                                                                         *)
(* What is drawn is not modelled; a drawing or an upload may raise.        *)
(***************************************************************************)
EXTENDS Naturals

CONSTANTS ReadingSources,       \* finished readings
          TarotSources,         \* finished draws
          Cards,                \* quote_cards.id values
          Slugs,                \* what generate_share_slug can return
          Nothing,              \* NULL
          Makers,               \* tasks that create cards
          Bakers,               \* workers
          MAX_ATTEMPTS,
          SLUG_COLLISION_MAX_RETRIES,
          MaxFalls              \* bound on the deaths of workers

ASSUME ShareCardsAssumption ==
    /\ MAX_ATTEMPTS \in Nat \ {0}
    /\ SLUG_COLLISION_MAX_RETRIES \in Nat \ {0}
    /\ MaxFalls \in Nat

VARIABLES quote_card,   \* the table, with the rows of open transactions
          maker,        \* the creating transactions
          jobs,         \* cards with an og_bake job in the queue
          baker,        \* what each worker has read and where it is
          image,        \* cards with an object at og/{id}.png
          outrun,       \* cards whose job ran before the row was committed
          falls

shares == <<quote_card, maker, jobs, baker, image, outrun, falls>>

-----------------------------------------------------------------------------
(* Types *)

Sources == ReadingSources \cup TarotSources
Status  == {"pending", "baked", "failed"}

NoCard    == [row |-> FALSE]
QuoteCard == [row : {TRUE}, source : Sources, share_slug : Slugs, og_status : Status,
              og_r2_key : BOOLEAN, committed : BOOLEAN]

Rested == [stage |-> "rested"]
Maker  == [stage : {"quote", "insert", "enqueue", "commit"}, source : Sources,
           card : Cards \cup {Nothing}, attempt : 0 .. SLUG_COLLISION_MAX_RETRIES - 1]
Baker  == [stage : {"bake", "write"}, card : Cards, seen : Status,
           attempt : 0 .. MAX_ATTEMPTS - 1, result : {"baked", "failed"}]

SharesTypeOK ==
    /\ quote_card \in [Cards -> QuoteCard \cup {NoCard}]
    /\ maker \in [Makers -> Maker \cup {Rested}]
    /\ jobs \subseteq Cards
    /\ baker \in [Bakers -> Baker \cup {Rested}]
    /\ image \subseteq Cards /\ outrun \subseteq Cards
    /\ falls \in 0 .. MaxFalls

SharesInit ==
    /\ quote_card = [c \in Cards |-> NoCard]
    /\ maker = [m \in Makers |-> Rested]
    /\ jobs = {}
    /\ baker = [b \in Bakers |-> Rested]
    /\ image = {}
    /\ outrun = {}
    /\ falls = 0

-----------------------------------------------------------------------------
(* Helpers *)

Rows      == {c \in Cards : quote_card[c].row}
Committed == {c \in Rows : quote_card[c].committed}
Unused    == Cards \ (Rows \cup jobs \cup outrun)

Collides_CommittedOnly(s, slug) ==
    {c \in Committed : \/ quote_card[c].share_slug = slug
                       \/ s \in ReadingSources /\ quote_card[c].source = s}

\* quote_cards.share_slug and quote_cards.reading_id are unique; a draw may
\* have several cards.
Collides(s, slug) ==
    {c \in Rows : \/ quote_card[c].share_slug = slug
                  \/ s \in ReadingSources /\ quote_card[c].source = s}

MakerAt(m, stage) == maker[m].stage = stage
BakerAt(b, stage) == baker[b].stage = stage

\* get_quote_card_by_slug, whose query is for one row or none; what the card
\* says apart from its image never changes.
BySlug(slug) ==
    {[card |-> c, og_status |-> quote_card[c].og_status, og_r2_key |-> quote_card[c].og_r2_key] :
        c \in {d \in Committed : quote_card[d].share_slug = slug}}

-----------------------------------------------------------------------------
(* create_for_reading, create_for_tarot *)

\* The source is loaded; one that does not exist is a ValueError.
CreateFor(m, s) ==
    /\ maker[m] = Rested
    /\ maker' = [maker EXCEPT ![m] = [stage |-> "quote", source |-> s,
                                      card |-> Nothing, attempt |-> 0]]
    /\ UNCHANGED <<quote_card, jobs, baker, image, outrun, falls>>

\* The model's line, cut to forty characters, or one of the fallbacks when it
\* raises, is empty or hits the deny list: there is always a quote.
ExtractQuote(m) ==
    /\ MakerAt(m, "quote")
    /\ maker' = [maker EXCEPT ![m].stage = "insert"]
    /\ UNCHANGED <<quote_card, jobs, baker, image, outrun, falls>>

\* The flush waits for a transaction that holds the same unique value; then
\* the row is in, or the session is rolled back and another slug drawn, and
\* after the last retry the call raises.
InsertCard(m, slug) ==
    LET q == maker[m]
        clash == Collides(q.source, slug)
    IN  /\ MakerAt(m, "insert")
        /\ clash \subseteq Committed
        /\ IF clash = {}
           THEN \E c \in Unused :
                  /\ quote_card' = [quote_card EXCEPT ![c] =
                        [row |-> TRUE, source |-> q.source, share_slug |-> slug,
                         og_status |-> "pending", og_r2_key |-> FALSE, committed |-> FALSE]]
                  /\ maker' = [maker EXCEPT ![m].stage = "enqueue", ![m].card = c]
           ELSE /\ maker' = IF q.attempt + 1 = SLUG_COLLISION_MAX_RETRIES
                            THEN [maker EXCEPT ![m] = Rested]
                            ELSE [maker EXCEPT ![m].attempt = @ + 1]
                /\ UNCHANGED quote_card
        /\ UNCHANGED <<jobs, baker, image, outrun, falls>>

\* _enqueue_og_bake: the row is flushed and not yet committed.
EnqueueOgBake(m) ==
    /\ MakerAt(m, "enqueue")
    /\ jobs' = jobs \cup {maker[m].card}
    /\ maker' = [maker EXCEPT ![m].stage = "commit"]
    /\ UNCHANGED <<quote_card, baker, image, outrun, falls>>

\* The caller commits.
CommitCard(m) ==
    /\ MakerAt(m, "commit")
    /\ quote_card' = [quote_card EXCEPT ![maker[m].card].committed = TRUE]
    /\ maker' = [maker EXCEPT ![m] = Rested]
    /\ UNCHANGED <<jobs, baker, image, outrun, falls>>

\* The caller raises later in its transaction and rolls back, or dies.
AbortCard(m) ==
    /\ MakerAt(m, "enqueue") \/ MakerAt(m, "commit")
    /\ quote_card' = [quote_card EXCEPT ![maker[m].card] = NoCard]
    /\ maker' = [maker EXCEPT ![m] = Rested]
    /\ UNCHANGED <<jobs, baker, image, outrun, falls>>

-----------------------------------------------------------------------------
(* og_bake *)

\* A row that is not there, or not there yet, ends the job.
TakeJob(b, c) ==
    /\ baker[b] = Rested
    /\ c \in jobs
    /\ IF c \in Committed
       THEN /\ baker' = [baker EXCEPT ![b] =
                   [stage |-> "bake", card |-> c, seen |-> quote_card[c].og_status,
                    attempt |-> 0, result |-> "failed"]]
            /\ UNCHANGED <<jobs, outrun>>
       ELSE /\ jobs' = jobs \ {c}
            /\ outrun' = outrun \cup {c}
            /\ UNCHANGED baker
    /\ UNCHANGED <<quote_card, maker, image, falls>>

\* _bake_and_upload: the image is drawn and stored.
Upload(b) ==
    /\ BakerAt(b, "bake")
    /\ image' = image \cup {baker[b].card}
    /\ baker' = [baker EXCEPT ![b].stage = "write", ![b].result = "baked"]
    /\ UNCHANGED <<quote_card, maker, jobs, outrun, falls>>

\* An OSError or a RuntimeError is tried again, three times in all; anything
\* else gives up at once.
UploadFails(b) ==
    /\ BakerAt(b, "bake")
    /\ \/ /\ baker[b].attempt + 1 < MAX_ATTEMPTS
          /\ baker' = [baker EXCEPT ![b].attempt = @ + 1]
       \/ baker' = [baker EXCEPT ![b].stage = "write", ![b].result = "failed"]
    /\ UNCHANGED <<quote_card, maker, jobs, image, outrun, falls>>

\* The UPDATE names the columns that differ from what was read; the job's
\* session commits and the job is done.
WriteStatus(b) ==
    LET q == baker[b] IN
    /\ BakerAt(b, "write")
    /\ quote_card' = [quote_card EXCEPT
          ![q.card].og_status = IF q.seen = q.result THEN @ ELSE q.result,
          ![q.card].og_r2_key = @ \/ q.result = "baked"]
    /\ jobs' = jobs \ {q.card}
    /\ baker' = [baker EXCEPT ![b] = Rested]
    /\ UNCHANGED <<maker, image, outrun, falls>>

Fall_JobGone(b) ==
    /\ falls < MaxFalls
    /\ baker[b] # Rested
    /\ falls' = falls + 1
    /\ baker' = [baker EXCEPT ![b] = Rested]
    /\ jobs' = jobs \ {baker[b].card}
    /\ UNCHANGED <<quote_card, maker, image, outrun>>

\* The worker dies; the job stays in the queue.
Fall(b) ==
    /\ falls < MaxFalls
    /\ baker[b] # Rested
    /\ falls' = falls + 1
    /\ baker' = [baker EXCEPT ![b] = Rested]
    /\ UNCHANGED <<quote_card, maker, jobs, image, outrun>>

-----------------------------------------------------------------------------

BakerStep(b) ==
    \/ \E c \in Cards : TakeJob(b, c)
    \/ Upload(b) \/ UploadFails(b) \/ WriteStatus(b)

SharesNext ==
    \/ \E m \in Makers :
         \/ \E s \in Sources : CreateFor(m, s)
         \/ ExtractQuote(m)
         \/ \E slug \in Slugs : InsertCard(m, slug)
         \/ EnqueueOgBake(m) \/ CommitCard(m) \/ AbortCard(m)
    \/ \E b \in Bakers : BakerStep(b) \/ Fall(b)

\* Workers go on, and transactions end.
SharesSpec ==
    /\ SharesInit /\ [][SharesNext]_shares
    /\ \A b \in Bakers : WF_shares(BakerStep(b))
    /\ \A m \in Makers : WF_shares(CommitCard(m))

-----------------------------------------------------------------------------
(* Properties *)

\* Whatever workers had the job at once, died in it or gave up, a card that
\* says baked, and one that names an image, has its image in the store.
BakedHasImage ==
    \A c \in Committed :
        quote_card[c].og_status = "baked" \/ quote_card[c].og_r2_key => c \in image

\* A committed card without an outcome has a job that will give it one, unless
\* the job came before the commit.
PendingHasJob ==
    \A c \in Committed : quote_card[c].og_status = "pending" => c \in jobs \cup outrun

\* Whoever opens a share link, however often and whatever transactions and
\* workers do meanwhile, sees what ShareLink promises: one card, always the
\* same, that never goes back to pending and says baked only of an image that
\* is stored.
Link == INSTANCE ShareLink WITH
            shown <- [slug \in Slugs |-> BySlug(slug)], stored <- image
LinkKept == Link!Spec

(* What the documents say and the code does not do. *)

\* "the bake worker polls og_status='pending' so even if the enqueue races,
\* the row is still discoverable": a committed card is baked or failed in the
\* end.
PendingBaked ==
    \A c \in Cards : c \in Committed ~> (c \notin Committed \/ quote_card[c].og_status # "pending")
=============================================================================
