------------------------------- MODULE Profiles -------------------------------
(***************************************************************************)
(* What hangs off a users row: the profile (one per user, with its count   *)
(* of corrections) and the saju_charts rows, one per chart_hash for all    *)
(* users together.  POST /profile and PATCH /profile are split where they  *)
(* have read the profile and the chart and where they commit.  Deleting an *)
(* account stamps the profile as well; erasing it, see Accounts, takes the *)
(* profile and the user's charts with it.                                  *)
(*                                                                         *)
(* The birth data of a request are a member of Inputs, which names the     *)
(* chart they compute to: the engine is a function, see SajuEngine.        *)
(***************************************************************************)
EXTENDS Naturals

CONSTANTS Owners,           \* users.id values
          Inputs,           \* birth data, by the chart they compute to
          Forms,            \* tasks of the web process that write profiles
          Null,             \* NULL
          MAX_CORRECTIONS

ASSUME ProfilesAssumption == MAX_CORRECTIONS \in Nat /\ Null \notin Owners

VARIABLES account,      \* the users row: live, soft-deleted or erased
          profile,      \* the profiles table, by user
          chart,        \* the saju_charts table: chart_hash -> owner
          form,         \* what each request has read and where it is
          accepted,     \* corrections answered 200, by user
          lost          \* charts that went with the user who owned them

profiles == <<account, profile, chart, form, accepted, lost>>

-----------------------------------------------------------------------------
(* Types *)

Profile   == [row : BOOLEAN, chart : Inputs \cup {Null},
              count : 0 .. MAX_CORRECTIONS, deleted : BOOLEAN]
NoProfile == [row |-> FALSE, chart |-> Null, count |-> 0, deleted |-> FALSE]

Chart == Owners \cup {Null}

NoForm == [stage |-> "idle"]
Form == [stage : {"look", "insert", "reuse"}, kind : {"create", "correct"},
         user : Owners, input : Inputs, count : 0 .. MAX_CORRECTIONS]

ProfilesTypeOK ==
    /\ account \in [Owners -> {"live", "deleted", "erased"}]
    /\ profile \in [Owners -> Profile]
    /\ chart \in [Inputs -> Chart]
    /\ form \in [Forms -> Form \cup {NoForm}]
    /\ accepted \in [Owners -> Nat]
    /\ lost \subseteq Inputs

ProfilesInit ==
    /\ account = [u \in Owners |-> "live"]
    /\ profile = [u \in Owners |-> NoProfile]
    /\ chart = [h \in Inputs |-> Null]
    /\ form = [f \in Forms |-> NoForm]
    /\ accepted = [u \in Owners |-> 0]
    /\ lost = {}

-----------------------------------------------------------------------------
(* Helpers *)

OwnCharts(u) == {h \in Inputs : chart[h] = u}

\* What GET /profile/me and a repeated POST answer with: the user's chart row;
\* none, or two of them, is a 500.
Served(u) == {h \in Inputs : OwnCharts(u) = {h}}

FormAt(f, stage) == form[f] # NoForm /\ form[f].stage = stage
Leave(f)         == form' = [form EXCEPT ![f] = NoForm]

-----------------------------------------------------------------------------
(* POST /profile and PATCH /profile *)

\* The user has no profile row yet, not even a soft-deleted one.
CreateProfile(f, u, h) ==
    /\ form[f] = NoForm
    /\ account[u] # "erased"
    /\ ~profile[u].row
    /\ form' = [form EXCEPT ![f] = [stage |-> "look", kind |-> "create",
                                    user |-> u, input |-> h, count |-> 0]]
    /\ UNCHANGED <<account, profile, chart, accepted, lost>>

CorrectProfile_OffByOne(f, u, h) ==
    /\ form[f] = NoForm
    /\ profile[u].row /\ ~profile[u].deleted
    /\ profile[u].count <= MAX_CORRECTIONS
    /\ form' = [form EXCEPT ![f] = [stage |-> "look", kind |-> "correct", user |-> u,
                                    input |-> h, count |-> profile[u].count]]
    /\ UNCHANGED <<account, profile, chart, accepted, lost>>

\* The quota is tested on the row as read: 403 from the third correction on.
CorrectProfile(f, u, h) ==
    /\ form[f] = NoForm
    /\ profile[u].row /\ ~profile[u].deleted
    /\ profile[u].count < MAX_CORRECTIONS
    /\ form' = [form EXCEPT ![f] = [stage |-> "look", kind |-> "correct", user |-> u,
                                    input |-> h, count |-> profile[u].count]]
    /\ UNCHANGED <<account, profile, chart, accepted, lost>>

\* A chart row with this hash is reused, whoever owns it.
LookUpChart(f) ==
    /\ FormAt(f, "look")
    /\ form' = [form EXCEPT ![f].stage =
                   IF chart[form[f].input] = Null THEN "insert" ELSE "reuse"]
    /\ UNCHANGED <<account, profile, chart, accepted, lost>>

\* Unique chart_hash, unique user_id, the foreign keys; an UPDATE of a row
\* that is gone.
Refused(f) ==
    LET u == form[f].user IN
    \/ account[u] = "erased"
    \/ (form[f].stage = "insert" /\ chart[form[f].input] # Null)
    \/ (form[f].kind = "create") = profile[u].row

\* The profile as written: a correction writes the count it read, plus one.
Written(f) ==
    LET u == form[f].user IN
    IF form[f].kind = "create"
    THEN [NoProfile EXCEPT !.row = TRUE, !.chart = form[f].input]
    ELSE [profile[u] EXCEPT !.chart = form[f].input, !.count = form[f].count + 1]

CommitForm_ChartApart(f) ==
    LET u == form[f].user
        h == form[f].input
    IN  /\ FormAt(f, "insert") \/ FormAt(f, "reuse")
        /\ IF form[f].stage = "insert" /\ chart[h] = Null /\ account[u] # "erased"
           THEN chart' = [chart EXCEPT ![h] = u]
           ELSE UNCHANGED chart
        /\ IF Refused(f)
           THEN UNCHANGED <<profile, accepted>>
           ELSE /\ profile' = [profile EXCEPT ![u] = Written(f)]
                /\ accepted' = IF form[f].kind = "create" THEN accepted
                               ELSE [accepted EXCEPT ![u] = @ + 1]
        /\ Leave(f)
        /\ UNCHANGED <<account, lost>>

CommitForm_ConflictSwallowed(f) ==
    LET u == form[f].user
        h == form[f].input
    IN  /\ FormAt(f, "insert") \/ FormAt(f, "reuse")
        /\ IF account[u] = "erased" \/ (form[f].kind = "create" /\ profile[u].row)
           THEN UNCHANGED <<profile, chart, accepted>>
           ELSE /\ profile' = [profile EXCEPT ![u] = Written(f)]
                /\ accepted' = accepted
                /\ chart' = chart
        /\ Leave(f)
        /\ UNCHANGED <<account, lost>>

\* The chart row, if new, and the profile, in one transaction; or a 500.
CommitForm(f) ==
    LET u == form[f].user
        h == form[f].input
    IN  /\ FormAt(f, "insert") \/ FormAt(f, "reuse")
        /\ IF Refused(f)
           THEN UNCHANGED <<profile, chart, accepted>>
           ELSE /\ profile' = [profile EXCEPT ![u] = Written(f)]
                /\ chart' = IF form[f].stage = "reuse" THEN chart
                            ELSE [chart EXCEPT ![h] = u]
                /\ accepted' = IF form[f].kind = "create" THEN accepted
                               ELSE [accepted EXCEPT ![u] = @ + 1]
        /\ Leave(f)
        /\ UNCHANGED <<account, lost>>

-----------------------------------------------------------------------------
(* The two steps of Accounts that reach the profile *)

\* POST /me/delete: both rows are stamped.
DeleteOwner(u) ==
    /\ account[u] # "erased"
    /\ account' = [account EXCEPT ![u] = "deleted"]
    /\ profile' = [profile EXCEPT ![u].deleted = @ \/ profile[u].row]
    /\ UNCHANGED <<chart, form, accepted, lost>>

\* hard_delete: ON DELETE CASCADE.
EraseOwner(u) ==
    /\ account[u] = "deleted"
    /\ account' = [account EXCEPT ![u] = "erased"]
    /\ profile' = [profile EXCEPT ![u] = NoProfile]
    /\ chart' = [h \in Inputs |-> IF chart[h] = u THEN Null ELSE chart[h]]
    /\ lost' = lost \cup OwnCharts(u)
    /\ UNCHANGED <<form, accepted>>

-----------------------------------------------------------------------------

ProfilesNext ==
    \/ \E f \in Forms :
         \/ \E u \in Owners, h \in Inputs : CreateProfile(f, u, h) \/ CorrectProfile(f, u, h)
         \/ LookUpChart(f) \/ CommitForm(f)
    \/ \E u \in Owners : DeleteOwner(u) \/ EraseOwner(u)

ProfilesSpec == ProfilesInit /\ [][ProfilesNext]_profiles

-----------------------------------------------------------------------------
(* Properties *)

\* A profile that was never corrected is answered with the chart of its own
\* birth data when the user has one chart, whichever requests raced.
FreshProfileServesItsChart ==
    \A u \in Owners : profile[u].row /\ profile[u].count = 0 =>
        \A h \in Served(u) : h = profile[u].chart

\* The chart of a profile is on file, unless it belonged to another user and
\* went with that user's account.
ProfileChartOnFile ==
    \A u \in Owners : profile[u].row =>
        chart[profile[u].chart] # Null \/ profile[u].chart \in lost

(* What the documents say and the code does not do. *)

\* "correction_count is incremented in the same transaction so the quota check
\* above is race-free under READ COMMITTED isolation".
CorrectionQuota == \A u \in Owners : accepted[u] <= MAX_CORRECTIONS
=============================================================================
