------------------------------- MODULE Accounts -------------------------------
(***************************************************************************)
(* The users rows and what signs a person in, out and away: the Kakao and  *)
(* Apple callbacks, the Toss bridge, the session store, logout,            *)
(* POST /me/delete and the daily hard-delete job with its audit rows and   *)
(* its storage pass.  What hangs off a users row is in Profiles.           *)
(*                                                                         *)
(* A callback is split where it has read: by subject, by email hash, and   *)
(* where it commits; the session is opened after that.  The three          *)
(* providers are external, and so is the passing of the thirty days of     *)
(* grace.  Names, locale and time stamps other than deleted_at are left    *)
(* out; a subject is a model value that belongs to one provider.           *)
(*                                                                         *)
(* The hard-delete job meets the audio of a user while it is being made: a *)
(* stream and a finalize job never look at the users row once they run.    *)
(* One reading per user is followed, in less detail than ReadingAudio.     *)
(***************************************************************************)
EXTENDS Naturals, FiniteSets

CONSTANTS Users,        \* users.id values an insert may draw
          Kakao, Apple, Toss,   \* subjects of the three providers
          Shared,       \* subjects whose provider hands out one same email
          None,         \* NULL
          Sids,         \* session ids
          Handlers,     \* tasks of the web process that sign somebody in
          Readers,      \* bound: the users whose audio is followed
          MaxDeaths     \* bound: how often the hard-delete job fails

ASSUME AccountsAssumption ==
    /\ MaxDeaths \in Nat
    /\ None \notin Users \cup Kakao \cup Apple \cup Toss
    /\ Toss \cap (Kakao \cup Apple) = {}

VARIABLES users,        \* the users table
          grants,       \* signup_grant rows in free_tokens, by user
          sessions,     \* the session store: sid -> user
          signin,       \* what each callback has read and where it is
          speaking,     \* users whose reading is being streamed
          finalizing,   \* the finalize_audio job of the user's reading
          objects,      \* storage: the audio of the user's reading
          recorded,     \* whether a reading_audio row points at it
          eraser,       \* the hard-delete job
          audit,        \* audit_events: for each user the rows written
          deaths,       \* how often the hard-delete job failed
          missed        \* history: audio the hard-delete job could not remove

identity == <<users, grants, sessions, signin>>
voice    == <<speaking, finalizing, objects, recorded>>
erasing  == <<eraser, audit, deaths, missed>>
accounts == <<identity, voice, erasing>>

-----------------------------------------------------------------------------
(* Types *)

Subjects == Kakao \cup Apple \cup Toss

\* The email hash that comes with a subject: shared, its own, or none.
EmailOf(s) == IF s \in Shared THEN "shared" ELSE s
Mails(s)   == {EmailOf(s)} \cup (IF s \in Apple THEN {None} ELSE {})
Emails     == {"shared", None} \cup Subjects

User == [row     : {"absent", "live", "erased"},
         kakao   : Kakao \cup {None},
         apple   : Apple \cup {None},
         toss    : Toss \cup {None},
         email   : Emails,
         deleted : {"no", "grace", "due"}]

NoUser == [row |-> "absent", kakao |-> None, apple |-> None, toss |-> None,
           email |-> None, deleted |-> "no"]

Idle   == [stage |-> "idle"]
SignIn == [stage : {"email", "refresh", "attach", "insert", "session"},
           sub : Subjects, mail : Emails, user : Users \cup {None}]

Store  == [Sids -> Users \cup {None}]

Pieces   == {"chunk", "main"}
Finalize == {"idle", "queued", "stored", "cleared"}
Eraser == [stage : {"next", "delete", "objects"},
           due : SUBSET Users, at : Users \cup {None}, keys : SUBSET Pieces]

AccountsTypeOK ==
    /\ users \in [Users -> User]
    /\ grants \in [Users -> Nat]
    /\ sessions \in Store
    /\ signin \in [Handlers -> SignIn \cup {Idle}]
    /\ speaking \subseteq Users
    /\ finalizing \in [Users -> Finalize]
    /\ objects \in [Users -> SUBSET Pieces]
    /\ recorded \in [Users -> BOOLEAN]
    /\ eraser \in Eraser \cup {Idle}
    /\ audit \in [Users -> Nat]
    /\ deaths \in Nat
    /\ missed \in [Users -> SUBSET Pieces]

AccountsInit ==
    /\ users = [u \in Users |-> NoUser]
    /\ grants = [u \in Users |-> 0]
    /\ sessions = [s \in Sids |-> None]
    /\ signin = [t \in Handlers |-> Idle]
    /\ speaking = {}
    /\ finalizing = [u \in Users |-> "idle"]
    /\ objects = [u \in Users |-> {}]
    /\ recorded = [u \in Users |-> FALSE]
    /\ eraser = Idle
    /\ audit = [u \in Users |-> 0]
    /\ deaths = 0
    /\ missed = [u \in Users |-> {}]

-----------------------------------------------------------------------------
(* Helpers *)

Exists(u)      == users[u].row = "live"
SubjectsOf(u)  == {users[u].kakao, users[u].apple, users[u].toss} \ {None}
BySubject(s)   == {u \in Users : Exists(u) /\ s \in SubjectsOf(u)}
ByEmail(m)     == {u \in Users : Exists(u) /\ users[u].email = m}

SignInAt(t, stage) == signin[t] # Idle /\ signin[t].stage = stage
GoSignIn(t, stage, s, m, u) ==
    signin' = [signin EXCEPT ![t] = [stage |-> stage, sub |-> s, mail |-> m, user |-> u]]

WithSubject(row, s) ==
    IF s \in Kakao THEN [row EXCEPT !.kakao = s]
    ELSE IF s \in Apple THEN [row EXCEPT !.apple = s]
    ELSE [row EXCEPT !.toss = s]

\* users_kakao_sub_uq and its two siblings.
Taken(s, u) == BySubject(s) \ {u} # {}

-----------------------------------------------------------------------------
(* The Kakao and Apple callbacks *)

\* find_or_create_by_provider, step 1: the row with this subject, whether or
\* not it is soft-deleted.
FindBySubject(t, s) ==
    /\ signin[t] = Idle
    /\ \E m \in Mails(s) :
         IF BySubject(s) = {}
         THEN GoSignIn(t, IF m = None THEN "insert" ELSE "email", s, m, None)
         ELSE \E u \in BySubject(s) :
                GoSignIn(t, IF users[u].email = None /\ m # None THEN "refresh"
                            ELSE "session", s, m, u)
    /\ UNCHANGED <<users, grants, sessions, voice, erasing>>

KakaoCallback(t) == \E s \in Kakao : FindBySubject(t, s)
AppleCallback(t) == \E s \in Apple : FindBySubject(t, s)

\* Step 2: the row with this email hash; two of them raise and answer 500.
FindByEmail(t) ==
    /\ SignInAt(t, "email")
    /\ LET S == ByEmail(signin[t].mail) IN
       IF Cardinality(S) > 1
       THEN signin' = [signin EXCEPT ![t] = Idle]
       ELSE IF S = {}
       THEN signin' = [signin EXCEPT ![t].stage = "insert"]
       ELSE \E u \in S : signin' = [signin EXCEPT ![t].stage = "attach", ![t].user = u]
    /\ UNCHANGED <<users, grants, sessions, voice, erasing>>

\* A write that the database refuses: rollback, 500.
Refuse(t) == signin' = [signin EXCEPT ![t] = Idle] /\ UNCHANGED <<users, grants>>

\* The new subject is attached to the row found by its email hash.
Attach(t) ==
    LET s == signin[t].sub
        u == signin[t].user
    IN  /\ SignInAt(t, "attach")
        /\ IF Exists(u) /\ ~Taken(s, u)
           THEN /\ users' = [users EXCEPT ![u] = WithSubject(@, s)]
                /\ signin' = [signin EXCEPT ![t].stage = "session"]
                /\ UNCHANGED grants
           ELSE Refuse(t)
        /\ UNCHANGED <<sessions, voice, erasing>>

\* A row found by subject without an email hash is given the one that came.
Refresh(t) ==
    LET u == signin[t].user IN
    /\ SignInAt(t, "refresh")
    /\ IF Exists(u)
       THEN /\ users' = [users EXCEPT ![u].email = signin[t].mail]
            /\ signin' = [signin EXCEPT ![t].stage = "session"]
            /\ UNCHANGED grants
       ELSE Refuse(t)
    /\ UNCHANGED <<sessions, voice, erasing>>

\* grant_signup_bonus, under free_tokens_signup_grant_uq: one token for a
\* new account of the callbacks, none for the bridge's.
SignupGrant(s) == IF s \in Toss THEN 0 ELSE 1

Insert_GrantAgain(t) ==
    LET s == signin[t].sub IN
    /\ SignInAt(t, "insert")
    /\ \E u \in Users :
         /\ users[u].row = "absent"
         /\ grants' = [grants EXCEPT ![u] = @ + 1]
         /\ IF Taken(s, u)
            THEN signin' = [signin EXCEPT ![t] = Idle] /\ UNCHANGED users
            ELSE /\ users' = [users EXCEPT ![u] =
                         [WithSubject(NoUser, s) EXCEPT !.row = "live",
                                                        !.email = signin[t].mail]]
                 /\ signin' = [signin EXCEPT ![t].stage = "session", ![t].user = u]
    /\ UNCHANGED <<sessions, voice, erasing>>

\* Step 3: a new row, with its signup grant in the same transaction.
Insert(t) ==
    LET s == signin[t].sub IN
    /\ SignInAt(t, "insert")
    /\ \E u \in Users :
         /\ users[u].row = "absent"
         /\ IF Taken(s, u)
            THEN Refuse(t)
            ELSE /\ users' = [users EXCEPT ![u] =
                         [WithSubject(NoUser, s) EXCEPT !.row = "live",
                                                        !.email = signin[t].mail]]
                 /\ grants' = [grants EXCEPT ![u] = SignupGrant(s)]
                 /\ signin' = IF s \in Toss THEN [signin EXCEPT ![t] = Idle]
                              ELSE [signin EXCEPT ![t].stage = "session", ![t].user = u]
    /\ UNCHANGED <<sessions, voice, erasing>>

\* After the commit: the session, and the cookie that carries its sid.
OpenSession(t) ==
    /\ SignInAt(t, "session")
    /\ \E sid \in Sids :
         /\ sessions[sid] = None
         /\ sessions' = [sessions EXCEPT ![sid] = signin[t].user]
    /\ signin' = [signin EXCEPT ![t] = Idle]
    /\ UNCHANGED <<users, grants, voice, erasing>>

\* POST /auth/toss-bridge with a verified token; a known subject changes
\* nothing, and the cookie it gets names the user and no session.
TossBridge(t) ==
    /\ signin[t] = Idle
    /\ \E s \in Toss :
         /\ BySubject(s) = {}
         /\ GoSignIn(t, "insert", s, None, None)
    /\ UNCHANGED <<users, grants, sessions, voice, erasing>>

Logout(sid) ==
    /\ sessions[sid] # None
    /\ sessions' = [sessions EXCEPT ![sid] = None]
    /\ UNCHANGED <<users, grants, signin, voice, erasing>>

SignInStep(t) ==
    \/ FindByEmail(t) \/ Attach(t) \/ Refresh(t) \/ Insert(t) \/ OpenSession(t)

-----------------------------------------------------------------------------
(* Leaving *)

\* POST /me/delete: the row is stamped once, the caller's session dropped.
\* The other sessions of the user, and the bearer token, stay good.
DeleteMe(u) ==
    /\ Exists(u)
    /\ users' = [users EXCEPT ![u].deleted = IF @ = "no" THEN "grace" ELSE @]
    /\ \E sid \in {s \in Sids : sessions[s] = u} \cup {None} :
         sessions' = [s \in Sids |-> IF s = sid THEN None ELSE sessions[s]]
    /\ UNCHANGED <<grants, signin, voice, erasing>>

\* Thirty days pass.
GraceEnds(u) ==
    /\ Exists(u) /\ users[u].deleted = "grace"
    /\ users' = [users EXCEPT ![u].deleted = "due"]
    /\ UNCHANGED <<grants, sessions, signin, voice, erasing>>

-----------------------------------------------------------------------------
(* The audio of a reading *)

\* Audio is put under one of the reading's keys, whoever is being erased.
Put(u, piece) ==
    /\ objects' = [objects EXCEPT ![u] = @ \cup {piece}]
    /\ missed' = [missed EXCEPT ![u] = @ \cup {piece}]

\* GET /reading/{id}/stream reads the reading, which goes with its user ...
OpenStream(u) ==
    /\ u \in Readers \ speaking
    /\ Exists(u)
    /\ speaking' = speaking \cup {u}
    /\ UNCHANGED <<identity, finalizing, objects, recorded, erasing>>

\* ... and never again while it stores one chunk after the other.
Speak(u) ==
    /\ u \in speaking
    /\ Put(u, "chunk")
    /\ UNCHANGED <<identity, speaking, finalizing, recorded, eraser, audit, deaths>>

\* The stream ends with a job in the queue, or is abandoned.  Bound: one job.
EndStream(u) ==
    /\ u \in speaking
    /\ speaking' = speaking \ {u}
    /\ \/ UNCHANGED finalizing
       \/ finalizing[u] = "idle" /\ finalizing' = [finalizing EXCEPT ![u] = "queued"]
    /\ UNCHANGED <<identity, objects, recorded, erasing>>

\* finalize_audio reads the chunks and stores main.mp3 ...
StoreMain(u) ==
    /\ finalizing[u] = "queued"
    /\ IF "chunk" \in objects[u]
       THEN Put(u, "main") /\ finalizing' = [finalizing EXCEPT ![u] = "stored"]
       ELSE finalizing' = [finalizing EXCEPT ![u] = "idle"] /\ UNCHANGED <<objects, missed>>
    /\ UNCHANGED <<identity, speaking, recorded, eraser, audit, deaths>>

\* ... deletes the chunks ...
Clear(u) ==
    /\ finalizing[u] = "stored"
    /\ objects' = [objects EXCEPT ![u] = @ \ {"chunk"}]
    /\ finalizing' = [finalizing EXCEPT ![u] = "cleared"]
    /\ UNCHANGED <<identity, speaking, recorded, erasing>>

\* ... and flushes the row, which the foreign key refuses when the reading is
\* gone; the caller (external) commits it, or does not.
Record(u) ==
    /\ finalizing[u] = "cleared"
    /\ recorded' \in {recorded, [recorded EXCEPT ![u] = @ \/ Exists(u)]}
    /\ finalizing' = [finalizing EXCEPT ![u] = "idle"]
    /\ UNCHANGED <<identity, speaking, objects, erasing>>

FinalizeStep(u) == StoreMain(u) \/ Clear(u) \/ Record(u)

-----------------------------------------------------------------------------
(* The job hard_delete_expired_users *)

\* The job has reached this user and has not ended with it.
Erasing(u) == eraser # Idle /\ eraser.at = u

Due == {u \in Users : Exists(u) /\ users[u].deleted = "due"}

\* Who was deleted more than thirty days ago; nobody looks again later.
FindDue ==
    /\ eraser = Idle
    /\ eraser' = [stage |-> "next", due |-> Due, at |-> None, keys |-> {}]
    /\ UNCHANGED <<identity, voice, audit, deaths, missed>>

\* The keys of a reading that has a reading_audio row: the one the row names,
\* and those listed under its prefix, unless the listing fails.
KeysOf(u, listed) ==
    IF ~recorded[u] THEN {}
    ELSE {"main"} \cup (IF listed THEN objects[u] \cap {"chunk"} ELSE {})

\* What can be in storage and not among these keys (history).
OutOfReach(u, listed) ==
    IF ~recorded[u] THEN Pieces ELSE IF listed THEN {} ELSE {"chunk"}

Collect_AfterCascade ==
    /\ eraser # Idle /\ eraser.stage = "next"
    /\ \E u \in eraser.due :
         /\ eraser' = [eraser EXCEPT !.stage = "delete", !.at = u, !.keys = {}]
         /\ missed' = [missed EXCEPT ![u] = OutOfReach(u, TRUE)]
    /\ UNCHANGED <<identity, voice, audit, deaths>>

\* The next user's keys, before the cascade takes the rows that lead to them.
Collect ==
    /\ eraser # Idle /\ eraser.stage = "next"
    /\ \E u \in eraser.due, listed \in BOOLEAN :
         /\ eraser' = [eraser EXCEPT !.stage = "delete", !.at = u, !.keys = KeysOf(u, listed)]
         /\ missed' = [missed EXCEPT ![u] = OutOfReach(u, listed)]
         /\ deaths' = IF listed THEN deaths ELSE deaths + 1
    /\ deaths' <= MaxDeaths
    /\ UNCHANGED <<identity, voice, audit>>

\* One audit_events row, which outlives the user it is about.
WriteAuditEvent(u) == audit' = [audit EXCEPT ![u] = @ + 1]

\* The audit row and the DELETE with its cascade, in one transaction.
EraseRow ==
    LET u == eraser.at IN
    /\ eraser # Idle /\ eraser.stage = "delete"
    /\ WriteAuditEvent(u)
    /\ users' = [users EXCEPT ![u] = [NoUser EXCEPT !.row = "erased"]]
    /\ grants' = [grants EXCEPT ![u] = 0]
    /\ recorded' = [recorded EXCEPT ![u] = FALSE]
    /\ eraser' = [eraser EXCEPT !.stage = "objects"]
    /\ UNCHANGED <<sessions, signin, speaking, finalizing, objects, deaths, missed>>

\* The storage pass; a key that cannot be deleted is skipped.
EraseObjects ==
    LET u == eraser.at IN
    /\ eraser # Idle /\ eraser.stage = "objects"
    /\ \E kept \in SUBSET eraser.keys :
         /\ objects' = [objects EXCEPT ![u] = @ \ (eraser.keys \ kept)]
         /\ missed' = [missed EXCEPT ![u] = @ \cup kept]
         /\ deaths' = IF kept = {} THEN deaths ELSE deaths + 1
    /\ deaths' <= MaxDeaths
    /\ eraser' = [eraser EXCEPT !.stage = "next", !.due = @ \ {u},
                                !.at = None, !.keys = {}]
    /\ UNCHANGED <<identity, speaking, finalizing, recorded, audit>>

EndRun ==
    /\ eraser # Idle /\ eraser.stage = "next" /\ eraser.due = {}
    /\ eraser' = Idle
    /\ UNCHANGED <<identity, voice, audit, deaths, missed>>

\* An exception for one user: rolled back, logged, and on to the next.
Stumble ==
    /\ eraser # Idle /\ eraser.stage = "delete" /\ deaths < MaxDeaths
    /\ deaths' = deaths + 1
    /\ eraser' = [eraser EXCEPT !.stage = "next", !.due = @ \ {eraser.at},
                                !.at = None, !.keys = {}]
    /\ UNCHANGED <<identity, voice, audit, missed>>

\* The worker dies between two steps.
Die ==
    /\ eraser # Idle /\ deaths < MaxDeaths
    /\ deaths' = deaths + 1
    /\ eraser' = Idle
    /\ missed' = IF eraser.stage = "objects"
                 THEN [missed EXCEPT ![eraser.at] = @ \cup eraser.keys] ELSE missed
    /\ UNCHANGED <<identity, voice, audit>>

EraserStep == FindDue \/ Collect \/ EraseRow \/ EraseObjects \/ EndRun

AccountsNext ==
    \/ \E t \in Handlers : KakaoCallback(t) \/ AppleCallback(t) \/ TossBridge(t)
                           \/ SignInStep(t)
    \/ \E s \in Sids : Logout(s)
    \/ \E u \in Users : DeleteMe(u) \/ GraceEnds(u)
    \/ \E u \in Users : OpenStream(u) \/ Speak(u) \/ EndStream(u) \/ FinalizeStep(u)
    \/ EraserStep \/ Stumble \/ Die

AccountsSpec == AccountsInit /\ [][AccountsNext]_accounts

-----------------------------------------------------------------------------
(* Properties *)

\* The signup grant comes with the account and never without it: one for
\* each account of the callbacks, none for the bridge's or for no account.
GrantWithAccount ==
    \A u \in Users :
        grants[u] = IF {users[u].kakao, users[u].apple} = {None} THEN 0 ELSE 1

\* When the hard-delete job is done with a user, all that is left of the audio
\* is what the job could not remove: audio of a reading without a row or under a
\* prefix that could not be listed, keys that could not be deleted or that died
\* with the worker, and what a stream or a finalize job has put since the job
\* collected the keys.
OnlyMissedAudioLeft ==
    \A u \in Users :
        users[u].row = "erased" /\ ~Erasing(u) => objects[u] \subseteq missed[u]

(* What the documents say and the code does not do. *)

\* hard_delete.py: "Return every R2 object key owned (transitively) by *user_id*".
EveryKeyCollected ==
    [][\A u \in Users : ~Erasing(u) /\ Erasing(u)' /\ deaths' = deaths
         => objects[u] \subseteq eraser'.keys]_accounts
=============================================================================
