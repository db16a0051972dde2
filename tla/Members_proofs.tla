----------------------------- MODULE Members_proofs -----------------------------
(***************************************************************************)
(* Accounts, proved for any number of users, subjects, callbacks and       *)
(* sessions: who has a signup grant, and what is left of the audio of an       *)
(* erased user.                                                            *)
(*                                                                         *)
(* Profiles and charts, proved for any number of users, birth data and     *)
(* racing requests: what a profile that was never corrected is answered    *)
(* with, and where the chart of a profile may have gone.                   *)
(***************************************************************************)
EXTENDS MCMembers, TLAPS

-----------------------------------------------------------------------------
(* Accounts: what is carried along *)

\* Somebody signed in to the account with Kakao or Apple.
OfCallback(u) == users[u].kakao # None \/ users[u].apple # None

\* A row with an email hash came from a callback, a row without an account
\* names no subject of one, and the grant goes with the account.
RowsTrue ==
    \A u \in Users :
        /\ users[u].email # None => OfCallback(u)
        /\ users[u].row # "live" => ~OfCallback(u)
        /\ grants[u] = IF OfCallback(u) THEN 1 ELSE 0

\* What a callback has read: a subject of its own provider, and a row that is
\* a callback's for as long as it exists.
Known(u) == users[u].row # "absent" /\ (users[u].row = "live" => OfCallback(u))

CallbacksTrue ==
    \A t \in Handlers :
        LET c == signin[t] IN
        /\ c.stage \in {"email", "refresh", "attach"} => c.sub \in Kakao \cup Apple /\ c.mail # None
        /\ c.stage = "insert" /\ c.sub \in Toss => c.mail = None
        /\ c.stage \in {"refresh", "attach", "session"} => c.user \in Users
        /\ c.stage \in {"refresh", "attach"} => Known(c.user)

\* What the job has read: who is due still exists, but for the one whose row
\* it has just deleted; and it has the keys of that user's audio, but for what
\* it misses.
EraserTrue ==
    eraser # Idle =>
        /\ eraser.stage = "next" => eraser.at = None
        /\ eraser.stage = "delete" => eraser.at \in eraser.due
        /\ eraser.stage = "objects" => eraser.at \in Users
        /\ \A u \in eraser.due :
              Exists(u) \/ (eraser.stage = "objects" /\ u = eraser.at)
        /\ eraser.stage # "next" =>
              objects[eraser.at] \subseteq eraser.keys \cup missed[eraser.at]

IdentityInv == RowsTrue /\ CallbacksTrue
AccountsInv == AccountsTypeOK /\ IdentityInv /\ EraserTrue /\ OnlyMissedAudioLeft

-----------------------------------------------------------------------------
(* Accounts: helpers *)

LEMMA Kinds ==
    ASSUME AccountsTypeOK, NEW t \in Handlers
    PROVE  /\ signin[t].stage # "idle" => signin[t] \in SignIn
           /\ signin[t] # Idle => signin[t] \in SignIn
           /\ Idle.stage = "idle"
BY DEF AccountsTypeOK, Idle, SignIn

LEMMA Running ==
    ASSUME AccountsTypeOK, eraser # Idle
    PROVE  eraser \in Eraser
BY DEF AccountsTypeOK

\* A subject is attached to a row: nothing else of the row changes, and one
\* of Kakao's or Apple's makes it a callback's.
LEMMA SubjectAttached ==
    ASSUME NEW new \in User, NEW s \in Subjects
    PROVE  LET n == WithSubject(new, s) IN
           /\ n \in User /\ n.row = new.row /\ n.email = new.email /\ n.deleted = new.deleted
           /\ s \in Kakao \cup Apple => n.kakao # None \/ n.apple # None
           /\ s \in Toss => n.kakao = new.kakao /\ n.apple = new.apple
<1>1. CASE s \in Kakao
  BY <1>1, AccountsAssumption DEF WithSubject, User
<1>2. CASE s \notin Kakao /\ s \in Apple
  BY <1>2, AccountsAssumption DEF WithSubject, User
<1>3. CASE s \notin Kakao /\ s \notin Apple
  BY <1>3, AccountsAssumption DEF WithSubject, User, Subjects
<1> QED
  BY <1>1, <1>2, <1>3

\* A row found by a callback's subject is a callback's.
LEMMA FoundBySubject ==
    ASSUME AccountsTypeOK, NEW s \in Kakao \cup Apple, NEW u \in BySubject(s)
    PROVE  u \in Users /\ Exists(u) /\ OfCallback(u)
BY AccountsAssumption DEF BySubject, SubjectsOf, OfCallback, AccountsTypeOK, User

\* The job and what it looks after are left alone.
LEMMA EraserRests ==
    ASSUME AccountsInv, UNCHANGED <<voice, erasing>>,
           \A u \in Users : /\ Exists(u) => users'[u].row = "live"
                            /\ users[u].row # "erased" => users'[u].row # "erased"
    PROVE  EraserTrue' /\ OnlyMissedAudioLeft'
<1>1. EraserTrue'
  BY DEF AccountsInv, EraserTrue, Exists, erasing, voice, AccountsTypeOK, Eraser
<1>2. OnlyMissedAudioLeft'
  BY DEF AccountsInv, OnlyMissedAudioLeft, Erasing, erasing, voice, AccountsTypeOK
<1> QED
  BY <1>1, <1>2

\* A callback that reads, gives up or ends.
LEMMA CallbackMoves ==
    ASSUME AccountsInv, NEW t \in Handlers, NEW n \in SignIn \cup {Idle},
           signin' = [signin EXCEPT ![t] = n],
           UNCHANGED <<users, grants, voice, erasing>>, sessions' \in Store,
           n.stage \in {"email", "refresh", "attach"} => n.sub \in Kakao \cup Apple /\ n.mail # None,
           n.stage = "insert" /\ n.sub \in Toss => n.mail = None,
           n.stage \in {"refresh", "attach", "session"} => n.user \in Users,
           n.stage \in {"refresh", "attach"} => Exists(n.user) /\ OfCallback(n.user)
    PROVE  AccountsInv'
<1>1. AccountsTypeOK'
  BY DEF AccountsInv, AccountsTypeOK, erasing, voice
<1>2. RowsTrue'
  BY DEF AccountsInv, IdentityInv, RowsTrue, OfCallback
<1>3. CallbacksTrue'
  <2>1. \A c \in Handlers : signin'[c] = IF c = t THEN n ELSE signin[c]
    BY DEF AccountsInv, AccountsTypeOK
  <2> QED
    BY <2>1 DEF AccountsInv, IdentityInv, CallbacksTrue, Known, OfCallback, Exists
<1>4. EraserTrue' /\ OnlyMissedAudioLeft'
  BY EraserRests DEF Exists
<1> QED
  BY <1>1, <1>2, <1>3, <1>4 DEF AccountsInv, IdentityInv

\* A row is written, and at most one callback goes on to its session or ends.
LEMMA RowWritten ==
    ASSUME AccountsInv, NEW u \in Users, NEW new \in User,
           users' = [users EXCEPT ![u] = new], users[u].row # "erased", new.row = "live",
           new.email # None \/ OfCallback(u) => new.kakao # None \/ new.apple # None,
           grants' = [grants EXCEPT ![u] = IF new.kakao # None \/ new.apple # None THEN 1 ELSE 0],
           signin' \in [Handlers -> SignIn \cup {Idle}],
           \A t \in Handlers :
               \/ signin'[t] = signin[t]
               \/ signin'[t].stage = "session" /\ signin'[t].user \in Users
               \/ signin'[t].stage = "idle",
           sessions' \in Store, UNCHANGED <<voice, erasing>>
    PROVE  AccountsInv'
<1>1. \A v \in Users : users'[v] = IF v = u THEN new ELSE users[v]
  BY DEF AccountsInv, AccountsTypeOK
<1>2. AccountsTypeOK'
  BY DEF AccountsInv, AccountsTypeOK, erasing, voice
<1>3. RowsTrue'
  BY <1>1 DEF AccountsInv, AccountsTypeOK, IdentityInv, RowsTrue, OfCallback
<1>4. CallbacksTrue'
  <2>1. \A v \in Users : Known(v) => Known(v)'
    BY <1>1 DEF Known, OfCallback, AccountsInv, AccountsTypeOK, User
  <2>2. \A t \in Handlers : signin'[t].stage \in {"email", "insert", "refresh", "attach"} =>
           signin'[t] = signin[t]
    OBVIOUS
  <2>3. \A t \in Handlers : signin[t].stage \in {"refresh", "attach"} =>
           signin[t].user \in Users /\ Known(signin[t].user)
    BY DEF AccountsInv, IdentityInv, CallbacksTrue
  <2>4. ASSUME NEW t \in Handlers, signin'[t].stage \in {"refresh", "attach"}
        PROVE  Known(signin[t].user)'
    <3>1. signin'[t] = signin[t]
      BY <2>2, <2>4
    <3> QED
      BY <2>1, <2>3, <2>4, <3>1 DEF Known, OfCallback
  <2> QED
    BY <2>2, <2>4 DEF AccountsInv, IdentityInv, CallbacksTrue
<1>5. EraserTrue' /\ OnlyMissedAudioLeft'
  BY <1>1, EraserRests DEF Exists
<1> QED
  BY <1>2, <1>3, <1>4, <1>5 DEF AccountsInv, IdentityInv

-----------------------------------------------------------------------------
(* Accounts: the callbacks *)

LEMMA FindBySubjectKeeps ==
    ASSUME AccountsInv, NEW t \in Handlers, NEW s \in Kakao \cup Apple, FindBySubject(t, s)
    PROVE  AccountsInv'
<1>1. s \in Subjects /\ s \notin Toss /\ Mails(s) \subseteq Emails
  BY AccountsAssumption DEF Subjects, Mails, EmailOf, Emails
<1>2. UNCHANGED <<users, grants, sessions, voice, erasing>> /\ sessions' \in Store
  BY DEF FindBySubject, AccountsInv, AccountsTypeOK
<1>3. CASE BySubject(s) = {}
  <2>1. PICK m \in Mails(s) :
          GoSignIn(t, IF m = None THEN "insert" ELSE "email", s, m, None)
    BY <1>3 DEF FindBySubject
  <2> DEFINE n == [stage |-> IF m = None THEN "insert" ELSE "email",
                   sub |-> s, mail |-> m, user |-> None]
  <2>2. /\ n \in SignIn /\ n.sub = s /\ n.mail = m /\ n.stage \in {"insert", "email"}
        /\ n.stage = "email" => m # None
    BY <1>1 DEF SignIn
  <2>3. signin' = [signin EXCEPT ![t] = n]
    BY <2>1 DEF GoSignIn
  <2> HIDE DEF n
  <2> QED
    BY <1>1, <1>2, <2>2, <2>3, CallbackMoves
<1>4. CASE BySubject(s) # {}
  <2>1. PICK m \in Mails(s), u \in BySubject(s) :
          GoSignIn(t, IF users[u].email = None /\ m # None THEN "refresh" ELSE "session", s, m, u)
    BY <1>4 DEF FindBySubject
  <2>2. u \in Users /\ Exists(u) /\ OfCallback(u)
    BY FoundBySubject DEF AccountsInv
  <2> DEFINE n == [stage |-> IF users[u].email = None /\ m # None THEN "refresh" ELSE "session",
                   sub |-> s, mail |-> m, user |-> u]
  <2>3. /\ n \in SignIn /\ n.sub = s /\ n.mail = m /\ n.user = u /\ n.stage \in {"refresh", "session"}
        /\ n.stage = "refresh" => m # None
    BY <1>1, <2>2 DEF SignIn
  <2>4. signin' = [signin EXCEPT ![t] = n]
    BY <2>1 DEF GoSignIn
  <2> HIDE DEF n
  <2> QED
    BY <1>1, <1>2, <2>2, <2>3, <2>4, CallbackMoves
<1> QED
  BY <1>3, <1>4

LEMMA FindByEmailKeeps ==
    ASSUME AccountsInv, NEW t \in Handlers, FindByEmail(t)
    PROVE  AccountsInv'
<1> DEFINE c == signin[t]
           S == ByEmail(c.mail)
<1>1. c \in SignIn /\ c.sub \in Kakao \cup Apple /\ c.sub \notin Toss /\ c.mail # None
  BY Kinds, AccountsAssumption DEF FindByEmail, SignInAt, AccountsInv, IdentityInv, CallbacksTrue
<1>2. UNCHANGED <<users, grants, sessions, voice, erasing>> /\ sessions' \in Store
  BY DEF FindByEmail, AccountsInv, AccountsTypeOK
<1>3. CASE signin' = [signin EXCEPT ![t] = Idle]
  BY <1>2, <1>3, Kinds, CallbackMoves DEF AccountsInv
<1>4. CASE signin' = [signin EXCEPT ![t].stage = "insert"]
  <2> DEFINE n == [c EXCEPT !.stage = "insert"]
  <2>1. n \in SignIn /\ n.stage = "insert" /\ n.sub = c.sub /\ signin' = [signin EXCEPT ![t] = n]
    BY <1>1, <1>4 DEF SignIn, AccountsInv, AccountsTypeOK
  <2> HIDE DEF n
  <2> QED
    BY <1>1, <1>2, <2>1, CallbackMoves
<1>5. ASSUME NEW u \in S, signin' = [signin EXCEPT ![t].stage = "attach", ![t].user = u]
      PROVE  AccountsInv'
  <2>1. u \in Users /\ Exists(u) /\ OfCallback(u)
    BY <1>1 DEF ByEmail, AccountsInv, IdentityInv, RowsTrue
  <2> DEFINE n == [c EXCEPT !.stage = "attach", !.user = u]
  <2>2. /\ n \in SignIn /\ n.stage = "attach" /\ n.user = u /\ n.sub = c.sub /\ n.mail = c.mail
        /\ signin' = [signin EXCEPT ![t] = n]
    BY <1>1, <1>5, <2>1 DEF SignIn, AccountsInv, AccountsTypeOK
  <2> HIDE DEF n, c
  <2> QED
    BY <1>1, <1>2, <2>1, <2>2, CallbackMoves
<1> QED
  BY <1>3, <1>4, <1>5 DEF FindByEmail

LEMMA RefuseKeeps ==
    ASSUME AccountsInv, NEW t \in Handlers, Refuse(t),
           UNCHANGED <<sessions, voice, erasing>>
    PROVE  AccountsInv'
<1>1. sessions' \in Store
  BY DEF AccountsInv, AccountsTypeOK
<1> QED
  BY <1>1, Kinds, CallbackMoves DEF AccountsInv, Refuse

\* A callback whose row is written goes on to open the session.
LEMMA ToSession ==
    ASSUME AccountsInv, NEW t \in Handlers, NEW u \in Users, signin[t] \in SignIn,
           signin' = [signin EXCEPT ![t] = [signin[t] EXCEPT !.stage = "session", !.user = u]]
    PROVE  /\ signin' \in [Handlers -> SignIn \cup {Idle}]
           /\ \A c \in Handlers :
                \/ signin'[c] = signin[c]
                \/ signin'[c].stage = "session" /\ signin'[c].user \in Users
                \/ signin'[c].stage = "idle"
BY DEF AccountsInv, AccountsTypeOK, SignIn

LEMMA AttachKeeps ==
    ASSUME AccountsInv, NEW t \in Handlers, Attach(t)
    PROVE  AccountsInv'
<1> DEFINE s == signin[t].sub
           u == signin[t].user
           new == WithSubject(users[u], s)
<1>1. /\ signin[t] \in SignIn /\ s \in Kakao \cup Apple /\ s \in Subjects /\ u \in Users
      /\ Exists(u) => OfCallback(u)
  BY Kinds DEF Attach, SignInAt, AccountsInv, IdentityInv, CallbacksTrue, Known, Exists, Subjects
<1>2. UNCHANGED <<sessions, voice, erasing>> /\ sessions' \in Store
  BY DEF Attach, AccountsInv, AccountsTypeOK
<1>3. CASE Exists(u) /\ ~Taken(s, u)
  <2>1. /\ users[u] \in User /\ users[u].row = "live" /\ grants[u] = 1
    BY <1>1, <1>3 DEF AccountsInv, AccountsTypeOK, IdentityInv, RowsTrue, Exists
  <2>2. /\ new \in User /\ new.row = "live"
        /\ new.kakao # None \/ new.apple # None
    BY <1>1, <2>1, SubjectAttached
  <2>3. /\ users' = [users EXCEPT ![u] = new] /\ UNCHANGED grants
        /\ signin' = [signin EXCEPT ![t].stage = "session"]
    BY <1>3 DEF Attach
  <2>4. grants' = [grants EXCEPT ![u] = 1]
    BY <2>1, <2>3 DEF AccountsInv, AccountsTypeOK
  <2>5. signin' = [signin EXCEPT ![t] = [signin[t] EXCEPT !.stage = "session", !.user = u]]
    BY <1>1, <2>3 DEF AccountsInv, AccountsTypeOK, SignIn
  <2> HIDE DEF new, u, s
  <2> QED
    BY <1>1, <1>2, <2>1, <2>2, <2>3, <2>4, <2>5, ToSession, RowWritten
<1>4. CASE ~(Exists(u) /\ ~Taken(s, u))
  BY <1>2, <1>4, RefuseKeeps DEF Attach
<1> QED
  BY <1>3, <1>4

LEMMA RefreshKeeps ==
    ASSUME AccountsInv, NEW t \in Handlers, Refresh(t)
    PROVE  AccountsInv'
<1> DEFINE u == signin[t].user
           new == [users[u] EXCEPT !.email = signin[t].mail]
<1>1. signin[t] \in SignIn /\ u \in Users /\ (Exists(u) => OfCallback(u))
  BY Kinds DEF Refresh, SignInAt, AccountsInv, IdentityInv, CallbacksTrue, Known, Exists
<1>2. UNCHANGED <<sessions, voice, erasing>> /\ sessions' \in Store
  BY DEF Refresh, AccountsInv, AccountsTypeOK
<1>3. CASE Exists(u)
  <2>1. /\ users[u] \in User /\ users[u].row = "live" /\ grants[u] = 1 /\ OfCallback(u)
    BY <1>1, <1>3 DEF AccountsInv, AccountsTypeOK, IdentityInv, RowsTrue, Exists
  <2>2. /\ new \in User /\ new.row = "live"
        /\ new.kakao # None \/ new.apple # None
    BY <1>1, <2>1 DEF User, SignIn, OfCallback
  <2>3. /\ users' = [users EXCEPT ![u] = new] /\ UNCHANGED grants
        /\ signin' = [signin EXCEPT ![t].stage = "session"]
    BY <1>3 DEF Refresh
  <2>4. grants' = [grants EXCEPT ![u] = 1]
    BY <2>1, <2>3 DEF AccountsInv, AccountsTypeOK
  <2>5. signin' = [signin EXCEPT ![t] = [signin[t] EXCEPT !.stage = "session", !.user = u]]
    BY <1>1, <2>3 DEF AccountsInv, AccountsTypeOK, SignIn
  <2> HIDE DEF new, u
  <2> QED
    BY <1>1, <1>2, <2>1, <2>2, <2>3, <2>4, <2>5, ToSession, RowWritten
<1>4. CASE ~Exists(u)
  BY <1>2, <1>4, RefuseKeeps DEF Refresh
<1> QED
  BY <1>3, <1>4

LEMMA InsertKeeps ==
    ASSUME AccountsInv, NEW t \in Handlers, Insert(t)
    PROVE  AccountsInv'
<1> DEFINE s == signin[t].sub
<1>1. /\ signin[t] \in SignIn /\ s \in Subjects /\ signin[t].mail \in Emails
      /\ s \in Toss => signin[t].mail = None
  <2>1. signin[t] \in SignIn /\ signin[t].stage = "insert"
    BY Kinds DEF Insert, SignInAt, AccountsInv
  <2> QED
    BY <2>1 DEF AccountsInv, IdentityInv, CallbacksTrue, SignIn
<1>2. UNCHANGED <<sessions, voice, erasing>> /\ sessions' \in Store
  BY DEF Insert, AccountsInv, AccountsTypeOK
<1>3. CASE Refuse(t)
  BY <1>2, <1>3, RefuseKeeps
<1>4. CASE ~Refuse(t)
  <2>1. PICK u \in Users :
          /\ users[u].row = "absent"
          /\ users' = [users EXCEPT ![u] =
                [WithSubject(NoUser, s) EXCEPT !.row = "live", !.email = signin[t].mail]]
          /\ grants' = [grants EXCEPT ![u] = SignupGrant(s)]
          /\ signin' = IF s \in Toss THEN [signin EXCEPT ![t] = Idle]
                       ELSE [signin EXCEPT ![t].stage = "session", ![t].user = u]
    BY <1>4 DEF Insert
  <2> DEFINE w == WithSubject(NoUser, s)
             new == [w EXCEPT !.row = "live", !.email = signin[t].mail]
  <2>2. NoUser \in User /\ NoUser.kakao = None /\ NoUser.apple = None
    BY DEF NoUser, User, Emails
  <2>3. /\ w \in User
        /\ s \in Toss => w.kakao = None /\ w.apple = None
        /\ s \notin Toss => w.kakao # None \/ w.apple # None
    BY <1>1, <2>2, SubjectAttached DEF Subjects
  <2>4. /\ new \in User /\ new.row = "live" /\ new.kakao = w.kakao /\ new.apple = w.apple
        /\ new.email = signin[t].mail
    BY <1>1, <2>3 DEF User
  <2>5. ~OfCallback(u) /\ users[u].row # "erased"
    BY <2>1 DEF AccountsInv, IdentityInv, RowsTrue
  <2>6. users' = [users EXCEPT ![u] = new]
    BY <2>1
  <2>7. grants' = [grants EXCEPT ![u] = IF new.kakao # None \/ new.apple # None THEN 1 ELSE 0]
    BY <2>1, <2>3, <2>4 DEF SignupGrant
  <2>8. /\ signin' \in [Handlers -> SignIn \cup {Idle}]
        /\ \A c \in Handlers :
             \/ signin'[c] = signin[c]
             \/ signin'[c].stage = "session" /\ signin'[c].user \in Users
             \/ signin'[c].stage = "idle"
    <3>1. CASE s \in Toss
      BY <2>1, <3>1, Kinds DEF AccountsInv, AccountsTypeOK
    <3>2. CASE s \notin Toss
      <4>1. signin' = [signin EXCEPT ![t] = [signin[t] EXCEPT !.stage = "session", !.user = u]]
        BY <1>1, <2>1, <3>2 DEF AccountsInv, AccountsTypeOK, SignIn
      <4> QED
        BY <1>1, <4>1, ToSession
    <3> QED
      BY <3>1, <3>2
  <2> HIDE DEF new, w, s
  <2> QED
    BY <1>1, <1>2, <2>3, <2>4, <2>5, <2>6, <2>7, <2>8, RowWritten
<1> QED
  BY <1>3, <1>4

LEMMA OpenSessionKeeps ==
    ASSUME AccountsInv, NEW t \in Handlers, OpenSession(t)
    PROVE  AccountsInv'
<1>1. signin[t].user \in Users
  BY DEF OpenSession, SignInAt, AccountsInv, IdentityInv, CallbacksTrue
<1>2. sessions' \in Store
  BY <1>1 DEF OpenSession, AccountsInv, AccountsTypeOK, Store
<1> QED
  BY <1>2, Kinds, CallbackMoves DEF OpenSession, AccountsInv

LEMMA TossBridgeKeeps ==
    ASSUME AccountsInv, NEW t \in Handlers, TossBridge(t)
    PROVE  AccountsInv'
<1>1. PICK s \in Toss : GoSignIn(t, "insert", s, None, None)
  BY DEF TossBridge
<1> DEFINE n == [stage |-> "insert", sub |-> s, mail |-> None, user |-> None]
<1>2. n \in SignIn /\ n.stage = "insert" /\ n.mail = None
  BY DEF SignIn, Subjects, Emails
<1>3. signin' = [signin EXCEPT ![t] = n]
  BY <1>1 DEF GoSignIn
<1>4. sessions' \in Store
  BY DEF TossBridge, AccountsInv, AccountsTypeOK
<1> HIDE DEF n
<1> QED
  BY <1>2, <1>3, <1>4, CallbackMoves DEF TossBridge

LEMMA LogoutKeeps ==
    ASSUME AccountsInv, UNCHANGED <<users, grants, signin, voice, erasing>>,
           sessions' \in Store
    PROVE  AccountsInv'
BY DEF AccountsInv, AccountsTypeOK, IdentityInv, RowsTrue, CallbacksTrue, Known, OfCallback,
       EraserTrue, OnlyMissedAudioLeft, Exists, Erasing, erasing, voice

-----------------------------------------------------------------------------
(* Accounts: leaving, and the audio of readings *)

\* The row is stamped: it keeps its subjects and its email hash.
LEMMA StampKeeps ==
    ASSUME AccountsInv, NEW u \in Users, NEW d \in {"no", "grace", "due"}, Exists(u),
           users' = [users EXCEPT ![u].deleted = d], sessions' \in Store,
           UNCHANGED <<grants, signin, voice, erasing>>
    PROVE  AccountsInv'
<1> DEFINE new == [users[u] EXCEPT !.deleted = d]
<1>1. users[u] \in User /\ users[u].row = "live"
  BY DEF AccountsInv, AccountsTypeOK, Exists
<1>2. /\ new \in User /\ new.row = "live" /\ new.kakao = users[u].kakao
      /\ new.apple = users[u].apple /\ new.email = users[u].email
  BY <1>1 DEF User
<1>3. new.email # None \/ OfCallback(u) => new.kakao # None \/ new.apple # None
  BY <1>2 DEF AccountsInv, IdentityInv, RowsTrue, OfCallback
<1>4. grants' = [grants EXCEPT ![u] = IF new.kakao # None \/ new.apple # None THEN 1 ELSE 0]
  BY <1>2 DEF AccountsInv, AccountsTypeOK, IdentityInv, RowsTrue, OfCallback
<1>5. users' = [users EXCEPT ![u] = new]
  BY <1>1 DEF AccountsInv, AccountsTypeOK, User
<1>6. signin' \in [Handlers -> SignIn \cup {Idle}]
  BY DEF AccountsInv, AccountsTypeOK
<1> HIDE DEF new
<1> QED
  BY <1>1, <1>2, <1>3, <1>4, <1>5, <1>6, RowWritten

LEMMA DeleteMeKeeps ==
    ASSUME AccountsInv, NEW u \in Users, DeleteMe(u)
    PROVE  AccountsInv'
<1>1. users[u].deleted \in {"no", "grace", "due"}
  BY DEF AccountsInv, AccountsTypeOK, User
<1>2. PICK d \in {"no", "grace", "due"} : users' = [users EXCEPT ![u].deleted = d]
  BY <1>1 DEF DeleteMe
<1>3. sessions' \in Store
  BY DEF DeleteMe, AccountsInv, AccountsTypeOK, Store
<1> QED
  BY <1>2, <1>3, StampKeeps DEF DeleteMe

LEMMA GraceEndsKeeps ==
    ASSUME AccountsInv, NEW u \in Users, GraceEnds(u)
    PROVE  AccountsInv'
<1>1. sessions' \in Store
  BY DEF GraceEnds, AccountsInv, AccountsTypeOK
<1> QED
  BY <1>1, StampKeeps DEF GraceEnds

\* A step that leaves accounts and callbacks alone.
LEMMA IdentityRests ==
    ASSUME AccountsInv, UNCHANGED identity
    PROVE  IdentityInv' /\ users' = users
BY DEF AccountsInv, IdentityInv, identity, RowsTrue, CallbacksTrue, Known, OfCallback

\* Audio comes and goes, and what comes is not of what the job collected.
LEMMA AudioMoves ==
    ASSUME AccountsInv, AccountsTypeOK', UNCHANGED <<identity, eraser>>,
           \A u \in Users : /\ objects'[u] \subseteq objects[u] \cup missed'[u]
                            /\ missed[u] \subseteq missed'[u]
    PROVE  AccountsInv'
<1>1. IdentityInv' /\ users' = users
  BY IdentityRests
<1>2. EraserTrue'
  <2>1. ASSUME eraser # Idle, eraser.stage # "next"
        PROVE  objects'[eraser.at] \subseteq eraser.keys \cup missed'[eraser.at]
    <3>1. eraser.at \in Users
      BY <2>1, Running DEF AccountsInv, EraserTrue, Eraser
    <3> QED
      BY <2>1, <3>1 DEF AccountsInv, EraserTrue
  <2> QED
    BY <1>1, <2>1 DEF AccountsInv, EraserTrue, Exists
<1>3. OnlyMissedAudioLeft'
  BY <1>1 DEF AccountsInv, OnlyMissedAudioLeft, Erasing
<1> QED
  BY <1>1, <1>2, <1>3 DEF AccountsInv

\* What is put is missed by a job that has its keys already.
LEMMA PutMoves ==
    ASSUME AccountsInv, NEW u \in Users, NEW piece \in Pieces, Put(u, piece)
    PROVE  /\ objects' \in [Users -> SUBSET Pieces] /\ missed' \in [Users -> SUBSET Pieces]
           /\ \A v \in Users : /\ objects'[v] \subseteq objects[v] \cup missed'[v]
                               /\ missed[v] \subseteq missed'[v]
BY DEF Put, AccountsInv, AccountsTypeOK

LEMMA OpenStreamKeeps ==
    ASSUME AccountsInv, NEW u \in Users, OpenStream(u)
    PROVE  AccountsInv'
<1>1. AccountsTypeOK'
  BY DEF OpenStream, AccountsInv, AccountsTypeOK, identity, erasing
<1> QED
  BY <1>1, AudioMoves DEF OpenStream, erasing

LEMMA SpeakKeeps ==
    ASSUME AccountsInv, NEW u \in Users, Speak(u)
    PROVE  AccountsInv'
<1>1. "chunk" \in Pieces /\ Put(u, "chunk")
      /\ UNCHANGED <<identity, speaking, finalizing, recorded, eraser, audit, deaths>>
  BY DEF Speak, Pieces
<1>2. AccountsTypeOK'
  BY <1>1, PutMoves DEF AccountsInv, AccountsTypeOK, identity
<1> QED
  BY <1>1, <1>2, PutMoves, AudioMoves

LEMMA EndStreamKeeps ==
    ASSUME AccountsInv, NEW u \in Users, EndStream(u)
    PROVE  AccountsInv'
<1>1. AccountsTypeOK'
  BY DEF EndStream, AccountsInv, AccountsTypeOK, Finalize, identity, erasing
<1> QED
  BY <1>1, AudioMoves DEF EndStream, erasing

LEMMA StoreMainKeeps ==
    ASSUME AccountsInv, NEW u \in Users, StoreMain(u)
    PROVE  AccountsInv'
<1>1. /\ UNCHANGED <<identity, speaking, recorded, eraser, audit, deaths>>
      /\ finalizing' \in [Users -> Finalize]
  BY DEF StoreMain, AccountsInv, AccountsTypeOK, Finalize
<1>2. CASE Put(u, "main")
  <2>1. "main" \in Pieces
    BY DEF Pieces
  <2>2. AccountsTypeOK'
    BY <1>1, <1>2, <2>1, PutMoves DEF AccountsInv, AccountsTypeOK, identity
  <2> QED
    BY <1>1, <1>2, <2>1, <2>2, PutMoves, AudioMoves
<1>3. CASE UNCHANGED <<objects, missed>>
  <2>1. AccountsTypeOK'
    BY <1>1, <1>3 DEF AccountsInv, AccountsTypeOK, identity
  <2> QED
    BY <1>1, <1>3, <2>1, AudioMoves
<1> QED
  BY <1>2, <1>3 DEF StoreMain

LEMMA ClearKeeps ==
    ASSUME AccountsInv, NEW u \in Users, Clear(u)
    PROVE  AccountsInv'
<1>1. AccountsTypeOK'
  BY DEF Clear, AccountsInv, AccountsTypeOK, Finalize, identity, erasing
<1>2. \A v \in Users : objects'[v] \subseteq objects[v]
  BY DEF Clear, AccountsInv, AccountsTypeOK
<1> QED
  BY <1>1, <1>2, AudioMoves DEF Clear, erasing

LEMMA RecordKeeps ==
    ASSUME AccountsInv, NEW u \in Users, Record(u)
    PROVE  AccountsInv'
<1>1. recorded' \in [Users -> BOOLEAN]
  BY DEF Record, AccountsInv, AccountsTypeOK, Exists
<1>2. AccountsTypeOK'
  BY <1>1 DEF Record, AccountsInv, AccountsTypeOK, Finalize, identity, erasing
<1> QED
  BY <1>2, AudioMoves DEF Record, erasing

-----------------------------------------------------------------------------
(* Accounts: the job *)

LEMMA FindDueKeeps ==
    ASSUME AccountsInv, FindDue
    PROVE  AccountsInv'
<1>1. /\ eraser = Idle /\ eraser' = [stage |-> "next", due |-> Due, at |-> None, keys |-> {}]
      /\ UNCHANGED <<identity, voice, audit, deaths, missed>>
  BY DEF FindDue
<1>2. IdentityInv' /\ users' = users
  BY <1>1, IdentityRests
<1>3. AccountsTypeOK'
  BY <1>1 DEF AccountsInv, AccountsTypeOK, identity, voice, Eraser, Due
<1>4. EraserTrue' /\ OnlyMissedAudioLeft'
  BY <1>1, <1>2 DEF AccountsInv, EraserTrue, OnlyMissedAudioLeft, Exists, Erasing, Due, voice
<1> QED
  BY <1>2, <1>3, <1>4 DEF AccountsInv

\* The keys and what they cannot reach are all the audio there is.
LEMMA KeysReach ==
    ASSUME AccountsInv, NEW u \in Users, NEW listed \in BOOLEAN
    PROVE  /\ KeysOf(u, listed) \in SUBSET Pieces /\ OutOfReach(u, listed) \in SUBSET Pieces
           /\ objects[u] \subseteq KeysOf(u, listed) \cup OutOfReach(u, listed)
BY DEF KeysOf, OutOfReach, Pieces, AccountsInv, AccountsTypeOK

LEMMA CollectKeeps ==
    ASSUME AccountsInv, Collect
    PROVE  AccountsInv'
<1>1. PICK u \in eraser.due, listed \in BOOLEAN :
        /\ eraser' = [eraser EXCEPT !.stage = "delete", !.at = u, !.keys = KeysOf(u, listed)]
        /\ missed' = [missed EXCEPT ![u] = OutOfReach(u, listed)]
        /\ deaths' = IF listed THEN deaths ELSE deaths + 1
  BY DEF Collect
<1>2. /\ eraser \in Eraser /\ eraser # Idle /\ eraser.stage = "next" /\ eraser.at = None
      /\ u \in Users /\ UNCHANGED <<identity, voice, audit>>
  BY <1>1, Running DEF Collect, AccountsInv, EraserTrue, Eraser
<1>3. IdentityInv' /\ users' = users
  BY <1>2, IdentityRests
<1> DEFINE keys == KeysOf(u, listed)
           out == OutOfReach(u, listed)
<1>4. keys \in SUBSET Pieces /\ out \in SUBSET Pieces /\ objects[u] \subseteq keys \cup out
  BY <1>2, KeysReach
<1>5. eraser' = [eraser EXCEPT !.stage = "delete", !.at = u, !.keys = keys]
      /\ missed' = [missed EXCEPT ![u] = out]
  BY <1>1
<1> HIDE DEF keys, out
<1>6. /\ eraser' \in Eraser /\ eraser'.stage = "delete" /\ eraser'.at = u /\ eraser'.due = eraser.due
      /\ eraser'.keys = keys
  BY <1>2, <1>4, <1>5 DEF Eraser
<1>7. /\ missed' \in [Users -> SUBSET Pieces] /\ missed'[u] = out
      /\ \A v \in Users : v # u => missed'[v] = missed[v]
  BY <1>2, <1>4, <1>5 DEF AccountsInv, AccountsTypeOK
<1>8. AccountsTypeOK'
  BY <1>1, <1>2, <1>6, <1>7, AccountsAssumption DEF AccountsInv, AccountsTypeOK, identity, voice
<1>9. Exists(u)
  BY <1>1, <1>2 DEF AccountsInv, EraserTrue
<1>10. EraserTrue'
  BY <1>1, <1>2, <1>3, <1>4, <1>6, <1>7 DEF AccountsInv, EraserTrue, Exists, voice
<1>11. OnlyMissedAudioLeft'
  BY <1>2, <1>3, <1>6, <1>7, <1>9, AccountsAssumption
  DEF AccountsInv, OnlyMissedAudioLeft, Erasing, Idle, Exists, voice
<1> QED
  BY <1>3, <1>8, <1>10, <1>11 DEF AccountsInv

LEMMA EraseRowKeeps ==
    ASSUME AccountsInv, EraseRow
    PROVE  AccountsInv'
<1> DEFINE u == eraser.at
           new == [NoUser EXCEPT !.row = "erased"]
<1>1. /\ eraser \in Eraser /\ eraser # Idle /\ eraser.stage = "delete" /\ u \in eraser.due /\ u \in Users
  BY Running DEF EraseRow, AccountsInv, EraserTrue, Eraser
<1>2. /\ users' = [users EXCEPT ![u] = new] /\ grants' = [grants EXCEPT ![u] = 0]
      /\ eraser' = [eraser EXCEPT !.stage = "objects"]
      /\ audit' = [audit EXCEPT ![u] = @ + 1]
      /\ recorded' = [recorded EXCEPT ![u] = FALSE]
      /\ UNCHANGED <<sessions, signin, speaking, finalizing, objects, deaths, missed>>
  BY DEF EraseRow, WriteAuditEvent
<1>3. /\ new \in User /\ new.row = "erased" /\ new.email = None /\ new.kakao = None /\ new.apple = None
  BY DEF NoUser, User, Emails
<1>4. /\ eraser' \in Eraser /\ eraser'.stage = "objects" /\ eraser'.at = u /\ eraser'.due = eraser.due
      /\ eraser'.keys = eraser.keys
  BY <1>1, <1>2 DEF Eraser
<1>5. \A v \in Users : users'[v] = IF v = u THEN new ELSE users[v]
  BY <1>2 DEF AccountsInv, AccountsTypeOK
<1> HIDE DEF new, u
<1>6. AccountsTypeOK'
  BY <1>1, <1>2, <1>3, <1>4 DEF AccountsInv, AccountsTypeOK
<1>7. RowsTrue'
  BY <1>1, <1>2, <1>3, <1>5 DEF AccountsInv, AccountsTypeOK, IdentityInv, RowsTrue, OfCallback
<1>8. CallbacksTrue'
  <2>1. \A v \in Users : Known(v) => Known(v)'
    BY <1>3, <1>5 DEF Known, OfCallback
  <2> QED
    BY <1>2, <2>1 DEF AccountsInv, IdentityInv, CallbacksTrue, Known, OfCallback
<1>9. EraserTrue'
  BY <1>1, <1>2, <1>4, <1>5 DEF AccountsInv, EraserTrue, Exists, Eraser, u
<1>10. OnlyMissedAudioLeft'
  BY <1>1, <1>2, <1>4, <1>5 DEF AccountsInv, OnlyMissedAudioLeft, Erasing, Idle, u
<1> QED
  BY <1>6, <1>7, <1>8, <1>9, <1>10 DEF AccountsInv, IdentityInv

LEMMA EraseObjectsKeeps ==
    ASSUME AccountsInv, EraseObjects
    PROVE  AccountsInv'
<1> DEFINE u == eraser.at
<1>1. PICK kept \in SUBSET eraser.keys :
        /\ objects' = [objects EXCEPT ![u] = @ \ (eraser.keys \ kept)]
        /\ missed' = [missed EXCEPT ![u] = @ \cup kept]
        /\ deaths' = IF kept = {} THEN deaths ELSE deaths + 1
  BY DEF EraseObjects
<1>2. /\ eraser \in Eraser /\ eraser # Idle /\ eraser.stage = "objects" /\ u \in Users
      /\ eraser' = [eraser EXCEPT !.stage = "next", !.due = @ \ {u}, !.at = None, !.keys = {}]
      /\ UNCHANGED <<identity, speaking, finalizing, recorded, audit>>
  BY Running DEF EraseObjects, AccountsInv, EraserTrue
<1>3. IdentityInv' /\ users' = users
  BY <1>2, IdentityRests
<1>4. eraser' \in Eraser /\ eraser'.stage = "next" /\ eraser'.at = None /\ eraser'.due = eraser.due \ {u}
  BY <1>2 DEF Eraser
<1>5. kept \subseteq Pieces
  BY <1>2 DEF Eraser
<1>6. AccountsTypeOK'
  BY <1>1, <1>2, <1>4, <1>5 DEF AccountsInv, AccountsTypeOK, identity
<1>7. EraserTrue'
  BY <1>2, <1>3, <1>4 DEF AccountsInv, EraserTrue, Exists
<1>8. OnlyMissedAudioLeft'
  <2>1. objects'[u] = objects[u] \ (eraser.keys \ kept) /\ missed'[u] = missed[u] \cup kept
    BY <1>1, <1>2 DEF AccountsInv, AccountsTypeOK
  <2>2. objects[u] \subseteq eraser.keys \cup missed[u]
    BY <1>2 DEF AccountsInv, EraserTrue
  <2>3. objects'[u] \subseteq missed'[u]
    BY <2>1, <2>2
  <2>4. \A v \in Users : v # u => /\ objects'[v] = objects[v] /\ ~Erasing(v)
                                  /\ missed'[v] = missed[v]
    BY <1>1, <1>2 DEF AccountsInv, AccountsTypeOK, Erasing
  <2> QED
    BY <1>3, <2>3, <2>4 DEF AccountsInv, OnlyMissedAudioLeft
<1> QED
  BY <1>3, <1>6, <1>7, <1>8 DEF AccountsInv

\* The job leaves the user it was at, or ends, before a row was deleted.
LEMMA JobLeaves ==
    ASSUME AccountsInv, eraser # Idle, NEW e \in Eraser \cup {Idle}, eraser' = e,
           e # Idle => e.stage = "next" /\ e.at = None /\ e.due = eraser.due \ {eraser.at},
           missed' \in [Users -> SUBSET Pieces], deaths' \in Nat,
           \A u \in Users : missed[u] \subseteq missed'[u],
           eraser.stage = "objects" => eraser.keys \subseteq missed'[eraser.at],
           UNCHANGED <<identity, voice, audit>>
    PROVE  AccountsInv'
<1>1. IdentityInv' /\ users' = users
  BY IdentityRests
<1>2. AccountsTypeOK'
  BY DEF AccountsInv, AccountsTypeOK, identity, voice
<1>3. EraserTrue'
  BY <1>1, Running DEF AccountsInv, EraserTrue, Exists
<1>4. OnlyMissedAudioLeft'
  <2> SUFFICES ASSUME NEW u \in Users, users[u].row = "erased"
               PROVE  objects[u] \subseteq missed'[u]
    BY <1>1 DEF OnlyMissedAudioLeft, voice
  <2>1. CASE ~Erasing(u)
    <3>1. objects[u] \subseteq missed[u]
      BY <2>1 DEF AccountsInv, OnlyMissedAudioLeft
    <3> QED
      BY <3>1
  <2>2. CASE Erasing(u)
    <3>1. eraser.at = u /\ eraser.stage = "objects"
      BY <2>2, AccountsAssumption, Running DEF AccountsInv, EraserTrue, Erasing, Exists, Eraser
    <3>2. objects[u] \subseteq eraser.keys \cup missed[u]
      BY <3>1 DEF AccountsInv, EraserTrue
    <3> QED
      BY <3>1, <3>2
  <2> QED
    BY <2>1, <2>2
<1> QED
  BY <1>1, <1>2, <1>3, <1>4 DEF AccountsInv

LEMMA EndRunKeeps ==
    ASSUME AccountsInv, EndRun
    PROVE  AccountsInv'
BY JobLeaves DEF EndRun, AccountsInv, AccountsTypeOK

LEMMA StumbleKeeps ==
    ASSUME AccountsInv, Stumble
    PROVE  AccountsInv'
<1> DEFINE e == [eraser EXCEPT !.stage = "next", !.due = @ \ {eraser.at}, !.at = None, !.keys = {}]
<1>1. eraser \in Eraser /\ eraser # Idle /\ eraser.stage = "delete" /\ eraser' = e
  BY Running DEF Stumble, AccountsInv
<1>2. e \in Eraser /\ e.stage = "next" /\ e.at = None /\ e.due = eraser.due \ {eraser.at}
  BY <1>1 DEF Eraser
<1>3. missed' = missed /\ missed' \in [Users -> SUBSET Pieces] /\ deaths' \in Nat
  BY AccountsAssumption DEF Stumble, AccountsInv, AccountsTypeOK
<1> HIDE DEF e
<1> QED
  BY <1>1, <1>2, <1>3, JobLeaves DEF Stumble

LEMMA DieKeeps ==
    ASSUME AccountsInv, Die
    PROVE  AccountsInv'
<1>1. eraser # Idle /\ eraser' = Idle /\ deaths' \in Nat /\ UNCHANGED <<identity, voice, audit>>
  BY AccountsAssumption DEF Die, AccountsInv, AccountsTypeOK
<1>2. /\ missed' \in [Users -> SUBSET Pieces]
      /\ \A u \in Users : missed[u] \subseteq missed'[u]
      /\ eraser.stage = "objects" => eraser.keys \subseteq missed'[eraser.at]
  <2>1. eraser \in Eraser /\ (eraser.stage = "objects" => eraser.at \in Users)
    BY <1>1, Running DEF AccountsInv, EraserTrue
  <2>2. eraser.keys \subseteq Pieces
    BY <2>1 DEF Eraser
  <2> QED
    BY <2>1, <2>2 DEF Die, AccountsInv, AccountsTypeOK
<1> QED
  BY <1>1, <1>2, JobLeaves

-----------------------------------------------------------------------------
(* Accounts: what follows *)

LEMMA AccountsStarts == AccountsInit => AccountsInv
<1> SUFFICES ASSUME AccountsInit PROVE AccountsInv
  OBVIOUS
<1>1. NoUser \in User
  BY DEF NoUser, User, Emails
<1>2. AccountsTypeOK
  BY <1>1 DEF AccountsInit, AccountsTypeOK, Store, Pieces, Finalize
<1>3. IdentityInv
  BY DEF AccountsInit, IdentityInv, RowsTrue, CallbacksTrue, OfCallback, NoUser, Idle
<1>4. EraserTrue /\ OnlyMissedAudioLeft
  BY DEF AccountsInit, EraserTrue, OnlyMissedAudioLeft, NoUser
<1> QED
  BY <1>2, <1>3, <1>4 DEF AccountsInv

LEMMA AccountsSteps == AccountsInv /\ [AccountsNext]_accounts => AccountsInv'
<1> SUFFICES ASSUME AccountsInv, [AccountsNext]_accounts PROVE AccountsInv'
  OBVIOUS
<1>1. ASSUME NEW t \in Handlers, KakaoCallback(t) \/ AppleCallback(t) PROVE AccountsInv'
  BY <1>1, FindBySubjectKeeps DEF KakaoCallback, AppleCallback
<1>2. ASSUME NEW t \in Handlers, TossBridge(t) PROVE AccountsInv'
  BY <1>2, TossBridgeKeeps
<1>3. ASSUME NEW t \in Handlers, SignInStep(t) PROVE AccountsInv'
  BY <1>3, FindByEmailKeeps, AttachKeeps, RefreshKeeps, InsertKeeps, OpenSessionKeeps
     DEF SignInStep
<1>4. ASSUME NEW s \in Sids, Logout(s) PROVE AccountsInv'
  <2>1. sessions' \in Store
    BY <1>4 DEF Logout, AccountsInv, AccountsTypeOK, Store
  <2> QED
    BY <1>4, <2>1, LogoutKeeps DEF Logout
<1>5. ASSUME NEW u \in Users, DeleteMe(u) \/ GraceEnds(u) PROVE AccountsInv'
  BY <1>5, DeleteMeKeeps, GraceEndsKeeps
<1>6. ASSUME NEW u \in Users, OpenStream(u) \/ Speak(u) \/ EndStream(u) \/ FinalizeStep(u)
      PROVE  AccountsInv'
  BY <1>6, OpenStreamKeeps, SpeakKeeps, EndStreamKeeps, StoreMainKeeps, ClearKeeps, RecordKeeps
     DEF FinalizeStep
<1>7. CASE EraserStep
  BY <1>7, FindDueKeeps, CollectKeeps, EraseRowKeeps, EraseObjectsKeeps, EndRunKeeps DEF EraserStep
<1>8. CASE Stumble \/ Die
  BY <1>8, StumbleKeeps, DieKeeps
<1>9. CASE UNCHANGED accounts
  <2>1. sessions' \in Store
    BY <1>9 DEF accounts, identity, AccountsInv, AccountsTypeOK
  <2> QED
    BY <1>9, <2>1, LogoutKeeps DEF accounts, identity
<1> QED
  BY <1>1, <1>2, <1>3, <1>4, <1>5, <1>6, <1>7, <1>8, <1>9 DEF AccountsNext

\* The rows, sessions, callbacks and the job keep their types.
THEOREM AccountsTypeCorrect == AccountsSpec => []AccountsTypeOK
<1>1. AccountsInv => AccountsTypeOK
  BY DEF AccountsInv
<1> QED
  BY <1>1, AccountsStarts, AccountsSteps, PTL DEF AccountsSpec

\* However callbacks, the bridge and deletions race, an account that somebody
\* signed in to with Kakao or Apple has one signup grant, any other has none.
THEOREM GrantsWithAccounts == AccountsSpec => []GrantWithAccount
<1>1. AccountsInv => GrantWithAccount
  BY DEF AccountsInv, IdentityInv, RowsTrue, OfCallback, GrantWithAccount
<1> QED
  BY <1>1, AccountsStarts, AccountsSteps, PTL DEF AccountsSpec

\* Whatever streams and finalize jobs store meanwhile and wherever the hard-delete
\* job dies: of the audio of an erased user only what the job could not remove is
\* left, and all of that is accounted for in missed.
THEOREM OnlyMissedAudioStays == AccountsSpec => []OnlyMissedAudioLeft
<1>1. AccountsInv => OnlyMissedAudioLeft
  BY DEF AccountsInv
<1> QED
  BY <1>1, AccountsStarts, AccountsSteps, PTL DEF AccountsSpec

-----------------------------------------------------------------------------
(* Profiles: what is carried along *)

\* The charts a user owns came with the profile, one with its creation and
\* the others with corrections.
ChartsWithProfile ==
    \A u \in Owners :
        /\ ~profile[u].row => OwnCharts(u) = {}
        /\ profile[u].row /\ profile[u].count = 0 => OwnCharts(u) \subseteq {profile[u].chart}

\* A chart that some request or profile relies on is on file, or was erased
\* with its owner.
OnFile == {h \in Inputs : chart[h] # Null \/ h \in lost}

ReliedOn ==
    /\ \A u \in Owners : profile[u].row => profile[u].chart \in OnFile
    /\ \A f \in Forms : FormAt(f, "reuse") => form[f].input \in OnFile

\* A correction on its way was below the quota when it read the count.
BelowQuota ==
    \A f \in Forms : form[f] # NoForm /\ form[f].kind = "correct" => form[f].count < MAX_CORRECTIONS

ProfilesInv == ProfilesTypeOK /\ ChartsWithProfile /\ ReliedOn /\ BelowQuota

-----------------------------------------------------------------------------
(* Profiles: the requests *)

\* A request that reads, or leaves: the tables stay as they are.
LEMMA FormMoves ==
    ASSUME ProfilesInv, NEW f \in Forms, NEW n \in Form \cup {NoForm},
           form' = [form EXCEPT ![f] = n],
           n # NoForm /\ n.stage = "reuse" => n.input \in OnFile,
           n # NoForm /\ n.kind = "correct" => n.count < MAX_CORRECTIONS,
           UNCHANGED <<account, profile, chart, accepted, lost>>
    PROVE  ProfilesInv'
<1>1. ProfilesTypeOK'
  BY DEF ProfilesInv, ProfilesTypeOK
<1>2. ChartsWithProfile'
  BY DEF ProfilesInv, ChartsWithProfile, OwnCharts
<1>3. ReliedOn' /\ BelowQuota'
  BY DEF ProfilesInv, ProfilesTypeOK, ReliedOn, BelowQuota, FormAt, OnFile
<1> QED
  BY <1>1, <1>2, <1>3 DEF ProfilesInv

LEMMA CreateProfileKeeps ==
    ASSUME ProfilesInv, NEW f \in Forms, NEW u \in Owners, NEW h \in Inputs, CreateProfile(f, u, h)
    PROVE  ProfilesInv'
<1> DEFINE n == [stage |-> "look", kind |-> "create", user |-> u, input |-> h, count |-> 0]
<1>1. n \in Form /\ n.stage = "look" /\ n.kind = "create"
  BY ProfilesAssumption DEF Form
<1>2. form' = [form EXCEPT ![f] = n]
  BY DEF CreateProfile
<1> HIDE DEF n
<1> QED
  BY <1>1, <1>2, FormMoves DEF CreateProfile

LEMMA CorrectProfileKeeps ==
    ASSUME ProfilesInv, NEW f \in Forms, NEW u \in Owners, NEW h \in Inputs, CorrectProfile(f, u, h)
    PROVE  ProfilesInv'
<1> DEFINE n == [stage |-> "look", kind |-> "correct", user |-> u, input |-> h,
                 count |-> profile[u].count]
<1>1. profile[u].count \in 0 .. MAX_CORRECTIONS /\ profile[u].count < MAX_CORRECTIONS
  BY DEF ProfilesInv, ProfilesTypeOK, Profile, CorrectProfile
<1>2. n \in Form /\ n.stage = "look" /\ n.count < MAX_CORRECTIONS
  BY <1>1 DEF Form
<1>3. form' = [form EXCEPT ![f] = n]
  BY DEF CorrectProfile
<1> HIDE DEF n
<1> QED
  BY <1>2, <1>3, FormMoves DEF CorrectProfile

LEMMA LookUpChartKeeps ==
    ASSUME ProfilesInv, NEW f \in Forms, LookUpChart(f)
    PROVE  ProfilesInv'
<1> DEFINE stage == IF chart[form[f].input] = Null THEN "insert" ELSE "reuse"
           n == [form[f] EXCEPT !.stage = stage]
<1>1. form[f] \in Form /\ form[f] # NoForm
  BY DEF LookUpChart, FormAt, ProfilesInv, ProfilesTypeOK
<1>2. /\ n \in Form /\ n.input = form[f].input /\ n.kind = form[f].kind /\ n.count = form[f].count
      /\ n.input \in Inputs
      /\ n.stage = "reuse" => chart[n.input] # Null
  BY <1>1 DEF Form
<1>3. form' = [form EXCEPT ![f] = n]
  BY DEF LookUpChart
<1>4. n.kind = "correct" => n.count < MAX_CORRECTIONS
  BY <1>1, <1>2 DEF ProfilesInv, BelowQuota
<1> HIDE DEF n
<1> QED
  BY <1>2, <1>3, <1>4, FormMoves DEF LookUpChart, OnFile

\* What a commit writes, when it is not refused.
LEMMA WrittenRow ==
    ASSUME ProfilesInv, NEW f \in Forms, form[f] # NoForm, ~Refused(f)
    PROVE  /\ Written(f) \in Profile
           /\ Written(f).row /\ Written(f).chart = form[f].input
           /\ form[f].kind # "create" => Written(f).count # 0
<1>1. form[f] \in Form /\ profile[form[f].user] \in Profile
  BY DEF ProfilesInv, ProfilesTypeOK, Form
<1>2. CASE form[f].kind = "create"
  <2> DEFINE w == [NoProfile EXCEPT !.row = TRUE, !.chart = form[f].input]
  <2>1. NoProfile \in Profile
    BY ProfilesAssumption DEF NoProfile, Profile
  <2>2. w \in Profile /\ w.row /\ w.chart = form[f].input
    BY <1>1, <2>1 DEF Profile, Form
  <2>3. Written(f) = w
    BY <1>2 DEF Written
  <2> QED
    BY <1>2, <2>2, <2>3
<1>3. CASE form[f].kind # "create"
  <2> DEFINE p == profile[form[f].user]
             k == form[f].count + 1
             w == [p EXCEPT !.chart = form[f].input, !.count = k]
  <2>1. form[f].kind = "correct" /\ form[f].count \in 0 .. MAX_CORRECTIONS
    BY <1>1, <1>3 DEF Form
  <2>2. k \in 0 .. MAX_CORRECTIONS /\ k # 0
    BY <2>1, ProfilesAssumption DEF ProfilesInv, BelowQuota
  <2>3. p.row /\ p \in Profile
    BY <1>1, <1>3 DEF Refused, Profile
  <2>4. Written(f) = w
    BY <1>3 DEF Written
  <2> HIDE DEF p, k
  <2>5. w \in Profile /\ w.row /\ w.chart = form[f].input /\ w.count # 0
    BY <1>1, <2>2, <2>3 DEF Profile, Form
  <2> QED
    BY <2>4, <2>5
<1> QED
  BY <1>2, <1>3

LEMMA CommitFormKeeps ==
    ASSUME ProfilesInv, NEW f \in Forms, CommitForm(f)
    PROVE  ProfilesInv'
<1> DEFINE u == form[f].user
           h == form[f].input
           w == Written(f)
<1>1. /\ form[f] \in Form /\ form[f] # NoForm /\ form[f].stage \in {"insert", "reuse"}
      /\ u \in Owners /\ h \in Inputs
  BY DEF CommitForm, FormAt, ProfilesInv, ProfilesTypeOK, Form
<1>2. form' = [form EXCEPT ![f] = NoForm] /\ UNCHANGED <<account, lost>>
  BY DEF CommitForm, Leave
<1>3. CASE Refused(f)
  BY <1>2, <1>3, FormMoves DEF CommitForm
<1>4. CASE ~Refused(f)
  <2>1. /\ profile' = [profile EXCEPT ![u] = w]
        /\ chart' = IF form[f].stage = "reuse" THEN chart ELSE [chart EXCEPT ![h] = u]
        /\ accepted' = IF form[f].kind = "create" THEN accepted ELSE [accepted EXCEPT ![u] = @ + 1]
    BY <1>4 DEF CommitForm
  <2>2. /\ w \in Profile /\ w.row /\ w.chart = h
        /\ form[f].kind # "create" => w.count # 0
    BY <1>1, <1>4, WrittenRow
  <2> HIDE DEF w
  <2>3. form[f].stage = "insert" => chart[h] = Null
    BY <1>4 DEF Refused
  <2>4. form[f].kind = "create" => OwnCharts(u) = {}
    BY <1>1, <1>4 DEF Refused, ProfilesInv, ChartsWithProfile
  <2>5. ProfilesTypeOK'
    BY <1>1, <1>2, <2>1, <2>2 DEF ProfilesInv, ProfilesTypeOK, Chart
  <2>6. OnFile \subseteq OnFile'
    BY <1>1, <1>2, <2>1, ProfilesAssumption DEF OnFile, ProfilesInv, ProfilesTypeOK
  <2>7. h \in OnFile'
    <3>1. CASE form[f].stage = "insert"
      BY <1>1, <2>1, <3>1, ProfilesAssumption DEF OnFile, ProfilesInv, ProfilesTypeOK
    <3>2. CASE form[f].stage = "reuse"
      BY <1>1, <2>6, <3>2 DEF ProfilesInv, ReliedOn, FormAt
    <3> QED
      BY <1>1, <3>1, <3>2
  <2>8. ReliedOn'
    <3>1. ASSUME NEW v \in Owners, profile'[v].row
          PROVE  profile'[v].chart \in OnFile'
      <4>1. CASE v = u
        BY <1>1, <2>1, <2>2, <2>7, <4>1 DEF ProfilesInv, ProfilesTypeOK
      <4>2. CASE v # u
        <5>1. profile'[v] = profile[v]
          BY <1>1, <2>1, <4>2 DEF ProfilesInv, ProfilesTypeOK
        <5>2. profile[v].chart \in OnFile
          BY <3>1, <5>1 DEF ProfilesInv, ReliedOn
        <5> QED
          BY <2>6, <5>1, <5>2
      <4> QED
        BY <4>1, <4>2
    <3>2. ASSUME NEW g \in Forms, FormAt(g, "reuse")'
          PROVE  form'[g].input \in OnFile'
      <4>1. form'[g] = form[g] /\ FormAt(g, "reuse")
        BY <1>2, <3>2 DEF FormAt, ProfilesInv, ProfilesTypeOK, Form
      <4>2. form[g].input \in OnFile
        BY <4>1 DEF ProfilesInv, ReliedOn
      <4> QED
        BY <2>6, <4>1, <4>2
    <3> QED
      BY <3>1, <3>2 DEF ReliedOn
  <2>9. ChartsWithProfile'
    <3> SUFFICES ASSUME NEW v \in Owners
                 PROVE  /\ ~profile'[v].row => OwnCharts(v)' = {}
                        /\ profile'[v].row /\ profile'[v].count = 0 =>
                               OwnCharts(v)' \subseteq {profile'[v].chart}
      BY DEF ChartsWithProfile, OwnCharts
    <3>1. CASE v # u
      <4>1. profile'[v] = profile[v]
        BY <1>1, <2>1, <3>1 DEF ProfilesInv, ProfilesTypeOK
      <4>2. OwnCharts(v)' \subseteq OwnCharts(v)
        BY <1>1, <2>1, <3>1 DEF OwnCharts, ProfilesInv, ProfilesTypeOK
      <4> QED
        BY <4>1, <4>2 DEF ProfilesInv, ChartsWithProfile
    <3>2. CASE v = u
      <4>1. profile'[v] = w
        BY <1>1, <2>1, <3>2 DEF ProfilesInv, ProfilesTypeOK
      <4>2. OwnCharts(v)' \subseteq OwnCharts(v) \cup {h}
        BY <1>1, <2>1, <3>2 DEF OwnCharts, ProfilesInv, ProfilesTypeOK
      <4> QED
        BY <2>2, <2>4, <3>2, <4>1, <4>2
    <3> QED
      BY <3>1, <3>2
  <2>10. BelowQuota'
    BY <1>2 DEF ProfilesInv, ProfilesTypeOK, BelowQuota
  <2> QED
    BY <2>5, <2>8, <2>9, <2>10 DEF ProfilesInv
<1> QED
  BY <1>3, <1>4

-----------------------------------------------------------------------------
(* Profiles: deletion *)

LEMMA DeleteOwnerKeeps ==
    ASSUME ProfilesInv, NEW u \in Owners, DeleteOwner(u)
    PROVE  ProfilesInv'
<1> DEFINE d == [profile[u] EXCEPT !.deleted = @ \/ profile[u].row]
<1>1. profile[u] \in Profile
  BY DEF ProfilesInv, ProfilesTypeOK
<1>2. /\ d \in Profile /\ d.row = profile[u].row /\ d.chart = profile[u].chart
      /\ d.count = profile[u].count
  BY <1>1 DEF Profile
<1>3. profile' = [profile EXCEPT ![u] = d] /\ account' = [account EXCEPT ![u] = "deleted"]
  BY DEF DeleteOwner
<1>4. UNCHANGED <<chart, form, accepted, lost>>
  BY DEF DeleteOwner
<1> HIDE DEF d
<1>5. ProfilesTypeOK'
  BY <1>2, <1>3, <1>4 DEF ProfilesInv, ProfilesTypeOK
<1>6. \A v \in Owners : /\ profile'[v].row = profile[v].row
                        /\ profile'[v].chart = profile[v].chart
                        /\ profile'[v].count = profile[v].count
  BY <1>2, <1>3 DEF ProfilesInv, ProfilesTypeOK
<1>7. ChartsWithProfile' /\ ReliedOn' /\ BelowQuota'
  BY <1>4, <1>6 DEF ProfilesInv, ChartsWithProfile, OwnCharts, ReliedOn, OnFile, FormAt, BelowQuota
<1> QED
  BY <1>5, <1>7 DEF ProfilesInv

LEMMA EraseOwnerKeeps ==
    ASSUME ProfilesInv, NEW u \in Owners, EraseOwner(u)
    PROVE  ProfilesInv'
<1>1. /\ account' = [account EXCEPT ![u] = "erased"]
      /\ profile' = [profile EXCEPT ![u] = NoProfile]
      /\ chart' = [h \in Inputs |-> IF chart[h] = u THEN Null ELSE chart[h]]
      /\ lost' = lost \cup OwnCharts(u)
      /\ UNCHANGED <<form, accepted>>
  BY DEF EraseOwner
<1>2. NoProfile \in Profile /\ ~NoProfile.row
  BY ProfilesAssumption DEF NoProfile, Profile
<1>3. ProfilesTypeOK'
  BY <1>1, <1>2 DEF ProfilesInv, ProfilesTypeOK, Chart, OwnCharts
<1>4. OnFile \subseteq OnFile'
  BY <1>1 DEF OnFile, OwnCharts
<1>5. \A v \in Owners : OwnCharts(v)' = IF v = u THEN {} ELSE OwnCharts(v)
  BY <1>1, ProfilesAssumption DEF OwnCharts
<1>6. \A v \in Owners : profile'[v] = IF v = u THEN NoProfile ELSE profile[v]
  BY <1>1 DEF ProfilesInv, ProfilesTypeOK
<1>7. ChartsWithProfile'
  BY <1>2, <1>5, <1>6 DEF ProfilesInv, ChartsWithProfile, OwnCharts
<1>8. ReliedOn'
  <2>1. ASSUME NEW v \in Owners, profile'[v].row
        PROVE  profile'[v].chart \in OnFile'
    BY <1>2, <1>4, <1>6, <2>1 DEF ProfilesInv, ReliedOn
  <2>2. ASSUME NEW g \in Forms, FormAt(g, "reuse")'
        PROVE  form'[g].input \in OnFile'
    <3>1. form'[g] = form[g] /\ FormAt(g, "reuse")
      BY <1>1, <2>2 DEF FormAt, ProfilesInv, ProfilesTypeOK, Form
    <3>2. form[g].input \in OnFile
      BY <3>1 DEF ProfilesInv, ReliedOn
    <3> QED
      BY <1>4, <3>1, <3>2
  <2> QED
    BY <2>1, <2>2 DEF ReliedOn
<1>9. BelowQuota'
  BY <1>1 DEF ProfilesInv, BelowQuota
<1> QED
  BY <1>3, <1>7, <1>8, <1>9 DEF ProfilesInv

-----------------------------------------------------------------------------
(* Profiles: the invariant, and what follows from it *)

LEMMA ProfilesStarts == ProfilesInit => ProfilesInv
<1> SUFFICES ASSUME ProfilesInit PROVE ProfilesInv
  OBVIOUS
<1>1. ProfilesTypeOK
  BY ProfilesAssumption DEF ProfilesInit, ProfilesTypeOK, Profile, NoProfile, Chart
<1>2. ChartsWithProfile
  BY ProfilesAssumption DEF ProfilesInit, ChartsWithProfile, OwnCharts, NoProfile
<1>3. ReliedOn /\ BelowQuota
  BY DEF ProfilesInit, ReliedOn, BelowQuota, FormAt, NoProfile
<1> QED
  BY <1>1, <1>2, <1>3 DEF ProfilesInv

LEMMA ProfilesSteps == ProfilesInv /\ [ProfilesNext]_profiles => ProfilesInv'
<1> SUFFICES ASSUME ProfilesInv, [ProfilesNext]_profiles PROVE ProfilesInv'
  OBVIOUS
<1>1. ASSUME NEW f \in Forms, NEW u \in Owners, NEW h \in Inputs,
             CreateProfile(f, u, h) \/ CorrectProfile(f, u, h)
      PROVE  ProfilesInv'
  BY <1>1, CreateProfileKeeps, CorrectProfileKeeps
<1>2. ASSUME NEW f \in Forms, LookUpChart(f) \/ CommitForm(f) PROVE ProfilesInv'
  BY <1>2, LookUpChartKeeps, CommitFormKeeps
<1>3. ASSUME NEW u \in Owners, DeleteOwner(u) \/ EraseOwner(u) PROVE ProfilesInv'
  BY <1>3, DeleteOwnerKeeps, EraseOwnerKeeps
<1>4. CASE UNCHANGED profiles
  BY <1>4 DEF profiles, ProfilesInv, ProfilesTypeOK, ChartsWithProfile, OwnCharts, ReliedOn, OnFile,
     FormAt, BelowQuota
<1> QED
  BY <1>1, <1>2, <1>3, <1>4 DEF ProfilesNext

\* The tables and the requests at work on them keep their types: no count of
\* corrections, however lost its increments, is ever written above the quota.
THEOREM ProfilesTypeCorrect == ProfilesSpec => []ProfilesTypeOK
<1>1. ProfilesInv => ProfilesTypeOK
  BY DEF ProfilesInv
<1> QED
  BY <1>1, ProfilesStarts, ProfilesSteps, PTL DEF ProfilesSpec

\* For any number of users who share charts, a profile that was never corrected
\* is answered with the chart of its own birth data or with none.
THEOREM FreshProfilesServeTheirChart == ProfilesSpec => []FreshProfileServesItsChart
<1>1. ProfilesInv => FreshProfileServesItsChart
  BY DEF ProfilesInv, ChartsWithProfile, FreshProfileServesItsChart, Served
<1> QED
  BY <1>1, ProfilesStarts, ProfilesSteps, PTL DEF ProfilesSpec

\* The chart of a profile is in the table, unless another user owned it and was
\* erased.
THEOREM ProfileChartsOnFile == ProfilesSpec => []ProfileChartOnFile
<1>1. ProfilesInv => ProfileChartOnFile
  BY DEF ProfilesInv, ReliedOn, OnFile, ProfileChartOnFile
<1> QED
  BY <1>1, ProfilesStarts, ProfilesSteps, PTL DEF ProfilesSpec

\* Each step of the run on the small instances is a step of at most one of the
\* modules: the tables, sessions and requests of accounts and profiles keep their
\* types.
THEOREM MembersTypeCorrect == Spec => []TypeOK
<1>1. Init => AccountsInv /\ ProfilesInv
  BY AccountsStarts, ProfilesStarts DEF Init
<1>2. [Next]_vars => [AccountsNext]_accounts /\ [ProfilesNext]_profiles
  BY DEF Next, AccountsStep, ProfilesStep, SubsStep, AudioStep, vars
<1>3. AccountsInv /\ ProfilesInv /\ [Next]_vars => (AccountsInv /\ ProfilesInv)'
  BY <1>2, AccountsSteps, ProfilesSteps
<1>4. AccountsInv /\ ProfilesInv => TypeOK
  BY DEF AccountsInv, IdentityInv, ProfilesInv, TypeOK
<1>. QED BY <1>1, <1>3, <1>4, PTL DEF Spec
=============================================================================
