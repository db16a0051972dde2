------------------------------ MODULE MCMembers ------------------------------
(***************************************************************************)
(* Small instances for TLC of what the database keeps of a member:         *)
(* Accounts, Profiles, Subscriptions and the audio of a reading.  The four *)
(* share no variable, so one run explores them one at a time: the initial  *)
(* state chooses which of them moves.  Accounts is explored twice: once    *)
(* with callbacks that race each other and no audio, once with the audio   *)
(* and one callback at a time.                                             *)
(***************************************************************************)
EXTENDS Accounts, Profiles, Subscriptions, ReadingAudio, TLC

VARIABLE focus

vars == <<accounts, profiles, subscriptions, audio, focus>>

Parts == {"callbacks", "erasure", "profiles", "subscriptions", "audio"}

Init ==
    /\ AccountsInit /\ ProfilesInit /\ SubsInit /\ AudioInit
    /\ focus \in Parts

\* Bounds of "erasure": the callbacks under way at once, and the accounts.
OneCallback == Cardinality({t \in Handlers : signin'[t] # Idle}) <= 1
ReadersOnly == \A u \in Users \ Readers : UNCHANGED users[u]

AccountsStep ==
    /\ UNCHANGED <<profiles, subscriptions, audio, focus>>
    /\ \/ focus = "callbacks" /\ UNCHANGED <<voice, deaths>> /\ AccountsNext
       \/ focus = "erasure" /\ AccountsNext /\ OneCallback /\ ReadersOnly

ProfilesStep ==
    /\ focus = "profiles" /\ ProfilesNext
    /\ UNCHANGED <<accounts, subscriptions, audio, focus>>

SubsStep ==
    /\ focus = "subscriptions" /\ SubsNext
    /\ UNCHANGED <<accounts, profiles, audio, focus>>

AudioStep ==
    /\ focus = "audio" /\ AudioNext
    /\ UNCHANGED <<accounts, profiles, subscriptions, focus>>

Next == AccountsStep \/ ProfilesStep \/ SubsStep \/ AudioStep

Spec == Init /\ [][Next]_vars

\* Every row, session and request of accounts and profiles stays of its type,
\* the count of corrections within its bound among them.
TypeOK == AccountsTypeOK /\ ProfilesTypeOK

Symmetry ==
    Permutations(Handlers) \cup Permutations(Tasks) \cup Permutations(Rows)
=============================================================================
