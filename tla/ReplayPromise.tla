---------------------------- MODULE ReplayPromise ----------------------------
(***************************************************************************)
(* What the replay of a reading promises to a listener, with no storage,   *)
(* queue or worker in sight.  A reading is spoken in takes.  Once there is *)
(* a file it stays there, and once it is recorded it stays recorded; a     *)
(* file has chunks that were spoken, one for each number, and no take of   *)
(* a forbidden length is recorded.  Until takes overlap, or half of one is *)
(* stitched again, a file is a whole take and the record is of that take.  *)
(* ReadingAudio implements it.                                             *)
(***************************************************************************)
EXTENDS Naturals

CONSTANTS Takes, MinTake, MaxTake

VARIABLES spoken,       \* how many chunks of each take there have been
          complete,     \* takes spoken to their end
          file,         \* the chunks one after the other, {} without a file
          record,       \* what is recorded of the file
          disturbed     \* takes have overlapped, or half of one was stitched again

vars == <<spoken, complete, file, record, disturbed>>

NoRecord == [hash |-> {}, size |-> 0, duration |-> 0]

Init == /\ spoken = [t \in Takes |-> 0]
        /\ complete = {}
        /\ file = {}
        /\ record = NoRecord
        /\ disturbed = FALSE

Whole(t)    == {[seq |-> i, take |-> t] : i \in 0 .. spoken[t] - 1}
Playable(f) == /\ f # {} /\ f \subseteq UNION {Whole(t) : t \in Takes}
               /\ \A c, d \in f : c.seq = d.seq => c = d
RecordOf(t) == [hash |-> Whole(t), size |-> spoken[t], duration |-> spoken[t]]

Speak(t) == /\ t \notin complete
            /\ spoken' = [spoken EXCEPT ![t] = @ + 1]
            /\ UNCHANGED <<complete, file, record, disturbed>>

Complete(t) == /\ complete' = complete \cup {t}
               /\ UNCHANGED <<spoken, file, record, disturbed>>

Disturb == /\ disturbed' = TRUE
           /\ UNCHANGED <<spoken, complete, file, record>>

\* A file takes the place of what was there.
Store == /\ Playable(file')
         /\ disturbed \/ \E t \in complete : file' = Whole(t)
         /\ UNCHANGED <<spoken, complete, record, disturbed>>

\* A file, not necessarily the last one, is recorded.
Record == /\ file # {}
          /\ record'.duration \in MinTake .. MaxTake
          /\ disturbed \/ \E t \in complete : file = Whole(t) /\ record' = RecordOf(t)
          /\ UNCHANGED <<spoken, complete, file, disturbed>>

Next == \/ \E t \in Takes : Speak(t) \/ Complete(t)
        \/ Disturb \/ Store \/ Record

Spec == Init /\ [][Next]_vars
=============================================================================
