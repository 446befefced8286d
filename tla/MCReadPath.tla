----------------------------- MODULE MCReadPath -----------------------------
(* Small instances of ReadPath for TLC.  In the first two scenarios two      *)
(* requests at a time, or one for a longer time, meet the counters over a    *)
(* secret that stands still; in the third, with the counters off, one        *)
(* request at a time meets a secret and a KMS that change.                   *)
EXTENDS ReadPath

OneRequest == {CHOOSE q \in Requests : TRUE}

GuessingOrChanging ==
    {[failures |-> 2, requests |-> Requests, ticks |-> 2, events |-> 0],
     [failures |-> 2, requests |-> OneRequest, ticks |-> 4, events |-> 0],
     [failures |-> 0, requests |-> OneRequest, ticks |-> 2, events |-> 3]}
=============================================================================
