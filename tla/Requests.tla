------------------------------ MODULE Requests ------------------------------
(***************************************************************************)
(* What request correlation promises, whatever its tables, tags and timers *)
(* are: requests are numbered as they are made; a request may be waited    *)
(* for from the moment it is made, but not again once it is given up; and  *)
(* it is reported at most once, while it is waited for.  A new request     *)
(* pushes out at most one older one.  Correlation implements this.         *)
(***************************************************************************)
EXTENDS Integers, FiniteSets

VARIABLES
  made,      \* the number of requests made
  waiting,   \* the requests that are waited for
  reported   \* the requests whose answer was reported

vars == <<made, waiting, reported>>

Init == made = 0 /\ waiting = {} /\ reported = {}

\* A new request, which need not be waited for.
Make ==
  /\ made' = made + 1
  /\ waiting' \in SUBSET (waiting \cup {made + 1})
  /\ Cardinality(waiting \ waiting') <= 1
  /\ UNCHANGED reported

\* The answer to request n; others may be given up at the same time.
Report(n) ==
  /\ n \in waiting
  /\ n \notin reported
  /\ reported' = reported \cup {n}
  /\ waiting' \in SUBSET (waiting \ {n})
  /\ UNCHANGED made

GiveUp ==
  /\ waiting' \in SUBSET waiting
  /\ UNCHANGED <<made, reported>>

Next == Make \/ GiveUp \/ \E n \in waiting : Report(n)

Spec == Init /\ [][Next]_vars

=============================================================================
