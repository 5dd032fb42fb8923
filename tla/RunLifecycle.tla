---------------------------- MODULE RunLifecycle ----------------------------
(***************************************************************************)
(* What the run engine promises about the runs of one workflow, with no    *)
(* word on transactions, steps or workers: a run enters once, ends once    *)
(* with one outcome, and while it lives it may be the only occupant of the *)
(* workflow's place for its contact.  One step is whatever one committed   *)
(* job or request does: it may admit and end several runs.                 *)
(***************************************************************************)
EXTENDS Naturals, FiniteSets

CONSTANTS Runs, Contacts, None

VARIABLES
    life,      \* "none", "live", or the outcome of each run
    occupant,  \* the run that holds the place of each contact, or None
    tally      \* runs admitted, and runs ended with each outcome

Outcomes == {"completed", "cancelled", "failed"}

Init == /\ life = [r \in Runs |-> "none"]
        /\ occupant = [c \in Contacts |-> None]
        /\ tally = [k \in Outcomes \cup {"entered"} |-> 0]

Fresh == {r \in Runs : life[r] = "none"}
Living == {r \in Runs : life[r] = "live"}

\* A job admits some fresh runs and ends some living ones, perhaps at once.  A
\* place is kept, vacated by a run that ends, or taken by a run admitted, but
\* never taken from a run that goes on living.
Job(entering, ending) ==
    /\ entering \subseteq Fresh
    /\ ending \subseteq Living \cup entering
    /\ \E outcome \in [ending -> Outcomes] :
          /\ life' = [r \in Runs |-> IF r \in ending THEN outcome[r]
                                     ELSE IF r \in entering THEN "live" ELSE life[r]]
          /\ tally' = [k \in DOMAIN tally |-> tally[k] +
                 IF k = "entered" THEN Cardinality(entering)
                 ELSE Cardinality({r \in ending : outcome[r] = k})]
    /\ occupant' \in [Contacts -> (entering \ ending) \cup (Living \ ending) \cup {None}]
    /\ \A c \in Contacts :
          \/ occupant'[c] = occupant[c]
          \/ occupant[c] \in ending \cup {None} /\ occupant'[c] \in entering \cup {None}
    /\ \A c, d \in Contacts :
          occupant'[c] = occupant'[d] /\ occupant'[c] # None => c = d

Next == \E entering, ending \in SUBSET Runs : Job(entering, ending)

Spec == Init /\ [][Next]_<<life, occupant, tally>>
=============================================================================
