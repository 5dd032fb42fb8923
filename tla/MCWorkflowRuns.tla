--------------------------- MODULE MCWorkflowRuns ---------------------------
(***************************************************************************)
(* Instances of WorkflowRuns for TLC: the workflow                         *)
(*                                                                         *)
(*     trigger - hello - listen - matched - thanks - (end)                 *)
(*                          \---- timeout - nap - again - out              *)
(*                                                                         *)
(* with two emails on different branches of a wait, a nap and an exit.     *)
(***************************************************************************)
EXTENDS OneWorker, TLC

CONSTANTS w1, w2, a1, r1, r2, r3, r4, c1, c2

MCSteps == {"trigger", "hello", "listen", "thanks", "nap", "again", "out"}
MCStepType == [s \in MCSteps |->
    CASE s = "trigger" -> "trigger"
      [] s \in {"hello", "thanks", "again"} -> "send_email"
      [] s = "listen" -> "wait_for_event"
      [] s = "nap" -> "wait_time"
      [] s = "out" -> "exit"]
MCEdges == {<<"trigger", "default", "hello">>, <<"hello", "default", "listen">>,
            <<"listen", "matched", "thanks">>, <<"listen", "timeout", "nap">>,
            <<"nap", "default", "again">>, <<"again", "default", "out">>}
MCEvents == {"enter", "answer", "stop"}
MCAwaits == [s \in MCSteps |-> IF s = "listen" THEN "answer" ELSE None]

(***************************************************************************)
(* A second workflow, for the step types the first one lacks:              *)
(*                                                                         *)
(*     trigger - sort - case - date - tag - old                            *)
(*                  \--- default - check - true - out                      *)
(*                                     \--- false - mail - (end)           *)
(***************************************************************************)
LeadSteps == {"trigger", "sort", "date", "tag", "old", "check", "out", "mail"}
LeadStepType == [s \in LeadSteps |->
    CASE s = "trigger" -> "trigger"
      [] s = "sort" -> "switch"
      [] s = "date" -> "wait_until"
      [] s = "tag" -> "action"
      [] s = "old" -> "unregistered"
      [] s = "check" -> "condition"
      [] s = "out" -> "exit"
      [] s = "mail" -> "send_email"]
LeadEdges == {<<"trigger", "default", "sort">>, <<"sort", "case", "date">>,
              <<"sort", "default", "check">>, <<"date", "default", "tag">>,
              <<"tag", "default", "old">>, <<"check", "true", "out">>,
              <<"check", "false", "mail">>}
LeadAwaits == [s \in LeadSteps |-> None]

\* The first workflow with three more steps behind "thanks": a resumed run uses up
\* a budget of three before its end.
LongSteps == MCSteps \cup {"tag", "more", "last"}
LongStepType == [s \in LongSteps |-> IF s \in MCSteps THEN MCStepType[s] ELSE "action"]
LongEdges == MCEdges \cup {<<"thanks", "default", "tag">>, <<"tag", "default", "more">>,
                        <<"more", "default", "last">>}
LongAwaits == [s \in LongSteps |-> IF s = "listen" THEN "answer" ELSE None]

\* None has a cycle: these ranks grow along every edge.
MCRank == [s \in MCSteps |->
    CASE s = "trigger" -> 0
      [] s = "hello" -> 1
      [] s = "listen" -> 2
      [] s \in {"thanks", "nap"} -> 3
      [] s = "again" -> 4
      [] s = "out" -> 5]
LeadRank == [s \in LeadSteps |->
    CASE s = "trigger" -> 0
      [] s = "sort" -> 1
      [] s \in {"date", "check"} -> 2
      [] s \in {"tag", "out", "mail"} -> 3
      [] s = "old" -> 4]
LongRank == [s \in LongSteps |->
    CASE s \in MCSteps -> MCRank[s]
      [] s = "tag" -> 4
      [] s = "more" -> 5
      [] s = "last" -> 6]

RunSymmetry == Permutations(Runs)
=============================================================================
