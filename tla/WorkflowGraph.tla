--------------------------- MODULE WorkflowGraph ---------------------------
(***************************************************************************)
(* The definition a workflow run walks through: typed steps joined by      *)
(* labelled edges, and what the handler of a step of each type may answer. *)
(* A definition is data edited by its users, so it is a constant here.     *)
(***************************************************************************)
EXTENDS Naturals

CONSTANTS
    Steps,       \* the steps of the workflow
    None,        \* "no step", "no process", ...
    Root,        \* its one trigger step, which is also its entry step
    StepType,    \* the type of each step
    Edges,       \* the edges, as <<from, branch label, to>>
    Events,      \* the event types that reach the dispatcher
    Awaits,      \* the event type that a wait_for_event step listens to
    Troubles     \* the unhappy answers a handler may give in this instance

\* Every branch label; "case" stands for all the cases of a switch.
Labels == {"default", "true", "false", "case", "matched", "timeout"}

\* What a handler may answer.  A label is "go on along this branch"; "sleep" is
\* a wake_at, "listen" a wait_for_event, "exit" an exit_kind; "skipped" goes on
\* along the default branch; "deferred" keeps the step; "failed" is
\* status="failed"; "raise" is an exception of the handler.
EmailAnswers  == {"default", "skipped", "deferred", "failed", "raise"}
TouchAnswers  == {"default", "skipped", "failed", "raise"}
TestAnswers   == {"true", "false", "raise"}
CaseAnswers   == {"case", "default", "raise"}
NapAnswers    == {"sleep", "raise"}
DateAnswers   == {"sleep", "failed", "raise"}
ListenAnswers == {"listen", "failed", "raise"}

\* The handlers by step type; "action" is any that edits the contact, a task, an
\* opportunity or a draft, "unregistered" a type without a handler, which the
\* engine treats like one that raises.
Answers == [
    trigger |-> {}, send_email |-> EmailAnswers, action |-> TouchAnswers,
    condition |-> TestAnswers, switch |-> CaseAnswers, wait_time |-> NapAnswers,
    wait_until |-> DateAnswers, wait_for_event |-> ListenAnswers,
    exit |-> {"exit"}, unregistered |-> {"raise"}]

AllAnswers == Labels \cup {"sleep", "listen", "exit",
                           "skipped", "deferred", "failed", "raise"}

ASSUME GraphAssumption ==
    /\ None \notin Steps \cup Events
    /\ Root \in Steps
    /\ StepType \in [Steps -> DOMAIN Answers]
    /\ Edges \subseteq Steps \X Labels \X Steps
    /\ Awaits \in [Steps -> Events \cup {None}]
    /\ Troubles \subseteq {"skipped", "deferred", "failed", "raise"}

\* The answers of step s that this instance exercises.
AnswersOf(s) ==
    {a \in Answers[StepType[s]] :
        a \in {"skipped", "deferred", "failed", "raise"} => a \in Troubles}

Targets(s, label) == {t \in Steps : <<s, label, t>> \in Edges}

\* The step after s along a branch: the edge with that label, else the default
\* edge, else the end of the workflow.
NextStep(s, label) ==
    IF Targets(s, label) # {} THEN CHOOSE t \in Targets(s, label) : TRUE
    ELSE IF Targets(s, "default") # {}
         THEN CHOOSE t \in Targets(s, "default") : TRUE
         ELSE None
=============================================================================
