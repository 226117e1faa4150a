----------------------------- MODULE AssistantWorkflow -----------------------------
(***************************************************************************)
(* The confirmation flow of an assistant answer: workflow_runtime.py moves *)
(* the session of a flow from one state to the next, and the assistant     *)
(* page (copilot.py) offers the user the buttons that do so.  One flow of  *)
(* one browser session; titles, messages, warnings and times are left out. *)
(***************************************************************************)
EXTENDS Integers, Sequences

CONSTANTS
    Flow,         \* the actions of the flow's steps, in their order
    Confirmable,  \* the ones whose step requires a confirmation
    Offerable     \* COPILOT_CONFIRMABLE_ACTION_IDS: the ones the page has a
                  \* confirmation card for

Steps    == DOMAIN Flow
Research == "update_research"
Report   == "create_decision_report"

\* The page offers only what requires a confirmation, the report among it, and
\* no action is without a name.
ASSUME FlowAssumption ==
    /\ Flow \in Seq(STRING)
    /\ Offerable \subseteq Confirmable
    /\ "" \notin Confirmable
    /\ Report \in Offerable

StepStatus    == {"planned", "waiting", "done", "failed", "skipped", "cancelled", "blocked"}
SessionStatus == {"active", "completed", "cancelled", "failed"}
Terminal      == {"done", "failed", "skipped", "cancelled", "blocked"}
ResultStatus  == {"success", "partial_success", "failed", "not_available",
                  "validation_error", "cancelled", "skipped"}
NoStep        == 0

VARIABLES
    session,   \* the workflow session: its status, its active step, its steps
    answered,  \* the actions that have a result in this turn of the chat
    card       \* the action whose confirmation card is open, or ""

workflowVars == <<session, answered, card>>

StepType == [status : StepStatus, result : ResultStatus \cup {""}]
WorkflowTypeOK ==
    /\ session \in [status : SessionStatus, active : Steps \cup {NoStep}, steps : [Steps -> StepType]]
    /\ answered \subseteq Offerable
    /\ card \in Offerable \cup {""}

-----------------------------------------------------------------------------
First(S) == IF S = {} THEN NoStep ELSE CHOOSE i \in S : \A j \in S : i <= j

InState(steps, status) == {i \in Steps : steps[i].status = status}

\* _next_active_step_id, _first_active_step_id
NextActive(steps) == IF InState(steps, "waiting") # {} THEN First(InState(steps, "waiting"))
                     ELSE First(InState(steps, "planned"))

\* _refresh_session_progress
Refreshed(s) ==
    [s EXCEPT !.active = NextActive(s.steps),
              !.status = IF NextActive(s.steps) # NoStep THEN "active"
                         ELSE IF InState(s.steps, "failed") # {} THEN "failed" ELSE "completed"]

\* workflow_session_from_guided_workflow; actions this page cannot take are blocked.
Started(blocked) ==
    LET steps == [i \in Steps |->
            [status |-> IF Flow[i] \in blocked THEN "blocked"
                        ELSE IF Flow[i] \in Confirmable THEN "waiting" ELSE "planned",
             result |-> ""]]
    IN [status |-> IF NextActive(steps) # NoStep THEN "active" ELSE "completed",
        active |-> NextActive(steps), steps |-> steps]

WorkflowInit ==
    /\ \E blocked \in SUBSET {Flow[i] : i \in Steps} : session = Started(blocked)
    /\ answered = {}
    /\ card = ""

\* _runtime_status_from_action_result
StatusOf(result) ==
    CASE result \in {"success", "partial_success"} -> "done"
      [] result \in {"failed", "not_available", "validation_error"} -> "failed"
      [] OTHER -> result

\* _activate_followup_step
Followed(s, action, enabled) ==
    LET open == {i \in Steps : Flow[i] = action /\ s.steps[i].status \notin Terminal}
    IN IF enabled /\ open # {}
       THEN [s EXCEPT !.steps[First(open)].status = "waiting", !.status = "active",
                      !.active = First(open)]
       ELSE Refreshed(s)

\* Fault: the last result alone ends the session.
AppliedThenDone(s, i, result, followup) ==
    LET u == [s EXCEPT !.steps[i] = [status |-> StatusOf(result), result |-> result]]
    IN [u EXCEPT !.status = IF StatusOf(result) = "failed" THEN "failed" ELSE "completed",
                 !.active = NoStep]

\* apply_action_result, with whether the result names the report as its follow-up.
Applied(s, i, result, followup) ==
    LET u == [s EXCEPT !.steps[i] = [status |-> StatusOf(result), result |-> result]]
    IN IF s.steps[i].status = "done" /\ s.steps[i].result = result THEN s
       ELSE IF Flow[i] = Research /\ StatusOf(result) = "done" THEN Followed(u, Report, followup)
       ELSE IF Flow[i] = Report /\ StatusOf(result) = "done"
            THEN [u EXCEPT !.status = "completed", !.active = NoStep]
       ELSE IF StatusOf(result) = "failed" THEN [u EXCEPT !.status = "failed", !.active = NoStep]
       ELSE Refreshed(u)

\* skip_step
Skipped(s, i) ==
    IF s.steps[i].status \in {"done", "skipped", "cancelled", "blocked"} THEN s
    ELSE Refreshed([s EXCEPT !.steps[i].status = "skipped"])

\* retry_step
Retried(s, i) ==
    IF s.steps[i].status \notin {"failed", "cancelled", "skipped"} THEN s
    ELSE [s EXCEPT !.steps[i] = [status |-> IF Flow[i] \in Confirmable THEN "waiting" ELSE "planned",
                                 result |-> ""],
                   !.status = "active", !.active = i]

\* cancel_session
Cancelled(s) ==
    [s EXCEPT !.status = "cancelled", !.active = NoStep,
              !.steps = [i \in Steps |-> IF @[i].status \in Terminal THEN @[i]
                                         ELSE [@[i] EXCEPT !.status = "cancelled"]]]

\* _workflow_session_step_id_for_action
StepFor(s, action) ==
    LET named == {i \in Steps : Flow[i] = action}
        open  == {i \in named : s.steps[i].status \notin Terminal}
    IN IF s.active \in named THEN s.active
       ELSE IF open # {} THEN First(open) ELSE First(named)

\* _first_confirmable_action_id_from_session, _latest_confirmable_assistant_action_turn:
\* the action the page offers a confirmation for, or "".
Offered ==
    LET open == {i \in Steps : /\ Flow[i] \in Offerable \cap Confirmable
                               /\ session.steps[i].status \notin Terminal}
    IN IF session.status # "active" \/ open = {} \/ Flow[First(open)] \in answered
       THEN "" ELSE Flow[First(open)]

-----------------------------------------------------------------------------
\* The button that asks for a confirmation opens the card.
OpenCard ==
    /\ card = "" /\ Offered # ""
    /\ card' = Offered
    /\ UNCHANGED <<session, answered>>

\* _record_assistant_action_result: the user executes the action, or closes the
\* card, which counts as a cancelled action; the page keeps the result.
AnswerCard(result, followup) ==
    /\ card # ""
    /\ session' = Applied(session, StepFor(session, card), result, followup)
    /\ answered' = answered \cup {card}
    /\ card' = ""

\* The controls of the page, hidden while a card is open.
SkipStep ==
    /\ card = ""
    /\ \/ /\ session.status = "active" /\ session.active # NoStep
          /\ session' = Skipped(session, session.active)
       \* "continue with the existing materials", for a failed research only
       \/ /\ session.status = "failed"
          /\ Flow[First(InState(session.steps, "failed"))] = Research
          /\ session' = Skipped(session, First(InState(session.steps, "failed")))
    /\ UNCHANGED <<answered, card>>

RetryStep ==
    /\ card = "" /\ session.status = "failed" /\ InState(session.steps, "failed") # {}
    /\ session' = Retried(session, First(InState(session.steps, "failed")))
    /\ UNCHANGED <<answered, card>>

CancelSession ==
    /\ card = "" /\ session.status \in {"active", "failed"}
    /\ session' = Cancelled(session)
    /\ UNCHANGED <<answered, card>>

WorkflowNext ==
    \/ OpenCard
    \/ \E result \in ResultStatus, followup \in BOOLEAN : AnswerCard(result, followup)
    \/ SkipStep
    \/ RetryStep
    \/ CancelSession

WorkflowSpec == WorkflowInit /\ [][WorkflowNext]_workflowVars

-----------------------------------------------------------------------------
ReportMade(s) == \E i \in Steps : Flow[i] = Report /\ s.steps[i].status = "done"

\* Whatever the order of results, skips, retries and cancellations, the session
\* agrees with its steps: an active one stands at a step that is still open, a
\* failed one has a failed step to retry and none that is active, a cancelled
\* one leaves no step open, and a completed one hides no failure and leaves a
\* step open only when the report has been made.
SessionMatchesSteps ==
    /\ session.status = "active" =>
          session.active # NoStep /\ session.steps[session.active].status \notin Terminal
    /\ session.status = "failed" =>
          session.active = NoStep /\ InState(session.steps, "failed") # {}
    /\ session.status = "cancelled" =>
          InState(session.steps, "planned") = {} /\ InState(session.steps, "waiting") = {}
    /\ session.status = "completed" =>
          /\ InState(session.steps, "failed") = {}
          /\ \/ InState(session.steps, "planned") = {} /\ InState(session.steps, "waiting") = {}
             \/ ReportMade(session)

\* A flow that waits for the confirmation of a step the page has a card for
\* offers that card, also after the step failed and the user asked to try it
\* again.
WaitingIsOffered ==
    (/\ session.status = "active" /\ card = ""
     /\ session.steps[session.active].status = "waiting"
     /\ Flow[session.active] \in Offerable) => Offered # ""

==================================================================================
