-------------------------- MODULE MCAssistantWorkflow --------------------------
(******************************************************************************)
(* An instance of AssistantWorkflow: the flow of a research,                  *)
(* with a step of its own before each confirmation.                           *)
(******************************************************************************)
EXTENDS AssistantWorkflow

MCFlow == <<"open_cockpit", "update_research", "open_research_section",
            "create_decision_report">>
================================================================================
