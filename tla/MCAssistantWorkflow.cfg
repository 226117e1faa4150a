CONSTANTS
    Flow <- MCFlow
    Confirmable = {"update_research", "create_decision_report"}
    Offerable = {"update_research", "create_decision_report"}
SPECIFICATION WorkflowSpec
INVARIANT WaitingIsOffered
CHECK_DEADLOCK FALSE
