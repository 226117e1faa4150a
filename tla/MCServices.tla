------------------------------- MODULE MCServices -------------------------------
(***************************************************************************)
(* The services that share no state, in one model: which of them runs is   *)
(* chosen at the start, and the others rest.                               *)
(***************************************************************************)
EXTENDS NotificationSchedule, RankingHistory, Favorites, WatchlistGroups,
        MaintenanceJob, AssistantWorkflow, AssistantWarmup, NewsRefresh,
        PortfolioRebalance, TLC

VARIABLE focus   \* the service that runs

servicesVars == <<notifyVars, historyVars, favoritesVars, groupsVars, jobVars,
                  workflowVars, warmupVars, newsVars, portfolioVars, focus>>

Service == {"notify", "history", "favorites", "groups", "job", "workflow",
            "warmup", "news", "portfolio"}

\* The daily report is due in minute 2, a move in every minute.
MCDueAt    == [j \in Job |-> IF j = "daily" THEN {2} ELSE {0, 1, 2}]
MCSeverity == [j \in Job |-> IF j = "daily" THEN 2 ELSE 3]

\* The flow of a report: a step without a confirmation, the two confirmations
\* the page has a card for, and one it has none for.
MCFlow == <<"summarize_next_checks", "update_research", "create_decision_report",
            "download_decision_report">>

\* Pollers, sessions, editors, drivers and refreshers are interchangeable.
Interchangeable == Permutations(Worker)

\* A setting that others make irrelevant has one value: what is not looked at
\* makes no difference.  No job of this instance passes the higher threshold.
SettingsMatter ==
    \A u \in User :
        /\ ~setting[u].enabled => ~setting[u].app
        /\ ~setting[u].app => ~setting[u].ntfy
        /\ ~setting[u].ntfy => setting[u].threshold = 2 /\ ~setting[u].quiet
        /\ setting[u].threshold = 4 => ~setting[u].quiet

Init ==
    /\ focus \in Service
    /\ NotifyInit /\ SettingsMatter /\ (focus # "notify" => \A u \in User : ~setting[u].enabled)
    /\ HistoryInit
    /\ FavoritesInit
    /\ GroupsInit
    /\ JobInit
    /\ WorkflowInit /\ (focus # "workflow" => session = Started({}))
    /\ WarmupInit
    /\ NewsInit
    /\ PortfolioInit /\ (focus # "portfolio" => units = NoTrades /\ cash = 0)

Rest(service, state) == focus # service => UNCHANGED state

\* The other services rest.
OthersRest ==
    /\ UNCHANGED focus
    /\ Rest("notify", notifyVars)
    /\ Rest("history", historyVars)
    /\ Rest("favorites", favoritesVars)
    /\ Rest("groups", groupsVars)
    /\ Rest("job", jobVars)
    /\ Rest("workflow", workflowVars)
    /\ Rest("warmup", warmupVars)
    /\ Rest("news", newsVars)
    /\ Rest("portfolio", portfolioVars)

Next ==
    \/ focus = "notify"    /\ NotifyNext    /\ OthersRest
    \/ focus = "history"   /\ HistoryNext   /\ OthersRest
    \/ focus = "favorites" /\ FavoritesNext /\ OthersRest
    \/ focus = "groups"    /\ GroupsNext    /\ OthersRest
    \/ focus = "job"       /\ JobNext       /\ OthersRest
    \/ focus = "workflow"  /\ WorkflowNext  /\ OthersRest
    \/ focus = "warmup"    /\ WarmupNext    /\ OthersRest
    \/ focus = "news"      /\ NewsNext      /\ OthersRest
    \/ focus = "portfolio" /\ PortfolioNext /\ OthersRest

Spec == Init /\ [][Next]_servicesVars

\* The service that runs keeps its state within its types.
ServicesTypeOK ==
    CASE focus = "notify"    -> NotifyTypeOK
      [] focus = "history"   -> HistoryTypeOK
      [] focus = "favorites" -> FavoritesTypeOK
      [] focus = "groups"    -> GroupsTypeOK
      [] focus = "job"       -> JobTypeOK
      [] focus = "workflow"  -> WorkflowTypeOK
      [] focus = "warmup"    -> WarmupTypeOK
      [] focus = "news"      -> NewsTypeOK
      [] focus = "portfolio" -> PortfolioTypeOK
=================================================================================
