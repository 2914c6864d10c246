---------------------- MODULE MCExternalCallBudget ----------------------
EXTENDS ExternalCallBudget, TLC

CONSTANTS TotalLimit, PlannerLimit, WebLimit, RecallLimit, SearchLimit, RetryLimit, Slices

MCLimit ==
  [openrouter |-> TotalLimit, openrouter_planner |-> PlannerLimit,
   openrouter_web_task |-> WebLimit, openrouter_recall_expansion |-> RecallLimit,
   openrouter_server_tool_web_search |-> SearchLimit,
   dadata |-> 1, source_verification |-> 0, provider_retry |-> RetryLimit]

MCSliceLimit == [official_coverage_probe |-> Slices]
=============================================================================
