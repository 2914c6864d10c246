SPECIFICATION Spec
CONSTANTS
  Demands = {d1}
  Decisions <- MCDecisions
  DemandOf <- MCDemandOf
  Official <- MCOfficial
  Titles <- MCTitles
  Usable <- MCUsable
  Overlong <- MCOverlong
  Names <- MCNames
  Proposals <- MCProposals
  Settings <- MCSettings
  MaxResults = 2
CHECK_DEADLOCK FALSE
INVARIANTS
  NoLaneDisappears
  NegativeIsSearched
