------------------------- MODULE MCPeopleSearchStage -------------------------
(***************************************************************************)
(* One demand with its three lanes under the profile's settings scaled to  *)
(* a single demand, settings with calls for every retry, and settings that *)
(* run out of tasks.                                                       *)
(***************************************************************************)
EXTENDS PeopleSearchStage

MCDecisions == 1..3
MCDemandOf == [p \in MCDecisions |-> CHOOSE d \in Demands : TRUE]
MCOfficial == {1}

MCTitles == {"chief engineer", "head of energy", "plant owner", "Ivan Petrov", "overlong"}
MCUsable == {"chief engineer", "head of energy", "plant owner", "overlong"}
MCOverlong == {"overlong"}
MCNames == [Demands -> {"plant owner", "Ivan Petrov"}]
MCProposals == [Demands -> {<<>>, <<"chief engineer", "Ivan Petrov", "chief engineer">>,
                            <<"head of energy", "plant owner", "chief engineer">>,
                            <<"plant owner", "overlong">>}]

Profile == [hypothesisCalls |-> 2, proposed |-> 3, accepted |-> 2, initial |-> 3, tasks |-> 5,
            calls |-> 6, verifications |-> 6, laneRevisions |-> 1, retries |-> 1, recovery |-> 2]
MCSettings == {
  Profile,
  [Profile EXCEPT !.hypothesisCalls = 1, !.calls = 10, !.verifications = 2, !.recovery = 3],
  [Profile EXCEPT !.hypothesisCalls = 0, !.tasks = 2, !.laneRevisions = 0]}
=============================================================================
