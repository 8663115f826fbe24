------------------------ MODULE MCPrincipleProposals ------------------------
(* A principle of two rules, a buying and a selling one, and a short list  *)
(* of trades that break the buying rule most.                              *)
EXTENDS PrincipleProposals, TLC

CONSTANTS c1, c2, s1, s2, chase, caution, none

Day5 == "entry.max_5day_return"
Stop == "exit.stop_loss_rate"
Halted == "universe.exclude_halted"
MCPaths == {Day5, Stop, Halted}
Of(day5, stop, halted) == (Day5 :> day5) @@ (Stop :> stop) @@ (Halted :> halted)
Buy(day5, halted) ==
  [side |-> "BUY", late |-> FALSE, value |-> Of(day5, none, halted)]
Sell(stop, slow) ==
  [side |-> "SELL", late |-> slow, value |-> Of(none, stop, 0)]

MCClients == {c1, c2}
MCSims == {s1, s2}
Swap == Permutations(MCClients) \cup Permutations(MCSims)
MCTexts == {chase, caution}
MCInterpreted ==
  <<[text |-> chase, paths |-> <<Day5, Stop>>, stated |-> {}, review |-> FALSE],
    [text |-> caution, paths |-> <<Halted, Day5>>, stated |-> {Halted}, review |-> FALSE]>>
MCSchema == Of(40, -40, 0)

(* At Grain 4: at most 15 per cent up, out at 10 per cent down.            *)
MCFirstItems ==
  {<<[text |-> chase, rule |-> Of(60, -40, none)]>>}
MCMeasurements ==
  {<<Buy(70, 0), Buy(80, 0), Buy(20, 0), Buy(32, 1), Sell(-60, TRUE), Sell(-48, FALSE)>>}

(* Two runs that measured different trades, and a model that is not asked. *)
MCLoosenMeasurements ==
  {<<Buy(70, 0), Buy(80, 0), Buy(20, 0), Buy(32, 0)>>,
   <<Buy(70, 0), Buy(80, 0), Buy(40, 0), Buy(48, 0)>>}
MCNoAnswers == [path \in MCPaths |-> {}]

MCOldProposals ==
  {{[rec |-> 1, type |-> "DISCOVERY", item |-> NoItem, text |-> caution,
     path |-> Halted, current |-> NoValue, value |-> 1]},
   {[rec |-> 2, type |-> "REINFORCEMENT", item |-> NoItem, text |-> caution,
     path |-> Stop, current |-> -40, value |-> -20]}}

(* The user may confirm the lowest value allowed, which leaves nothing to  *)
(* tighten: then the model can only repeat it.  Its other answers are      *)
(* looser than any current value and refused.                              *)
MCAnswers == (Day5 :> {20, 80}) @@ (Stop :> {-44}) @@ (Halted :> {})
MCConfirmable == (Day5 :> {20}) @@ (Stop :> {}) @@ (Halted :> {})

MCSaveLists ==
  {<<[rec |-> NoItem, text |-> chase, rule |-> Of(60, -40, none), sort |-> 1],
     [rec |-> 7, text |-> caution, rule |-> Of(none, none, 0), sort |-> 2]>>}
=============================================================================
