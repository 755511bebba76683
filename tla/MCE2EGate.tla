------------------------------ MODULE MCE2EGate ------------------------------
(* Two of three queries, one in each category.  A round of the served model *)
(* is cut at 81920 thinking tokens, or at 65715 after a prompt of 180000.   *)
EXTENDS E2EGate

MCCategory == <<"current", "docs", "docs">>

MCGood == [searches |-> {"list"}, sources |-> 1, completed |-> TRUE, text |-> "cited",
           tokens |-> "hit", domains |-> "absent"]
MCAnswers == {MCGood, [MCGood EXCEPT !.searches = {"empty"}]}

MCRounds == {[status |-> 200, prompt |-> 1000,   completion |-> 81919],
             [status |-> 200, prompt |-> 180000, completion |-> 70000]}
=============================================================================
