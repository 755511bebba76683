------------------------------- MODULE MCOwui -------------------------------
(* Two registries: the second drops b, whose registration becomes a leftover  *)
(* of the stack, and retires the candidate c.  Before the first start a is    *)
(* registered as someone once edited it and shared it with a team, and c by   *)
(* hand.                                                                      *)
EXTENDS Owui

MCNames == <<"a", "b", "c", "t">>

MCFirst == [role |-> [a |-> "main", b |-> "main", c |-> "candidate", t |-> "task"],
            sampling |-> [m \in ToSet(MCNames) |-> 1],
            menu |-> NoMenu, retired |-> {}, default |-> "a"]
MCLast == [MCFirst EXCEPT !.role["b"] = "none", !.role["c"] = "none", !.retired = {"c"}]
MCRegistries == <<MCFirst, MCLast>>

MCShared == [[m \in ToSet(MCNames) |-> NoModel] EXCEPT
               !["a"] = [managed |-> TRUE, params |-> 0, grants |-> "team"],
               !["c"] = [managed |-> FALSE, params |-> 0, grants |-> "none"]]
MCInitialSaved == {MCShared}

MCFilters == <<"advanced_params">>
=============================================================================
