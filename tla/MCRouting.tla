----------------------------- MODULE MCRouting -----------------------------
EXTENDS Routing
Sig(refused, util, reset, type) == [refused |-> refused, util |-> util, reset |-> reset, type |-> type]
SignalSet == {Sig(TRUE, "none", 0, "five_hour"), Sig(TRUE, "none", 2, "five_hour"),
              Sig(FALSE, "high", 1, "five_hour"), Sig(FALSE, "low", 2, "seven_day"),
              Sig(TRUE, "none", 2, "none")}
LoginOrder == <<"c1", "c2">>
DraftSet == {[type |-> "impl", routing |-> <<<<"zai", "claude">>, <<>>, <<>>>>],
             [type |-> "impl", routing |-> <<<<"openai">>, <<>>, <<>>>>],
             [type |-> "review", routing |-> <<<<"claude">>, <<"openai">>, <<>>>>],
             [type |-> "review", routing |-> <<<<"claude">>, <<"zai">>, <<"zai">>>>],
             [type |-> "review", routing |-> <<<<>>, <<>>, <<>>>>]}
TierTables == {<<<<>>, <<>>, <<>>>>, <<<<"zai", "claude">>, <<>>, <<"claude">>>>}
=============================================================================
