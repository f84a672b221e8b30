--------------------------- MODULE MCConfigMedium ---------------------------
\* A small instance of ConfigMedium: one shared and two own parameters whose
\* values must be ordered, two numbers, two calibrations.
EXTENDS ConfigMedium

MCShared == {"filter_mode"}
MCOwn == {"predictive_min_mps", "lift_start_mps"}
MCLimits == [p \in MCShared \cup MCOwn |-> {0, 1}]
MCDefault == [p \in MCShared \cup MCOwn |-> 0]
MCNumberDefault == [n \in {2} |-> [p \in {"lift_start_mps"} |-> 1]]

Text(v, shared, sets) ==
    [version |-> v, shared |-> <<[p \in MCShared |-> shared]>>, sets |-> sets]
Entry(n, low, high) ==
    [number |-> <<n>>, own |-> <<[p \in MCOwn |-> IF p = "lift_start_mps" THEN high ELSE low]>>]

\* What the program writes; a number twice beside a good one; nothing usable:
\* out of order, out of range, missing and doubled values; another version.
MCSettingTexts ==
    {Written(Defaults),
     Text(<<1>>, <<1>>, <<<<Entry(1, <<0>>, <<0>>), Entry(2, <<1>>, <<1>>), Entry(1, <<1>>, <<1>>)>>>>),
     Text(<<1>>, <<1>>, <<<<Entry(1, <<1>>, <<0>>), Entry(2, <<0>>, <<9>>), Entry(3, <<>>, <<1>>),
                            Entry(4, <<0, 1>>, <<1>>), [Entry(5, <<0>>, <<1>>) EXCEPT !.own = <<>>]>>>>),
     Text(<<2>>, <<0>>, <<<<Entry(1, <<0>>, <<0>>)>>>>)}

MCFiles == {Setting, Calibration}
\* ConsoleSettings and Calibrations
MCDocs ==
    {[shared |-> [p \in MCShared |-> 0],
      sets |-> [n \in {1, 2} |-> [p \in MCOwn |-> IF n = 2 /\ p = "lift_start_mps" THEN 1 ELSE 0]]],
     [shared |-> [p \in MCShared |-> 1], sets |-> [n \in {2} |-> [p \in MCOwn |-> 1]]]}
    \cup [offsets : {"a", "b"}]
=============================================================================
