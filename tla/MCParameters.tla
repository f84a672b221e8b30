---------------------------- MODULE MCParameters ----------------------------
\* A small instance of Parameters: one shared and two own parameters whose
\* values must be ordered, two numbers.
EXTENDS Parameters

MCShared == {"bluetooth_tx_power"}
MCOwn == {"predictive_min_mps", "lift_start_mps"}
MCLimits == [p \in MCShared \cup MCOwn |-> {0, 1}]
MCDefault == [p \in MCShared \cup MCOwn |-> 0]
MCNumberDefault == [n \in {3} |-> [p \in {"lift_start_mps"} |-> 1]]
MCStartupCollections ==
    {[shared |-> [p \in MCShared |-> 0],
      sets |-> [n \in {1, 3} |-> [p \in MCOwn |-> IF n = 3 /\ p = "lift_start_mps" THEN 1 ELSE 0]]],
     [shared |-> [p \in MCShared |-> 1], sets |-> [n \in {2} |-> [p \in MCOwn |-> 1]]]}
=============================================================================
