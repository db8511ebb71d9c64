------------------------ MODULE MCStateTransaction ------------------------
(* An account without saved settings to start from; the first transaction    *)
(* of a run leads to any other state.                                        *)
EXTENDS StateTransaction

NoSettings == {[f \in Files |-> Absent]}

=============================================================================
