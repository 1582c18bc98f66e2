------------------------------ MODULE MCAsking ------------------------------
(* Sessions on a plan that ask the person when it is exhausted, for TLC.    *)
EXTENDS Asking

Asked ==
    {[start |-> Plan, metered |-> "paid", free |-> <<"f1", "f2">>, onLimit |-> "ask",
      onFree |-> "free", somebody |-> b, client |-> TRUE, pinned |-> FALSE] : b \in BOOLEAN}
=============================================================================
