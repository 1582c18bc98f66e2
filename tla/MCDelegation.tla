---------------------------- MODULE MCDelegation ----------------------------
(* Small instances of Delegation for TLC.                                   *)
EXTENDS Delegation

Of(writes, needs, vendor) == [writes |-> writes, needs |-> needs, vendor |-> vendor]

Writer(needs) == Of(TRUE, needs, TRUE)
Reader(needs) == Of(FALSE, needs, FALSE)

Shared(tasks) ==
    [plan |-> tasks, isolating |-> FALSE, ceiling |-> 0, costs |-> {0},
     faults |-> {"limit", "fail", "tool", "open", "save", "cancel", "crash"}]
Trees(tasks, most) ==
    [plan |-> tasks, isolating |-> TRUE, ceiling |-> most, costs |-> {1},
     faults |-> FaultKinds \ {"open", "tool"}]

Unbilled(tasks) ==
    [plan |-> tasks, isolating |-> TRUE, ceiling |-> 0, costs |-> {0},
     faults |-> FaultKinds \ {"isolate"}]

(* In one shared tree: a writer after a reader, with a writer of its own    *)
(* pace; two writers and what needs them both.  In worktrees: two writers   *)
(* that meet at the landing; a writer and what needs it, with a budget and  *)
(* without one.                                                             *)
Plans == {Shared(<<Reader({}), Writer({1}), Writer({})>>),
          Shared(<<Writer({}), Writer({}), Reader({1, 2})>>),
          Trees(<<Writer({}), Writer({})>>, 3),
          Trees(<<Writer({}), Reader({1})>>, 3),
          Unbilled(<<Writer({}), Reader({1})>>)}
=============================================================================
