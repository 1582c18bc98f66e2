------------------------------- MODULE MCParts -------------------------------
(* Four parts that share no state: the keys, which several processes write, *)
(* most commands under a lock; the log of calls and ratings with its cache, *)
(* which they write under none; a vendor's process with its conversations;  *)
(* and the rules for what a turn may do.  A behaviour of all is one of      *)
(* each, so which of them moves is chosen at the start.                     *)
EXTENDS KeyStore, Ratings, VendorSession, Approvals, TLC

VARIABLE moves

partsVars == <<moves, keyVars, ratingVars, vendorVars, approvalVars>>

PartsInit ==
    /\ moves \in {"keys", "ratings", "vendor", "rules"}
    /\ KeysInit /\ RatingsInit /\ VendorInit /\ ApprovalsInit
    /\ moves # "keys" => \A r \in Providers : known[r] = {0} /\ keychain[r] = 0
    /\ moves # "rules" => stored = <<>>

PartsNext ==
    /\ \/ moves = "keys" /\ KeysNext /\ UNCHANGED <<ratingVars, vendorVars, approvalVars>>
       \/ moves = "ratings" /\ RatingsNext /\ UNCHANGED <<keyVars, vendorVars, approvalVars>>
       \/ moves = "vendor" /\ VendorNext /\ UNCHANGED <<keyVars, ratingVars, approvalVars>>
       \/ moves = "rules" /\ ApprovalsNext /\ UNCHANGED <<keyVars, ratingVars, vendorVars>>
    /\ UNCHANGED moves

PartsSpec == PartsInit /\ [][PartsNext]_partsVars

Alike == Permutations(Procs)

-----------------------------------------------------------------------------
(* A command of a driver, a destructive one, one of the floor; a file in    *)
(* the project, one outside, a server's tool.                               *)
Act(family, words, shape) ==
    [family |-> family, words |-> words, shape |-> shape, outside |-> FALSE, floor |-> FALSE]

SomeActions ==
    {Act("bash", <<"go", "test", "x">>, "driver"),
     Act("bash", <<"rm", "x">>, "exact"), Act("bash", <<"rm", "y">>, "exact"),
     [Act("bash", <<"sudo", "x">>, "exact") EXCEPT !.floor = TRUE],
     Act("write", <<"src", "x">>, "plain"),
     [Act("read", <<"out", "x">>, "plain") EXCEPT !.outside = TRUE],
     Act("server", <<"tool">>, "plain")}

SomeRules == {Rule("allow", "any", <<>>, TRUE), Rule("ask", "write", <<>>, TRUE),
              Rule("deny", "bash", <<"go">>, TRUE)}
=============================================================================
