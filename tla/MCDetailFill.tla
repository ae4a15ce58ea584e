---------------------------- MODULE MCDetailFill ----------------------------
(* Two processes fill the details of a small archive on one token, with a   *)
(* reserve so low that others can use up the quota.                         *)
EXTENDS DetailFill

CONSTANTS a, b

MCResources == {"core", "graphql"}
MCLimit == [r \in MCResources |-> IF r = "core" THEN 6 ELSE 4]
MCOthers == [r \in MCResources |-> IF r = "core" THEN 2 ELSE 0]
MCClients == {a, b}
MCLimitOf == [c \in MCClients |-> IF c = a THEN 0 ELSE 1]
=============================================================================
