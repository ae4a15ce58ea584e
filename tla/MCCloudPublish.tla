--------------------------- MODULE MCCloudPublish ---------------------------
(* Small instances of CloudPublish for TLC.                                 *)
EXTENDS CloudPublish

CONSTANTS p1, p2

TwoPublishers == {p1, p2}

(* A remote before and after the cutover and the observation fence.         *)
Older   == {"publisher", "reader", "staging"}
Current == Older \cup {"cutover", "order"}
OlderAndCurrent == {Older, Current}

(* The first data set fills a request, the second one puts two rows in one. *)
TwoDataSets == <<<<2>>, <<1, 1>>>>

SecondVersion == {2}
=============================================================================
