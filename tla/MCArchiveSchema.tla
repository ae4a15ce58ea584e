-------------------------- MODULE MCArchiveSchema --------------------------
(* Small instances of ArchiveSchema for TLC.                                *)
EXTENDS ArchiveSchema, TLC

CONSTANTS p1, p2, comments, files

TwoProcesses == {p1, p2}
OneProcess   == {p1}
TwoFamilies  == {comments, files}
EmptySource  == {Blank}

O(source, seq) == [source |-> source, seq |-> seq]

All(shape) == [t \in Tables |-> shape]
None == [f \in Families |-> {}]

(* A database file just created.                                            *)
Fresh == [version |-> 0, shape |-> All("missing"), triggers |-> {},
          row |-> NoOrder, evidence |-> NoOrder, revisions |-> {},
          details |-> FALSE, reserved |-> None, runs |-> 0, fence |-> {},
          allocator |-> NoValue, checked |-> NoValue, body |-> "full",
          length |-> "unknown"]

(* Version 7: revisions, and an allocator that is behind the rows.          *)
Seventh == [Fresh EXCEPT !.version = 7,
  !.shape = [All("missing") EXCEPT !["families"] = "old", !["rows"] = "old",
               !["keys"] = "old", !["allocator"] = "old"],
  !.row = O(2, -2), !.revisions = {O(1, 1)}, !.details = TRUE, !.allocator = 0]

(* Version 10: reservations without clocks, the fence of workflow runs      *)
(* among them.                                                              *)
Tenth == [Fresh EXCEPT !.version = 10,
  !.shape = [All("old") EXCEPT !["columns"] = "missing", !["workflows"] = "missing",
               !["children"] = "unsourced"],
  !.row = O(1, Lowest), !.evidence = O(Blank, 1), !.revisions = {O(1, 1)},
  !.details = TRUE, !.reserved = [None EXCEPT ![comments] = {O(Blank, 1), O(Blank, 2)}],
  !.runs = 2, !.allocator = 1]

(* Version 12: fences kept twice, under a head with spaces and without.     *)
Twelfth == [Fresh EXCEPT !.version = 12,
  !.shape = [All("current") EXCEPT !["workflows"] = "old", !["children"] = "old"],
  !.row = O(1, 2), !.evidence = O(1, 2), !.revisions = {O(1, 1), O(1, 2)},
  !.details = TRUE, !.reserved = [f \in Families |-> {O(1, 2), O(2, 1)}],
  !.fence = {O(Blank, 1), O(1, 2)}, !.allocator = 2]

(* The current version, converged, with whole bodies.                       *)
Present == [Fresh EXCEPT !.version = Supported, !.shape = All("current"),
  !.triggers = Watched, !.row = O(1, 1), !.evidence = O(1, 1),
  !.revisions = {O(1, 1)}, !.details = TRUE,
  !.reserved = [f \in Families |-> {O(1, 1)}], !.fence = {O(Blank, 1)},
  !.allocator = 1, !.checked = 1]

(* A later version's archive, which this one refuses to open.               *)
Later == [Present EXCEPT !.version = Supported + 1]

AllArchives == {Fresh, Seventh, Tenth, Twelfth, Present, Later}
OnlyPresent == {Present}
Symmetry == Permutations(Procs)
=============================================================================
