-------------------------- MODULE ObservationOrder --------------------------
(***************************************************************************)
(* The orders gitcrawl puts on observations of GitHub                      *)
(* (internal/store/observation_order.go).                                  *)
(*                                                                         *)
(* An observation carries the source clock GitHub reported (updated_at) and *)
(* the generation the archive gave the fetch (observation_sequence).  A    *)
(* source clock that parses is represented by its sort key, a natural      *)
(* number; one that does not is a member of Malformed, and Blank is the     *)
(* empty string among them.                                                *)
(***************************************************************************)
EXTENDS Integers

CONSTANTS Malformed, Blank

ASSUME MalformedAssumption == /\ Blank \in Malformed
                              /\ \A m \in Malformed : m \notin Nat

Sources == Nat \cup Malformed

Observation == [source : Sources, seq : Nat]

Valid(source) == source \notin Malformed

(* The answer of a comparison that returns an error instead of an order. *)
Ambiguous == 2

Older == -1
Tied  == 0
Newer == 1

(* Metadata-only thread rows store their generation negated; its absolute   *)
(* value still takes part in the order.                                     *)
observationSequenceOrderValue(seq) == IF seq < 0 THEN -seq ELSE seq

CompareNumbers(incoming, current) ==
  IF incoming < current THEN Older
  ELSE IF incoming > current THEN Newer ELSE Tied

(* Source clock first, generation to break ties.  A clock that parses beats *)
(* one that does not; two different malformed clocks have no order.         *)
compareObservationOrder(incoming, current) ==
  LET in == incoming.source
      cur == current.source
  IN CASE Valid(in) /\ Valid(cur) /\ in # cur -> CompareNumbers(in, cur)
       [] Valid(in) /\ ~Valid(cur)            -> Newer
       [] ~Valid(in) /\ Valid(cur)            -> Older
       [] ~Valid(in) /\ ~Valid(cur) /\ in # cur -> Ambiguous
       [] in = cur -> CompareNumbers(incoming.seq, current.seq)

(* Generation first when there is one, then the observation order.          *)
compareRevisionObservationOrder(incoming, current) ==
  IF /\ ~Valid(incoming.source)
     /\ ~Valid(current.source)
     /\ incoming.source # current.source
  THEN Ambiguous
  ELSE IF incoming.seq # current.seq
       THEN CompareNumbers(incoming.seq, current.seq)
       ELSE compareObservationOrder(incoming, current)

(* A reservation migrated without a source clock is ordered by generation.  *)
compareReservationObservationOrder(incoming, current) ==
  IF current.source = Blank /\ current.seq > 0
  THEN CompareNumbers(incoming.seq, current.seq)
  ELSE compareObservationOrder(incoming, current)

(* A workflow snapshot without a source clock, on either side, is ordered   *)
(* by generation.                                                           *)
compareWorkflowObservationOrder(incoming, current) ==
  IF Blank \in {incoming.source, current.source}
  THEN CompareNumbers(incoming.seq, current.seq)
  ELSE compareObservationOrder(incoming, current)

=============================================================================
