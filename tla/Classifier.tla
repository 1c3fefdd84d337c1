----------------------------- MODULE Classifier -----------------------------
(***************************************************************************)
(* internal/pkg/classifier: the state of a (peer, protocol) pair, derived  *)
(* from the retained results each time somebody looks at it.               *)
(***************************************************************************)
EXTENDS Integers, Sequences, FiniteSets

CONSTANT Success     \* the results whose OK field is true

Unknown  == "unknown"
Up       == "up"
Degraded == "degraded"
Down     == "down"

(* results[len(results)-window:], for 0 <= window <= Len(results)          *)
Trailing(results, window) ==
  SubSeq(results, Len(results) - window + 1, Len(results))

Failures(tail) == Cardinality({i \in DOMAIN tail : tail[i] \notin Success})

(* One failure less than the threshold is enough for Down. *)
Mut_Classify_early(results, window, threshold) ==
  IF Len(results) < window
  THEN Unknown
  ELSE LET fails == Failures(Trailing(results, window))
       IN  CASE fails + 1 >= threshold /\ fails > 0 -> Down
             [] fails = 0 -> Up
             [] OTHER -> Degraded

(* The whole buffer is counted, not its trailing window. *)
Mut_Classify_whole(results, window, threshold) ==
  IF Len(results) < window
  THEN Unknown
  ELSE LET fails == Failures(results)
       IN  CASE fails >= threshold -> Down
             [] fails < threshold /\ fails = 0 -> Up
             [] OTHER -> Degraded

(* The arms of the switch in their order: an earlier one wins.             *)
Classify(results, window, threshold) ==
  IF Len(results) < window
  THEN Unknown
  ELSE LET fails == Failures(Trailing(results, window))
       IN  CASE fails >= threshold -> Down
             [] fails < threshold /\ fails = 0 -> Up
             [] OTHER -> Degraded
=============================================================================
