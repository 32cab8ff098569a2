------------------------------- MODULE Findings -------------------------------
(***************************************************************************)
(* The pure part of the loop engine (internal/loops/domain/findings.go):   *)
(* what a list of verifier findings weighs, and when two lists are "the    *)
(* same failure".  A finding keeps the fields these functions read; its    *)
(* source, file, line and message are one field, "rest".                   *)
(***************************************************************************)
EXTENDS Integers, Sequences

(* Any other severity is unknown, and weighs as much as critical.          *)
Weight(severity) ==
    CASE severity = "critical" -> 100
      [] severity = "high"     -> 20
      [] severity = "medium"   -> 5
      [] severity = "low"      -> 1
      [] severity = "info"     -> 0
      [] OTHER                 -> 100

BlockingWeight == Weight("medium")

IsBlocking(x) == Weight(x.severity) >= BlockingWeight

(* The sum of the weights, duplicates included.                            *)
Score(f) ==
    LET sum[n \in 0..Len(f)] ==
          IF n = 0 THEN 0 ELSE sum[n - 1] + Weight(f[n].severity)
    IN  sum[Len(f)]

(* SHA-256 of the sorted, distinct netstrings of (code, resource): equal   *)
(* exactly when the sets of couples are.                                   *)
Fingerprint(f) ==
    {<<f[i].code, f[i].resource>> : i \in {j \in DOMAIN f : IsBlocking(f[j])}}

(* The loop refuses to converge on such a list.                            *)
Blocking(f) == \E i \in DOMAIN f : IsBlocking(f[i])
=============================================================================
