------------------------------- MODULE Totals -------------------------------
(***************************************************************************)
(* The running totals of a sequence of sizes, for what the admissions of a *)
(* request compare with a limit: Sums(f)[n] is the total of the first n.   *)
(***************************************************************************)
EXTENDS Naturals, Sequences

Sums(f) ==
    LET sum[n \in 0 .. Len(f)] == IF n = 0 THEN 0 ELSE sum[n - 1] + f[n]
    IN  sum

Total(f) == Sums(f)[Len(f)]
=============================================================================
