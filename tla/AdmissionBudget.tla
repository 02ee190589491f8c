--------------------------- MODULE AdmissionBudget ---------------------------
(***************************************************************************)
(* The admission counters of rust/src/conversion_budget.rs.                *)
(*                                                                         *)
(* A Budget bounds one document (counts against byte_limit and NODES) and, *)
(* for the configuration documents of one derive request, also the total   *)
(* of the whole request (combined against REQUEST_BYTES and NODES).  The   *)
(* Option<Counts> is a set of at most one Counts.  Sizes are usize, so an  *)
(* addition that would leave the machine word is refused like one that     *)
(* passes the limit.                                                       *)
(*                                                                         *)
(* AdmitsDocumentOnly and ChargeWithoutRoot are faults, used by no          *)
(* specification: the properties are tested against them.                  *)
(***************************************************************************)
EXTENDS Naturals, FiniteSets

CONSTANTS WordSize,        \* number of values of a usize: 2^64 in the program
          DOCUMENT_BYTES,
          CONFIG_BYTES,
          REQUEST_BYTES,
          NODES,
          DEPTH

(* The limits are usize constants; a node and a level are always admitted. *)
ASSUME BudgetAssumption ==
    /\ WordSize \in Nat
    /\ {DOCUMENT_BYTES, CONFIG_BYTES, REQUEST_BYTES, NODES, DEPTH}
           \subseteq 1 .. (WordSize - 1)

Counts == [bytes : Nat, nodes : Nat]

NoCounts == [bytes |-> 0, nodes |-> 0]

Budgets == [counts : Counts, byte_limit : Nat, combined : SUBSET Counts]

(* Budget::document *)
DocumentBudget(limit) ==
    [counts |-> NoCounts, byte_limit |-> limit, combined |-> {}]

(* Budget::configuration *)
ConfigurationBudget(total) ==
    [counts |-> NoCounts, byte_limit |-> CONFIG_BYTES, combined |-> {total}]

(* add succeeds: checked_add does not overflow and the sum is within limit. *)
Fits(current, increment, limit) ==
    /\ current + increment < WordSize
    /\ current + increment =< limit

Plus(counts, bytes, nodes) ==
    [bytes |-> counts.bytes + bytes, nodes |-> counts.nodes + nodes]

AdmitsDocumentOnly(budget, bytes, nodes, depth) ==
    /\ depth =< DEPTH
    /\ Fits(budget.counts.bytes, bytes, budget.byte_limit)
    /\ Fits(budget.counts.nodes, nodes, NODES)

(* Budget::charge succeeds: the depth, the document, then the request. *)
Admits(budget, bytes, nodes, depth) ==
    /\ depth =< DEPTH
    /\ Fits(budget.counts.bytes, bytes, budget.byte_limit)
    /\ Fits(budget.counts.nodes, nodes, NODES)
    /\ \A total \in budget.combined :
          /\ Fits(total.bytes, bytes, REQUEST_BYTES)
          /\ Fits(total.nodes, nodes, NODES)

ChargeWithoutRoot(budget, bytes, nodes) ==
    LET counted == IF budget.counts = NoCounts THEN 0 ELSE nodes
    IN  [budget EXCEPT
            !.counts = Plus(@, bytes, counted),
            !.combined = {Plus(total, bytes, counted) : total \in @}]

(* The budget after a successful charge: both domains move together. *)
Charge(budget, bytes, nodes) ==
    [counts |-> Plus(budget.counts, bytes, nodes),
     byte_limit |-> budget.byte_limit,
     combined |-> {Plus(total, bytes, nodes) : total \in budget.combined}]

(* What scalar_string may still read before it charges: an unsigned         *)
(* subtraction, which wraps around when counts.bytes is over byte_limit.    *)
Remaining(budget) ==
    (WordSize + budget.byte_limit - budget.counts.bytes) % WordSize

CountsWithin(counts, limit) == counts.bytes =< limit /\ counts.nodes =< NODES

BudgetWithin(budget) ==
    /\ CountsWithin(budget.counts, budget.byte_limit)
    /\ \A total \in budget.combined : CountsWithin(total, REQUEST_BYTES)
==============================================================================
