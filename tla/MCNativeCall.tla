----------------------------- MODULE MCNativeCall -----------------------------
(***************************************************************************)
(* Instances of NativeCall for TLC.  The operations stand for the shapes   *)
(* of the public ones: derive_contract converts two containers, from_dict  *)
(* one, from_json parses a string, to_dict only exports, and Policy.to_dict *)
(* never leaves the interpreter.                                           *)
(***************************************************************************)
EXTENDS NativeCall

CONSTANTS t1, t2, packs, context

TwoThreads == {t1, t2}

Containers == {packs, context}
AllOperations == {"derive_contract", "from_json", "policy_to_dict"}
AllReads == [o \in AllOperations |-> IF o = "derive_contract" THEN Containers ELSE {}]
AllDetached == {"derive_contract", "from_json"}
AllDecoders == {"from_json"}

OneContainer == {packs}
OneOperation == {"from_dict"}
OneReads == [o \in OneOperation |-> OneContainer]

None == {}
HungThread == {t2}
===============================================================================
