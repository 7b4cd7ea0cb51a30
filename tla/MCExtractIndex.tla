--------------------------- MODULE MCExtractIndex ---------------------------
(* Values of the constants of ExtractIndex: two sources share a header, one *)
(* of them includes a second header once it was edited.                     *)
EXTENDS ExtractIndex
LOCAL INSTANCE Naturals

CONSTANTS sa, sb, hs, hn
MCIncludes == [s \in {sa, sb} |-> [v \in 0..MaxChanges |->
                  IF s = sa /\ v > 0 THEN {hs, hn} ELSE {hs}]]
Whole == {{}}
Partial == {{sa}, {sb}, {}}
=============================================================================
