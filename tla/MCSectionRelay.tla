--------------------------- MODULE MCSectionRelay ---------------------------
(* Two tables, a filter for the one and a filter for both.                 *)
EXTENDS SectionRelay

CONSTANTS one, two, only, both
MCTables == {one, two}
MCKeys == {only, both}
MCMatches == [k \in MCKeys |-> IF k = only THEN {one} ELSE MCTables]
MCSizes == [t \in MCTables |-> IF t = one THEN {5} ELSE {3}]
=============================================================================
