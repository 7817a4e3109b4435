-------------------------- MODULE MCEvidenceCache ---------------------------
(***************************************************************************)
(* The instances of EvidenceCache that TLC checks.  As the rows of         *)
(* src/data/repair-diagnostic-map.tsv have them, one tool needs and        *)
(* changes one section, the others need every section and may change any;  *)
(* one class of shell commands changes a section, the other anything.      *)
(***************************************************************************)
EXTENDS EvidenceCache

CONSTANTS s1, scoped

MCNeeds == [t \in Tools |-> IF t = scoped THEN {s1} ELSE Sections]
MCInvalidates == [t \in Tools |-> IF t = scoped THEN {s1, "capabilities"} ELSE Keys]
MCShellClasses == {Sections \ {s1}, Keys}
=============================================================================
