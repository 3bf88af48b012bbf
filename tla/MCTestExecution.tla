-------------------------- MODULE MCTestExecution --------------------------
(***************************************************************************)
(* Small instances of TestExecution: the sets of identifiers are model     *)
(* values of the configurations; the relations between them are here.      *)
(***************************************************************************)
EXTENDS TestExecution, TLC

CONSTANTS c1  \* the case with all the procedures; another case has none

CaseProcedures == [c \in Case |-> IF c = c1 THEN Procedure ELSE {}]

Symmetry == Permutations(Procedure)
DefectSymmetry == Permutations(Defect \ Imported)
=============================================================================
