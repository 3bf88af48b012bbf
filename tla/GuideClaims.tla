---------------------------- MODULE GuideClaims ----------------------------
(***************************************************************************)
(* A sentence of docs/product_test_operation_guide.md (section 5) that the  *)
(* code does not keep, stated over the operations of TestExecution.        *)
(***************************************************************************)
EXTENDS MCTestExecution

\* "Retest creates a new product_test_result": a retest that is asked for and
\* not refused creates its result.
RetestIsCreated == failed # "create_retest"
=============================================================================
