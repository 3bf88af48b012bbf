------------------------ MODULE MCConcurrentRequests ------------------------
(***************************************************************************)
(* The tables of small instances of ConcurrentRequests: a running run, and *)
(* a defect that was just opened, or retested.                             *)
(***************************************************************************)
EXTENDS ConcurrentRequests

SmallTables ==
  {[run    |-> << [status |-> "running", title |-> NoTitle] >>,
    defect |-> << [status |-> status, title |-> title] >>] :
     status \in {"opened", "retested"}, title \in Title}
=============================================================================
