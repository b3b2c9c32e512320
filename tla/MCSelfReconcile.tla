--------------------------- MODULE MCSelfReconcile ---------------------------
(* Two files in two repos and two managers.  The second version of the     *)
(* pipeline declares the second file, the third gives it to the other      *)
(* manager.                                                                *)
EXTENDS SelfReconcile

MCRepoOf == [f \in File |-> f]

MCManagerOf == << <<1, 0>>, <<1, 1>>, <<1, 2>> >>
=============================================================================
