------------------------ MODULE MCOperationTransport ------------------------
(***************************************************************************)
(* A deploy and a validation, one after the other, or both at work when the*)
(* operator moves on before the first has ended.                           *)
(***************************************************************************)
EXTENDS OperationTransport

\* The deploy prints a line of its own; either log has a first and a last.
MCMaxOutput == [o \in Ops |-> IF o \in Mutating THEN 1 ELSE 0]
=============================================================================
