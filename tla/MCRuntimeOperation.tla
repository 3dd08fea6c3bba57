------------------------ MODULE MCRuntimeOperation ------------------------
(* RuntimeOperation on small instances; the .cfg files give the bounds.   *)
EXTENDS RuntimeOperation
CONSTANTS op1, op2
============================================================================
