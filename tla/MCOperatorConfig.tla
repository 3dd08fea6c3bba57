-------------------------- MODULE MCOperatorConfig --------------------------
(* OperatorConfig with two workers.                                         *)
EXTENDS OperatorConfig

\* Valid ones, ones with a minimum or a percentage that is not, and one without data.
MCConfigMaps ==
  {[minimum |-> 2, percentage |-> 20], [minimum |-> Nil, percentage |-> 100],
   [minimum |-> -1, percentage |-> 100], [minimum |-> 2, percentage |-> -200],
   [minimum |-> Nil, percentage |-> Nil]}
=============================================================================
