---------------------------- MODULE MCSubmission -----------------------------
(***************************************************************************)
(* Two calls at the same time with one account, of every two kinds. The    *)
(* calls are interchangeable, so one order of two different kinds is       *)
(* enough.                                                                 *)
(***************************************************************************)
EXTENDS Submission

MCMixes ==
  {m \in [Calls -> Kinds] :
     <<m[1], m[2]>> \notin {<<"solution", "proof">>, <<"entry", "proof">>, <<"entry", "solution">>}}
=============================================================================
