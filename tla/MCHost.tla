------------------------------- MODULE MCHost --------------------------------
(***************************************************************************)
(* One host with two domains.  Nothing is bounded: the state space of      *)
(* ColodHost is finite for finite Domain and Pid.  Pids and domains are    *)
(* interchangeable.                                                        *)
(***************************************************************************)
EXTENDS ColodHost, TLC

Symmetry == Permutations(Pid) \cup Permutations(Domain)
=============================================================================
