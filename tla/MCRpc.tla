-------------------------------- MODULE MCRpc --------------------------------
(***************************************************************************)
(* Two hosts and two different calls for ButtonRpc.  The budget bounds the *)
(* number of calls, of fresh sockets and of crashes; timeouts are not      *)
(* bounded, because each ends a call.                                      *)
(***************************************************************************)
EXTENDS ButtonRpc, TLC

CONSTANTS a, b, MaxCalls, MaxSockets, MaxCrashes

MCPeer == a :> b @@ b :> a

VARIABLE spent  \* the calls, fresh sockets and crashes so far

mcVars == <<rpcVars, spent>>

MCInit == RpcInit /\ spent = [calls |-> 0, sockets |-> 0, crashes |-> 0]

Spend(what, limit) == spent[what] < limit /\ spent' = [spent EXCEPT ![what] = @ + 1]

MCNext ==
  \E n \in Node :
    \/ connect(n) /\ Spend("sockets", MaxSockets)
    \/ \E c \in Call : net_call(n, c) /\ Spend("calls", MaxCalls)
    \/ Returns(n) /\ UNCHANGED spent
    \/ \E ok \in BOOLEAN : run(n, ok) /\ UNCHANGED spent
    \/ \E ok \in BOOLEAN : run_as_client(n, ok) /\ Spend("sockets", MaxSockets)
    \/ \E i \in DOMAIN closed[n] : run_closed(n, i) /\ UNCHANGED spent
    \/ \E i \in DOMAIN closed[n] :
         run_closed_as_client(n, i) /\ Spend("sockets", MaxSockets)
    \/ \E sent, kept \in BOOLEAN : Crash(n, sent, kept) /\ Spend("crashes", MaxCrashes)
    \/ Boot(n) /\ UNCHANGED spent

MCSpec == MCInit /\ [][MCNext]_mcVars
MCTakes(n) == \E ok \in BOOLEAN : run(n, ok) /\ UNCHANGED spent
MCFairSpec ==
  MCSpec /\ \A n \in Node : WF_mcVars(Returns(n) /\ UNCHANGED spent) /\ SF_mcVars(MCTakes(n))
=============================================================================
