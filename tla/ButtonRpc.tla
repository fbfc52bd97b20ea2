------------------------------ MODULE ButtonRpc ------------------------------
(***************************************************************************)
(* The calls the colod of one host makes to the colod of the other host    *)
(* (include/buttonrpc.hpp).  Every host has one server (a ZeroMQ REP       *)
(* socket, read by the loop of buttonrpc::run) and one client, the global  *)
(* remote_client (a REQ socket with a receive timeout of 20 s).  The       *)
(* daemon has one thread: while its client waits, its server does not      *)
(* serve.                                                                  *)
(*                                                                         *)
(* A REQ socket alternates strictly between a send and the reception of    *)
(* the answer.  Any other order fails with EFSM, which zmq.hpp throws as   *)
(* an exception nothing catches: the daemon ends.                          *)
(*                                                                         *)
(* ZeroMQ itself is outside the repository.  Assumed of it: a request that *)
(* was sent to a running peer arrives once, an answer reaches the socket   *)
(* that sent the request or is dropped, a socket that is closed still      *)
(* delivers what it holds, and the end of either process can lose what is  *)
(* on its way.                                                             *)
(***************************************************************************)
EXTENDS Integers, Sequences

CONSTANTS
  Node,    \* the hosts
  Peer,    \* Peer[n] is the host the colod of n calls
  Call,    \* the calls: a function name with its arguments
  NoCall   \* "no call"

ASSUME PeerAssumption ==
  /\ Peer \in [Node -> Node]
  /\ \A n \in Node : Peer[n] # n /\ Peer[Peer[n]] = n

ASSUME CallAssumption == NoCall \notin Call

VARIABLES
  up,            \* up[n]: the colod of n runs
  sock,          \* the REQ socket: "none", "ready" (to send), "waiting" (for an answer)
  m_error_code,  \* the result of the last net_call, which the next one reads
  calling,       \* the call net_call is receiving for, or NoCall
  req,           \* the request of the socket that no server has taken, or NoCall
  rep,           \* the answer on its way to the socket, or NoReply
  closed         \* requests of closed sockets that no server has taken

rpcVars == <<up, sock, m_error_code, calling, req, rep, closed>>

Reply == [call : Call, ok : BOOLEAN]
NoReply == [call |-> NoCall, ok |-> FALSE]

RpcTypeOK ==
  /\ up \in [Node -> BOOLEAN]
  /\ sock \in [Node -> {"none", "ready", "waiting"}]
  /\ m_error_code \in [Node -> {"success", "recv_timeout"}]
  /\ calling \in [Node -> Call \cup {NoCall}]
  /\ req \in [Node -> Call \cup {NoCall}]
  /\ rep \in [Node -> Reply \cup {NoReply}]
  /\ closed \in [Node -> Seq(Call)]

RpcInit ==
  /\ up = [n \in Node |-> TRUE]
  /\ sock = [n \in Node |-> "none"]
  /\ m_error_code = [n \in Node |-> "success"]
  /\ calling = [n \in Node |-> NoCall]
  /\ req = [n \in Node |-> NoCall]
  /\ rep = [n \in Node |-> NoReply]
  /\ closed = [n \in Node |-> << >>]

Serving(n) == up[n] /\ calling[n] = NoCall

-----------------------------------------------------------------------------
(***************************************************************************)
(* The client.                                                             *)
(***************************************************************************)

\* (The variant is not the code: it keeps a request that was already taken.)
as_client_keeps(n) ==
  /\ sock' = [sock EXCEPT ![n] = "ready"]
  /\ closed' = [closed EXCEPT ![n] = Append(@, req[n])]
  /\ req' = [req EXCEPT ![n] = NoCall]
  /\ rep' = [rep EXCEPT ![n] = NoReply]
  /\ UNCHANGED <<up, m_error_code, calling>>

\* The socket of n is replaced.  What the old one had not delivered stays
\* with ZeroMQ, and the answer to it has nowhere to go.  m_error_code is left
\* as the old socket left it.
as_client(n) ==
  /\ sock' = [sock EXCEPT ![n] = "ready"]
  /\ closed' = [closed EXCEPT ![n] = IF req[n] = NoCall THEN @ ELSE Append(@, req[n])]
  /\ req' = [req EXCEPT ![n] = NoCall]
  /\ rep' = [rep EXCEPT ![n] = NoReply]
  /\ UNCHANGED <<up, m_error_code, calling>>

\* A call after one that timed out sends nothing: it only receives.
NoSend(n) == m_error_code[n] = "recv_timeout"

net_call(n, c) ==
  /\ Serving(n)
  /\ calling' = [calling EXCEPT ![n] = c]
  /\ IF NoSend(n)
     THEN sock[n] = "waiting" /\ UNCHANGED <<sock, req>>
     ELSE /\ sock[n] = "ready"
          /\ sock' = [sock EXCEPT ![n] = "waiting"]
          /\ req' = [req EXCEPT ![n] = c]
  /\ UNCHANGED <<up, m_error_code, rep, closed>>

\* The calls for which net_call cannot proceed: it receives on a socket that
\* sent nothing, sends on one that waits, or has no socket at all.
BadCall(n) == sock[n] # (IF NoSend(n) THEN "waiting" ELSE "ready")

\* A variant that is not the code: the error of an earlier call is not cleared.
recv_reply_keeps_error(n) ==
  /\ up[n] /\ calling[n] # NoCall /\ rep[n] # NoReply
  /\ sock' = [sock EXCEPT ![n] = "ready"]
  /\ calling' = [calling EXCEPT ![n] = NoCall]
  /\ rep' = [rep EXCEPT ![n] = NoReply]
  /\ UNCHANGED <<up, m_error_code, req, closed>>

\* The answer arrives, whatever call it answers.
recv_reply(n) ==
  /\ up[n] /\ calling[n] # NoCall /\ rep[n] # NoReply
  /\ sock' = [sock EXCEPT ![n] = "ready"]
  /\ m_error_code' = [m_error_code EXCEPT ![n] = "success"]
  /\ calling' = [calling EXCEPT ![n] = NoCall]
  /\ rep' = [rep EXCEPT ![n] = NoReply]
  /\ UNCHANGED <<up, req, closed>>

\* Variants of recv_timeout that are not the code: the socket can send again
\* (as with ZMQ_REQ_RELAXED), the timeout is not recorded, or net_call goes on
\* receiving after it.
recv_timeout_relaxed(n) ==
  /\ up[n] /\ calling[n] # NoCall
  /\ sock' = [sock EXCEPT ![n] = "ready"]
  /\ calling' = [calling EXCEPT ![n] = NoCall]
  /\ UNCHANGED <<up, m_error_code, req, rep, closed>>

recv_timeout_unrecorded(n) ==
  /\ up[n] /\ calling[n] # NoCall
  /\ calling' = [calling EXCEPT ![n] = NoCall]
  /\ UNCHANGED <<up, sock, m_error_code, req, rep, closed>>

recv_timeout_goes_on(n) ==
  /\ up[n] /\ calling[n] # NoCall
  /\ m_error_code' = [m_error_code EXCEPT ![n] = "recv_timeout"]
  /\ UNCHANGED <<up, sock, calling, req, rep, closed>>

\* ZMQ_RCVTIMEO: after 20 s receive returns an empty message.
recv_timeout(n) ==
  /\ up[n] /\ calling[n] # NoCall
  /\ m_error_code' = [m_error_code EXCEPT ![n] = "recv_timeout"]
  /\ calling' = [calling EXCEPT ![n] = NoCall]
  /\ UNCHANGED <<up, sock, req, rep, closed>>

-----------------------------------------------------------------------------
(***************************************************************************)
(* The server: one turn of the loop of run, with the handler it calls.  ok *)
(* is the sign of the code in the handler's answer.                        *)
(***************************************************************************)

\* A variant that is not the code: a daemon whose client still waits for an
\* answer does not serve.
run_unless_waiting(n, ok) ==
  /\ Serving(Peer[n]) /\ req[n] # NoCall /\ sock[Peer[n]] # "waiting"
  /\ req' = [req EXCEPT ![n] = NoCall]
  /\ rep' = [rep EXCEPT ![n] = [call |-> req[n], ok |-> ok]]
  /\ UNCHANGED <<up, sock, m_error_code, calling, closed>>

run(n, ok) ==
  /\ Serving(Peer[n]) /\ req[n] # NoCall
  /\ req' = [req EXCEPT ![n] = NoCall]
  /\ rep' = [rep EXCEPT ![n] = [call |-> req[n], ok |-> ok]]
  /\ UNCHANGED <<up, sock, m_error_code, calling, closed>>

\* The handler replaces the client socket of its own host before it answers.
run_as_client(n, ok) ==
  /\ Serving(Peer[n]) /\ req[n] # NoCall
  /\ sock' = [sock EXCEPT ![Peer[n]] = "ready"]
  /\ closed' = [closed EXCEPT ![Peer[n]] =
                  IF req[Peer[n]] = NoCall THEN @ ELSE Append(@, req[Peer[n]])]
  /\ req' = [req EXCEPT ![n] = NoCall, ![Peer[n]] = NoCall]
  /\ rep' = [rep EXCEPT ![n] = [call |-> req[n], ok |-> ok], ![Peer[n]] = NoReply]
  /\ UNCHANGED <<up, m_error_code, calling>>

\* The same turn for the i-th request of a closed socket; its answer is dropped.
WithoutIndex(s, i) == SubSeq(s, 1, i - 1) \o SubSeq(s, i + 1, Len(s))

run_closed(n, i) ==
  /\ Serving(Peer[n]) /\ i \in DOMAIN closed[n]
  /\ closed' = [closed EXCEPT ![n] = WithoutIndex(@, i)]
  /\ UNCHANGED <<up, sock, m_error_code, calling, req, rep>>

run_closed_as_client(n, i) ==
  /\ Serving(Peer[n]) /\ i \in DOMAIN closed[n]
  /\ sock' = [sock EXCEPT ![Peer[n]] = "ready"]
  /\ closed' = [closed EXCEPT ![n] = WithoutIndex(@, i),
                              ![Peer[n]] = IF req[Peer[n]] = NoCall
                                           THEN @ ELSE Append(@, req[Peer[n]])]
  /\ req' = [req EXCEPT ![Peer[n]] = NoCall]
  /\ rep' = [rep EXCEPT ![Peer[n]] = NoReply]
  /\ UNCHANGED <<up, m_error_code, calling>>

-----------------------------------------------------------------------------
(***************************************************************************)
(* The end of a daemon, and its next start.  What n sent may have reached  *)
(* the peer (sent); what the peer sent to n may still be in the peer's     *)
(* socket, to be delivered to the next colod of n (kept).                  *)
(***************************************************************************)
Crash(n, sent, kept) ==
  LET m == Peer[n] IN
  /\ up[n]
  /\ up' = [up EXCEPT ![n] = FALSE]
  /\ sock' = [sock EXCEPT ![n] = "none"]
  /\ m_error_code' = [m_error_code EXCEPT ![n] = "success"]
  /\ calling' = [calling EXCEPT ![n] = NoCall]
  /\ closed' = [closed EXCEPT ![n] = IF ~sent THEN << >>
                                     ELSE IF req[n] = NoCall THEN @ ELSE Append(@, req[n]),
                              ![m] = IF kept THEN @ ELSE << >>]
  /\ req' = [req EXCEPT ![n] = NoCall, ![m] = IF kept THEN @ ELSE NoCall]
  /\ rep' = [rep EXCEPT ![n] = NoReply, ![m] = IF kept THEN @ ELSE NoReply]

Boot(n) ==
  /\ ~up[n]
  /\ up' = [up EXCEPT ![n] = TRUE]
  /\ UNCHANGED <<sock, m_error_code, calling, req, rep, closed>>

-----------------------------------------------------------------------------
\* connect-peer is the one handler that replaces the socket for itself.
connect(n) == Serving(n) /\ as_client(n)

ClientStep(n) ==
  \/ connect(n)
  \/ \E c \in Call : net_call(n, c)
  \/ recv_reply(n)
  \/ recv_timeout(n)

ServerStep(n) ==
  \/ \E ok \in BOOLEAN : run(n, ok) \/ run_as_client(n, ok)
  \/ \E i \in DOMAIN closed[n] : run_closed(n, i) \/ run_closed_as_client(n, i)

FaultStep(n) ==
  \/ \E sent, kept \in BOOLEAN : Crash(n, sent, kept)
  \/ Boot(n)

RpcNext == \E n \in Node : ClientStep(n) \/ ServerStep(n) \/ FaultStep(n)

(***************************************************************************)
(* A receive returns: with the answer or after 20 s.  A REP socket takes   *)
(* requests from its connections in turn, so a request that waits is taken *)
(* if the server comes back to its receive again and again.                *)
(***************************************************************************)
Returns(n) == recv_reply(n) \/ recv_timeout(n)
Takes(n) == \E ok \in BOOLEAN : run(n, ok) \/ run_as_client(n, ok)

RpcFairness ==
  \A n \in Node : WF_rpcVars(Returns(n)) /\ SF_rpcVars(Takes(n))

RpcSpec == RpcInit /\ [][RpcNext]_rpcVars
FairRpcSpec == RpcSpec /\ RpcFairness

-----------------------------------------------------------------------------
\* net_call reads m_error_code to know whether the socket can send.  Between
\* calls the two agree: a socket that still waits is one whose last call timed
\* out, so no call sends on a socket that waits.
SendReady ==
  \A n \in Node : Serving(n) /\ sock[n] = "waiting" => NoSend(n)

\* At most one request of a socket is unanswered, and none when it can send:
\* the request of one call never replaces the request of another.
OneOutstanding ==
  \A n \in Node :
    /\ req[n] = NoCall \/ rep[n] = NoReply
    /\ sock[n] # "waiting" => req[n] = NoCall /\ rep[n] = NoReply

\* Unless the call before it timed out, a call is answered by the answer to
\* itself: the only stale answer is the one m_error_code announces.
AnswerMatches ==
  \A n \in Node :
    calling[n] # NoCall /\ ~NoSend(n) =>
      /\ req[n] \in {NoCall, calling[n]}
      /\ rep[n].call \in {NoCall, calling[n]}

\* Two daemons that call each other are both deaf until one gives up; every
\* call returns all the same.
CallReturns == \A n \in Node : calling[n] # NoCall ~> calling[n] = NoCall

\* A request is taken, or dropped with its socket or with the server, however
\* often the server is itself away in calls.
RequestTaken ==
  \A n \in Node : req[n] # NoCall ~> req[n] = NoCall \/ ~up[Peer[n]]
=============================================================================
