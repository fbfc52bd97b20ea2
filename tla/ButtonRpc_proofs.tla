-------------------------- MODULE ButtonRpc_proofs --------------------------
(***************************************************************************)
(* For any number of hosts and calls: the type invariant of ButtonRpc, and *)
(* that the client's socket and m_error_code stay in step.  The three      *)
(* safety properties hold each other up, so the inductive invariant is     *)
(* their conjunction with the two facts that make it inductive: only a     *)
(* waiting socket has a call, and only a running daemon has a socket.      *)
(***************************************************************************)
EXTENDS ButtonRpc, SequenceTheorems, TLAPS

-----------------------------------------------------------------------------
\* Removing an element of a sequence of calls leaves a sequence of calls
\* (a request of a closed socket is taken by run).
LEMMA WithoutIndexType ==
  ASSUME NEW s \in Seq(Call), NEW i \in DOMAIN s
  PROVE  WithoutIndex(s, i) \in Seq(Call)
<1>1. i \in 1 .. Len(s) /\ Len(s) \in Nat
  BY LenProperties
<1>2. SubSeq(s, 1, i - 1) \in Seq(Call)
  <2>1. \A j \in 1 .. (i - 1) : s[j] \in Call
    BY <1>1, ElementOfSeq
  <2> QED BY <1>1, <2>1, SubSeqProperties
<1>3. SubSeq(s, i + 1, Len(s)) \in Seq(Call)
  <2>1. \A j \in (i + 1) .. Len(s) : s[j] \in Call
    BY <1>1, ElementOfSeq
  <2> QED BY <1>1, <2>1, SubSeqProperties
<1> QED BY <1>2, <1>3, ConcatProperties DEF WithoutIndex

\* The queue of closed requests after a socket is closed.
LEMMA AppendType ==
  ASSUME NEW s \in Seq(Call), NEW c \in Call
  PROVE  Append(s, c) \in Seq(Call)
BY AppendProperties

\* No request is left on closed sockets at the start.
LEMMA EmptyType == << >> \in Seq(Call)
BY EmptySeq

-----------------------------------------------------------------------------
\* Every step of the call layer keeps the types of its variables.
LEMMA RpcTypeStep == RpcTypeOK /\ [RpcNext]_rpcVars => RpcTypeOK'
<1> SUFFICES ASSUME RpcTypeOK, [RpcNext]_rpcVars PROVE RpcTypeOK'
  OBVIOUS
<1> USE PeerAssumption DEF RpcTypeOK
<1>1. CASE UNCHANGED rpcVars
  BY <1>1 DEF rpcVars
<1>2. ASSUME NEW n \in Node, ClientStep(n) PROVE RpcTypeOK'
  <2>1. CASE connect(n)
    <3>1. closed' \in [Node -> Seq(Call)]
      BY <2>1, AppendType DEF connect, as_client
    <3> QED BY <2>1, <3>1 DEF connect, as_client
  <2>2. ASSUME NEW c \in Call, net_call(n, c) PROVE RpcTypeOK'
    BY <2>2 DEF net_call
  <2>3. CASE recv_reply(n)
    BY <2>3 DEF recv_reply
  <2>4. CASE recv_timeout(n)
    BY <2>4 DEF recv_timeout
  <2> QED BY <1>2, <2>1, <2>2, <2>3, <2>4 DEF ClientStep
<1>3. ASSUME NEW n \in Node, ServerStep(n) PROVE RpcTypeOK'
  <2> DEFINE m == Peer[n]
  <2>0. m \in Node
    OBVIOUS
  <2>1. ASSUME NEW ok \in BOOLEAN, run(n, ok) PROVE RpcTypeOK'
    BY <2>1 DEF run, Reply
  <2>2. ASSUME NEW ok \in BOOLEAN, run_as_client(n, ok) PROVE RpcTypeOK'
    <3>1. closed' \in [Node -> Seq(Call)]
      BY <2>0, <2>2, AppendType DEF run_as_client
    <3> QED BY <2>0, <2>2, <3>1 DEF run_as_client, Reply
  <2>3. ASSUME NEW i \in DOMAIN closed[n], run_closed(n, i) PROVE RpcTypeOK'
    <3>1. WithoutIndex(closed[n], i) \in Seq(Call)
      BY WithoutIndexType
    <3> QED BY <2>3, <3>1 DEF run_closed
  <2>4. ASSUME NEW i \in DOMAIN closed[n], run_closed_as_client(n, i) PROVE RpcTypeOK'
    <3>1. WithoutIndex(closed[n], i) \in Seq(Call)
      BY WithoutIndexType
    <3>2. closed' \in [Node -> Seq(Call)]
      BY <2>0, <2>4, <3>1, AppendType DEF run_closed_as_client
    <3> QED BY <2>0, <2>4, <3>2 DEF run_closed_as_client
  <2> QED BY <1>3, <2>1, <2>2, <2>3, <2>4 DEF ServerStep
<1>4. ASSUME NEW n \in Node, FaultStep(n) PROVE RpcTypeOK'
  <2>1. ASSUME NEW sent \in BOOLEAN, NEW kept \in BOOLEAN, Crash(n, sent, kept)
        PROVE  RpcTypeOK'
    <3> DEFINE left == IF ~sent THEN << >>
                       ELSE IF req[n] = NoCall THEN closed[n] ELSE Append(closed[n], req[n])
               still == IF kept THEN closed[Peer[n]] ELSE << >>
    <3>1. left \in Seq(Call) /\ still \in Seq(Call) /\ Peer[n] \in Node
      BY AppendType, EmptyType
    <3>2. closed' = [closed EXCEPT ![n] = left, ![Peer[n]] = still]
      BY <2>1 DEF Crash
    <3>3. closed' \in [Node -> Seq(Call)]
      <4> HIDE DEF left, still
      <4> QED BY <3>1, <3>2
    <3> QED BY <2>1, <3>3 DEF Crash
  <2>2. CASE Boot(n)
    BY <2>2 DEF Boot
  <2> QED BY <1>4, <2>1, <2>2 DEF FaultStep
<1> QED BY <1>1, <1>2, <1>3, <1>4 DEF RpcNext

\* The variables keep their types, whatever the two daemons do.
THEOREM RpcTypeCorrect == RpcSpec => []RpcTypeOK
<1>1. RpcInit => RpcTypeOK
  BY EmptyType DEF RpcInit, RpcTypeOK, Reply, NoReply
<1> QED BY <1>1, RpcTypeStep, PTL DEF RpcSpec

-----------------------------------------------------------------------------
\* A call is in progress only on a socket that waits, and only a daemon that
\* runs has a socket.
WaitingWhenCalling ==
  \A n \in Node :
    /\ calling[n] # NoCall => sock[n] = "waiting"
    /\ ~up[n] => sock[n] = "none"

RpcInv ==
  RpcTypeOK /\ WaitingWhenCalling /\ SendReady /\ OneOutstanding /\ AnswerMatches

\* A fresh daemon has no call in progress.
LEMMA RpcInvInit == RpcInit => RpcInv
BY EmptyType
  DEF RpcInit, RpcInv, RpcTypeOK, WaitingWhenCalling, SendReady, OneOutstanding,
      AnswerMatches, Reply, NoReply, Serving, NoSend

\* The same conjunction for one host.
InStep(k) ==
  /\ calling[k] # NoCall => sock[k] = "waiting"
  /\ ~up[k] => sock[k] = "none"
  /\ Serving(k) /\ sock[k] = "waiting" => NoSend(k)
  /\ req[k] = NoCall \/ rep[k] = NoReply
  /\ sock[k] # "waiting" => req[k] = NoCall /\ rep[k] = NoReply
  /\ calling[k] # NoCall /\ ~NoSend(k) =>
       req[k] \in {NoCall, calling[k]} /\ rep[k].call \in {NoCall, calling[k]}

\* The invariant is its instance for each host.
LEMMA InStepEverywhere == RpcInv <=> RpcTypeOK /\ \A k \in Node : InStep(k)
BY DEF RpcInv, InStep, WaitingWhenCalling, SendReady, OneOutstanding, AnswerMatches

\* The same after a step.
LEMMA InStepEverywherePrimed ==
  (RpcTypeOK /\ \A k \in Node : InStep(k))' => RpcInv'
BY DEF RpcInv, InStep, WaitingWhenCalling, SendReady, OneOutstanding, AnswerMatches

\* Every step keeps each host in step: one case for each action.
LEMMA RpcInvStep ==
  RpcInv /\ RpcTypeOK' /\ [RpcNext]_rpcVars => RpcInv'
<1> SUFFICES ASSUME RpcTypeOK, \A k \in Node : InStep(k), [RpcNext]_rpcVars,
                    NEW k \in Node
             PROVE  InStep(k)'
  BY InStepEverywhere, InStepEverywherePrimed
<1>0. /\ InStep(k) /\ up \in [Node -> BOOLEAN]
      /\ sock = [j \in Node |-> sock[j]]
      /\ m_error_code = [j \in Node |-> m_error_code[j]]
      /\ calling = [j \in Node |-> calling[j]]
      /\ req = [j \in Node |-> req[j]]
      /\ rep = [j \in Node |-> rep[j]]
  BY DEF RpcTypeOK
<1> USE PeerAssumption, CallAssumption DEF InStep, Serving, NoSend, NoReply
<1>1. CASE UNCHANGED rpcVars
  BY <1>0, <1>1 DEF rpcVars
<1>2. ASSUME NEW n \in Node, ClientStep(n) PROVE InStep(k)'
  <2>1. CASE connect(n)
    BY <1>0, <2>1 DEF connect, as_client
  <2>2. ASSUME NEW c \in Call, net_call(n, c) PROVE InStep(k)'
    <3>1. CASE k = n /\ NoSend(n)
      BY <1>0, <2>2, <3>1 DEF net_call
    <3>2. CASE k = n /\ ~NoSend(n)
      BY <1>0, <2>2, <3>2 DEF net_call
    <3>3. CASE k # n
      BY <1>0, <2>2, <3>3 DEF net_call
    <3> QED BY <3>1, <3>2, <3>3
  <2>3. CASE recv_reply(n)
    <3>1. CASE k = n
      BY <1>0, <2>3, <3>1 DEF recv_reply
    <3>2. CASE k # n
      BY <1>0, <2>3, <3>2 DEF recv_reply
    <3> QED BY <3>1, <3>2
  <2>4. CASE recv_timeout(n)
    BY <1>0, <2>4 DEF recv_timeout
  <2> QED BY <1>2, <2>1, <2>2, <2>3, <2>4 DEF ClientStep
<1>3. ASSUME NEW n \in Node, ServerStep(n) PROVE InStep(k)'
  <2>1. ASSUME NEW ok \in BOOLEAN, run(n, ok) PROVE InStep(k)'
    <3>1. CASE k = n
      BY <1>0, <2>1, <3>1 DEF run
    <3>2. CASE k = Peer[n] /\ k # n
      BY <1>0, <2>1, <3>2 DEF run
    <3>3. CASE k # n /\ k # Peer[n]
      BY <1>0, <2>1, <3>3 DEF run
    <3> QED BY <3>1, <3>2, <3>3
  <2>2. ASSUME NEW ok \in BOOLEAN, run_as_client(n, ok) PROVE InStep(k)'
    <3>1. CASE k = n
      BY <1>0, <2>2, <3>1 DEF run_as_client
    <3>2. CASE k = Peer[n] /\ k # n
      BY <1>0, <2>2, <3>2 DEF run_as_client
    <3>3. CASE k # n /\ k # Peer[n]
      BY <1>0, <2>2, <3>3 DEF run_as_client
    <3> QED BY <3>1, <3>2, <3>3
  <2>3. ASSUME NEW i \in DOMAIN closed[n], run_closed(n, i) PROVE InStep(k)'
    BY <1>0, <2>3 DEF run_closed
  <2>4. ASSUME NEW i \in DOMAIN closed[n], run_closed_as_client(n, i) PROVE InStep(k)'
    BY <1>0, <2>4 DEF run_closed_as_client
  <2> QED BY <1>3, <2>1, <2>2, <2>3, <2>4 DEF ServerStep
<1>4. ASSUME NEW n \in Node, FaultStep(n) PROVE InStep(k)'
  <2>1. ASSUME NEW sent \in BOOLEAN, NEW kept \in BOOLEAN, Crash(n, sent, kept)
        PROVE  InStep(k)'
    <3>1. CASE k = n
      BY <1>0, <2>1, <3>1 DEF Crash
    <3>2. CASE k = Peer[n] /\ k # n
      BY <1>0, <2>1, <3>2 DEF Crash
    <3>3. CASE k # n /\ k # Peer[n]
      BY <1>0, <2>1, <3>3 DEF Crash
    <3> QED BY <3>1, <3>2, <3>3
  <2>2. CASE Boot(n)
    BY <1>0, <2>2 DEF Boot
  <2> QED BY <1>4, <2>1, <2>2 DEF FaultStep
<1> QED BY <1>1, <1>2, <1>3, <1>4 DEF RpcNext

\* Socket, error code, request and answer of every host move in step, through
\* timeouts, replaced sockets and crashes.
THEOREM RpcInvariant == RpcSpec => []RpcInv
<1>1. RpcInit => RpcInv
  BY RpcInvInit
<1>2. RpcInv /\ RpcTypeOK' /\ [RpcNext]_rpcVars => RpcInv'
  BY RpcInvStep
<1>3. RpcSpec => []RpcTypeOK
  BY RpcTypeCorrect
<1> QED BY <1>1, <1>2, <1>3, PTL DEF RpcSpec

-----------------------------------------------------------------------------
\* net_call never sends on a socket that waits for an answer: m_error_code
\* tells it so in every state between two calls.
THEOREM SendReadyAlways == RpcSpec => []SendReady
<1>1. RpcInv => SendReady
  BY DEF RpcInv
<1> QED BY <1>1, RpcInvariant, PTL

\* A socket has at most one unanswered request, and none when it can send.
THEOREM OneOutstandingAlways == RpcSpec => []OneOutstanding
<1>1. RpcInv => OneOutstanding
  BY DEF RpcInv
<1> QED BY <1>1, RpcInvariant, PTL

\* A call that follows no timeout is answered by the answer to itself.
THEOREM AnswerMatchesAlways == RpcSpec => []AnswerMatches
<1>1. RpcInv => AnswerMatches
  BY DEF RpcInv
<1> QED BY <1>1, RpcInvariant, PTL
=============================================================================
