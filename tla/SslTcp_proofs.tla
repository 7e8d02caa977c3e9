---------------------------- MODULE SslTcp_proofs ----------------------------
(***************************************************************************)
(* Theorems about SslTcp, for every set of clients, length of a message    *)
(* and place where a client may hang.                                      *)
(***************************************************************************)
EXTENDS SslTcp, SequenceTheorems, TLAPS

-----------------------------------------------------------------------------
(* The type invariant, and the client that the server is busy with.        *)

(* The server has a client exactly while it is out of accept.              *)
Busy == at = "accept" <=> conn = NoClient

LEMMA InitTypeOK == Init => TypeOK /\ Busy
BY SslTcpAssumption, EmptySeq DEF Init, TypeOK, Busy

(* A step of a client is one of these.                                     *)
ClientNext(c) == Connect(c) \/ ClientStep(c) \/ Die(c) \/ Hang(c)

(* It leaves the server alone; its program only goes on and sends no more  *)
(* than its message.                                                       *)
ClientMove(c) ==
    /\ UNCHANGED <<at, conn, got, answered, closed>>
    /\ \/ UNCHANGED client
       \/ /\ client[c] \notin {"done", "failed", "crashed", "hung"}
          /\ \E label \in {"auth", "write", "read", "done", "failed", "crashed", "hung"} :
                client' = [client EXCEPT ![c] = label]
    /\ \/ UNCHANGED flights
       \/ /\ client[c] = "auth" /\ flights[c] \in {0, 2}
          /\ flights' = [flights EXCEPT ![c] = @ + 1]
    /\ \/ UNCHANGED sent
       \/ sent[c] < Pieces /\ sent' = [sent EXCEPT ![c] = @ + 1]
    /\ \/ UNCHANGED backlog /\ client[c] # "start"
       \/ backlog' = Append(backlog, c)

LEMMA ClientMoves == ASSUME TypeOK, NEW c \in Clients, ClientNext(c) PROVE ClientMove(c)
<1> USE DEF ClientMove
<1>1. CASE Connect(c)
  BY <1>1 DEF Connect, Goto, serverVars
<1>2. CASE AuthenticateAsClient(c)
  BY <1>2 DEF AuthenticateAsClient, Goto, serverVars
<1>3. CASE Write(c)
  BY <1>3 DEF Write, Goto, serverVars
<1>4. CASE ReadAnswer(c)
  BY <1>4 DEF ReadAnswer, Goto, serverVars
<1>5. CASE Die(c)
  BY <1>5 DEF Die, Goto, serverVars
<1>6. CASE Hang(c)
  BY <1>6, SslTcpAssumption DEF Hang, Goto, serverVars
<1> QED BY <1>1, <1>2, <1>3, <1>4, <1>5, <1>6 DEF ClientNext, ClientStep

LEMMA ClientTypeOK ==
    ASSUME TypeOK, Busy, NEW c \in Clients, ClientNext(c)
    PROVE  TypeOK' /\ Busy'
<1>0. ClientMove(c)
  BY ClientMoves
<1>1. UNCHANGED <<at, conn, got, answered, closed>> /\ Busy'
  BY <1>0 DEF ClientMove, Busy
<1>2. client' \in [Clients -> {"start", "auth", "write", "read",
                               "done", "failed", "crashed", "hung"}]
  BY <1>0 DEF ClientMove, TypeOK
<1>3. flights' \in [Clients -> 0..4]
  <2>1. flights \in [Clients -> 0..4]
    BY DEF TypeOK
  <2>2. UNCHANGED flights \/ /\ flights[c] \in {0, 2}
                             /\ flights' = [flights EXCEPT ![c] = @ + 1]
    BY <1>0 DEF ClientMove
  <2> QED BY <2>1, <2>2
<1>4. /\ sent' \in [Clients -> 0..Pieces]
      /\ \A d \in Clients : got'[d] <= sent'[d]
  <2>1. /\ got' = got /\ got \in [Clients -> 0..Pieces] /\ sent \in [Clients -> 0..Pieces]
        /\ \A d \in Clients : got[d] <= sent[d]
    BY <1>0 DEF ClientMove, TypeOK
  <2>2. UNCHANGED sent \/ (sent[c] < Pieces /\ sent' = [sent EXCEPT ![c] = @ + 1])
    BY <1>0 DEF ClientMove
  <2> QED BY <2>1, <2>2, SslTcpAssumption
<1>5. backlog' \in Seq(Clients)
  <2>1. UNCHANGED backlog \/ backlog' = Append(backlog, c)
    BY <1>0 DEF ClientMove
  <2>2. backlog \in Seq(Clients)
    BY DEF TypeOK
  <2> QED BY <2>1, <2>2
<1> QED BY <1>1, <1>2, <1>3, <1>4, <1>5 DEF TypeOK

LEMMA ServerTypeOK ==
    ASSUME TypeOK, Busy, ServerStep
    PROVE  TypeOK' /\ Busy'
<1>1. CASE Accept
  BY <1>1, HeadTailProperties, SslTcpAssumption DEF Accept, TypeOK, Busy
<1>2. at # "accept" => conn \in Clients
  BY DEF TypeOK, Busy
<1>3. CASE AuthenticateAsServer
  <2>1. conn \in Clients /\ at # "accept" /\ flights \in [Clients -> 0..4]
    BY <1>2, <1>3 DEF AuthenticateAsServer, TypeOK
  <2>2. /\ at' \in {"auth", "read", "refused", "finally"}
        /\ \/ UNCHANGED flights
           \/ flights[conn] \in {1, 3} /\ flights' = [flights EXCEPT ![conn] = @ + 1]
        /\ UNCHANGED <<client, sent, backlog, conn, got, answered, closed>>
    BY <1>3 DEF AuthenticateAsServer, clientVars
  <2>3. flights' \in [Clients -> 0..4]
    BY <2>1, <2>2
  <2> QED BY <2>1, <2>2, <2>3 DEF TypeOK, Busy
<1>4. CASE ReadMessage
  <2>1. /\ conn \in Clients /\ at # "accept" /\ Pieces \in Nat
        /\ got \in [Clients -> 0..Pieces] /\ sent \in [Clients -> 0..Pieces]
        /\ \A c \in Clients : got[c] <= sent[c]
    BY <1>2, <1>4, SslTcpAssumption DEF ReadMessage, TypeOK
  <2>2. /\ at' \in {"read", "write", "finally"}
        /\ \/ UNCHANGED got
           \/ got[conn] < sent[conn] /\ got' = [got EXCEPT ![conn] = @ + 1]
        /\ UNCHANGED <<client, sent, backlog, flights, conn, answered, closed>>
    BY <1>4 DEF ReadMessage, Read, clientVars
  <2>3. got' \in [Clients -> 0..Pieces] /\ \A c \in Clients : got'[c] <= sent'[c]
    BY <2>1, <2>2
  <2> QED BY <2>1, <2>2, <2>3 DEF TypeOK, Busy
<1>5. CASE TimeOut \/ WriteAnswer \/ Refused \/ Finally
  BY <1>2, <1>5, SslTcpAssumption
     DEF TimeOut, Timed, WriteAnswer, Refused, Finally, clientVars, TypeOK, Busy
<1> QED BY <1>1, <1>3, <1>4, <1>5 DEF ServerStep

LEMMA NextTypeOK == TypeOK /\ Busy /\ [Next]_vars => TypeOK' /\ Busy'
<1> SUFFICES ASSUME TypeOK, Busy, [Next]_vars PROVE TypeOK' /\ Busy'
  OBVIOUS
<1>1. CASE UNCHANGED vars
  BY <1>1 DEF vars, TypeOK, Busy
<1> QED BY <1>1, ClientTypeOK, ServerTypeOK DEF Next, ClientNext

-----------------------------------------------------------------------------
(* Every connection is closed.                                             *)

(* A client that connected waits in the queue, is being processed, or was  *)
(* closed.                                                                 *)
Queued(c) == \E i \in DOMAIN backlog : backlog[i] = c
Accounted(c) == client[c] = "start" \/ c = conn \/ Queued(c) \/ closed[c]

LEMMA AppendQueues ==
    ASSUME backlog \in Seq(Clients), NEW d \in Clients, backlog' = Append(backlog, d)
    PROVE  Queued(d)' /\ \A c \in Clients : Queued(c) => Queued(c)'
<1>1. /\ Len(backlog) \in Nat /\ DOMAIN backlog = 1..Len(backlog)
      /\ DOMAIN backlog' = 1..Len(backlog) + 1
      /\ backlog'[Len(backlog) + 1] = d
      /\ \A i \in 1..Len(backlog) : backlog'[i] = backlog[i]
  BY AppendProperties, LenProperties
<1> QED BY <1>1 DEF Queued

LEMMA TailQueues ==
    ASSUME backlog \in Seq(Clients), backlog # <<>>, backlog' = Tail(backlog)
    PROVE  \A c \in Clients : Queued(c) => Queued(c)' \/ c = Head(backlog)
<1> SUFFICES ASSUME NEW c \in Clients, NEW i \in DOMAIN backlog, backlog[i] = c,
                    c # Head(backlog)
             PROVE  Queued(c)'
  BY DEF Queued
<1>1. /\ Len(backlog) \in Nat \ {0} /\ DOMAIN backlog = 1..Len(backlog)
      /\ DOMAIN backlog' = 1..Len(backlog) - 1
      /\ \A j \in 1..Len(backlog) - 1 : backlog'[j] = backlog[j + 1]
      /\ Head(backlog) = backlog[1]
  BY HeadTailProperties, LenProperties, EmptySeq
<1>2. i - 1 \in DOMAIN backlog' /\ backlog'[i - 1] = c
  BY <1>1
<1> QED BY <1>2 DEF Queued

LEMMA AccountedStep ==
    TypeOK /\ Busy /\ AcceptedAreClosed /\ [Next]_vars => AcceptedAreClosed'
<1> SUFFICES ASSUME TypeOK, Busy, AcceptedAreClosed, [Next]_vars, NEW c \in Clients
             PROVE  Accounted(c)'
  BY DEF AcceptedAreClosed, Accounted, Queued
<1>1. Accounted(c)
  BY DEF AcceptedAreClosed, Accounted, Queued
<1>2. ASSUME NEW d \in Clients, ClientNext(d) PROVE Accounted(c)'
  <2>1. ClientMove(d)
    BY <1>2, ClientMoves
  <2>2. /\ conn' = conn /\ closed' = closed
        /\ client \in [Clients -> {"start", "auth", "write", "read",
                                   "done", "failed", "crashed", "hung"}]
        /\ c # d => client'[c] = client[c]
    BY <2>1 DEF ClientMove, TypeOK
  <2>3. CASE backlog' = Append(backlog, d)
    BY <1>1, <2>2, <2>3, AppendQueues DEF Accounted, TypeOK
  <2>4. CASE UNCHANGED backlog /\ client[d] # "start"
    BY <1>1, <2>2, <2>4 DEF Accounted, Queued
  <2> QED BY <2>1, <2>3, <2>4 DEF ClientMove
<1>3. CASE Accept
  <2>1. conn = NoClient /\ client' = client /\ closed' = closed /\ conn' = Head(backlog)
    BY <1>3 DEF Accept, Busy
  <2>2. Queued(c) => Queued(c)' \/ c = Head(backlog)
    BY <1>3, TailQueues DEF Accept, TypeOK
  <2> QED BY <1>1, <2>1, <2>2, SslTcpAssumption DEF Accounted
<1>4. CASE Finally
  <2>1. /\ client' = client /\ Queued(c)' = Queued(c)
        /\ closed \in [Clients -> BOOLEAN] /\ closed' = [closed EXCEPT ![conn] = TRUE]
    BY <1>4 DEF Finally, clientVars, Queued, TypeOK
  <2> QED BY <1>1, <2>1 DEF Accounted
<1>5. CASE Refused
  <2>1. /\ client' = client /\ conn' = conn /\ Queued(c)' = Queued(c)
        /\ closed \in [Clients -> BOOLEAN] /\ closed' = [closed EXCEPT ![conn] = TRUE]
    BY <1>5 DEF Refused, clientVars, Queued, TypeOK
  <2> QED BY <1>1, <2>1 DEF Accounted
<1>6. CASE AuthenticateAsServer \/ ReadMessage \/ TimeOut \/ WriteAnswer \/ UNCHANGED vars
  <2>1. UNCHANGED <<client, conn, backlog, closed>>
    BY <1>6 DEF AuthenticateAsServer, ReadMessage, TimeOut, WriteAnswer, clientVars, vars
  <2> QED BY <1>1, <2>1 DEF Accounted, Queued
<1> QED BY <1>2, <1>3, <1>4, <1>5, <1>6 DEF Next, ServerStep, ClientNext

-----------------------------------------------------------------------------
(* Only whole messages are answered.                                       *)

(* The server writes its answer when it has read the whole message, or     *)
(* found the end of the stream.                                            *)
WritesWhole == at = "write" => got[conn] = Pieces \/ Gone(conn)

LEMMA GoneStays ==
    ASSUME TypeOK, [Next]_vars, NEW c \in Clients, Gone(c)
    PROVE  Gone(c)'
<1>1. ASSUME NEW d \in Clients, ClientNext(d) PROVE Gone(c)'
  <2>1. ClientMove(d)
    BY <1>1, ClientMoves
  <2> QED BY <2>1 DEF ClientMove, Gone, TypeOK
<1>2. CASE ServerStep \/ UNCHANGED vars
  <2>1. client' = client
    BY <1>2 DEF ServerStep, Accept, AuthenticateAsServer, ReadMessage, TimeOut, WriteAnswer,
               Refused, Finally, clientVars, vars
  <2> QED BY <2>1 DEF Gone
<1> QED BY <1>1, <1>2 DEF Next, ClientNext

LEMMA AnswersStep ==
    TypeOK /\ Busy /\ WritesWhole /\ AnswersWholeMessages /\ [Next]_vars
        => WritesWhole' /\ AnswersWholeMessages'
<1> SUFFICES ASSUME TypeOK, Busy, WritesWhole, AnswersWholeMessages, [Next]_vars
             PROVE  WritesWhole' /\ AnswersWholeMessages'
  OBVIOUS
<1>0. at # "accept" => conn \in Clients
  BY DEF TypeOK, Busy
<1>1. CASE UNCHANGED <<at, conn, got, answered>>
  BY <1>0, <1>1, GoneStays DEF WritesWhole, AnswersWholeMessages
<1>2. CASE ReadMessage
  <2>1. /\ conn \in Clients /\ conn' = conn /\ answered' = answered /\ client' = client
        /\ Pieces \in Nat /\ got \in [Clients -> 0..Pieces] /\ sent[conn] <= Pieces
        /\ sent[conn] \in Nat
    BY <1>0, <1>2, SslTcpAssumption DEF ReadMessage, clientVars, TypeOK
  <2>2. CASE Read(conn)
    <3>1. /\ got[conn] < sent[conn] /\ got' = [got EXCEPT ![conn] = @ + 1]
          /\ at' = "write" => got'[conn] = Pieces
      BY <2>2 DEF Read
    <3>2. got[conn] # Pieces
      BY <2>1, <3>1
    <3> QED BY <2>1, <3>1, <3>2 DEF WritesWhole, AnswersWholeMessages, Gone
  <2>3. CASE Gone(conn) /\ UNCHANGED got
    BY <2>1, <2>3 DEF WritesWhole, AnswersWholeMessages, Gone
  <2> QED BY <1>2, <2>2, <2>3 DEF ReadMessage
<1>3. CASE WriteAnswer
  <2>1. /\ conn \in Clients /\ at = "write" /\ at' = "finally"
        /\ UNCHANGED <<client, got>> /\ answered \in [Clients -> BOOLEAN]
        /\ answered' = [answered EXCEPT ![conn] = TRUE] \/ answered' = answered
    BY <1>0, <1>3 DEF WriteAnswer, clientVars, TypeOK
  <2> QED BY <2>1 DEF WritesWhole, AnswersWholeMessages, Gone
<1>4. CASE Accept \/ AuthenticateAsServer \/ TimeOut \/ Refused \/ Finally
  <2>1. at' # "write" /\ UNCHANGED <<client, got, answered>>
    BY <1>4 DEF Accept, AuthenticateAsServer, TimeOut, Refused, Finally, clientVars
  <2> QED BY <2>1 DEF WritesWhole, AnswersWholeMessages, Gone
<1>5. ASSUME NEW d \in Clients, ClientNext(d) PROVE UNCHANGED <<at, conn, got, answered>>
  BY <1>5, ClientMoves DEF ClientMove
<1> QED BY <1>1, <1>2, <1>3, <1>4, <1>5 DEF Next, ServerStep, ClientNext, vars

-----------------------------------------------------------------------------
(* A client that hangs in its handshake.                                   *)

LEMMA BlockedStays ==
    ASSUME TypeOK, Busy, [Next]_vars, Blocked
    PROVE  Blocked' /\ answered' = answered
<1>1. /\ at = "auth" /\ conn \in Clients /\ client[conn] = "hung"
      /\ flights[conn] \in {0, 2} /\ ~Gone(conn)
  BY DEF Blocked, Waiting, Gone, TypeOK, Busy
<1>2. CASE UNCHANGED vars
  BY <1>2 DEF vars, Blocked, Waiting
<1>3. ASSUME NEW d \in Clients, ClientNext(d) PROVE Blocked' /\ answered' = answered
  <2>1. ClientMove(d) /\ flights \in [Clients -> 0..4]
    BY <1>3, ClientMoves DEF TypeOK
  <2>2. /\ UNCHANGED <<at, conn, answered>>
        /\ client'[conn] = client[conn] /\ flights'[conn] = flights[conn]
    BY <1>1, <2>1 DEF ClientMove, TypeOK
  <2> QED BY <1>1, <2>2 DEF Blocked, Waiting
<1>4. ~ServerStep
  BY <1>1 DEF ServerStep, Accept, AuthenticateAsServer, ReadMessage, TimeOut, Timed,
              WriteAnswer, Refused, Finally
<1> QED BY <1>2, <1>3, <1>4 DEF Next, ClientNext

-----------------------------------------------------------------------------

Safe == TypeOK /\ Busy /\ AcceptedAreClosed /\ WritesWhole /\ AnswersWholeMessages

LEMMA InitSafe == Init => Safe
BY InitTypeOK DEF Init, Safe, AcceptedAreClosed, WritesWhole, AnswersWholeMessages

LEMMA SafeAlways == Spec => []Safe
<1>1. Safe /\ [Next]_vars => Safe'
  BY NextTypeOK, AccountedStep, AnswersStep DEF Safe
<1> QED BY <1>1, InitSafe, PTL DEF Spec

(* Every variable keeps its type: the server never reads more of a message *)
(* than was sent.                                                          *)
THEOREM TypeCorrect == Spec => []TypeOK
<1>1. Safe => TypeOK
  BY DEF Safe
<1> QED BY <1>1, SafeAlways, PTL

(* However many clients there are and wherever each fails, the server      *)
(* closes every connection that it accepted.                               *)
THEOREM NoneLeaked == Spec => []AcceptedAreClosed
<1>1. Safe => AcceptedAreClosed
  BY DEF Safe
<1> QED BY <1>1, SafeAlways, PTL

(* A client that is still there gets an answer only to its whole message.  *)
THEOREM WholeMessages == Spec => []AnswersWholeMessages
<1>1. Safe => AnswersWholeMessages
  BY DEF Safe
<1> QED BY <1>1, SafeAlways, PTL

(* A client that hangs in its handshake blocks the server for ever.        *)
THEOREM HungBlocks == Spec => HungHandshakeBlocksAll
<1>1. Safe /\ [Next]_vars => [Blocked => Blocked' /\ answered' = answered]_vars
  BY BlockedStays DEF Safe
<1> QED BY <1>1, SafeAlways, PTL DEF Spec, HungHandshakeBlocksAll

=============================================================================
