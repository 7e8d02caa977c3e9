-------------------------------- MODULE SslTcp --------------------------------
(***************************************************************************)
(* DotnetServer serving its clients: SslTcpServer.RunServer and            *)
(* ProcessClient, one client after the other, and for each client the      *)
(* program of DotnetClient, SslTcpClient.RunClient.                        *)
(*                                                                         *)
(* The TLS 1.2 handshake has four flights, the first and third from the    *)
(* client.  A message travels in pieces, the last of which holds the       *)
(* marker (see ReadMessage).                                               *)
(***************************************************************************)
EXTENDS Naturals, Sequences

CONSTANTS
    Clients, \* runs of the client program
    NoClient,
    Pieces,  \* pieces that the client's message travels in
    HangAt   \* where a client may stop without closing its connection

ASSUME SslTcpAssumption ==
    /\ NoClient \notin Clients /\ Pieces \in Nat \ {0}
    /\ HangAt \subseteq {"auth", "write", "read"}

VARIABLES
    client,  \* where each client is
    flights, \* flights of each handshake that were sent
    sent,    \* pieces of its message that each client wrote
    got,     \* pieces of it that the server read
    answered, \* did the server write its message to the client?
    backlog, \* the listener's queue of clients that are not accepted yet
    at,      \* where the server is
    conn,    \* the client that it is processing
    closed   \* did the server close the connection of the client?

clientVars == <<client, sent, backlog>>
serverVars == <<at, conn, got, answered, closed>>
vars == <<client, flights, sent, got, answered, backlog, at, conn, closed>>

TypeOK ==
    /\ client \in [Clients -> {"start", "auth", "write", "read",
                               "done", "failed", "crashed", "hung"}]
    /\ flights \in [Clients -> 0..4]
    /\ sent \in [Clients -> 0..Pieces]
    /\ got \in [Clients -> 0..Pieces] /\ \A c \in Clients : got[c] <= sent[c]
    /\ answered \in [Clients -> BOOLEAN] /\ closed \in [Clients -> BOOLEAN]
    /\ backlog \in Seq(Clients)
    /\ at \in {"accept", "auth", "read", "write", "refused", "finally"}
    /\ conn \in Clients \cup {NoClient}

Init ==
    /\ client = [c \in Clients |-> "start"]
    /\ flights = [c \in Clients |-> 0]
    /\ sent = [c \in Clients |-> 0] /\ got = [c \in Clients |-> 0]
    /\ answered = [c \in Clients |-> FALSE]
    /\ closed = [c \in Clients |-> FALSE]
    /\ backlog = <<>> /\ at = "accept" /\ conn = NoClient

(* The client's end is closed: by the program, or because it ended.        *)
Gone(c) == client[c] \in {"done", "failed", "crashed"}

-----------------------------------------------------------------------------
(* Mutants: plausible bugs, one for each property to catch.                *)

(* Mutant: ReadMessage() returns what the first read delivered.            *)
ReadOnce(c) ==
    /\ got[c] < sent[c]
    /\ got' = [got EXCEPT ![c] = @ + 1]
    /\ at' = "write"

(* Mutant: an empty read is counted as a piece.                            *)
ReadUnsent(c) ==
    /\ got' = [got EXCEPT ![c] = @ + 1]
    /\ at' = IF got'[c] = Pieces THEN "write" ELSE "read"

(* Mutant: no timeouts are set.                                            *)
NeverTimed == {}

(* Mutant: the timeouts are set before the handshake.                      *)
TimedFromStart == {"auth", "read"}

(* Mutant: the handler of AuthenticationException returns, and nothing     *)
(* closes the connection.                                                  *)
RefusedReturns ==
    /\ at = "refused" /\ at' = "accept" /\ conn' = NoClient
    /\ UNCHANGED <<clientVars, flights, got, answered, closed>>

-----------------------------------------------------------------------------
(* RunClient                                                               *)

Goto(c, label) == client' = [client EXCEPT ![c] = label]

Connect(c) ==
    /\ client[c] = "start" /\ Goto(c, "auth")
    /\ backlog' = Append(backlog, c)
    /\ UNCHANGED <<flights, sent, serverVars>>

AuthenticateAsClient(c) ==
    /\ client[c] = "auth"
    /\ \/ /\ flights[c] \in {0, 2} /\ ~closed[c]
          /\ flights' = [flights EXCEPT ![c] = @ + 1] /\ UNCHANGED client
       \/ flights[c] = 4 /\ Goto(c, "write") /\ UNCHANGED flights
       \/ \* the handshake is refused: AuthenticationException
          flights[c] = 2 /\ Goto(c, "failed") /\ UNCHANGED flights
       \/ \* the server is gone: only AuthenticationException is caught
          /\ closed[c] /\ (Goto(c, "failed") \/ Goto(c, "crashed"))
          /\ UNCHANGED flights
    /\ UNCHANGED <<sent, backlog, serverVars>>

Write(c) ==
    /\ client[c] = "write"
    /\ \/ /\ sent[c] < Pieces
          /\ sent' = [sent EXCEPT ![c] = @ + 1] /\ UNCHANGED client
       \/ sent[c] = Pieces /\ Goto(c, "read") /\ UNCHANGED sent
       \/ closed[c] /\ Goto(c, "crashed") /\ UNCHANGED sent
    /\ UNCHANGED <<flights, backlog, serverVars>>

(* ReadMessage() returns the server's message, or what there is when the   *)
(* server has closed; what the server did not read resets the connection.  *)
ReadAnswer(c) ==
    /\ client[c] = "read"
    /\ \/ (answered[c] \/ closed[c]) /\ Goto(c, "done")
       \/ closed[c] /\ got[c] < sent[c] /\ Goto(c, "crashed")
    /\ UNCHANGED <<flights, sent, backlog, serverVars>>

ClientStep(c) == AuthenticateAsClient(c) \/ Write(c) \/ ReadAnswer(c)

(* Faults: the client's process ends, or its phone drops off the network.  *)
Die(c) ==
    /\ client[c] \in {"auth", "write", "read"} /\ Goto(c, "crashed")
    /\ UNCHANGED <<flights, sent, backlog, serverVars>>

Hang(c) ==
    /\ client[c] \in HangAt /\ Goto(c, "hung")
    /\ UNCHANGED <<flights, sent, backlog, serverVars>>

-----------------------------------------------------------------------------
(* RunServer and ProcessClient                                             *)

Accept ==
    /\ at = "accept" /\ backlog # <<>>
    /\ conn' = Head(backlog) /\ backlog' = Tail(backlog)
    /\ at' = "auth"
    /\ UNCHANGED <<client, sent, flights, got, answered, closed>>

AuthenticateAsServer ==
    /\ at = "auth"
    /\ \/ /\ flights[conn] \in {1, 3}
          /\ flights' = [flights EXCEPT ![conn] = @ + 1]
          /\ at' = IF flights[conn] = 3 THEN "read" ELSE "auth"
       \/ \* AuthenticationException
          flights[conn] \in {1, 3} /\ at' = "refused" /\ UNCHANGED flights
       \/ \* an alert, or the IOException of an unexpected end
          /\ flights[conn] \in {0, 2} /\ Gone(conn)
          /\ at' \in {"refused", "finally"} /\ UNCHANGED flights
    /\ UNCHANGED <<clientVars, conn, got, answered, closed>>

(* One read of ReadMessage(), which goes on until the marker.              *)
Read(c) ==
    /\ got[c] < sent[c]
    /\ got' = [got EXCEPT ![c] = @ + 1]
    /\ at' = IF got'[c] = Pieces THEN "write" ELSE "read"

ReadMessage ==
    /\ at = "read"
    /\ \/ Read(conn)
       \/ \* the end of the stream ends the loop, a reset throws
          /\ Gone(conn) /\ got[conn] = sent[conn]
          /\ at' \in {"write", "finally"} /\ UNCHANGED got
    /\ UNCHANGED <<clientVars, flights, conn, answered, closed>>

(* The timeouts are set after the handshake (lines 56-57).  The answer is  *)
(* short enough for the socket's buffer, so that writing it never waits.   *)
Timed == {"read"}

Waiting ==
    \/ at = "auth" /\ flights[conn] \in {0, 2}
    \/ at = "read" /\ got[conn] = sent[conn]

(* An IOException, which the handler of Exception catches.                 *)
TimeOut ==
    /\ at \in Timed /\ Waiting /\ ~Gone(conn)
    /\ at' = "finally"
    /\ UNCHANGED <<clientVars, flights, conn, got, answered, closed>>

WriteAnswer ==
    /\ at = "write" /\ at' = "finally"
    /\ \/ answered' = [answered EXCEPT ![conn] = TRUE]
       \/ Gone(conn) /\ UNCHANGED answered
    /\ UNCHANGED <<clientVars, flights, conn, got, closed>>

(* The handler of AuthenticationException closes and returns ...           *)
Refused ==
    /\ at = "refused" /\ at' = "finally"
    /\ closed' = [closed EXCEPT ![conn] = TRUE]
    /\ UNCHANGED <<clientVars, flights, conn, got, answered>>

(* ... through the finally block, as every other way out of the try block. *)
Finally ==
    /\ at = "finally" /\ at' = "accept" /\ conn' = NoClient
    /\ closed' = [closed EXCEPT ![conn] = TRUE]
    /\ UNCHANGED <<clientVars, flights, got, answered>>

ServerStep ==
    \/ Accept \/ AuthenticateAsServer \/ ReadMessage \/ TimeOut \/ WriteAnswer
    \/ Refused \/ Finally

-----------------------------------------------------------------------------

Next ==
    \/ ServerStep
    \/ \E c \in Clients : Connect(c) \/ ClientStep(c) \/ Die(c) \/ Hang(c)

Spec == Init /\ [][Next]_vars

(* The server's thread and the clients that did not hang go on; a client   *)
(* that waits too long is timed out.                                       *)
FairSpec == Spec /\ WF_vars(ServerStep) /\ \A c \in Clients : WF_vars(ClientStep(c))

-----------------------------------------------------------------------------

(* However a client's turn ends, its connection is closed by then: the     *)
(* server leaks none.                                                      *)
AcceptedAreClosed ==
    \A c \in Clients :
        client[c] # "start" /\ c # conn /\ (\A i \in DOMAIN backlog : backlog[i] # c)
            => closed[c]

(* The server answers a message after it has read the whole of it, up to   *)
(* the marker, unless the client is gone.                                  *)
AnswersWholeMessages ==
    \A c \in Clients : answered[c] => got[c] = Pieces \/ Gone(c)

(* The server waits in a handshake for a client that hangs.                *)
Blocked == at = "auth" /\ Waiting /\ client[conn] = "hung"

(* Every client that connects gets to an end, thanks to the timeouts: none *)
(* waits for ever behind another, unless that one hangs in its handshake.  *)
EveryClientEnds ==
    \A c \in Clients : client[c] = "auth" ~> Gone(c) \/ client[c] = "hung" \/ Blocked

(* The handshake has no timeout: the server never gives up a client that   *)
(* hangs in it, and answers no other client from then on.                  *)
HungHandshakeBlocksAll == [][Blocked => Blocked' /\ answered' = answered]_vars

=============================================================================
