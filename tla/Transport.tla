------------------------------ MODULE Transport ------------------------------
(***************************************************************************)
(* The socket between an SSL stream and its server, and the server as the  *)
(* stream sees it: a peer that plays its half of the handshake, then sends *)
(* records, closes, or loses the connection.  "log" is everything the peer *)
(* has sent and "readIn" how many bytes of it were taken from the socket,  *)
(* so bytes readIn+1 .. Len(log)*RecLen are in flight.                     *)
(***************************************************************************)
EXTENDS SslEngine, FiniteSets

CONSTANTS
    Fragmented, \* may a read() end inside a record?
    PeerMay,    \* what the peer does besides the handshake
    MaxRecords  \* bound: records the peer sends

ASSUME TransportAssumption ==
    /\ Fragmented \in BOOLEAN
    /\ PeerMay \subseteq {"app", "empty", "close", "bad", "fin", "reset"}
    /\ MaxRecords \in Nat

VARIABLES
    log,      \* the records the peer has sent
    peerStep, \* how far the peer is in the handshake
    fin,      \* has the peer closed its side of the socket?
    reset,    \* is the connection broken?
    readIn,   \* bytes taken from the socket
    outWire   \* the bytes written to the socket

peerVars == <<log, peerStep, fin, reset>>
wireVars == <<readIn, outWire>>

TransportTypeOK ==
    /\ log \in Seq(Records)
    /\ peerStep \in 0..Len(Script)
    /\ fin \in BOOLEAN /\ reset \in BOOLEAN
    /\ readIn \in Nat
    /\ outWire \in Seq(Nat)

TransportInit ==
    /\ log = <<>> /\ peerStep = 0
    /\ fin = FALSE /\ reset = FALSE
    /\ readIn = 0 /\ outWire = <<>>

Arrived == Len(log) * RecLen

(* read() of up to `room' bytes returns any of these counts; it blocks     *)
(* while there is none.  Unless Fragmented, whole records arrive together. *)
ReadCounts(room) ==
    {k \in 1..room : /\ readIn + k <= Arrived
                     /\ Fragmented \/ (readIn + k) % RecLen = 0}

EndOfStream == fin /\ readIn = Arrived

-----------------------------------------------------------------------------
(* The peer.  It sends nothing after a close_notify, a bad record or FIN.  *)
(* TLS lets it send application data records that are empty.               *)

PeerOpen ==
    /\ ~fin /\ ~reset
    /\ \A i \in DOMAIN log : log[i].kind \in {"handshake", "app"}

(* Has the client written every handshake record the peer needs by step i? *)
ClientRecordsIn(i) ==
    Len(outWire) >= RecLen * Cardinality({j \in 1..i : Script[j] = "NEED_WRAP"})

PeerHandshake ==
    /\ PeerOpen
    /\ peerStep < Len(Script)
    /\ ClientRecordsIn(peerStep + 1)
    /\ log' = IF Script[peerStep + 1] = "NEED_UNWRAP"
              THEN Append(log, [kind |-> "handshake", len |-> 0]) ELSE log
    /\ peerStep' = peerStep + 1
    /\ UNCHANGED <<fin, reset, wireVars>>

PeerSend(rec) ==
    /\ PeerOpen
    /\ Len(log) < MaxRecords
    /\ rec.kind \in PeerMay
    /\ rec.kind = "app" => peerStep = Len(Script) /\ (rec.len = 0 => "empty" \in PeerMay)
    /\ log' = Append(log, rec)
    /\ UNCHANGED <<peerStep, fin, reset, wireVars>>

PeerFin ==
    /\ "fin" \in PeerMay /\ ~fin /\ ~reset
    /\ fin' = TRUE
    /\ UNCHANGED <<log, peerStep, reset, wireVars>>

PeerReset ==
    /\ "reset" \in PeerMay /\ ~reset
    /\ reset' = TRUE
    /\ UNCHANGED <<log, peerStep, fin, wireVars>>

PeerRecords ==
    [kind : {"app"}, len : 0..AppSize] \cup [kind : {"close", "bad"}, len : {0}]

PeerStep ==
    \/ PeerHandshake
    \/ \E rec \in PeerRecords : PeerSend(rec)
    \/ PeerFin
    \/ PeerReset

=============================================================================
