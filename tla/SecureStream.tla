----------------------------- MODULE SecureStream -----------------------------
(***************************************************************************)
(* What a TLS client stream promises its caller, whatever drives the       *)
(* engine: two byte channels inside a handshake.  What send() accepts is   *)
(* transmitted in order and without gaps; what arrives is returned by      *)
(* receive() in order and all at once; nothing passes before the handshake *)
(* is complete or after its direction was shut; and a call returns only    *)
(* when its work is done, unless the stream is over.                       *)
(*                                                                         *)
(* SSLStream and PalSslStream implement this: see their Promise.  Channel  *)
(* contents are spans (see ByteBuffer), so "in order" is an equality.      *)
(***************************************************************************)
EXTENDS ByteBuffer

CONSTANT Messages \* lengths of the messages that are sent

VARIABLES
    use,         \* the call being executed, or how things ended
    secure,      \* is the handshake complete?
    outbound,    \* the direction to the peer: "open", "closing", "closed"
    inbound,     \* the direction from the peer: "open", "closed"
    accepted,    \* how many bytes send() took
    transmitted, \* those that were encrypted
    arrived,     \* how many bytes were decrypted
    received     \* those that receive() returned

calls == <<use, accepted, received>>
channels == <<secure, outbound, inbound, transmitted, arrived>>
vars == <<calls, channels>>

Busy == {"authenticate", "send", "receive", "delivered", "close"}
Over == {"threw", "aborted", "crashed", "disposed"}

Init ==
    /\ use = "new" /\ secure \in BOOLEAN
    /\ outbound = "open" /\ inbound = "open"
    /\ accepted = 0 /\ transmitted = <<>>
    /\ arrived = 0 /\ received = <<>>

-----------------------------------------------------------------------------
(* The caller.                                                             *)

Call ==
    /\ \/ use = "new" /\ use' = "authenticate" /\ UNCHANGED accepted
       \/ use = "idle" /\ use' \in {"receive", "close"} /\ UNCHANGED accepted
       \/ /\ use = "idle" /\ use' = "send"
          /\ \E n \in Messages : accepted' = accepted + n
       \/ use \in {"new", "idle"} /\ use' \in Over /\ UNCHANGED accepted
    /\ UNCHANGED <<channels, received>>

(* A call returns when the handshake is complete or given up, and when     *)
(* nothing that was accepted is left, unless the direction was shut.       *)
MayReturn ==
    /\ secure \/ (inbound = "closed" /\ outbound # "open")
    /\ outbound = "open" => Len(transmitted) = accepted
    /\ use = "close" => outbound = "closed"

(* All that arrived and was not yet returned is returned, and it is not    *)
(* nothing.                                                                *)
Deliver ==
    /\ use = "receive" /\ use' \in {"delivered", "idle"}
    /\ use' = "idle" => MayReturn
    /\ Len(received) < arrived
    /\ received' = Span(0, arrived)
    /\ UNCHANGED <<channels, accepted>>

Return ==
    /\ use \in Busy \ {"receive"} /\ use' = "idle"
    /\ MayReturn
    /\ UNCHANGED <<channels, accepted, received>>

-----------------------------------------------------------------------------
(* What happens to the channels during a call, which may end the stream.   *)

Secure ==
    /\ ~secure /\ secure'
    /\ outbound = "open" /\ inbound = "open"
    /\ UNCHANGED <<outbound, inbound, transmitted, arrived>>

Transmit ==
    /\ secure /\ outbound = "open"
    /\ \E n \in Len(transmitted) + 1 .. accepted : transmitted' = Span(0, n)
    /\ UNCHANGED <<secure, outbound, inbound, arrived>>

Arrive ==
    /\ secure /\ inbound = "open"
    /\ arrived' \in Nat /\ arrived' > arrived
    /\ UNCHANGED <<secure, outbound, inbound, transmitted>>

Shut ==
    /\ outbound # outbound' => \/ outbound = "open" /\ outbound' \in {"closing", "closed"}
                               \/ outbound = "closing" /\ outbound' = "closed"
    /\ inbound # inbound' => inbound' = "closed"
    /\ UNCHANGED <<secure, transmitted, arrived>>

Work ==
    /\ use \in Busy /\ use' \in {use} \cup Over
    /\ Secure \/ Transmit \/ Arrive \/ Shut
    /\ UNCHANGED <<accepted, received>>

-----------------------------------------------------------------------------

Next == Call \/ Deliver \/ Return \/ Work

Spec == Init /\ [][Next]_vars

=============================================================================
