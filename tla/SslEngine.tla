------------------------------ MODULE SslEngine ------------------------------
(***************************************************************************)
(* javax.net.ssl.SSLEngine in client mode, as SSLStream.java and           *)
(* pal_sslstream.c drive it.  The engine is not part of the repository; it *)
(* is modelled by the contract the code relies on: the four result         *)
(* statuses, the five handshake statuses, the buffer sizes of its session, *)
(* SSLException, and the two half-closes.  Where engines differ (whether   *)
(* closeInbound() throws, whether a failure leaves an alert to send, where *)
(* a failed unwrap leaves the source buffer) every outcome is allowed.     *)
(* Once its outbound side is closed the engine asks for nothing more, as   *)
(* Android's engine does.                                                  *)
(***************************************************************************)
EXTENDS ByteBuffer

CONSTANTS
    Script,         \* the handshake: what the engine needs, step by step
    RecLen,         \* bytes of a TLS record on the wire
    InitPacketSize, \* session packet buffer size while handshaking ...
    PacketSize,     \* ... and once the session is negotiated
    InitAppSize,    \* session application buffer size while handshaking ...
    AppSize,        \* ... and afterwards: the most plaintext in a record
    WrapFaults      \* may wrap() throw during the handshake?

HandshakeNeeds == {"NEED_WRAP", "NEED_UNWRAP", "NEED_TASK"}
HandshakeStatus == HandshakeNeeds \cup {"FINISHED", "NOT_HANDSHAKING"}

ASSUME EngineAssumption ==
    /\ Script \in Seq(HandshakeNeeds)
    /\ RecLen \in Nat \ {0}
    /\ {InitPacketSize, PacketSize, InitAppSize, AppSize} \subseteq Nat \ {0}
    /\ RecLen <= InitPacketSize /\ InitPacketSize <= PacketSize
    /\ InitAppSize <= AppSize
    /\ WrapFaults \in BOOLEAN

(* A record of the peer: a handshake message, application data carrying    *)
(* len bytes, a close_notify, or one the engine rejects (a fatal alert, a  *)
(* record whose MAC does not verify).                                      *)
Records == [kind : {"handshake", "app", "close", "bad"}, len : 0..AppSize]

Engines == [step : 0..Len(Script),    \* handshake steps done
            out : {"open", "closing", "closed"},
            in : {"open", "closed"},
            failed : BOOLEAN,         \* has wrap() or unwrap() thrown?
            recs : Nat,               \* records of the peer consumed
            rxApp : Nat,              \* plaintext bytes produced from them
            tx : Nat,                 \* bytes produced for the network
            plain : Seq(Nat)]         \* plaintext bytes they carry, in order

NewEngine == [step |-> 0, out |-> "open", in |-> "open", failed |-> FALSE,
              recs |-> 0, rxApp |-> 0, tx |-> 0, plain |-> <<>>]

Handshaking(e) == e.step < Len(Script)

(* getHandshakeStatus() of the engine, which never answers FINISHED.       *)
Status(e) ==
    IF e.out = "closing" THEN "NEED_WRAP"
    ELSE IF e.out = "open" /\ e.in = "open" /\ Handshaking(e)
         THEN Script[e.step + 1]
         ELSE "NOT_HANDSHAKING"

PacketBufferSize(e) == IF Handshaking(e) THEN InitPacketSize ELSE PacketSize
ApplicationBufferSize(e) == IF Handshaking(e) THEN InitAppSize ELSE AppSize

(* One handshake step done, and the status its SSLEngineResult reports.    *)
Advance(e) == [e EXCEPT !.step = @ + 1]
StepStatus(e) == IF Handshaking(e) THEN Status(e) ELSE "FINISHED"

Outcome(status, hs, e, src, dst) ==
    [status |-> status, hs |-> hs, engine |-> e, src |-> src, dst |-> dst]

(* A fatal error closes the inbound side; an alert may be left to send.    *)
Abort(e) ==
    {[e EXCEPT !.in = "closed", !.out = o] :
        o \in IF e.out = "open" THEN {"closing", "closed"} ELSE {e.out}}
Fatal(e) == {[a EXCEPT !.failed = TRUE] : a \in Abort(e)}

(* The n bytes of a record go to dst.                                      *)
Emit(e, dst) == Put(dst, Span(e.tx, RecLen))
Sent(e) == [e EXCEPT !.tx = @ + RecLen]

WrapHandshake(e, src, dst) ==
    IF Script[e.step + 1] # "NEED_WRAP"
    THEN {Outcome("OK", Status(e), e, src, dst)}
    ELSE LET done == Advance(Sent(e))
         IN  {Outcome("OK", StepStatus(done), done, src, Emit(e, dst))}
             \cup {Outcome("SSLException", "NOT_HANDSHAKING", f, src, dst) :
                      f \in {x \in Fatal(e) : WrapFaults}}

(* One record takes at most AppSize bytes of plaintext.                    *)
Fragment(src) == IF Remaining(src) < AppSize THEN Remaining(src) ELSE AppSize

WrapData(e, src, dst) ==
    IF Fragment(src) = 0
    THEN {Outcome("OK", "NOT_HANDSHAKING", e, src, dst)}
    ELSE {Outcome("OK", "NOT_HANDSHAKING",
                  [Sent(e) EXCEPT !.plain =
                      @ \o SubSeq(src.mem, src.pos + 1, src.pos + Fragment(src))],
                  Skip(src, Fragment(src)), Emit(e, dst))}

(* The outcomes of wrap(src, dst).                                         *)
Wrap(e, src, dst) ==
    IF e.out = "closed"
    THEN {Outcome("CLOSED", "NOT_HANDSHAKING", e, src, dst)}
    ELSE IF Remaining(dst) < PacketBufferSize(e)
    THEN {Outcome("BUFFER_OVERFLOW", Status(e), e, src, dst)}
    ELSE IF e.out = "closing"
    THEN {Outcome("CLOSED", "NOT_HANDSHAKING", [Sent(e) EXCEPT !.out = "closed"],
                  src, Emit(e, dst))}
    ELSE IF Handshaking(e) THEN WrapHandshake(e, src, dst)
    ELSE WrapData(e, src, dst)

(* Does the source start with the bytes of the record the engine expects?  *)
InSequence(e, src) ==
    SubSeq(src.mem, src.pos + 1, src.pos + RecLen) = Span(e.recs * RecLen, RecLen)

Acceptable(e, rec) ==
    CASE rec.kind = "handshake" ->
            Handshaking(e) /\ Script[e.step + 1] = "NEED_UNWRAP"
      [] rec.kind = "bad" -> FALSE
      [] OTHER -> ~Handshaking(e)

(* What a complete, acceptable record does.                                *)
Consume(e, src, dst, rec) ==
    LET got  == [e EXCEPT !.recs = @ + 1]
        rest == Skip(src, RecLen)
    IN  CASE rec.kind = "handshake" ->
               {Outcome("OK", StepStatus(Advance(got)), Advance(got), rest, dst)}
          [] rec.kind = "close" ->
               {Outcome("CLOSED", Status(c), c, rest, dst) :
                   c \in {[got EXCEPT !.in = "closed", !.out = o] :
                             o \in {e.out, IF e.out = "open" THEN "closing"
                                                             ELSE e.out}}}
          [] OTHER ->
               IF Remaining(dst) < rec.len
               THEN {Outcome("BUFFER_OVERFLOW", Status(e), e, src, dst)}
               ELSE {Outcome("OK", Status(e), [got EXCEPT !.rxApp = @ + rec.len],
                             rest, Put(dst, Span(e.rxApp, rec.len)))}

(* The outcomes of unwrap(src, dst) when the record that starts the source *)
(* buffer, if it is all there, is rec.                                     *)
Unwrap(e, src, dst, rec) ==
    IF e.in = "closed"
    THEN {Outcome("CLOSED", Status(e), e, src, dst)}
    ELSE IF Status(e) \in {"NEED_WRAP", "NEED_TASK"}
    THEN {Outcome("OK", Status(e), e, src, dst)}
    ELSE IF Remaining(src) < RecLen
    THEN {Outcome("BUFFER_UNDERFLOW", Status(e), e, src, dst)}
    ELSE IF InSequence(e, src) /\ Acceptable(e, rec)
    THEN Consume(e, src, dst, rec)
    ELSE {Outcome("SSLException", "NOT_HANDSHAKING", f, s, dst) :
             f \in Fatal(e), s \in {src, Skip(src, RecLen)}}

(* getDelegatedTask() until there is none left.                            *)
RunDelegatedTasks(e) == IF Status(e) = "NEED_TASK" THEN Advance(e) ELSE e

CloseOutbound(e) == IF e.out = "open" THEN [e EXCEPT !.out = "closing"] ELSE e

(* closeInbound() without the peer's close_notify may throw SSLException.  *)
CloseInbound(e) ==
    IF e.in = "closed" THEN {[throws |-> FALSE, engine |-> e]}
    ELSE {[throws |-> FALSE, engine |-> [e EXCEPT !.in = "closed"]]}
         \cup {[throws |-> TRUE, engine |-> f] : f \in Abort(e)}

=============================================================================
