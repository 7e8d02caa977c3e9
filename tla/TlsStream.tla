------------------------------ MODULE TlsStream ------------------------------
(***************************************************************************)
(* What the two TLS client streams of the repository share: SSLStream.java *)
(* and its native counterpart pal_sslstream.c both drive an SSLEngine      *)
(* through four ByteBuffers, over a blocking socket.                       *)
(*                                                                         *)
(* A stream is used by one thread, but its private methods call each other *)
(* recursively, so the control state is the call stack: "stack" has the    *)
(* running method first and under it the suspended ones, each at the line  *)
(* where it will resume.  A step runs the method on top up to its next     *)
(* call of another one; checkHandshakeStatus() is folded into its callers, *)
(* as it only chooses the next method.                                     *)
(***************************************************************************)
EXTENDS Transport

CONSTANTS
    AppOutSize, \* socket.getSendBufferSize()
    AppInSize,  \* socket.getReceiveBufferSize()
    SendSizes,  \* lengths of the messages given to send()
    StackLimit, \* frames that fit on the thread's stack
    MaxCalls    \* bound: calls of send(), receive() and close()

ASSUME TlsStreamAssumption ==
    /\ AppOutSize \in Nat \ {0} /\ AppInSize \in Nat
    /\ SendSizes \subseteq Nat \ {0}
    /\ StackLimit \in Nat /\ MaxCalls \in Nat

VARIABLES
    engine,   \* sslEngine
    appOut,   \* appOutBuffer: plaintext to send
    netOut,   \* netOutBuffer: records to write
    netIn,    \* netInBuffer: bytes read, not yet decrypted
    appIn,    \* appInBuffer: plaintext received
    stack,    \* the call stack
    call,     \* the public method being executed, or how things ended
    calls,    \* calls made after AuthenticateAsClient
    accepted, \* plaintext bytes taken by send(), ever
    received  \* what receive() has returned, ever

streamVars == <<engine, appOut, netOut, netIn, appIn>>
callerVars == <<call, calls, accepted, received>>
vars == <<peerVars, wireVars, streamVars, stack, callerVars>>

(* The native Create, Write and Read are "authenticate", "send", "receive".*)
Running == {"authenticate", "send", "receive", "close"}
Stopped == {"new", "idle", "threw", "aborted", "crashed", "disposed"}

(* wrapRest: doWrap at line 115; closeRest: doWrap or doUnwrap at its call *)
(* of close(); receiveRest: the native Read before it calls itself;        *)
(* wrapOverflow, unwrapOverflow, unwrapUnderflow: at the last call of that *)
(* case, which tries again; ret: nothing is left to do.                    *)
Resting == {"wrapOverflow", "unwrapOverflow", "unwrapUnderflow", "ret"}
Frames == {"doWrap", "doUnwrap", "close", "runTasks", "receive",
           "wrapRest", "closeRest", "receiveRest"} \cup Resting

(* The state stays typed: every buffer keeps position <= limit <= capacity *)
(* and only calls put() with bytes that fit.                               *)
TypeOK ==
    /\ TransportTypeOK
    /\ engine \in Engines
    /\ \A b \in {appOut, netOut, netIn, appIn} : b \in ByteBuffers /\ WellFormed(b)
    /\ stack \in Seq(Frames)
    /\ call \in Running \cup Stopped
    /\ calls \in 0..MaxCalls
    /\ accepted \in Nat
    /\ received \in Seq(Nat)

Init ==
    /\ TransportInit
    /\ engine = NewEngine
    /\ appOut = Allocate(0) /\ netOut = Allocate(0)
    /\ netIn = Allocate(0) /\ appIn = Allocate(0)
    /\ stack = <<>>
    /\ call = "new" /\ calls = 0
    /\ accepted = 0 /\ received = <<>>

-----------------------------------------------------------------------------
(* Control.                                                                *)

Top(f) == stack # <<>> /\ Head(stack) = f /\ Len(stack) <= StackLimit

(* The method on top calls `callees' and will then resume as `rest'.       *)
Calls(callees, rest) == stack' = callees \o rest \o Tail(stack)

(* The thread calls a public method of a stream that was created.          *)
Enter == call = "idle" /\ calls < MaxCalls /\ calls' = calls + 1

(* A suspended method that has nothing left to do returns.                 *)
Return ==
    /\ stack # <<>> /\ Head(stack) \in Resting
    /\ stack' = Tail(stack)
    /\ call' = IF Len(stack) = 1 THEN "idle" ELSE call
    /\ UNCHANGED <<peerVars, wireVars, streamVars, calls, accepted, received>>

(* StackOverflowError, which MainActivity's catch (Exception) lets pass.   *)
StackOverflow ==
    /\ Len(stack) > StackLimit
    /\ Head(stack) \notin Resting
    /\ stack' = <<>> /\ call' = "crashed"
    /\ UNCHANGED <<peerVars, wireVars, streamVars, calls, accepted, received>>

(* The record the engine expects next.                                     *)
NextRecord ==
    IF engine.recs < Len(log) THEN log[engine.recs + 1]
    ELSE [kind |-> "bad", len |-> 0]

(* Mutant: the socket is read whenever there is room.                      *)
MustReadWhileRoom == Remaining(netIn) > 0

(* Only an empty netInBuffer is filled from the socket.                    *)
MustRead == netIn.pos = 0

Peer == PeerStep /\ UNCHANGED <<streamVars, stack, callerVars>>
PeerAnswers == PeerHandshake /\ UNCHANGED <<streamVars, stack, callerVars>>

-----------------------------------------------------------------------------
(* Safety.                                                                 *)

(* Every byte taken from the socket was either decrypted or is in          *)
(* netInBuffer, once and in order, until an SSLException is swallowed.     *)
InboundInOrder ==
    ~engine.failed =>
        /\ Fillable(netIn)
        /\ netIn.mem = Span(engine.recs * RecLen, readIn - engine.recs * RecLen)

(* receive() returns the peer's plaintext in order and exactly once,       *)
(* whatever fails: what it returned and what waits in appInBuffer is what  *)
(* was decrypted.                                                          *)
DeliveredInOrder ==
    /\ Fillable(appIn)
    /\ received \o appIn.mem = Span(0, engine.rxApp)

(* What send() took was either encrypted or waits in appOutBuffer, in      *)
(* order and exactly once, until an SSLException is swallowed.             *)
OutboundInOrder ==
    ~engine.failed =>
        /\ Fillable(appOut)
        /\ engine.plain \o appOut.mem = Span(0, accepted)

(* No record waits in netOutBuffer: each is on the wire, in the engine's   *)
(* order, before the method that wrapped it goes on.  A failed write ends  *)
(* the stream, and what was written is then all but the last record.       *)
WrittenInOrder ==
    /\ outWire \in {Span(0, engine.tx), Span(0, engine.tx - RecLen)}
    /\ call \notin {"threw", "aborted"} =>
          Fillable(netOut) /\ netOut.pos = 0 /\ outWire = Span(0, engine.tx)

(* When a call has returned, nothing that was sent is left behind, unless  *)
(* the engine failed or its outbound side is closing.                      *)
NothingLeftBehind ==
    call \in {"idle", "disposed"} /\ ~engine.failed /\ engine.out = "open" => appOut.pos = 0

(* AuthenticateAsClient() returns with the handshake complete or with the  *)
(* engine closed, never in the middle of a handshake that could go on.     *)
AuthenticateSettles ==
    call = "idle" => \/ ~Handshaking(engine)
                     \/ engine.in = "closed" /\ engine.out # "open"

(* The retry after a BUFFER_OVERFLOW finds the room it needs, so overflows *)
(* do not nest.                                                            *)
RetryFits ==
    Len(stack) > 1 =>
        /\ stack[1] = "doWrap" /\ stack[2] = "wrapOverflow"
              => Remaining(netOut) >= PacketBufferSize(engine)
        /\ stack[1] = "doUnwrap" /\ stack[2] = "unwrapOverflow"
              => Remaining(appIn) >= ApplicationBufferSize(engine)

(* With StackLimit frames the recursion never overflows the stack.         *)
NoStackOverflow == call # "crashed"

-----------------------------------------------------------------------------
(* Refinement.                                                             *)

(* What the stream promises its caller: see SecureStream.  A byte counts   *)
(* as transmitted when the engine has taken it.  The native Read has its   *)
(* data when all that is left of it is to return.                          *)
Promise == INSTANCE SecureStream WITH
    Messages <- SendSizes,
    use <- IF call = "receive" /\ \A i \in DOMAIN stack : stack[i] = "ret"
           THEN "delivered" ELSE call,
    secure <- ~Handshaking(engine), outbound <- engine.out, inbound <- engine.in,
    transmitted <- engine.plain, arrived <- engine.rxApp

(* The recursion over engine and buffers implements that promise, in       *)
(* whatever order the stream is used and whatever fails.                   *)
KeepsPromise == Promise!Spec

-----------------------------------------------------------------------------
(* Liveness, under the fairness of each stream's FairSpec.                 *)

(* A record split over two reads is never completed: doUnwrap() retries an *)
(* underflow without reading, until the stack overflows.                   *)
SplitRecordCrashes ==
    Len(stack) > 1 /\ stack[1] = "doUnwrap" /\ stack[2] = "unwrapUnderflow"
        ~> call = "crashed"

(* AuthenticateAsClient() comes to an end, whatever fails: the handshake's *)
(* recursion does not run forever.                                         *)
AuthenticateReturns == call = "authenticate" ~> call # "authenticate"

(* The peer or the engine broke off.                                       *)
BrokenOff == engine.failed \/ engine.in = "closed" \/ fin \/ reset

(* Unless someone breaks off, the handshake completes.                     *)
HandshakeCompletes ==
    call = "authenticate" ~> (call = "idle" /\ ~Handshaking(engine)) \/ BrokenOff

(* Unless someone breaks off, a receive() for which application data was   *)
(* sent returns, past the empty records that are in front of it.           *)
ReceiveReturns ==
    call = "receive" /\ (\E i \in engine.recs + 1 .. Len(log) :
                            log[i].kind = "app" /\ log[i].len > 0)
        ~> call = "idle" \/ BrokenOff

=============================================================================
