---------------------------- MODULE PalSslStream ----------------------------
(***************************************************************************)
(* pal_sslstream.c: the TLS client stream that drives the Java SSLEngine   *)
(* over JNI, with the read and write callbacks of native-lib.c.            *)
(*                                                                         *)
(* C code cannot catch a Java exception: it stays pending, and in a        *)
(* debuggable build the next JNI call, or the next AssertOnJNIExceptions,  *)
(* aborts the process.  No function does anything else in between, so an   *)
(* exception is modelled as the abort.  The session object of line 311 is  *)
(* taken to report the current buffer sizes, as Android's does.            *)
(***************************************************************************)
EXTENDS TlsStream

CONSTANTS
    EofThrows,    \* does the read callback leave an exception when read is -1?
    ReadLength    \* bytes that the buffer given to Read holds

ASSUME PalSslStreamAssumption ==
    EofThrows \in BOOLEAN /\ ReadLength \in Nat

Aborts == stack' = <<>> /\ call' = "aborted"

-----------------------------------------------------------------------------
(* Mutants: plausible bugs, one for each property to catch.  None is used  *)
(* by the specification.                                                   *)

(* Mutant: the handshake stops where the engine wants to read.             *)
checkHandshakeStatusNoRead(hs, rest) ==
    Calls(IF hs = "NEED_WRAP" THEN <<"doWrap">> ELSE <<>>, rest) /\ UNCHANGED call

(* Mutant: the old buffer is not put into the new one.                     *)
ensureRemainingDropping(old, newRemaining) ==
    IF Remaining(old) < newRemaining
    THEN Allocate(Remaining(old) + newRemaining) ELSE old

(* Mutant: the new buffer is as large as what remained.                    *)
ensureRemainingSameSize(old, newRemaining) ==
    IF Remaining(old) < newRemaining
    THEN Put(Allocate(Remaining(old)), Unread(Flip(old))) ELSE old

(* Mutant: line 362 is missing.                                            *)
ReadStepUncompacted ==
    /\ Top("receive")
    /\ LET b == Flip(appIn)
       IN  \/ /\ Remaining(b) > 0
              /\ received' = received \o Unread(b)
              /\ appIn' = Skip(b, Remaining(b)) /\ Calls(<<>>, <<"ret">>)
           \/ /\ Remaining(b) = 0 /\ UNCHANGED received
              /\ appIn' = Compact(b) /\ Calls(<<"doUnwrap">>, <<"receiveRest">>)
    /\ UNCHANGED <<peerVars, wireVars, engine, appOut, netOut, netIn, call, calls, accepted>>

(* Mutant: records gather in netOutBuffer and are not written.             *)
flushLater(b, hs, rest) ==
    /\ netOut' = b /\ UNCHANGED <<outWire, call>>
    /\ Calls(IF hs = "NEED_WRAP" THEN <<"doWrap">>
             ELSE IF hs = "NEED_UNWRAP" THEN <<"doUnwrap">> ELSE <<>>, rest)

(* Mutant: line 133 is missing when the buffer was read to the end.        *)
WrappedUncompacted(r) ==
    appOut' = IF Remaining(r.src) = 0 THEN r.src ELSE Compact(r.src)

(* Mutant: line 141 is missing.                                            *)
WrapRestOnce ==
    /\ Top("wrapRest") /\ Calls(<<>>, <<"ret">>)
    /\ UNCHANGED <<peerVars, wireVars, streamVars, callerVars>>

-----------------------------------------------------------------------------

Callees(hs) ==
    CASE hs = "NEED_WRAP"   -> <<"doWrap">>
      [] hs = "NEED_UNWRAP" -> <<"doUnwrap">>
      [] OTHER              -> <<>>

(* NEED_TASK is an assertion failure.                                      *)
checkHandshakeStatus(hs, rest) ==
    \/ hs = "NEED_TASK" /\ Aborts
    \/ hs # "NEED_TASK" /\ Calls(Callees(hs), rest) /\ UNCHANGED call

(* The new capacity is computed from what remained before the flip.  When  *)
(* the old bytes do not fit, put() throws and leaves the new buffer empty. *)
Fits(old, newRemaining) ==
    Remaining(old) < newRemaining => old.pos <= Remaining(old) + newRemaining

ensureRemaining(old, newRemaining) ==
    LET new == Allocate(Remaining(old) + newRemaining)
    IN  IF Remaining(old) >= newRemaining THEN old
        ELSE IF Fits(old, newRemaining) THEN Put(new, Unread(Flip(old))) ELSE new

(* After ensureRemaining(old, newRemaining), callee is tried again.        *)
Retry(old, newRemaining, callee, rest) ==
    IF Fits(old, newRemaining)
    THEN Calls(<<callee>>, <<rest>>) /\ UNCHANGED call ELSE Aborts

-----------------------------------------------------------------------------
(* The functions that the caller uses.                                     *)

Create ==
    /\ call = "new"
    /\ engine' = NewEngine
    /\ appOut' = Allocate(AppOutSize)
    /\ netOut' = Allocate(PacketBufferSize(NewEngine))
    /\ netIn'  = Allocate(PacketBufferSize(NewEngine))
    /\ appIn'  = Allocate(IF ApplicationBufferSize(NewEngine) > AppInSize
                          THEN ApplicationBufferSize(NewEngine) ELSE AppInSize)
    /\ LET hs == Status(NewEngine)
       IN  \/ hs = "NEED_TASK" /\ Aborts
           \/ /\ hs # "NEED_TASK" /\ call' = "authenticate"
              /\ stack' = Callees(hs) \o <<"ret">>
    /\ UNCHANGED <<peerVars, wireVars, calls, accepted, received>>

Write(n) ==
    /\ Enter
    /\ \/ /\ n <= Remaining(appOut)
          /\ appOut' = Put(appOut, Span(accepted, n))
          /\ accepted' = accepted + n
          /\ stack' = <<"doWrap", "ret">> /\ call' = "send"
       \/ /\ n > Remaining(appOut) /\ Aborts  \* BufferOverflowException
          /\ UNCHANGED <<appOut, accepted>>
    /\ UNCHANGED <<peerVars, wireVars, engine, netOut, netIn, appIn, received>>

Read ==
    /\ Enter
    /\ stack' = <<"receive">> /\ call' = "receive"
    /\ UNCHANGED <<peerVars, wireVars, streamVars, accepted, received>>

Dispose ==
    /\ call = "idle" /\ call' = "disposed"
    /\ UNCHANGED <<peerVars, wireVars, streamVars, stack, calls, accepted, received>>

-----------------------------------------------------------------------------
(* The functions they call.                                                *)

(* Read returns all there is, whatever `length' says, or calls itself.     *)
ReadStep ==
    /\ Top("receive")
    /\ LET b == Flip(appIn)
       IN  \/ /\ Remaining(b) > 0
              /\ received' = received \o Unread(b)
              /\ appIn' = Compact(Skip(b, Remaining(b)))
              /\ Calls(<<>>, <<"ret">>)
           \/ /\ Remaining(b) = 0
              /\ appIn' = Compact(b) /\ UNCHANGED received
              /\ Calls(<<"doUnwrap">>, <<"receiveRest">>)
    /\ UNCHANGED <<peerVars, wireVars, engine, appOut, netOut, netIn, call, calls, accepted>>

ReadAgain ==
    /\ Top("receiveRest")
    /\ Calls(<<"receive">>, <<"ret">>)
    /\ UNCHANGED <<peerVars, wireVars, streamVars, callerVars>>

(* flush() and then checkHandshakeStatus().  The write callback leaves an  *)
(* IOException pending when the connection is broken.                      *)
flush(b, hs, rest) ==
    LET out == Flip(b)
        drained == Skip(out, Remaining(out))
    IN  \/ /\ ~reset
           /\ outWire' = outWire \o Unread(out)
           /\ netOut' = Compact(drained)
           /\ checkHandshakeStatus(hs, rest)
        \/ /\ reset
           /\ netOut' = drained
           /\ Aborts /\ UNCHANGED outWire

Wrapped(r) == appOut' = Compact(r.src)

doWrap ==
    /\ Top("doWrap")
    /\ \E r \in Wrap(engine, Flip(appOut), netOut) :
          /\ engine' = r.engine
          /\ \/ /\ r.status = "SSLException"
                /\ appOut' = r.src /\ Aborts
                /\ UNCHANGED <<netOut, outWire>>
             \/ /\ r.status = "OK" /\ Wrapped(r)
                /\ flush(r.dst, r.hs, <<"wrapRest">>)
             \/ /\ r.status = "CLOSED" /\ Wrapped(r)
                /\ flush(r.dst, r.hs, <<"closeRest">>)
             \/ /\ r.status = "BUFFER_OVERFLOW" /\ Wrapped(r)
                /\ netOut' = ensureRemaining(r.dst, PacketBufferSize(r.engine))
                /\ Retry(r.dst, PacketBufferSize(r.engine), "doWrap", "wrapOverflow")
                /\ UNCHANGED outWire
    /\ UNCHANGED <<peerVars, readIn, netIn, appIn, calls, accepted, received>>

(* Whatever is left to send is wrapped now.                                *)
WrapRest ==
    /\ Top("wrapRest")
    /\ Calls(IF appOut.pos > 0 THEN <<"doWrap">> ELSE <<>>, <<"ret">>)
    /\ UNCHANGED <<peerVars, wireVars, streamVars, callerVars>>

(* doUnwrap() from line 217, when netInBuffer holds b.                     *)
Unwrapped(b, r) ==
    /\ engine' = r.engine
    /\ \/ /\ r.status = "SSLException" /\ Aborts
          /\ netIn' = r.src /\ appIn' = r.dst
       \/ /\ r.status = "OK"
          /\ netIn' = Compact(r.src) /\ appIn' = r.dst
          /\ checkHandshakeStatus(r.hs, <<"ret">>)
       \/ /\ r.status = "CLOSED"
          /\ netIn' = Compact(r.src) /\ appIn' = r.dst
          /\ checkHandshakeStatus(r.hs, <<"closeRest">>)
       \/ /\ r.status = "BUFFER_UNDERFLOW"
          /\ netIn' = ensureRemaining(Compact(r.src), PacketBufferSize(r.engine))
          /\ appIn' = r.dst
          /\ Retry(Compact(r.src), PacketBufferSize(r.engine), "doUnwrap", "unwrapUnderflow")
       \/ /\ r.status = "BUFFER_OVERFLOW"
          /\ netIn' = Compact(r.src)
          /\ appIn' = ensureRemaining(r.dst, ApplicationBufferSize(r.engine))
          /\ Retry(r.dst, ApplicationBufferSize(r.engine), "doUnwrap", "unwrapOverflow")

UnwrapBuffered ==
    /\ Top("doUnwrap") /\ ~MustRead
    /\ \E r \in Unwrap(engine, Flip(netIn), appIn, NextRecord) : Unwrapped(netIn, r)
    /\ UNCHANGED <<peerVars, wireVars, appOut, netOut, calls, accepted, received>>

ReadAndUnwrap ==
    /\ Top("doUnwrap") /\ MustRead /\ ~reset
    /\ \E count \in ReadCounts(netIn.lim) :
          LET b == Put(netIn, Span(readIn, count))
          IN  /\ readIn' = readIn + count
              /\ \E r \in Unwrap(engine, Flip(b), appIn, NextRecord) : Unwrapped(b, r)
    /\ UNCHANGED <<peerVars, outWire, appOut, netOut, calls, accepted, received>>

(* The callback returned -1.  native-lib.c copies read bytes even then, so *)
(* that GetByteArrayRegion throws and the first assertion of               *)
(* handleEndOfStream() fails; another callback may not leave an exception. *)
handleEndOfStream ==
    /\ Top("doUnwrap") /\ MustRead /\ ~reset /\ EndOfStream
    /\ \/ EofThrows /\ Aborts /\ UNCHANGED engine
       \/ /\ ~EofThrows
          /\ \E r \in CloseInbound(engine) :
                /\ engine' = r.engine
                /\ \/ r.throws /\ Aborts
                   \/ ~r.throws /\ Calls(<<"close">>, <<"ret">>) /\ UNCHANGED call
    /\ UNCHANGED <<peerVars, wireVars, appOut, netOut, netIn, appIn,
                   calls, accepted, received>>

(* The read callback leaves an IOException pending.                        *)
ReadThrows ==
    /\ Top("doUnwrap") /\ MustRead /\ reset
    /\ Aborts
    /\ UNCHANGED <<peerVars, wireVars, streamVars, calls, accepted, received>>

close ==
    /\ Top("close")
    /\ engine' = CloseOutbound(engine)
    /\ checkHandshakeStatus(Status(CloseOutbound(engine)), <<"ret">>)
    /\ UNCHANGED <<peerVars, wireVars, appOut, netOut, netIn, appIn,
                   calls, accepted, received>>

CloseRest ==
    /\ Top("closeRest")
    /\ Calls(<<"close">>, <<"ret">>)
    /\ UNCHANGED <<peerVars, wireVars, streamVars, callerVars>>

-----------------------------------------------------------------------------

StreamStep ==
    \/ ReadStep \/ ReadAgain
    \/ doWrap \/ WrapRest
    \/ UnwrapBuffered \/ ReadAndUnwrap \/ handleEndOfStream \/ ReadThrows
    \/ close \/ CloseRest
    \/ Return \/ StackOverflow

(* SSLStreamNative() calls Create, Write, Read and Dispose once, in this   *)
(* order; any order of them is allowed here.                               *)
Caller ==
    \/ Create
    \/ \E n \in SendSizes : Write(n)
    \/ Read
    \/ Dispose

Next == StreamStep \/ Caller \/ Peer

Spec == Init /\ [][Next]_vars

(* As for SSLStream: the thread runs whenever it can, and the peer plays   *)
(* its half of the handshake.                                              *)
FairSpec == Spec /\ WF_vars(StreamStep) /\ WF_vars(PeerAnswers)

-----------------------------------------------------------------------------
(* With a peer that plays the protocol, whole records and messages that    *)
(* fit, the process survives: no assertion fails, no buffer is replaced by *)
(* one its bytes do not fit, and the recursion stays within the stack.     *)
NeverStops == call \notin {"aborted", "crashed"}

(* Properties that a comment of the code states and the code does not have.*)

(* Lines 106-108 and 175-177: an SSLException makes the function return.   *)
ExceptionsReturn == engine.failed => call # "aborted"

(* Lines 28-31: the end of the stream closes the engine.                   *)
EndOfStreamCloses ==
    [][Top("doUnwrap") /\ MustRead /\ ~reset /\ EndOfStream => call' # "aborted"]_vars

(* Lines 335 and native-lib.c:59: Read returns at most `length' bytes.     *)
ReadFits == [][Len(received') - Len(received) <= ReadLength]_vars

(* Line 72: a buffer that is replaced has newRemaining bytes free.         *)
UnderflowMakesRoom ==
    Len(stack) > 1 /\ stack[1] = "doUnwrap" /\ stack[2] = "unwrapUnderflow"
        => Remaining(netIn) >= PacketBufferSize(engine)

=============================================================================
