------------------------------ MODULE SSLStream ------------------------------
(***************************************************************************)
(* SSLStream.java: the TLS client stream in Java.                          *)
(***************************************************************************)
EXTENDS TlsStream

(* An exception that no method catches leaves the public method.           *)
Throw == stack' = <<>> /\ call' = "threw"

-----------------------------------------------------------------------------
(* Mutants: plausible bugs, one for each property below to catch.  None is *)
(* used by the specification.                                              *)

(* Mutant: the handshake stops where the engine wants to read.             *)
checkHandshakeStatusNoRead(hs) ==
    CASE hs = "NEED_WRAP" -> <<"doWrap">>
      [] hs = "NEED_TASK" -> <<"runTasks">>
      [] OTHER            -> <<>>

(* Mutant: delegated tasks are never run.                                  *)
checkHandshakeStatusNoTasks(hs) ==
    CASE hs = "NEED_WRAP"   -> <<"doWrap">>
      [] hs = "NEED_UNWRAP" -> <<"doUnwrap">>
      [] OTHER              -> <<>>

(* Mutant: the old buffer is not put into the new one.                     *)
EnsureRemainingDropping(old, newRemaining) ==
    IF Remaining(old) < newRemaining
    THEN Allocate(Remaining(Flip(old)) + newRemaining) ELSE old

(* Mutant: only a full buffer is replaced.                                 *)
EnsureRemainingWhenFull(old, newRemaining) ==
    IF Remaining(old) = 0
    THEN Put(Allocate(Remaining(Flip(old)) + newRemaining), Unread(Flip(old)))
    ELSE old

(* Mutant: receive() compacts only when it goes on to doUnwrap().          *)
ReceiveStepNoFinally ==
    /\ Top("receive")
    /\ LET b == Flip(appIn)
       IN  IF Remaining(b) > 0
           THEN /\ received' = received \o Unread(b)
                /\ appIn' = Skip(b, Remaining(b))
                /\ stack' = Tail(stack) /\ call' = "idle"
           ELSE /\ appIn' = Compact(b) /\ Calls(<<"doUnwrap">>, <<"receive">>)
                /\ UNCHANGED <<received, call>>
    /\ UNCHANGED <<peerVars, wireVars, engine, appOut, netOut, netIn, calls, accepted>>

(* Mutant: records gather in netOutBuffer and are not written.             *)
FlushLater(b, continue) ==
    netOut' = b /\ stack' = continue /\ UNCHANGED <<outWire, call>>

(* Mutant: the close_notify is wrapped and not written.                    *)
WrapClosedUnflushed(r) ==
    /\ r.status = "CLOSED"
    /\ appOut' = Compact(r.src) /\ netOut' = r.dst
    /\ Calls(<<>>, <<"closeRest">>)
    /\ UNCHANGED <<outWire, call>>

(* Mutant: appOut stays flipped when wrap() is retried.                    *)
WrapOverflowFlipped(r) ==
    /\ r.status = "BUFFER_OVERFLOW"
    /\ appOut' = r.src
    /\ netOut' = Allocate(Remaining(Flip(r.dst)) + PacketBufferSize(r.engine))
    /\ Calls(<<"doWrap">>, <<"wrapOverflow">>)
    /\ UNCHANGED <<outWire, call>>

(* Mutant: line 115 is missing.                                            *)
WrapRestOnce ==
    /\ Top("wrapRest") /\ Calls(<<>>, <<"ret">>)
    /\ UNCHANGED <<peerVars, wireVars, streamVars, callerVars>>

(* Mutant: the end of the stream is reported to the caller.                *)
HandleEndOfStreamThrows ==
    /\ Top("doUnwrap") /\ netIn.pos = 0 /\ ~reset /\ EndOfStream
    /\ Throw
    /\ UNCHANGED <<peerVars, wireVars, streamVars, calls, accepted, received>>

-----------------------------------------------------------------------------
(* What the methods share.                                                 *)

checkHandshakeStatus(hs) ==
    CASE hs = "NEED_WRAP"   -> <<"doWrap">>
      [] hs = "NEED_UNWRAP" -> <<"doUnwrap">>
      [] hs = "NEED_TASK"   -> <<"runTasks">>
      [] OTHER              -> <<>>

EnsureRemaining(old, newRemaining) ==
    IF Remaining(old) < newRemaining
    THEN LET full == Flip(old)
         IN  Put(Allocate(Remaining(full) + newRemaining), Unread(full))
    ELSE old

-----------------------------------------------------------------------------
(* The public methods, called by the thread that owns the stream.          *)

AuthenticateAsClient ==
    /\ call = "new" /\ call' = "authenticate"
    /\ engine' = NewEngine
    /\ appOut' = Allocate(AppOutSize)
    /\ netOut' = Allocate(PacketBufferSize(NewEngine))
    /\ netIn'  = Allocate(PacketBufferSize(NewEngine))
    /\ appIn'  = Allocate(IF ApplicationBufferSize(NewEngine) > AppInSize
                          THEN ApplicationBufferSize(NewEngine) ELSE AppInSize)
    /\ stack' = checkHandshakeStatus(Status(NewEngine)) \o <<"ret">>
    /\ UNCHANGED <<peerVars, wireVars, calls, accepted, received>>

send(n) ==
    /\ Enter
    /\ \/ /\ n <= Remaining(appOut)
          /\ appOut' = Put(appOut, Span(accepted, n))
          /\ accepted' = accepted + n
          /\ stack' = <<"doWrap", "ret">> /\ call' = "send"
       \/ /\ n > Remaining(appOut)  \* BufferOverflowException
          /\ Throw
          /\ UNCHANGED <<appOut, accepted>>
    /\ UNCHANGED <<peerVars, wireVars, engine, netOut, netIn, appIn, received>>

receive ==
    /\ Enter
    /\ stack' = <<"receive">> /\ call' = "receive"
    /\ UNCHANGED <<peerVars, wireVars, streamVars, accepted, received>>

close ==
    /\ Enter
    /\ stack' = <<"close", "ret">> /\ call' = "close"
    /\ UNCHANGED <<peerVars, wireVars, streamVars, accepted, received>>

-----------------------------------------------------------------------------
(* The private methods.                                                    *)

(* The loop of receive(); the finally block compacts appIn either way.     *)
ReceiveStep ==
    /\ Top("receive")
    /\ LET b == Flip(appIn)
       IN  \/ /\ Remaining(b) > 0
              /\ received' = received \o Unread(b)
              /\ appIn' = Compact(Skip(b, Remaining(b)))
              /\ Calls(<<>>, <<>>) /\ call' = "idle"
           \/ /\ Remaining(b) = 0
              /\ appIn' = Compact(b)
              /\ Calls(<<"doUnwrap">>, <<"receive">>)
              /\ UNCHANGED <<received, call>>
    /\ UNCHANGED <<peerVars, wireVars, engine, appOut, netOut, netIn, calls, accepted>>

(* flush() of a netOutBuffer that holds b, after which `continue' is the   *)
(* stack.  write() throws IOException on a broken connection, and then the *)
(* buffer stays flipped and drained.                                       *)
Flush(b, continue) ==
    LET out == Flip(b)
        drained == Skip(out, Remaining(out))
    IN  \/ /\ ~reset
           /\ outWire' = outWire \o Unread(out)
           /\ netOut' = Compact(drained)
           /\ stack' = continue /\ UNCHANGED call
        \/ /\ reset
           /\ netOut' = drained
           /\ Throw /\ UNCHANGED outWire

(* An SSLException is swallowed, with appOut still flipped.                *)
WrapThrew(r) ==
    /\ r.status = "SSLException"
    /\ appOut' = r.src
    /\ Calls(<<>>, <<>>)
    /\ UNCHANGED <<netOut, outWire, call>>

WrapOK(r) ==
    /\ r.status = "OK"
    /\ appOut' = Compact(r.src)
    /\ Flush(r.dst, checkHandshakeStatus(r.hs) \o <<"wrapRest">> \o Tail(stack))

WrapClosed(r) ==
    /\ r.status = "CLOSED"
    /\ appOut' = Compact(r.src)
    /\ Flush(r.dst, checkHandshakeStatus(r.hs) \o <<"closeRest">> \o Tail(stack))

WrapOverflow(r) ==
    /\ r.status = "BUFFER_OVERFLOW"
    /\ appOut' = Compact(r.src)
    /\ netOut' = EnsureRemaining(r.dst, PacketBufferSize(r.engine))
    /\ Calls(<<"doWrap">>, <<"wrapOverflow">>)
    /\ UNCHANGED <<outWire, call>>

doWrap ==
    /\ Top("doWrap")
    /\ \E r \in Wrap(engine, Flip(appOut), netOut) :
          /\ engine' = r.engine
          /\ WrapThrew(r) \/ WrapOK(r) \/ WrapClosed(r) \/ WrapOverflow(r)
    /\ UNCHANGED <<peerVars, readIn, netIn, appIn, calls, accepted, received>>

(* Line 115: whatever is left to send is wrapped now.                      *)
WrapRest ==
    /\ Top("wrapRest")
    /\ Calls(IF appOut.pos > 0 THEN <<"doWrap">> ELSE <<>>, <<"ret">>)
    /\ UNCHANGED <<peerVars, wireVars, streamVars, callerVars>>

(* doUnwrap() from line 162, when netInBuffer holds b.                     *)
Unwrapped(b, r) ==
    /\ engine' = r.engine
    /\ \/ /\ r.status = "SSLException"  \* swallowed, netIn still flipped
          /\ netIn' = r.src /\ appIn' = r.dst
          /\ Calls(<<>>, <<>>)
       \/ /\ r.status = "OK"
          /\ netIn' = Compact(r.src) /\ appIn' = r.dst
          /\ Calls(checkHandshakeStatus(r.hs), <<"ret">>)
       \/ /\ r.status = "CLOSED"
          /\ netIn' = Compact(r.src) /\ appIn' = r.dst
          /\ Calls(checkHandshakeStatus(r.hs), <<"closeRest">>)
       \/ /\ r.status = "BUFFER_UNDERFLOW"
          /\ netIn' = EnsureRemaining(Compact(r.src), PacketBufferSize(r.engine))
          /\ appIn' = r.dst
          /\ Calls(<<"doUnwrap">>, <<"unwrapUnderflow">>)
       \/ /\ r.status = "BUFFER_OVERFLOW"
          /\ netIn' = Compact(r.src)
          /\ appIn' = EnsureRemaining(r.dst, ApplicationBufferSize(r.engine))
          /\ Calls(<<"doUnwrap">>, <<"unwrapOverflow">>)

UnwrapBuffered ==
    /\ Top("doUnwrap") /\ ~MustRead
    /\ \E r \in Unwrap(engine, Flip(netIn), appIn, NextRecord) : Unwrapped(netIn, r)
    /\ UNCHANGED <<peerVars, wireVars, appOut, netOut, callerVars>>

ReadAndUnwrap ==
    /\ Top("doUnwrap") /\ MustRead /\ ~reset
    /\ \E count \in ReadCounts(netIn.lim) :
          LET b == Put(netIn, Span(readIn, count))
          IN  /\ readIn' = readIn + count
              /\ \E r \in Unwrap(engine, Flip(b), appIn, NextRecord) : Unwrapped(b, r)
    /\ UNCHANGED <<peerVars, outWire, appOut, netOut, callerVars>>

(* read() returned -1: handleEndOfStream() swallows closeInbound()'s       *)
(* SSLException, and then does not call close().                           *)
HandleEndOfStream ==
    /\ Top("doUnwrap") /\ MustRead /\ ~reset /\ EndOfStream
    /\ \E r \in CloseInbound(engine) :
          /\ engine' = r.engine
          /\ Calls(IF r.throws THEN <<>> ELSE <<"close">>, <<"ret">>)
    /\ UNCHANGED <<peerVars, wireVars, appOut, netOut, netIn, appIn, callerVars>>

ReadThrows ==
    /\ Top("doUnwrap") /\ MustRead /\ reset
    /\ Throw
    /\ UNCHANGED <<peerVars, wireVars, streamVars, calls, accepted, received>>

CloseStep ==
    /\ Top("close")
    /\ engine' = CloseOutbound(engine)
    /\ Calls(checkHandshakeStatus(Status(CloseOutbound(engine))), <<"ret">>)
    /\ UNCHANGED <<peerVars, wireVars, appOut, netOut, netIn, appIn, callerVars>>

(* A CLOSED result ends with a call of close().                            *)
CloseRest ==
    /\ Top("closeRest")
    /\ Calls(<<"close">>, <<"ret">>)
    /\ UNCHANGED <<peerVars, wireVars, streamVars, callerVars>>

RunTasks ==
    /\ Top("runTasks")
    /\ engine' = RunDelegatedTasks(engine)
    /\ Calls(checkHandshakeStatus(Status(RunDelegatedTasks(engine))), <<"ret">>)
    /\ UNCHANGED <<peerVars, wireVars, appOut, netOut, netIn, appIn, callerVars>>

-----------------------------------------------------------------------------

StreamStep ==
    \/ ReceiveStep
    \/ doWrap \/ WrapRest
    \/ UnwrapBuffered \/ ReadAndUnwrap \/ HandleEndOfStream \/ ReadThrows
    \/ CloseStep \/ CloseRest \/ RunTasks
    \/ Return \/ StackOverflow

Caller ==
    \/ AuthenticateAsClient
    \/ \E n \in SendSizes : send(n)
    \/ receive
    \/ close

Next == StreamStep \/ Caller \/ Peer

Spec == Init /\ [][Next]_vars

(* The thread runs whenever it can; its scheduler is fair.  The peer is    *)
(* only trusted to play its half of the handshake.                         *)
FairSpec == Spec /\ WF_vars(StreamStep) /\ WF_vars(PeerAnswers)

-----------------------------------------------------------------------------
(* Safety.                                                                 *)

(* close() returns with the outbound side closed, and while it runs that   *)
(* side closes only in the step that puts the engine's last record, the    *)
(* close_notify, on the wire: unless write() throws.  Only an engine that  *)
(* had closed itself before, in a fatal error, has none to send.           *)
CloseFlushes ==
    [][call = "close" =>
          /\ call' = "idle" => engine'.out = "closed"
          /\ engine.out # "closed" /\ engine'.out = "closed" =>
                call' = "threw" \/ outWire' = outWire \o Span(engine.tx, RecLen)]_vars

AtEndOfStream ==
    call = "receive" /\ EndOfStream /\ ~reset /\ netIn.pos = 0 /\ appIn.pos = 0

(* receive() has no way out of the end of the stream: it keeps reading -1. *)
EndOfStreamTraps == [][AtEndOfStream => AtEndOfStream' \/ reset']_vars

=============================================================================
