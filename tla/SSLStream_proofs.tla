-------------------------- MODULE SSLStream_proofs --------------------------
(***************************************************************************)
(* Theorems about SSLStream, for every handshake script, record and buffer *)
(* size, stack limit and bound.  Every step of SSLStream is a Move, so the *)
(* invariant of TlsStream_proofs is one of SSLStream.                      *)
(***************************************************************************)
EXTENDS SSLStream, TlsStream_proofs

(* ensureRemaining() keeps the bytes of a buffer that is being filled.     *)
LEMMA EnsureRemainingRegrown ==
    ASSUME NEW old, GoodBuffer(old), NEW n \in Nat
    PROVE  Regrown(EnsureRemaining(old, n), old)
<1>1. CASE ~(Remaining(old) < n)
  BY <1>1 DEF EnsureRemaining, Regrown
<1>2. CASE Remaining(old) < n
  <2> DEFINE full == Flip(old)
             new == Allocate(Remaining(full) + n)
             b == Put(new, Unread(full))
  <2>1. /\ GoodBuffer(full) /\ Readable(full) /\ Remaining(full) = old.pos
        /\ Fillable(old) => full.mem = old.mem
        /\ full.pos = 0 /\ full.lim = old.pos
    BY FlipGood
  <2>2. Remaining(full) \in Nat /\ Remaining(full) + n \in Nat
    BY <2>1, RemainingNat
  <2>3. Unread(full) \in Seq(Nat) /\ Len(Unread(full)) = Remaining(full)
    BY <2>1, UnreadProperties
  <2>4. /\ GoodBuffer(new) /\ Fillable(new) /\ new.mem = <<>>
        /\ Remaining(new) = Remaining(full) + n /\ new.pos = 0
    <3> HIDE DEF full
    <3> QED BY <2>2, AllocateGood DEF Allocate
  <2>5. Len(Unread(full)) <= Remaining(new)
    BY <2>2, <2>3, <2>4
  <2> HIDE DEF full, new
  <2>6. /\ GoodBuffer(b) /\ Fillable(b)
        /\ b.pos = new.pos + Len(Unread(full))
        /\ b.mem = new.mem \o Unread(full)
    BY <2>3, <2>4, <2>5, PutGood
  <2>7. b.mem = Unread(full)
    BY <2>3, <2>4, <2>6, ConcatEmptySeq
  <2>8. b.pos = old.pos
    BY <2>1, <2>3, <2>4, <2>6 DEF GoodBuffer, ByteBuffers
  <2>9. ASSUME Fillable(old) PROVE Unread(full) = old.mem
    <3>1. /\ old.mem \in Seq(Nat) /\ Len(old.mem) = old.pos
          /\ full.mem = old.mem /\ full.pos = 0 /\ full.lim = old.pos
      BY <2>1, <2>9 DEF Fillable, GoodBuffer, ByteBuffers
    <3>2. SubSeq(old.mem, 0 + 1, old.pos) = old.mem
      BY <3>1, SubSeqFull
    <3> QED BY <3>1, <3>2 DEF Unread
  <2>10. EnsureRemaining(old, n) = b
    BY <1>2 DEF EnsureRemaining, full, new
  <2> QED BY <2>6, <2>7, <2>8, <2>9, <2>10 DEF Regrown
<1> QED BY <1>1, <1>2

-----------------------------------------------------------------------------
(* receive() is only called from outside: it is the last method to return. *)

BottomOnly(s) == \A i \in 1 .. Len(s) - 1 : s[i] # "receive"

LEMMA BottomOnlyCalls ==
    ASSUME NEW s \in Seq(Frames), s # <<>>, BottomOnly(s),
           NEW c \in Seq(InnerFrames), NEW d \in Seq(InnerFrames)
    PROVE  BottomOnly(c \o d \o Tail(s))
<1> DEFINE cd == c \o d
           t == Tail(s)
           n == Len(cd)
<1>1. cd \in Seq(InnerFrames) /\ n \in Nat
  BY ConcatProperties, LenProperties
<1>2. t \in Seq(Frames) /\ Len(t) = Len(s) - 1 /\ \A i \in 1..Len(t) : t[i] = s[i + 1]
  BY HeadTailProperties
<1>3. cd \in Seq(Frames)
  BY <1>1, SeqMonotonic DEF InnerFrames
<1> HIDE DEF cd, t
<1>4. /\ Len(cd \o t) = n + Len(t) /\ Len(t) \in Nat
      /\ \A i \in 1..n + Len(t) : (cd \o t)[i] = IF i <= n THEN cd[i] ELSE t[i - n]
  BY <1>2, <1>3, ConcatProperties, LenProperties
<1>5. ASSUME NEW i \in 1 .. Len(cd \o t) - 1 PROVE (cd \o t)[i] # "receive"
  <2>1. CASE i <= n
    <3>1. (cd \o t)[i] = cd[i] /\ i \in 1..n
      BY <1>1, <1>4, <1>5, <2>1
    <3>2. cd[i] \in InnerFrames
      BY <1>1, <3>1, ElementOfSeq
    <3> QED BY <3>1, <3>2 DEF InnerFrames, ReceiveFrames
  <2>2. CASE ~(i <= n)
    <3>1. /\ (cd \o t)[i] = t[i - n] /\ i - n \in 1..Len(t) - 1
      BY <1>1, <1>4, <1>5, <2>2
    <3>2. t[i - n] = s[(i - n) + 1]
      <4>1. i - n \in 1..Len(t)
        BY <1>4, <3>1
      <4> QED BY <1>2, <4>1
    <3>3. (i - n) + 1 \in 1..Len(s) - 1
      <4>1. Len(s) \in Nat /\ i \in Int /\ n \in Int
        BY <1>1
      <4> QED BY <1>2, <3>1, <4>1
    <3> QED BY <3>1, <3>2, <3>3 DEF BottomOnly
  <2> QED BY <2>1, <2>2
<1> QED BY <1>5 DEF BottomOnly, cd, t

LEMMA BottomOnlyLast ==
    ASSUME NEW c \in Seq(InnerFrames), NEW f \in Frames
    PROVE  BottomOnly(c \o <<f>>)
<1>1. c \in Seq(Frames) /\ <<f>> \in Seq(Frames) /\ Len(<<f>>) = 1
  BY SeqMonotonic DEF InnerFrames
<1>2. /\ Len(c \o <<f>>) = Len(c) + 1 /\ Len(c) \in Nat
      /\ \A i \in 1..Len(c) + 1 : i <= Len(c) => (c \o <<f>>)[i] = c[i]
  BY <1>1, ConcatProperties, LenProperties
<1>3. ASSUME NEW i \in 1 .. Len(c \o <<f>>) - 1 PROVE (c \o <<f>>)[i] # "receive"
  <2>1. i \in 1..Len(c) /\ (c \o <<f>>)[i] = c[i]
    BY <1>2
  <2>2. c[i] \in InnerFrames
    BY <2>1, ElementOfSeq
  <2> QED BY <2>1, <2>2 DEF InnerFrames, ReceiveFrames
<1> QED BY <1>3 DEF BottomOnly

LEMMA BottomOnlyReceives ==
    ASSUME NEW s \in Seq(Frames), s # <<>>, BottomOnly(s), Head(s) = "receive"
    PROVE  Len(s) = 1 /\ Tail(s) = <<>>
<1>1. Len(s) \in Nat \ {0} /\ Head(s) = s[1]
  BY HeadTailProperties, EmptySeq
<1>2. Len(s) = 1
  <2> DEFINE n == Len(s)
  <2>1. n \in Nat \ {0}
    BY <1>1
  <2> HIDE DEF n
  <2>2. n # 1 => 1 \in 1 .. n - 1
    BY <2>1
  <2> QED BY <1>1, <2>2 DEF BottomOnly, n
<1> QED BY <1>2, LastFrame

-----------------------------------------------------------------------------
(* Every step is a move.                                                   *)

LEMMA CheckHandshakeStatus == \A hs : checkHandshakeStatus(hs) = CalleesOf(hs)
BY DEF checkHandshakeStatus, CalleesOf

LEMMA FlushIsFlushed ==
    ASSUME NEW b, NEW hs, NEW rest,
           Flush(b, checkHandshakeStatus(hs) \o rest \o Tail(stack))
    PROVE  Flushed(b, hs, rest)
BY CheckHandshakeStatus
   DEF Flush, Flushed, Drained, Follows, GoesOn, Calls, Throw, Ends

LEMMA doWrapIsMove == TypeOK /\ doWrap => WrapMove
<1> SUFFICES ASSUME TypeOK, doWrap PROVE WrapMove
  OBVIOUS
<1>1. PICK r \in Wrap(engine, Flip(appOut), netOut) :
         /\ engine' = r.engine
         /\ WrapThrew(r) \/ WrapOK(r) \/ WrapClosed(r) \/ WrapOverflow(r)
  BY DEF doWrap
<1>2. /\ OnTop("doWrap")
      /\ UNCHANGED <<peerVars, readIn, netIn, appIn, calls, accepted, received>>
  BY DEF doWrap, Top, OnTop
<1>3. WrapMoved(r)
  <2>1. CASE WrapThrew(r)
    BY <1>1, <2>1 DEF WrapThrew, WrapMoved, GoesOn
  <2>2. CASE WrapOK(r)
    <3>1. Flushed(r.dst, r.hs, <<"wrapRest">>)
      BY <2>2, FlushIsFlushed DEF WrapOK
    <3> QED BY <1>1, <2>2, <3>1 DEF WrapOK, WrapMoved
  <2>3. CASE WrapClosed(r)
    <3>1. Flushed(r.dst, r.hs, <<"closeRest">>)
      BY <2>3, FlushIsFlushed DEF WrapClosed
    <3> QED BY <1>1, <2>3, <3>1 DEF WrapClosed, WrapMoved
  <2>4. CASE WrapOverflow(r)
    <3>1. /\ engine \in Engines /\ GoodBuffer(netOut)
          /\ GoodBuffer(Flip(appOut)) /\ Readable(Flip(appOut))
      BY BuffersGood, FlipGood DEF TypeOK
    <3>2. GoodBuffer(r.dst)
      BY <3>1, WrapProperties, WrapBuffersGood
    <3>3. Regrown(netOut', r.dst)
      BY <2>4, <3>2, BufferSizes, EnsureRemainingRegrown DEF WrapOverflow
    <3> QED BY <1>1, <2>4, <3>3 DEF WrapOverflow, WrapMoved, Retries, GoesOn
  <2> QED BY <1>1, <2>1, <2>2, <2>3, <2>4
<1> QED BY <1>2, <1>3 DEF WrapMove

LEMMA UnwrappedIsMoved ==
    ASSUME TypeOK, NEW b, GoodBuffer(b), NEW r \in Unwrap(engine, Flip(b), appIn, NextRecord),
           Unwrapped(b, r), call' = call
    PROVE  UnwrapMoved(r)
<1>1. /\ engine \in Engines /\ GoodBuffer(appIn) /\ NextRecord \in Records
      /\ GoodBuffer(Flip(b)) /\ Readable(Flip(b))
  BY BuffersGood, FlipGood, NextRecordType DEF TypeOK
<1>2. GoodBuffer(r.src) /\ Readable(r.src) /\ GoodBuffer(r.dst)
  BY <1>1, UnwrapProperties, UnwrapBuffersGood
<1>3. GoodBuffer(Compact(r.src))
  BY <1>2, CompactGood
<1>4. \A n \in Nat : /\ Regrown(EnsureRemaining(Compact(r.src), n), Compact(r.src))
                     /\ Regrown(EnsureRemaining(r.dst, n), r.dst)
  BY <1>2, <1>3, EnsureRemainingRegrown
<1> QED BY <1>4, CheckHandshakeStatus, BufferSizes
        DEF Unwrapped, UnwrapMoved, Follows, Retries, GoesOn

LEMMA doUnwrapIsMove == TypeOK /\ (UnwrapBuffered \/ ReadAndUnwrap) => UnwrapMove
<1> SUFFICES ASSUME TypeOK, UnwrapBuffered \/ ReadAndUnwrap PROVE UnwrapMove
  OBVIOUS
<1>1. /\ OnTop("doUnwrap") /\ call' = call
      /\ UNCHANGED <<peerVars, outWire, appOut, netOut, calls, accepted, received>>
  BY DEF UnwrapBuffered, ReadAndUnwrap, Top, OnTop, callerVars, wireVars
<1>2. ASSUME NEW b, ReadInto(b),
             \E r \in Unwrap(engine, Flip(b), appIn, NextRecord) : Unwrapped(b, r)
      PROVE  UnwrapMove
  <2>1. PICK r \in Unwrap(engine, Flip(b), appIn, NextRecord) : Unwrapped(b, r)
    BY <1>2
  <2>2. UnwrapMoved(r)
    BY <1>1, <1>2, <2>1, ReadIntoGood, UnwrappedIsMoved
  <2> QED BY <1>1, <1>2, <2>1, <2>2 DEF UnwrapMove
<1>3. CASE UnwrapBuffered
  <2>1. ReadInto(netIn)
    BY <1>3 DEF UnwrapBuffered, ReadInto, wireVars
  <2> QED BY <1>2, <1>3, <2>1 DEF UnwrapBuffered
<1>4. CASE ReadAndUnwrap
  <2>1. PICK count \in ReadCounts(netIn.lim) :
           /\ readIn' = readIn + count
           /\ \E r \in Unwrap(engine, Flip(Put(netIn, Span(readIn, count))), appIn, NextRecord) :
                 Unwrapped(Put(netIn, Span(readIn, count)), r)
    BY <1>4 DEF ReadAndUnwrap
  <2>2. netIn.pos = 0 /\ netIn.lim \in Nat
    BY <1>4, BuffersGood DEF ReadAndUnwrap, MustRead, GoodBuffer, ByteBuffers
  <2>3. count \in Nat /\ count <= Remaining(netIn)
    BY <2>1, <2>2 DEF ReadCounts, Remaining
  <2>4. ReadInto(Put(netIn, Span(readIn, count)))
    BY <2>1, <2>3 DEF ReadInto
  <2> QED BY <1>2, <2>1, <2>4
<1> QED BY <1>3, <1>4

LEMMA NextIsMove == TypeOK /\ BottomOnly(stack) /\ [Next]_vars => Move
<1> SUFFICES ASSUME TypeOK, BottomOnly(stack), [Next]_vars PROVE Move
  OBVIOUS
<1>1. CASE ReceiveStep
  <2>1. /\ OnTop("receive")
        /\ UNCHANGED <<peerVars, wireVars, engine, appOut, netOut, netIn, calls, accepted>>
    BY <1>1 DEF ReceiveStep, Top, OnTop
  <2>2. Len(stack) = 1 /\ Tail(stack) = <<>>
    BY <2>1, BottomOnlyReceives DEF OnTop, TypeOK
  <2> DEFINE b == Flip(appIn)
  <2>3. CASE Remaining(b) > 0
    <3>1. Remaining(b) # 0
      BY <2>3
    <3>2. <<>> \o <<>> \o Tail(stack) = <<>>
      BY <2>2
    <3> QED BY <1>1, <2>1, <2>2, <2>3, <3>1, <3>2 DEF ReceiveStep, Calls, ReceiveMove, Move
  <2>4. CASE ~(Remaining(b) > 0)
    BY <1>1, <2>1, <2>4 DEF ReceiveStep, GoesOn, ReceiveMove, Move
  <2> QED BY <2>3, <2>4
<1>2. CASE doWrap
  BY <1>2, doWrapIsMove DEF Move
<1>3. CASE UnwrapBuffered \/ ReadAndUnwrap
  BY <1>3, doUnwrapIsMove DEF Move
<1>4. CASE HandleEndOfStream
  BY <1>4 DEF HandleEndOfStream, Top, OnTop, GoesOn, callerVars, EndOfStreamMove, Move
<1>5. CASE WrapRest \/ CloseRest
  BY <1>5 DEF WrapRest, CloseRest, Top, OnTop, GoesOn, callerVars, RestMove, Move
<1>6. CASE CloseStep \/ RunTasks
  BY <1>6, CheckHandshakeStatus
     DEF CloseStep, RunTasks, Top, OnTop, GoesOn, Follows, callerVars, CloseMove, TasksMove, Move
<1>7. CASE ReadThrows \/ StackOverflow
  <2>1. StackOverflow => stack # <<>>
    <3>1. Len(<<>>) = 0 /\ StackLimit \in Nat
      BY TlsStreamAssumption
    <3>2. StackOverflow => Len(stack) > StackLimit
      BY DEF StackOverflow
    <3>3. ~(0 > StackLimit)
      BY <3>1
    <3> QED BY <3>1, <3>2, <3>3
  <2> QED BY <1>7, <2>1 DEF ReadThrows, StackOverflow, Top, Throw, EndMove, Move
<1>8. CASE Return
  BY <1>8 DEF Move
<1>9. CASE AuthenticateAsClient
  BY <1>9, CheckHandshakeStatus DEF AuthenticateAsClient, OpenMove, Move
<1>10. CASE \E n \in SendSizes : send(n)
  BY <1>10 DEF send, Throw, Ends, SendMove, Move
<1>11. CASE receive \/ close
  BY <1>11 DEF receive, close, AskMove, Move
<1>12. CASE Peer \/ UNCHANGED vars
  BY <1>12 DEF Move
<1> QED BY <1>1, <1>2, <1>3, <1>4, <1>5, <1>6, <1>7, <1>8, <1>9, <1>10, <1>11, <1>12
        DEF Next, StreamStep, Caller

-----------------------------------------------------------------------------
(* The inductive invariant.                                                *)

LEMMA BottomOnlyStep ==
    ASSUME TypeOK, Control, BottomOnly(stack), [Next]_vars
    PROVE  BottomOnly(stack')
<1>0. Move /\ stack \in Seq(Frames)
  BY NextIsMove DEF TypeOK
<1>1. BottomOnly(<<>>)
  BY DEF BottomOnly
<1>2. CASE stack' = stack
  BY <1>2
<1>3. CASE InnerStep
  <2>1. PICK c \in Seq(InnerFrames), d \in Seq(InnerFrames) : stack' = c \o d \o Tail(stack)
    BY <1>3 DEF InnerStep, GoesOn, Calls
  <2>2. BottomOnly(c \o d \o Tail(stack))
    BY <1>0, <1>3, BottomOnlyCalls DEF InnerStep
  <2> QED BY <2>1, <2>2
<1>4. CASE EndStep
  BY <1>1, <1>4 DEF EndStep
<1>5. CASE CallStep
  <2>1. stack = <<>>
    BY <1>5 DEF CallStep, Control, Running
  <2>2. CASE stack' = CalleesOf(Status(NewEngine)) \o <<"ret">>
    <3>1. CalleesOf(Status(NewEngine)) \in Seq(InnerFrames) /\ "ret" \in Frames
      BY InnerPushed DEF Frames, Resting
    <3> QED BY <2>2, <3>1, BottomOnlyLast
  <2>3. /\ BottomOnly(<<"doWrap", "ret">>) /\ BottomOnly(<<"receive">>)
        /\ BottomOnly(<<"close", "ret">>)
    BY DEF BottomOnly
  <2> QED BY <1>1, <1>5, <2>1, <2>2, <2>3 DEF CallStep
<1>6. CASE ReceiveStack /\ OnTop("receive")
  <2>1. Tail(stack) = <<>>
    BY <1>0, <1>6, BottomOnlyReceives DEF OnTop
  <2>2. ASSUME NEW c \in Seq(InnerFrames), NEW w \in Frames, GoesOn(c, <<w>>)
        PROVE  BottomOnly(stack')
    <3>1. c \in Seq(Frames) /\ <<w>> \in Seq(Frames)
      BY SeqMonotonic DEF InnerFrames
    <3>2. (c \o <<w>>) \o <<>> = c \o <<w>>
      BY <3>1, ConcatProperties, ConcatEmptySeq
    <3>3. stack' = c \o <<w>>
      BY <2>1, <2>2, <3>2 DEF GoesOn, Calls
    <3> QED BY <3>3, BottomOnlyLast
  <2>3. /\ <<"doUnwrap">> \in Seq(InnerFrames) /\ <<>> \in Seq(InnerFrames)
        /\ "ret" \in Frames /\ ReceiveFrames \subseteq Frames
    BY InnerPushed DEF Frames, Resting, ReceiveFrames
  <2>4. OnTop("receiveRest") => FALSE
    BY <1>6 DEF OnTop
  <2> QED BY <1>6, <2>2, <2>3, <2>4 DEF ReceiveStack
<1>7. CASE ReceiveStack /\ ~OnTop("receive") /\ stack' # stack
  <2>1. stack # <<>> /\ Head(stack) = "receiveRest" /\ call' = call /\ call \in Running
    BY <1>7 DEF ReceiveStack, OnTop, GoesOn, Control
  <2>2. ~Peer /\ ~UNCHANGED vars
    BY <1>7 DEF Peer, vars
  <2> QED BY <2>1, <2>2
          DEF Next, StreamStep, Caller, ReceiveStep, doWrap, WrapRest, UnwrapBuffered,
              ReadAndUnwrap, HandleEndOfStream, ReadThrows, CloseStep, CloseRest, RunTasks,
              Return, Resting, StackOverflow, AuthenticateAsClient, send, receive, close,
              Enter, Top, Running
<1> QED BY <1>0, <1>2, <1>3, <1>4, <1>5, <1>6, <1>7, MoveStack

(* No method of SSLStream.java aborts the process.                         *)
LEMMA NeverAborts == call # "aborted" /\ [Next]_vars => call' # "aborted"
BY DEF Next, StreamStep, Caller, ReceiveStep, doWrap, WrapThrew, WrapOK, WrapClosed,
       WrapOverflow, Flush, Throw, WrapRest, UnwrapBuffered, ReadAndUnwrap, HandleEndOfStream,
       ReadThrows, CloseStep, CloseRest, RunTasks, Return, StackOverflow,
       AuthenticateAsClient, send, receive, close, Peer, vars, callerVars

Inv == Safe /\ ClosesFirst /\ BottomOnly(stack) /\ call # "aborted"

LEMMA InitInv == Init => Inv
BY InitSafe DEF Init, Inv, ClosesFirst, BottomOnly

LEMMA NextInv == Inv /\ [Next]_vars => Inv' /\ Move
<1> SUFFICES ASSUME Inv, [Next]_vars PROVE Inv' /\ Move
  OBVIOUS
<1>1. TypeOK /\ Control
  BY DEF Inv, Safe
<1> QED BY <1>1, NextIsMove, SafeStep, ClosesFirstStep, BottomOnlyStep, NeverAborts DEF Inv

LEMMA InvAlways == Spec => []Inv /\ [][Inv /\ Move]_vars
<1>1. Inv /\ [Next]_vars => Inv' /\ [Inv /\ Move]_vars
  BY NextInv
<1> QED BY <1>1, InitInv, PTL DEF Spec

-----------------------------------------------------------------------------

(* Every variable keeps its type, and the position of every buffer stays   *)
(* within its limit, its limit within its capacity, and below what was     *)
(* written: no put() and no get() of SSLStream.java goes out of bounds.    *)
THEOREM TypeCorrect == Spec => []TypeOK
<1>1. Inv => TypeOK
  BY DEF Inv, Safe
<1> QED BY <1>1, InvAlways, PTL

(* receive() returns the peer's plaintext in order, without loss and       *)
(* without repetition, through every growth of appInBuffer, every swallowed *)
(* SSLException and every exception that escapes.                          *)
THEOREM Delivered == Spec => []DeliveredInOrder
<1>1. Inv => DeliveredInOrder
  BY DEF Inv, Safe, Delivering
<1> QED BY <1>1, InvAlways, PTL

(* No record waits in netOutBuffer between two steps: through retries,     *)
(* growth and every failure but an exception that escapes, what the engine *)
(* made is on the wire, in its order.                                      *)
THEOREM Written == Spec => []WrittenInOrder
<1>1. Inv => WrittenInOrder
  BY DEF Inv, Safe
<1> QED BY <1>1, InvAlways, PTL

(* What send() takes is encrypted in order and exactly once: through every *)
(* retry of wrap(), every growth of netOutBuffer and every write that      *)
(* fails, until an SSLException is swallowed.                              *)
THEOREM Outbound == Spec => []OutboundInOrder
<1>1. Inv => OutboundInOrder
  BY DEF Inv, Safe
<1> QED BY <1>1, InvAlways, PTL

(* Every byte read from the socket is decrypted or waits in netInBuffer,   *)
(* once and in order: through records that arrive in pieces, several in    *)
(* one read, a full appInBuffer and every growth, until an SSLException    *)
(* is swallowed.                                                           *)
THEOREM Inbound == Spec => []InboundInOrder
<1>1. Inv => InboundInOrder
  BY DEF Inv, Safe, InboundInv, InboundInOrder, NextAt
<1> QED BY <1>1, InvAlways, PTL

(* When a call has returned, nothing that send() took is left in           *)
(* appOutBuffer while the engine still accepts it, however the messages of *)
(* the handshake and the retries of doWrap() were nested.                  *)
THEOREM NothingLeft == Spec => []NothingLeftBehind
<1>1. Inv => NothingLeftBehind
  BY SafeIsSafe DEF Inv
<1> QED BY <1>1, InvAlways, PTL

(* A call returns with the handshake complete or with the engine closed in *)
(* both directions: never in the middle of a handshake that could go on.   *)
THEOREM Settles == Spec => []AuthenticateSettles
<1>1. Inv => AuthenticateSettles
  BY SafeIsSafe DEF Inv
<1> QED BY <1>1, InvAlways, PTL

(* close() returns with the outbound side closed, which it closes only by  *)
(* writing the record that the engine makes of it, the close_notify:       *)
(* whatever waits in appOut or netOut, and however often wrap() is retried.*)
THEOREM CloseFlushed == Spec => CloseFlushes
<1>1. ASSUME Inv, Move, call = "close"
      PROVE  /\ call' = "idle" => engine'.out = "closed"
             /\ engine.out # "closed" /\ engine'.out = "closed" =>
                   call' \in {"threw", "aborted"} \/ outWire' = outWire \o Span(engine.tx, RecLen)
  BY <1>1, CloseReturns, CloseWrites DEF Inv, Safe
<1>2. [Inv /\ Move]_vars /\ Inv' =>
         [call = "close" =>
             /\ call' = "idle" => engine'.out = "closed"
             /\ engine.out # "closed" /\ engine'.out = "closed" =>
                   call' = "threw" \/ outWire' = outWire \o Span(engine.tx, RecLen)]_vars
  BY <1>1 DEF Inv
<1> QED BY <1>2, InvAlways, PTL DEF CloseFlushes

(* SSLStream.java implements SecureStream, in whatever order its methods   *)
(* are called and whatever fails.                                          *)
THEOREM PromiseKept == Spec => KeepsPromise
<1>1. Init => Promise!Init
  BY InitPromise
<1>2. [Inv /\ Move]_vars => [Promise!Next]_(Promise!vars)
  <2>1. CASE Inv /\ Move
    BY <2>1, SafePromise DEF Inv
  <2>2. CASE UNCHANGED vars
    <3>1. UNCHANGED <<engine, stack, call, accepted, received>>
      BY <2>2 DEF vars, streamVars, callerVars
    <3> QED BY <3>1 DEF Promise!vars, Promise!calls, Promise!channels
  <2> QED BY <2>1, <2>2
<1> QED BY <1>1, <1>2, InvAlways, PTL DEF Spec, KeepsPromise, Promise!Spec

-----------------------------------------------------------------------------
(* The room that a retry finds.                                            *)

(* ensureRemaining() leaves the room it is asked for, and never less       *)
(* capacity.                                                               *)
LEMMA EnsureRemainingRoom ==
    ASSUME NEW old, GoodBuffer(old), NEW n \in Nat
    PROVE  LET b == EnsureRemaining(old, n)
           IN  /\ Remaining(b) \in Nat /\ Remaining(b) >= n
               /\ Fillable(old) => b.cap >= old.cap
<1>0. old.pos \in Nat /\ old.lim \in Nat /\ old.cap \in Nat /\ Remaining(old) = old.lim - old.pos
  BY DEF GoodBuffer, ByteBuffers, Remaining
<1>1. CASE ~(Remaining(old) < n)
  BY <1>0, <1>1, RemainingNat DEF EnsureRemaining
<1>2. CASE Remaining(old) < n
  <2> DEFINE full == Flip(old)
             new == Allocate(Remaining(full) + n)
             b == Put(new, Unread(full))
  <2>1. GoodBuffer(full) /\ Readable(full) /\ Remaining(full) = old.pos
    BY FlipGood
  <2>2. Unread(full) \in Seq(Nat) /\ Len(Unread(full)) = old.pos
    BY <2>1, UnreadProperties
  <2> HIDE DEF full
  <2>3. /\ GoodBuffer(new) /\ Remaining(new) = old.pos + n
        /\ new.pos = 0 /\ new.lim = old.pos + n /\ new.cap = old.pos + n
    <3>1. old.pos + n \in Nat
      BY <1>0
    <3> QED BY <2>1, <3>1, AllocateGood DEF Allocate
  <2> HIDE DEF new
  <2>4. b.pos = old.pos /\ b.lim = old.pos + n /\ b.cap = old.pos + n
    <3>1. Len(Unread(full)) <= Remaining(new)
      BY <1>0, <2>2, <2>3
    <3> QED BY <1>0, <2>2, <2>3, <3>1, PutGood
  <2>5. EnsureRemaining(old, n) = b
    BY <1>2 DEF EnsureRemaining, full, new
  <2> HIDE DEF b
  <2>6. Remaining(b) = n
    BY <1>0, <2>4 DEF Remaining
  <2>7. Fillable(old) => b.cap >= old.cap
    BY <1>0, <1>2, <2>4 DEF Fillable
  <2> QED BY <2>5, <2>6, <2>7
<1> QED BY <1>1, <1>2

(* The methods that are not running wait at one of these points.           *)
Suspends == Resting \cup {"wrapRest", "closeRest", "receive"}
Waiting(s) == \A i \in 2..Len(s) : s[i] \in Suspends

LEMMA CallsEither ==
    ASSUME NEW hs, NEW w, stack # <<>>, Calls(checkHandshakeStatus(hs), <<w>>)
    PROVE  Turns(w) \/ \E f \in {"doWrap", "doUnwrap", "runTasks"} : CallsOn(f, w)
BY DEF checkHandshakeStatus, Turns, CallsOn

(* What a step does to the stack, and what the retry after an overflow     *)
(* finds.                                                                  *)
Shaped ==
    \/ UNCHANGED <<stack, streamVars>>
    \/ stack' = <<>>
    \/ Pops
    \/ \E w \in Suspends : Turns(w)
    \/ \E f \in Frames, w \in Suspends \ {"wrapOverflow", "unwrapOverflow"} : CallsOn(f, w)
    \/ CallsOn("doWrap", "wrapOverflow") /\ Remaining(netOut') >= PacketBufferSize(engine')
    \/ /\ CallsOn("doUnwrap", "unwrapOverflow")
       /\ Remaining(appIn') >= ApplicationBufferSize(engine')
    \/ /\ stack = <<>>
       /\ \/ \E hs : stack' = checkHandshakeStatus(hs) \o <<"ret">>
          \/ stack' \in {<<"doWrap", "ret">>, <<"receive">>, <<"close", "ret">>}

LEMMA NextShaped == Inv /\ [Next]_vars => Shaped
<1> SUFFICES ASSUME Inv, [Next]_vars PROVE Shaped
  OBVIOUS
<1>0. TypeOK /\ Control
  BY DEF Inv, Safe
<1>1. {"ret", "wrapRest", "closeRest", "receive", "unwrapUnderflow"}
          \subseteq Suspends \ {"wrapOverflow", "unwrapOverflow"}
  BY DEF Suspends, Resting
<1>2. {"doWrap", "doUnwrap", "close", "runTasks"} \subseteq Frames
  BY DEF Frames
<1>3. ASSUME NEW hs, NEW w \in {"ret", "wrapRest", "closeRest"}, stack # <<>>,
             Calls(checkHandshakeStatus(hs), <<w>>)
      PROVE  Shaped
  BY <1>1, <1>2, <1>3, CallsEither DEF Shaped
<1>4. ASSUME NEW f \in {"doWrap", "doUnwrap", "close", "runTasks"},
             NEW w \in {"ret", "receive", "unwrapUnderflow"}, CallsOn(f, w)
      PROVE  Shaped
  BY <1>1, <1>2, <1>4 DEF Shaped
<1>5. CASE ReceiveStep
  <2>1. stack # <<>> /\ (Calls(<<>>, <<>>) \/ Calls(<<"doUnwrap">>, <<"receive">>))
    BY <1>5 DEF ReceiveStep, Top
  <2>2. Calls(<<"doUnwrap">>, <<"receive">>) => CallsOn("doUnwrap", "receive")
    BY <2>1 DEF CallsOn
  <2> QED BY <1>4, <2>1, <2>2 DEF Shaped, Pops
<1>6. CASE doWrap
  <2>0. stack # <<>>
    BY <1>6 DEF doWrap, Top
  <2>1. PICK r \in Wrap(engine, Flip(appOut), netOut) :
           /\ engine' = r.engine
           /\ WrapThrew(r) \/ WrapOK(r) \/ WrapClosed(r) \/ WrapOverflow(r)
    BY <1>6 DEF doWrap
  <2>2. CASE WrapThrew(r)
    BY <2>0, <2>2 DEF WrapThrew, Shaped, Pops
  <2>3. CASE WrapOK(r) \/ WrapClosed(r)
    <3>1. \/ stack' = <<>>
          \/ \E w \in {"wrapRest", "closeRest"} : Calls(checkHandshakeStatus(r.hs), <<w>>)
      BY <2>3 DEF WrapOK, WrapClosed, Flush, Throw, Calls
    <3> QED BY <1>3, <2>0, <3>1 DEF Shaped
  <2>4. CASE WrapOverflow(r)
    <3>1. /\ engine \in Engines /\ GoodBuffer(netOut)
          /\ GoodBuffer(Flip(appOut)) /\ Readable(Flip(appOut))
      BY <1>0, BuffersGood, FlipGood DEF TypeOK
    <3>2. GoodBuffer(r.dst)
      BY <3>1, WrapProperties, WrapBuffersGood
    <3>3. Remaining(netOut') >= PacketBufferSize(engine')
      BY <2>1, <2>4, <3>2, BufferSizes, EnsureRemainingRoom DEF WrapOverflow
    <3> QED BY <2>0, <2>4, <3>3 DEF WrapOverflow, Shaped, CallsOn
  <2> QED BY <2>1, <2>2, <2>3, <2>4
<1>7. ASSUME NEW b, GoodBuffer(b), NEW r \in Unwrap(engine, Flip(b), appIn, NextRecord),
             stack # <<>>, Unwrapped(b, r)
      PROVE  Shaped
  <2>1. /\ engine \in Engines /\ GoodBuffer(appIn) /\ NextRecord \in Records
        /\ GoodBuffer(Flip(b)) /\ Readable(Flip(b))
    BY <1>0, <1>7, BuffersGood, FlipGood, NextRecordType DEF TypeOK
  <2>2. GoodBuffer(r.dst)
    BY <2>1, <1>7, UnwrapProperties, UnwrapBuffersGood
  <2>3. CASE r.status = "BUFFER_OVERFLOW"
    <3>1. Remaining(appIn') >= ApplicationBufferSize(engine')
      BY <1>7, <2>2, <2>3, BufferSizes, EnsureRemainingRoom DEF Unwrapped
    <3> QED BY <1>7, <2>3, <3>1 DEF Unwrapped, Shaped, CallsOn
  <2>4. CASE r.status # "BUFFER_OVERFLOW"
    <3>1. \/ Calls(<<>>, <<>>)
          \/ \E w \in {"ret", "closeRest"} : Calls(checkHandshakeStatus(r.hs), <<w>>)
          \/ Calls(<<"doUnwrap">>, <<"unwrapUnderflow">>)
      BY <1>7, <2>4 DEF Unwrapped
    <3>2. Calls(<<>>, <<>>) => Pops
      BY <1>7 DEF Pops
    <3>3. Calls(<<"doUnwrap">>, <<"unwrapUnderflow">>) => CallsOn("doUnwrap", "unwrapUnderflow")
      BY <1>7 DEF CallsOn
    <3> QED BY <1>3, <1>4, <1>7, <3>1, <3>2, <3>3 DEF Shaped
  <2> QED BY <2>3, <2>4
<1>8. CASE UnwrapBuffered \/ ReadAndUnwrap
  <2>1. stack # <<>> /\ GoodBuffer(netIn)
    BY <1>0, <1>8, BuffersGood DEF UnwrapBuffered, ReadAndUnwrap, Top
  <2>2. CASE UnwrapBuffered
    BY <1>7, <2>1, <2>2 DEF UnwrapBuffered
  <2>3. CASE ReadAndUnwrap
    <3>1. PICK count \in ReadCounts(netIn.lim) :
             /\ readIn' = readIn + count
             /\ \E r \in Unwrap(engine, Flip(Put(netIn, Span(readIn, count))), appIn,
                                NextRecord) :
                   Unwrapped(Put(netIn, Span(readIn, count)), r)
      BY <2>3 DEF ReadAndUnwrap
    <3>2. count \in Nat /\ count <= Remaining(netIn)
      BY <2>1, <2>3 DEF ReadAndUnwrap, MustRead, ReadCounts, Remaining, GoodBuffer, ByteBuffers
    <3>3. GoodBuffer(Put(netIn, Span(readIn, count)))
      <4>1. ReadInto(Put(netIn, Span(readIn, count)))
        BY <3>1, <3>2 DEF ReadInto
      <4> QED BY <1>0, <4>1, ReadIntoGood
    <3> QED BY <1>7, <2>1, <3>1, <3>3
  <2> QED BY <1>8, <2>2, <2>3
<1>9. CASE HandleEndOfStream
  <2>1. stack # <<>> /\ (Calls(<<>>, <<"ret">>) \/ Calls(<<"close">>, <<"ret">>))
    BY <1>9 DEF HandleEndOfStream, Top
  <2>2. Turns("ret") \/ CallsOn("close", "ret")
    BY <2>1 DEF Turns, CallsOn
  <2> QED BY <1>1, <1>4, <2>2 DEF Shaped
<1>10. CASE WrapRest \/ CloseRest
  <2>1. /\ stack # <<>>
        /\ \/ Calls(<<>>, <<"ret">>) \/ Calls(<<"doWrap">>, <<"ret">>)
           \/ Calls(<<"close">>, <<"ret">>)
    BY <1>10 DEF WrapRest, CloseRest, Top
  <2>2. Turns("ret") \/ CallsOn("doWrap", "ret") \/ CallsOn("close", "ret")
    BY <2>1 DEF Turns, CallsOn
  <2> QED BY <1>1, <1>4, <2>2 DEF Shaped
<1>11. CASE CloseStep \/ RunTasks
  <2>1. stack # <<>> /\ \E hs : Calls(checkHandshakeStatus(hs), <<"ret">>)
    BY <1>11 DEF CloseStep, RunTasks, Top
  <2> QED BY <1>3, <2>1
<1>12. CASE ReadThrows \/ StackOverflow
  BY <1>12 DEF ReadThrows, StackOverflow, Throw, Shaped
<1>13. CASE Return
  <2>1. stack \in Seq(Frames) /\ stack # <<>> /\ stack' = Tail(stack)
    BY <1>0, <1>13 DEF Return, TypeOK
  <2>2. <<>> \o <<>> \o Tail(stack) = Tail(stack)
    BY <2>1, HeadTailProperties, ConcatEmptySeq
  <2> QED BY <2>1, <2>2 DEF Shaped, Pops, Calls
<1>14. CASE Caller
  <2>1. stack = <<>>
    BY <1>0, <1>14 DEF Caller, AuthenticateAsClient, send, receive, close, Enter, Control, Running
  <2> QED BY <1>14, <2>1
          DEF Caller, AuthenticateAsClient, send, receive, close, Throw, Shaped
<1>15. CASE Peer \/ UNCHANGED vars
  BY <1>15 DEF Peer, vars, Shaped
<1> QED BY <1>5, <1>6, <1>8, <1>9, <1>10, <1>11, <1>12, <1>13, <1>14, <1>15
        DEF Next, StreamStep

LEMMA CalledStack ==
    ASSUME NEW hs
    PROVE  LET s == checkHandshakeStatus(hs) \o <<"ret">>
           IN  Len(s) \in 1..2 /\ (Len(s) = 2 => s[2] = "ret")
<1>1. "ret" \in Frames /\ {"doWrap", "doUnwrap", "runTasks"} \subseteq Frames
  BY DEF Frames, Resting
<1>2. Len(<<>> \o <<"ret">>) = 1
  BY ConcatEmptySeq, PushedFrames
<1>3. ASSUME NEW f \in Frames
      PROVE  Len(<<f>> \o <<"ret">>) = 2 /\ (<<f>> \o <<"ret">>)[2] = "ret"
  BY <1>1, ConcatProperties
<1> QED BY <1>1, <1>2, <1>3 DEF checkHandshakeStatus

LEMMA WaitingStep ==
    ASSUME Inv, Waiting(stack), [Next]_vars
    PROVE  Waiting(stack') /\ (RetryFits => RetryFits')
<1>0. TypeOK /\ Suspends \subseteq Frames
  BY DEF Inv, Safe, Suspends, Frames
<1>1. /\ Len(stack) \in Nat /\ (stack # <<>> => Len(stack) > 0)
      /\ Pops => /\ Len(stack') = Len(stack) - 1
                 /\ \A i \in 1..Len(stack') : stack'[i] = stack[i + 1]
      /\ \A w \in Frames :
            Turns(w) => /\ Len(stack') = Len(stack) /\ stack'[1] = w
                        /\ \A i \in 2..Len(stack') : stack'[i] = stack[i]
      /\ \A f, w \in Frames :
            CallsOn(f, w) => /\ Len(stack') = Len(stack) + 1
                             /\ stack'[1] = f /\ stack'[2] = w
                             /\ \A i \in 3..Len(stack') : stack'[i] = stack[i - 1]
  BY <1>0, ShapeOf
<1>2. "doWrap" \notin Suspends /\ "doUnwrap" \notin Suspends
  BY DEF Suspends, Resting
<1>3. CASE UNCHANGED <<stack, streamVars>>
  BY <1>3 DEF Waiting, RetryFits, streamVars
<1>4. CASE stack' = <<>>
  BY <1>4 DEF Waiting, RetryFits
<1>5. CASE Pops
  <2>1. \A i \in 1..Len(stack') : stack'[i] \in Suspends
    <3>1. ASSUME NEW i \in 1..Len(stack') PROVE i + 1 \in 2..Len(stack)
      BY <1>1, <1>5
    <3> QED BY <1>1, <1>5, <3>1 DEF Waiting
  <2>2. Len(stack') > 1 => stack'[1] \in Suspends
    BY <1>1, <1>5, <2>1
  <2> QED BY <1>1, <1>2, <1>5, <2>1, <2>2 DEF Waiting, RetryFits
<1>6. ASSUME NEW w \in Suspends, Turns(w) PROVE Waiting(stack') /\ RetryFits'
  <2>1. stack'[1] = w /\ Len(stack') = Len(stack) /\ \A i \in 2..Len(stack') : stack'[i] = stack[i]
    BY <1>0, <1>1, <1>6
  <2> QED BY <1>2, <2>1 DEF Waiting, RetryFits
<1>7. ASSUME NEW f \in Frames, NEW w \in Suspends, CallsOn(f, w) PROVE Waiting(stack')
  <2>1. /\ Len(stack') = Len(stack) + 1 /\ stack'[2] = w
        /\ \A i \in 3..Len(stack') : stack'[i] = stack[i - 1]
    BY <1>0, <1>1, <1>7
  <2>2. ASSUME NEW i \in 2..Len(stack') PROVE stack'[i] \in Suspends
    <3>1. i # 2 => i \in 3..Len(stack') /\ i - 1 \in 2..Len(stack)
      BY <1>1, <2>1
    <3> QED BY <2>1, <3>1 DEF Waiting
  <2> QED BY <2>2 DEF Waiting
<1>8. ASSUME NEW f \in Frames, NEW w \in Suspends \ {"wrapOverflow", "unwrapOverflow"},
             CallsOn(f, w)
      PROVE  RetryFits'
  <2>1. stack'[2] = w
    BY <1>0, <1>1, <1>8
  <2> QED BY <2>1 DEF RetryFits
<1>9. CASE CallsOn("doWrap", "wrapOverflow") /\ Remaining(netOut') >= PacketBufferSize(engine')
  <2>1. "doWrap" \in Frames /\ "wrapOverflow" \in Suspends
    BY DEF Frames, Suspends, Resting
  <2>2. stack'[1] = "doWrap"
    BY <1>0, <1>1, <1>9, <2>1
  <2>3. RetryFits'
    BY <1>9, <2>2 DEF RetryFits
  <2> QED BY <1>7, <1>9, <2>1, <2>3
<1>10. CASE /\ CallsOn("doUnwrap", "unwrapOverflow")
            /\ Remaining(appIn') >= ApplicationBufferSize(engine')
  <2>1. "doUnwrap" \in Frames /\ "unwrapOverflow" \in Suspends
    BY DEF Frames, Suspends, Resting
  <2>2. stack'[1] = "doUnwrap"
    BY <1>0, <1>1, <1>10, <2>1
  <2>3. RetryFits'
    BY <1>10, <2>2 DEF RetryFits
  <2> QED BY <1>7, <1>10, <2>1, <2>3
<1>11. CASE \/ \E hs : stack' = checkHandshakeStatus(hs) \o <<"ret">>
            \/ stack' \in {<<"doWrap", "ret">>, <<"receive">>, <<"close", "ret">>}
  <2>1. Len(stack') \in 1..2 /\ (Len(stack') = 2 => stack'[2] = "ret")
    BY <1>11, CalledStack
  <2>2. "ret" \in Suspends
    BY DEF Suspends, Resting
  <2>3. \A i \in 2..Len(stack') : i = 2 /\ Len(stack') = 2
    <3>1. \A n \in 1..2 : \A i \in 2..n : i = 2 /\ n = 2
      OBVIOUS
    <3> QED BY <2>1, <3>1
  <2> QED BY <2>1, <2>2, <2>3 DEF Waiting, RetryFits
<1> QED BY <1>3, <1>4, <1>5, <1>6, <1>7, <1>8, <1>9, <1>10, <1>11, NextShaped DEF Shaped

(* The retry after a BUFFER_OVERFLOW finds the room that the engine asked  *)
(* for, whatever the session's sizes and however they grew: no overflow    *)
(* follows another one.                                                    *)
THEOREM RetriesFit == Spec => []RetryFits
<1>1. Init => Waiting(stack) /\ RetryFits
  BY DEF Init, Waiting, RetryFits
<1>2. Inv /\ [Next]_vars /\ Waiting(stack) /\ RetryFits => (Waiting(stack) /\ RetryFits)'
  BY WaitingStep
<1> QED BY <1>1, <1>2, InvAlways, PTL DEF Spec

-----------------------------------------------------------------------------
(* The depth of the recursion.                                             *)

(* A buffer that is still too small for the session overflows once.        *)
Short(b, n) == IF b.cap < n THEN 1 ELSE 0
StepsLeft(e) == IF InHandshake(e) THEN Len(Script) - e.step ELSE 0

(* The frames that the methods need, their own included, for an engine e   *)
(* when o more overflows of netOut and a of appIn can happen and p bytes   *)
(* wait in appOut.  doWrap() calls itself for every record it wraps.       *)
WrapAffords(e, o, p, k) ==
    /\ k >= 1
    /\ e.out = "closed" => k >= 2
    /\ e.out = "closing" => k >= 2 + o
    /\ InHandshake(e) => k >= 3 + o + StepsLeft(e)
    /\ e.out = "open" /\ ~InHandshake(e) => k >= 1 + o /\ p <= (k - o) * AppSize

(* A suspended method.                                                     *)
Rests(e, o, a, f, k) ==
    /\ k >= 1
    /\ f = "closeRest" => k >= IF e.out = "closed" THEN 2 ELSE 4 + o
    /\ f = "receive" => k >= 5 + o + a

(* The method on top.                                                      *)
Affords(e, o, a, p, f, k) ==
    /\ Rests(e, o, a, f, k)
    /\ f = "doWrap" => WrapAffords(e, o, p, k)
    /\ f = "wrapRest" /\ p > 0 => WrapAffords(e, o, p, k - 1)
    /\ f = "close" => k >= IF e.out = "closed" THEN 1 ELSE 3 + o
    /\ f \in {"doUnwrap", "runTasks"} =>
          k >= IF InHandshake(e) THEN 3 + o + StepsLeft(e) ELSE 4 + o + a

(* The frames that the method on top of s can have, and its own.           *)
Room(s) == StackLimit - (Len(s) - 1)

(* Every frame of s has below StackLimit the frames it needs.              *)
Fits(s, e, o, a, p) ==
    s # <<>> => /\ Affords(e, o, a, p, s[1], Room(s))
                /\ \A i \in 2..Len(s) : Rests(e, o, a, s[i], StackLimit - (Len(s) - i))

(* Suspended methods need no more as buffers grow and the engine closes,   *)
(* so a step only has to care for the frames it pushes.                    *)
LEMMA FitsStep ==
    ASSUME TypeOK, Waiting(stack), stack # <<>>,
           NEW e, NEW o \in Nat, NEW a \in Nat, NEW p \in Nat,
           NEW f, NEW q \in Nat, NEW b \in Nat, NEW r \in Nat,
           q <= o, b <= a, e.out = "closed" => f.out = "closed",
           Fits(stack, e, o, a, p)
    PROVE  /\ Pops /\ ((\E i \in 2..Len(stack) : stack[i] = "wrapRest") => r = 0)
                 => Fits(stack', f, q, b, r)
           /\ \A w \in Frames :
                 Turns(w) /\ Affords(f, q, b, r, w, Room(stack)) => Fits(stack', f, q, b, r)
           /\ \A m, w \in Frames :
                 CallsOn(m, w) =>
                     (Rests(f, q, b, w, Room(stack)) /\ Affords(f, q, b, r, m, Room(stack) - 1)
                         => Fits(stack', f, q, b, r))
<1> DEFINE n == Len(stack)
<1>1. /\ n \in Nat /\ n > 0 /\ StackLimit \in Nat
      /\ Pops => /\ Len(stack') = n - 1
                 /\ \A i \in 1..Len(stack') : stack'[i] = stack[i + 1]
      /\ \A w \in Frames :
            Turns(w) => /\ Len(stack') = n /\ stack'[1] = w
                        /\ \A i \in 2..Len(stack') : stack'[i] = stack[i]
      /\ \A m, w \in Frames :
            CallsOn(m, w) => /\ Len(stack') = n + 1
                             /\ stack'[1] = m /\ stack'[2] = w
                             /\ \A i \in 3..Len(stack') : stack'[i] = stack[i - 1]
  BY ShapeOf, TlsStreamAssumption
<1>2. ASSUME NEW i \in 2..n PROVE Rests(f, q, b, stack[i], StackLimit - (n - i))
  <2>1. Rests(e, o, a, stack[i], StackLimit - (n - i))
    BY DEF Fits
  <2>2. StackLimit - (n - i) \in Int
    BY <1>1
  <2>3. ASSUME NEW s, NEW l \in Int, Rests(e, o, a, s, l) PROVE Rests(f, q, b, s, l)
    BY <2>3 DEF Rests
  <2> QED BY <2>1, <2>2, <2>3
<1>3. \A i \in 2..n : stack[i] \in Suspends
  BY DEF Waiting
<1>4. ASSUME Pops, (\E i \in 2..n : stack[i] = "wrapRest") => r = 0
      PROVE  Fits(stack', f, q, b, r)
  <2>1. \A i \in 1..Len(stack') : /\ i + 1 \in 2..n /\ stack'[i] = stack[i + 1]
                                  /\ Len(stack') - i = n - (i + 1)
    BY <1>1, <1>4
  <2>2. ASSUME stack' # <<>> PROVE Affords(f, q, b, r, stack'[1], Room(stack'))
    <3>1. Len(stack') # 0
      <4>1. stack' \in Seq(Frames)
        BY <1>4, FrameSeqs, CallsType DEF Pops, Calls, TypeOK
      <4> QED BY <2>2, <4>1, EmptySeq
    <3>2. 1 \in 1..Len(stack')
      BY <1>1, <1>4, <3>1
    <3>3. /\ Rests(f, q, b, stack'[1], StackLimit - (Len(stack') - 1))
          /\ stack'[1] \in Suspends
          /\ stack'[1] = "wrapRest" => r = 0
      BY <1>2, <1>3, <1>4, <2>1, <3>2
    <3> QED BY <3>3 DEF Affords, Suspends, Resting, Room
  <2>3. ASSUME NEW i \in 2..Len(stack')
        PROVE  Rests(f, q, b, stack'[i], StackLimit - (Len(stack') - i))
    BY <1>2, <2>1
  <2> QED BY <2>2, <2>3 DEF Fits
<1>5. ASSUME NEW w \in Frames, Turns(w), Affords(f, q, b, r, w, Room(stack))
      PROVE  Fits(stack', f, q, b, r)
  BY <1>1, <1>2, <1>5 DEF Fits, Room
<1>6. ASSUME NEW m \in Frames, NEW w \in Frames, CallsOn(m, w),
             Rests(f, q, b, w, Room(stack)), Affords(f, q, b, r, m, Room(stack) - 1)
      PROVE  Fits(stack', f, q, b, r)
  <2>1. /\ Len(stack') = n + 1 /\ stack'[1] = m /\ stack'[2] = w
        /\ \A i \in 3..Len(stack') : stack'[i] = stack[i - 1]
    BY <1>1, <1>6
  <2>2. ASSUME NEW i \in 2..Len(stack')
        PROVE  Rests(f, q, b, stack'[i], StackLimit - (Len(stack') - i))
    <3>1. CASE i = 2
      <4>1. StackLimit - (Len(stack') - 2) = Room(stack)
        BY <1>1, <2>1 DEF Room
      <4> QED BY <1>6, <2>1, <3>1, <4>1
    <3>2. CASE i # 2
      <4>1. i \in 3..Len(stack') /\ i - 1 \in 2..n /\ Len(stack') - i = n - (i - 1)
        BY <1>1, <2>1, <3>2
      <4> QED BY <1>2, <2>1, <4>1
    <3> QED BY <3>1, <3>2
  <2>3. Room(stack') = Room(stack) - 1
    BY <1>1, <2>1 DEF Room
  <2> QED BY <1>6, <2>1, <2>2, <2>3 DEF Fits
<1> QED BY <1>4, <1>5, <1>6

(* The method on top resumes as w, under what the status calls for, or an  *)
(* exception ends the call.                                                *)
Lands(hs, w) == Calls(checkHandshakeStatus(hs), <<w>>) \/ stack' = <<>>

(* While a method runs its buffers are ready for put().                    *)
LEMMA RunningBuffers ==
    ASSUME Inv, stack # <<>>
    PROVE  /\ call \in Running
           /\ Fillable(netOut) /\ netOut.pos = 0 /\ Fillable(appIn)
           /\ Remaining(netOut) = netOut.cap
           /\ appIn.pos = 0 => Remaining(appIn) = appIn.cap
<1>1. call \in Running /\ call \notin {"threw", "aborted"}
  BY DEF Inv, Safe, Control, Running
<1>2. Fillable(netOut) /\ netOut.pos = 0 /\ Fillable(appIn)
  BY <1>1 DEF Inv, Safe, WrittenInOrder, Delivering, DeliveredInOrder
<1>3. netOut.cap \in Nat /\ appIn.cap \in Nat
  BY BuffersGood DEF Inv, Safe, GoodBuffer, ByteBuffers
<1> QED BY <1>1, <1>2, <1>3 DEF Fillable, Remaining

(* doWrap(), by what it does to the engine, to its buffers and to the      *)
(* stack.                                                                  *)
LEMMA doWrapCases ==
    ASSUME Inv, doWrap
    PROVE  /\ appOut'.cap = appOut.cap /\ netOut'.cap >= netOut.cap
           /\ \/ /\ engine.out = "open" /\ Failed(engine, engine')
                 /\ appOut'.pos = 0 /\ Pops
              \/ /\ engine.out # "closed" /\ engine' = engine
                 /\ appOut'.pos = appOut.pos
                 /\ netOut.cap < PacketBufferSize(engine)
                 /\ netOut'.cap >= PacketBufferSize(engine)
                 /\ CallsOn("doWrap", "wrapOverflow")
              \/ /\ engine.out # "open" /\ engine'.out = "closed"
                 /\ appOut'.pos = appOut.pos
                 /\ Lands("NOT_HANDSHAKING", "closeRest")
              \/ /\ engine.out = "open" /\ Handshaking(engine)
                 /\ appOut'.pos = appOut.pos
                 /\ \/ /\ Script[engine.step + 1] # "NEED_WRAP"
                       /\ engine' = engine /\ Lands(Status(engine), "wrapRest")
                    \/ /\ Script[engine.step + 1] = "NEED_WRAP"
                       /\ Advanced(engine, engine') /\ Lands(StepStatus(engine'), "wrapRest")
              \/ /\ engine.out = "open" /\ Carried(engine, engine')
                 /\ appOut'.pos = IF appOut.pos <= AppSize THEN 0 ELSE appOut.pos - AppSize
                 /\ Lands("NOT_HANDSHAKING", "wrapRest")
<1>0. /\ TypeOK /\ stack # <<>> /\ engine \in Engines
      /\ GoodBuffer(appOut) /\ GoodBuffer(netOut)
      /\ GoodBuffer(Flip(appOut)) /\ Readable(Flip(appOut))
      /\ Remaining(Flip(appOut)) = appOut.pos /\ Flip(appOut).cap = appOut.cap
      /\ Flip(appOut).pos = 0
  BY BuffersGood, FlipGood DEF doWrap, Top, Inv, Safe, TypeOK
<1>1. PICK r \in Wrap(engine, Flip(appOut), netOut) :
         /\ engine' = r.engine
         /\ WrapThrew(r) \/ WrapOK(r) \/ WrapClosed(r) \/ WrapOverflow(r)
  BY DEF doWrap
<1>2. WrapCases(engine, Flip(appOut), netOut, r)
  BY <1>0, <1>1, WrapCasesHold
<1>3. /\ GoodBuffer(r.src) /\ Readable(r.src) /\ GoodBuffer(r.dst)
      /\ Fillable(netOut) /\ Remaining(netOut) = netOut.cap
  BY <1>0, <1>1, WrapProperties, WrapBuffersGood, RunningBuffers
<1>4. /\ Compact(r.src).pos = Remaining(r.src) /\ Compact(r.src).cap = r.src.cap
      /\ Drained(r.dst).cap = r.dst.cap /\ Compact(Drained(r.dst)).cap = r.dst.cap
  BY <1>3, CompactGood DEF Drained, Skip, Flip, Compact
<1>5. /\ Fragment(Flip(appOut)) = IF appOut.pos < AppSize THEN appOut.pos ELSE AppSize
      /\ appOut.pos \in Nat /\ appOut.cap \in Nat /\ netOut.cap \in Nat
      /\ AppSize \in Nat \ {0}
  BY <1>0, EngineAssumption DEF Fragment, GoodBuffer, ByteBuffers
<1>6. r.src = Skip(Flip(appOut), Fragment(Flip(appOut))) =>
          /\ Remaining(r.src) = appOut.pos - Fragment(Flip(appOut))
          /\ r.src.cap = appOut.cap
  <2>1. Fragment(Flip(appOut)) \in 0..Remaining(Flip(appOut))
    BY <1>0, <1>5
  <2> QED BY <1>0, <2>1, SkipGood
<1>7. CASE WrapThrew(r)
  <2>1. engine.out = "open" /\ Failed(engine, r.engine) /\ r.src = Flip(appOut)
    BY <1>2, <1>7 DEF WrapCases, WrapThrew
  <2> QED BY <1>0, <1>1, <1>5, <1>7, <2>1 DEF WrapThrew, Pops
<1>8. CASE WrapOverflow(r)
  <2>1. /\ engine.out # "closed" /\ Remaining(netOut) < PacketBufferSize(engine)
        /\ r.engine = engine /\ r.src = Flip(appOut) /\ r.dst = netOut
    BY <1>2, <1>8 DEF WrapCases, WrapOverflow
  <2>2. /\ netOut'.cap >= netOut.cap
        /\ Remaining(netOut') >= PacketBufferSize(engine) /\ GoodBuffer(netOut')
    BY <1>0, <1>3, <1>8, <2>1, BufferSizes, EnsureRemainingRoom, EnsureRemainingRegrown
       DEF WrapOverflow, Regrown
  <2>3. netOut'.cap >= PacketBufferSize(engine)
    BY <2>2, BufferSizes DEF GoodBuffer, ByteBuffers, WellFormed, Remaining
  <2> QED BY <1>0, <1>1, <1>3, <1>4, <1>8, <2>1, <2>2, <2>3 DEF WrapOverflow, CallsOn
<1>9. CASE WrapOK(r) \/ WrapClosed(r)
  <2>1. /\ appOut' = Compact(r.src) /\ netOut'.cap = netOut.cap
        /\ r.status = "OK" => Lands(r.hs, "wrapRest")
        /\ r.status = "CLOSED" => Lands(r.hs, "closeRest")
        /\ r.status \in {"OK", "CLOSED"}
    BY <1>2, <1>4, <1>9
       DEF WrapOK, WrapClosed, WrapCases, Flush, Throw, Lands, Calls, Drained
  <2>2. r.src.cap = appOut.cap /\ appOut'.cap = appOut.cap
    BY <1>0, <1>2, <1>4, <1>6, <2>1 DEF WrapCases
  <2>3. CASE r.status = "CLOSED"
    BY <1>0, <1>1, <1>2, <1>4, <1>5, <2>1, <2>2, <2>3 DEF WrapCases
  <2>4. CASE r.status = "OK" /\ Handshaking(engine)
    BY <1>0, <1>1, <1>2, <1>4, <1>5, <2>1, <2>2, <2>4 DEF WrapCases
  <2>5. CASE r.status = "OK" /\ ~Handshaking(engine)
    <3>1. /\ engine.out = "open" /\ r.hs = "NOT_HANDSHAKING" /\ Carried(engine, r.engine)
          /\ \/ Fragment(Flip(appOut)) = 0 /\ r.src = Flip(appOut)
             \/ r.src = Skip(Flip(appOut), Fragment(Flip(appOut)))
      BY <1>2, <2>5 DEF WrapCases
    <3>2. Remaining(r.src) = appOut.pos - Fragment(Flip(appOut))
      BY <1>0, <1>5, <1>6, <3>1
    <3>3. appOut'.pos = IF appOut.pos <= AppSize THEN 0 ELSE appOut.pos - AppSize
      BY <1>4, <1>5, <2>1, <3>2
    <3> QED BY <1>1, <1>5, <2>1, <2>2, <2>5, <3>1, <3>3
  <2> QED BY <2>1, <2>3, <2>4, <2>5
<1> QED BY <1>1, <1>7, <1>8, <1>9

(* doUnwrap(), likewise.                                                   *)
UnwrapLands ==
    \/ /\ engine.in = "closed" /\ engine' = engine
       /\ Lands(Status(engine), "closeRest")
    \/ /\ Status(engine) \in {"NEED_WRAP", "NEED_TASK"} /\ engine' = engine
       /\ Lands(Status(engine), "ret")
    \/ /\ engine.in = "open" /\ Status(engine) \notin {"NEED_WRAP", "NEED_TASK"}
       /\ engine' = engine /\ appIn'.pos = 0
       /\ netIn'.pos # 0 /\ netIn'.pos < RecLen
       /\ CallsOn("doUnwrap", "unwrapUnderflow")
    \/ /\ Status(engine) \notin {"NEED_WRAP", "NEED_TASK"}
       /\ netIn.pos = 0 \/ netIn.pos >= RecLen
       /\ \/ Failed(engine, engine') /\ Pops
          \/ Advanced(engine, engine') /\ Lands(StepStatus(engine'), "ret")
          \/ /\ ~Handshaking(engine)
             /\ \/ /\ Shuts(engine, engine') /\ engine'.in = "closed"
                   /\ Lands(Status(engine'), "closeRest")
                \/ Carried(engine, engine') /\ Lands(Status(engine'), "ret")
                \/ /\ engine' = engine /\ appIn'.pos = 0
                   /\ appIn.cap < AppSize /\ appIn'.cap >= AppSize
                   /\ CallsOn("doUnwrap", "unwrapOverflow")

LEMMA doUnwrapCases ==
    ASSUME Inv, UnwrapBuffered \/ ReadAndUnwrap, appIn.pos = 0
    PROVE  /\ appIn'.cap >= appIn.cap
           /\ appIn'.pos = 0 \/ ~Handshaking(engine)
           /\ UnwrapLands
<1>0. /\ TypeOK /\ stack # <<>> /\ engine \in Engines /\ NextRecord \in Records
      /\ GoodBuffer(netIn) /\ GoodBuffer(appIn) /\ Fillable(appIn)
      /\ Remaining(appIn) = appIn.cap /\ appIn.cap \in Nat /\ netIn.pos \in Nat
      /\ AppSize \in Nat /\ RecLen \in Nat \ {0}
  BY BuffersGood, NextRecordType, RunningBuffers, EngineAssumption
     DEF UnwrapBuffered, ReadAndUnwrap, Top, Inv, Safe, TypeOK, GoodBuffer, ByteBuffers
<1>1. ASSUME NEW b, GoodBuffer(b), b.pos # 0, netIn.pos = 0 \/ b = netIn,
             NEW r \in Unwrap(engine, Flip(b), appIn, NextRecord), Unwrapped(b, r)
      PROVE  /\ appIn'.cap >= appIn.cap
             /\ appIn'.pos = 0 \/ ~Handshaking(engine)
             /\ UnwrapLands
  <2>1. GoodBuffer(Flip(b)) /\ Readable(Flip(b)) /\ Remaining(Flip(b)) = b.pos
    BY <1>1, FlipGood
  <2>2. UnwrapCases(engine, Flip(b), appIn, r)
    BY <1>0, <1>1, UnwrapCasesHold
  <2>3. GoodBuffer(r.src) /\ Readable(r.src) /\ GoodBuffer(r.dst)
    BY <1>0, <1>1, <2>1, UnwrapProperties, UnwrapBuffersGood
  <2>4. engine' = r.engine
    BY <1>1 DEF Unwrapped
  <2>5. CASE r.status = "BUFFER_OVERFLOW"
    <3>1. /\ ~Handshaking(engine) /\ Remaining(appIn) < AppSize /\ r.engine = engine
          /\ Status(engine) \notin {"NEED_WRAP", "NEED_TASK"} /\ ~(b.pos < RecLen)
          /\ r.dst = appIn
      BY <2>1, <2>2, <2>5 DEF UnwrapCases
    <3>2. /\ appIn' = EnsureRemaining(appIn, AppSize)
          /\ CallsOn("doUnwrap", "unwrapOverflow")
      BY <1>0, <1>1, <2>5, <3>1 DEF Unwrapped, CallsOn, ApplicationBufferSize
    <3>3. /\ appIn'.cap >= appIn.cap /\ Remaining(appIn') >= AppSize
          /\ GoodBuffer(appIn') /\ appIn'.pos = 0
      BY <1>0, <3>2, EnsureRemainingRoom, EnsureRemainingRegrown DEF Regrown
    <3>4. appIn'.cap >= AppSize
      BY <1>0, <3>3 DEF GoodBuffer, ByteBuffers, WellFormed, Remaining
    <3> QED BY <1>0, <1>1, <2>4, <3>1, <3>2, <3>3, <3>4 DEF UnwrapLands
  <2>6. CASE r.status # "BUFFER_OVERFLOW"
    <3>1. appIn' = r.dst /\ r.dst.cap = appIn.cap
      BY <1>1, <2>2, <2>6 DEF Unwrapped, UnwrapCases
    <3>2. /\ appIn'.cap >= appIn.cap
          /\ r.dst = appIn => appIn'.pos = 0
          /\ appIn'.pos = 0 \/ ~Handshaking(engine)
      BY <1>0, <2>2, <3>1 DEF UnwrapCases
    <3>3. CASE r.status = "BUFFER_UNDERFLOW"
      <4>1. /\ engine.in = "open" /\ Status(engine) \notin {"NEED_WRAP", "NEED_TASK"}
            /\ b.pos < RecLen /\ r.engine = engine /\ r.src = Flip(b) /\ r.dst = appIn
        BY <2>1, <2>2, <3>3 DEF UnwrapCases
      <4>2. /\ netIn' = EnsureRemaining(Compact(r.src), PacketBufferSize(r.engine))
            /\ CallsOn("doUnwrap", "unwrapUnderflow")
        BY <1>0, <1>1, <3>3 DEF Unwrapped, CallsOn
      <4>3. /\ GoodBuffer(Compact(r.src)) /\ Fillable(Compact(r.src))
            /\ Compact(r.src).pos = b.pos
        BY <2>1, <2>3, <4>1, CompactGood
      <4>4. netIn'.pos = b.pos
        BY <4>2, <4>3, BufferSizes, EnsureRemainingRegrown DEF Regrown
      <4> QED BY <1>1, <2>4, <3>2, <4>1, <4>2, <4>4 DEF UnwrapLands
    <3>4. CASE r.status = "SSLException"
      <4>1. /\ Status(engine) \notin {"NEED_WRAP", "NEED_TASK"} /\ ~(b.pos < RecLen)
            /\ Failed(engine, r.engine)
        BY <2>1, <2>2, <3>4 DEF UnwrapCases
      <4>2. Pops
        BY <1>0, <1>1, <3>4 DEF Unwrapped, Pops
      <4> QED BY <1>0, <1>1, <2>4, <3>2, <4>1, <4>2 DEF UnwrapLands
    <3>5. CASE r.status \in {"OK", "CLOSED"}
      <4>1. /\ r.status = "OK" => Lands(r.hs, "ret")
            /\ r.status = "CLOSED" => Lands(r.hs, "closeRest")
        BY <1>1, <3>5 DEF Unwrapped, Lands
      <4> QED BY <1>0, <1>1, <2>1, <2>2, <2>4, <3>2, <3>5, <4>1 DEF UnwrapCases, UnwrapLands
    <3> QED BY <1>1, <2>6, <3>3, <3>4, <3>5 DEF Unwrapped
  <2> QED BY <2>5, <2>6
<1>2. CASE UnwrapBuffered
  BY <1>0, <1>1, <1>2 DEF UnwrapBuffered, MustRead
<1>3. CASE ReadAndUnwrap
  <2>1. PICK count \in ReadCounts(netIn.lim) :
           /\ readIn' = readIn + count
           /\ \E r \in Unwrap(engine, Flip(Put(netIn, Span(readIn, count))), appIn, NextRecord) :
                 Unwrapped(Put(netIn, Span(readIn, count)), r)
    BY <1>3 DEF ReadAndUnwrap
  <2>2. /\ netIn.pos = 0 /\ count \in Nat \ {0} /\ count <= Remaining(netIn)
        /\ readIn \in Nat
    <3>1. netIn.pos = 0 /\ netIn.lim \in Nat
      BY <1>0, <1>3 DEF ReadAndUnwrap, MustRead, GoodBuffer, ByteBuffers
    <3>2. count \in 1..netIn.lim
      BY <2>1 DEF ReadCounts
    <3>3. readIn \in Nat
      BY <1>0 DEF TypeOK, TransportTypeOK
    <3> QED BY <3>1, <3>2, <3>3 DEF Remaining
  <2>3. Span(readIn, count) \in Seq(Nat) /\ Len(Span(readIn, count)) = count
    BY <2>2, SpanProperties
  <2>4. /\ GoodBuffer(Put(netIn, Span(readIn, count)))
        /\ Put(netIn, Span(readIn, count)).pos # 0
    BY <1>0, <2>2, <2>3, PutGood
  <2> QED BY <1>1, <2>1, <2>2, <2>4
<1> QED BY <1>2, <1>3

(* What the engine asks for.                                               *)
LEMMA StatusAsks ==
    ASSUME NEW e \in Engines
    PROVE  /\ Status(e) = "NEED_WRAP" => e.out = "closing" \/ InHandshake(e)
           /\ Status(e) \in {"NEED_UNWRAP", "NEED_TASK"} => InHandshake(e)
           /\ InHandshake(e) => Status(e) = Script[e.step + 1] /\ Status(e) \in HandshakeNeeds
           /\ StepStatus(e) \in HandshakeNeeds => StepStatus(e) = Status(e)
<1>1. InHandshake(e) => e.step + 1 \in 1..Len(Script)
  <2>1. Script \in Seq(HandshakeNeeds) /\ Len(Script) \in Nat /\ e.step \in 0..Len(Script)
    BY EngineAssumption, LenProperties DEF Engines
  <2> QED BY <2>1 DEF InHandshake, Handshaking
<1>2. InHandshake(e) => Script[e.step + 1] \in HandshakeNeeds
  BY <1>1, EngineAssumption, ElementOfSeq
<1> QED BY <1>2 DEF Status, StepStatus, InHandshake, HandshakeNeeds

(* In the handshake the method on top is the one that the engine needs,    *)
(* and an engine whose inbound side alone is closed is about to be closed. *)
LEMMA HandshakeTop ==
    ASSUME Inv, Waiting(stack), call \in Running \cup {"idle"}
    PROVE  /\ InHandshake(engine) =>
                 /\ call = "authenticate"
                 /\ \/ OnTop("doWrap") /\ Status(engine) = "NEED_WRAP"
                    \/ OnTop("doUnwrap") /\ Status(engine) = "NEED_UNWRAP"
                    \/ OnTop("runTasks") /\ Status(engine) = "NEED_TASK"
           /\ Handshaking(engine) /\ engine.out = "open" /\ ~InHandshake(engine) =>
                 OnTop("close")
<1>0. /\ TypeOK /\ engine \in Engines /\ HandshakeDuty /\ stack \in Seq(Frames)
      /\ engine.in \in {"open", "closed"}
  BY EngineFields DEF Inv, Safe, Duties, TypeOK, Engines
<1>1. ASSUME InHandshake(engine)
      PROVE  /\ call = "authenticate"
             /\ \/ OnTop("doWrap") /\ Status(engine) = "NEED_WRAP"
                \/ OnTop("doUnwrap") /\ Status(engine) = "NEED_UNWRAP"
                \/ OnTop("runTasks") /\ Status(engine) = "NEED_TASK"
  <2>1. call = "authenticate" /\ Pending(engine, Range(stack))
    BY <1>0, <1>1 DEF HandshakeDuty, Settled, InHandshake
  <2>2. Status(engine) \in HandshakeNeeds
    BY <1>0, <1>1, StatusAsks
  <2>3. ASSUME NEW f, f \in {"doWrap", "doUnwrap", "runTasks"}, f \in Range(stack)
        PROVE  OnTop(f)
    <3>1. PICK i \in 1..Len(stack) : stack[i] = f
      BY <1>0, <2>3, RangeEquality
    <3>2. f \notin Suspends
      BY <2>3 DEF Suspends, Resting
    <3>3. ~(i \in 2..Len(stack))
      BY <3>1, <3>2 DEF Waiting
    <3>4. Len(stack) \in Nat
      BY <1>0, LenProperties
    <3>5. i = 1 /\ Len(stack) # 0
      BY <3>1, <3>3, <3>4
    <3>6. stack # <<>>
      BY <3>5
    <3> QED BY <1>0, <3>1, <3>5, <3>6, ShapeOf DEF OnTop
  <2>4. Range(CalleesOf(Status(engine))) \subseteq Range(stack)
    BY <2>1 DEF Pending
  <2>5. CASE Status(engine) = "NEED_WRAP"
    BY <2>1, <2>3, <2>4, <2>5, RangeOne DEF CalleesOf
  <2>6. CASE Status(engine) = "NEED_UNWRAP"
    BY <2>1, <2>3, <2>4, <2>6, RangeOne DEF CalleesOf
  <2>7. CASE Status(engine) = "NEED_TASK"
    BY <2>1, <2>3, <2>4, <2>7, RangeOne DEF CalleesOf
  <2> QED BY <2>2, <2>5, <2>6, <2>7 DEF HandshakeNeeds
<1>2. ASSUME Handshaking(engine), engine.out = "open", ~InHandshake(engine)
      PROVE  OnTop("close")
  BY <1>0, <1>2 DEF HandshakeDuty, Settled, InHandshake, Pending
<1> QED BY <1>1, <1>2

(* A method that asked the engine resumes as w under what it asked for.    *)
Reaches(w) ==
    \/ stack' = <<>>
    \/ Turns(w)
    \/ CallsOn("doWrap", w) /\ engine'.out = "closing"
    \/ InHandshake(engine') /\ \E f \in {"doWrap", "doUnwrap", "runTasks"} : CallsOn(f, w)

LEMMA LandsReaches ==
    ASSUME engine' \in Engines, stack # <<>>, NEW w,
           NEW hs \in {"NOT_HANDSHAKING", Status(engine'), StepStatus(engine')}, Lands(hs, w)
    PROVE  Reaches(w)
<1>1. CASE stack' = <<>>
  BY <1>1 DEF Reaches
<1>2. CASE hs \notin HandshakeNeeds /\ Calls(checkHandshakeStatus(hs), <<w>>)
  <2>1. checkHandshakeStatus(hs) = <<>>
    BY <1>2 DEF checkHandshakeStatus, HandshakeNeeds
  <2> QED BY <1>2, <2>1 DEF Reaches, Turns
<1>3. CASE hs \in HandshakeNeeds /\ Calls(checkHandshakeStatus(hs), <<w>>)
  <2>1. hs = Status(engine')
    BY <1>3, StatusAsks DEF HandshakeNeeds
  <2>2. \/ hs = "NEED_WRAP" /\ CallsOn("doWrap", w)
        \/ hs = "NEED_UNWRAP" /\ CallsOn("doUnwrap", w)
        \/ hs = "NEED_TASK" /\ CallsOn("runTasks", w)
    BY <1>3 DEF checkHandshakeStatus, HandshakeNeeds, CallsOn
  <2> QED BY <2>1, <2>2, StatusAsks DEF Reaches
<1> QED BY <1>1, <1>2, <1>3 DEF Lands

(* The state that the depth depends on: an engine that failed reads        *)
(* nothing more; no plaintext waits during the handshake, nor where        *)
(* doUnwrap() begins, nor where an unfinished doWrap() has called another  *)
(* method; and the sizes of the two outbound buffers.                      *)
Slim ==
    /\ engine.failed => engine.in = "closed"
    /\ InHandshake(engine) => appOut.pos = 0 /\ appIn.pos = 0
    /\ OnTop("doUnwrap") => appIn.pos = 0
    /\ (\E i \in 2..Len(stack) : stack[i] = "wrapRest") => appOut.pos = 0
    /\ call # "new" => netOut.cap >= InitPacketSize
    /\ appOut.cap <= AppOutSize

LEMMA OnlyAuthenticateOpens ==
    ASSUME Inv, [Next]_vars, ~AuthenticateAsClient
    PROVE  ~OpenMove /\ (call # "new" => call' # "new") /\ (call = "new" => call' = "new")
<1>1. call = "new" => stack = <<>>
  BY DEF Inv, Safe, Control, Running
<1>2. call = "new" => call' = "new"
  <2>1. StackOverflow => stack # <<>>
    <3>1. Len(<<>>) = 0 /\ ~(0 > StackLimit)
      BY TlsStreamAssumption
    <3> QED BY <3>1 DEF StackOverflow
  <2> QED BY <1>1, <2>1
       DEF Next, StreamStep, Caller, Peer, vars, callerVars, ReceiveStep, doWrap, WrapRest,
           UnwrapBuffered, ReadAndUnwrap, HandleEndOfStream, ReadThrows, CloseStep, CloseRest,
           RunTasks, Return, send, receive, close, Enter, Top
<1>3. call # "new" => call' # "new"
  <2>1. Move /\ TypeOK /\ Control
    BY NextInv DEF Inv, Safe
  <2> QED BY <2>1, NewStays
<1> QED BY <1>2, <1>3 DEF OpenMove, Ends

LEMMA FailedReadsNothing ==
    ASSUME Inv, engine.failed => engine.in = "closed", [Next]_vars
    PROVE  engine'.failed => engine'.in = "closed"
<1>0. TypeOK /\ Move /\ engine \in Engines
  BY NextInv DEF Inv, Safe, TypeOK
<1>1. CASE WrapMove
  <2>1. PICK r : WrapControl(engine, r) /\ engine' = r.engine
    BY <1>0, <1>1, WrapMoveEffect DEF WrapMoved
  <2> QED BY <2>1 DEF WrapControl, Advanced, Carried, Failed
<1>2. CASE UnwrapMove
  <2>1. PICK r : UnwrapControl(engine, r) /\ engine' = r.engine
    BY <1>0, <1>2, UnwrapMoveEffect DEF UnwrapMoved
  <2> QED BY <2>1 DEF UnwrapControl, Shuts, Advanced, Carried, Failed
<1>3. CASE EndOfStreamMove
  BY <1>0, <1>3, CloseInboundControl DEF EndOfStreamMove
<1>4. CASE CloseMove
  BY <1>0, <1>4, CloseOutboundControl DEF CloseMove
<1>5. CASE TasksMove
  BY <1>0, <1>5, RunDelegatedTasksControl DEF TasksMove, Advanced
<1>6. CASE OpenMove
  BY <1>6 DEF OpenMove, NewEngine
<1>7. ReceiveMove \/ RestMove \/ EndMove \/ Return \/ (\E n \in SendSizes : SendMove(n))
        \/ AskMove \/ Peer \/ UNCHANGED vars => engine' = engine
  BY DEF ReceiveMove, RestMove, EndMove, Return, SendMove, AskMove, Peer, vars, streamVars
<1> QED BY <1>0, <1>1, <1>2, <1>3, <1>4, <1>5, <1>6, <1>7 DEF Move

LEMMA HandshakeBefore ==
    ASSUME Inv, [Next]_vars, ~AuthenticateAsClient
    PROVE  /\ InHandshake(engine') => InHandshake(engine)
           /\ engine.out = "closed" => engine'.out = "closed"
           /\ engine \in Engines /\ engine' \in Engines
<1>1. TypeOK /\ TypeOK' /\ EngineMoves(engine, engine')
  BY NextInv, OnlyAuthenticateOpens, MoveEngine DEF Inv, Safe
<1>2. /\ engine \in Engines /\ engine' \in Engines /\ Len(Script) \in Nat
      /\ engine.step \in Nat /\ engine'.step \in Nat
  BY <1>1, EngineAssumption, LenProperties DEF TypeOK, Engines
<1> QED BY <1>1, <1>2, EngineFields
        DEF EngineMoves, Shuts, Advanced, Carried, InHandshake, Handshaking

(* What a step does to the buffers.                                        *)
LEMMA BuffersStep ==
    ASSUME Inv, Slim, [Next]_vars, ~AuthenticateAsClient
    PROVE  /\ appOut'.cap = appOut.cap
           /\ netOut'.cap >= netOut.cap /\ appIn'.cap >= appIn.cap
           /\ appOut.pos = 0 /\ call # "idle" => appOut'.pos = 0
           /\ appIn.pos = 0 => appIn'.pos = 0 \/ ~Handshaking(engine)
<1>0. /\ GoodBuffer(appOut) /\ GoodBuffer(netOut) /\ GoodBuffer(appIn)
      /\ netOut.cap \in Nat /\ appIn.cap \in Nat /\ AppSize \in Nat \ {0}
  BY BuffersGood, EngineAssumption DEF Inv, Safe, GoodBuffer, ByteBuffers
<1>1. CASE doWrap
  <2>1. UNCHANGED appIn
    BY <1>1 DEF doWrap
  <2> QED BY <1>0, <1>1, <2>1, doWrapCases
<1>2. CASE UnwrapBuffered \/ ReadAndUnwrap
  <2>1. UNCHANGED <<appOut, netOut>> /\ OnTop("doUnwrap")
    BY <1>2 DEF UnwrapBuffered, ReadAndUnwrap, Top, OnTop
  <2>2. appIn.pos = 0
    BY <2>1 DEF Slim
  <2> QED BY <1>0, <1>2, <2>1, <2>2, doUnwrapCases
<1>3. CASE ReceiveStep
  <2> DEFINE b == Flip(appIn)
  <2>1. /\ GoodBuffer(b) /\ Readable(b) /\ b.cap = appIn.cap /\ Remaining(b) = appIn.pos
        /\ Remaining(b) \in Nat
    BY <1>0, FlipGood, RemainingNat
  <2> HIDE DEF b
  <2>2. /\ Compact(b).cap = appIn.cap /\ Compact(b).pos = Remaining(b)
        /\ Compact(Skip(b, Remaining(b))).cap = appIn.cap
        /\ Compact(Skip(b, Remaining(b))).pos = 0
    <3>1. /\ GoodBuffer(Skip(b, Remaining(b))) /\ Readable(Skip(b, Remaining(b)))
          /\ Skip(b, Remaining(b)).cap = b.cap
          /\ Remaining(Skip(b, Remaining(b))) = 0
      BY <2>1, SkipGood
    <3> QED BY <2>1, <3>1, CompactGood
  <2>3. /\ UNCHANGED <<appOut, netOut>>
        /\ appIn' = Compact(b) \/ appIn' = Compact(Skip(b, Remaining(b)))
    BY <1>3 DEF ReceiveStep, b
  <2> QED BY <1>0, <2>1, <2>2, <2>3
<1>4. CASE \E n \in SendSizes : send(n)
  <2>1. UNCHANGED <<netOut, appIn>> /\ appOut'.cap = appOut.cap /\ call = "idle"
    BY <1>4 DEF send, Enter, Put
  <2> QED BY <1>0, <2>1
<1>5. CASE UNCHANGED <<appOut, netOut, appIn>>
  BY <1>0, <1>5
<1>6. WrapRest \/ HandleEndOfStream \/ ReadThrows \/ CloseStep \/ CloseRest \/ RunTasks
        \/ Return \/ StackOverflow \/ receive \/ close \/ Peer \/ UNCHANGED vars
        => UNCHANGED <<appOut, netOut, appIn>>
  BY DEF WrapRest, HandleEndOfStream, ReadThrows, CloseStep, CloseRest, RunTasks, Return,
         StackOverflow, receive, close, Peer, vars, streamVars
<1> QED BY <1>1, <1>2, <1>3, <1>4, <1>5, <1>6 DEF Next, StreamStep, Caller

(* What a step does to the stack while a method runs.                      *)
Course ==
    \/ stack' = <<>>
    \/ stack' = stack /\ UNCHANGED streamVars
    \/ Pops
    \/ \E w \in {"ret", "wrapRest", "closeRest"} :
          Reaches(w) /\ (w = "wrapRest" => engine'.out # "closing")
    \/ \E f \in {"doWrap", "close"}, w \in {"ret", "wrapOverflow"} : CallsOn(f, w)
    \/ /\ appIn'.pos = 0
       /\ \E w \in {"receive", "unwrapOverflow", "unwrapUnderflow"} : CallsOn("doUnwrap", w)

LEMMA CourseStep ==
    ASSUME Inv, Slim, [Next]_vars, stack # <<>>
    PROVE  Course
<1>0. /\ call \in Running /\ engine \in Engines /\ engine' \in Engines
      /\ ~AuthenticateAsClient /\ stack \in Seq(Frames)
  <2>1. call \in Running
    BY RunningBuffers
  <2>2. ~AuthenticateAsClient
    BY <2>1 DEF AuthenticateAsClient, Running
  <2> QED BY <2>1, <2>2, HandshakeBefore DEF Inv, Safe, TypeOK
<1>1. ASSUME NEW w \in {"ret", "closeRest"},
             NEW hs \in {"NOT_HANDSHAKING", Status(engine'), StepStatus(engine')}, Lands(hs, w)
      PROVE  Course
  BY <1>0, <1>1, LandsReaches DEF Course
<1>2. ASSUME NEW hs \in {"NOT_HANDSHAKING", Status(engine'), StepStatus(engine')},
             Lands(hs, "wrapRest"), engine'.out # "closing"
      PROVE  Course
  BY <1>0, <1>2, LandsReaches DEF Course
<1>3. CASE doWrap
  BY <1>1, <1>2, <1>3, doWrapCases DEF Course, Advanced, Carried
<1>4. CASE UnwrapBuffered \/ ReadAndUnwrap
  <2>1. appIn.pos = 0
    BY <1>4 DEF UnwrapBuffered, ReadAndUnwrap, Top, OnTop, Slim
  <2>2. UnwrapLands
    BY <1>4, <2>1, doUnwrapCases
  <2> QED BY <1>1, <2>2 DEF UnwrapLands, Course
<1>5. CASE ReceiveStep
  <2>1. \/ Calls(<<>>, <<>>)
        \/ /\ Remaining(Flip(appIn)) = 0 /\ appIn' = Compact(Flip(appIn))
           /\ Calls(<<"doUnwrap">>, <<"receive">>)
    BY <1>5 DEF ReceiveStep
  <2>2. Remaining(Flip(appIn)) = 0 => Compact(Flip(appIn)).pos = 0
    BY DEF Compact
  <2> QED BY <2>1, <2>2 DEF Course, Pops, CallsOn
<1>6. CASE HandleEndOfStream
  <2>1. Calls(<<>>, <<"ret">>) \/ Calls(<<"close">>, <<"ret">>)
    BY <1>6 DEF HandleEndOfStream
  <2>2. Turns("ret") \/ CallsOn("close", "ret")
    BY <2>1 DEF Turns, CallsOn
  <2> QED BY <2>2 DEF Course, Reaches
<1>7. CASE WrapRest \/ CloseRest
  <2>1. Calls(<<>>, <<"ret">>) \/ Calls(<<"doWrap">>, <<"ret">>) \/ Calls(<<"close">>, <<"ret">>)
    BY <1>7 DEF WrapRest, CloseRest
  <2>2. Turns("ret") \/ CallsOn("doWrap", "ret") \/ CallsOn("close", "ret")
    BY <2>1 DEF Turns, CallsOn
  <2> QED BY <2>2 DEF Course, Reaches
<1>8. CASE CloseStep \/ RunTasks
  <2>1. Lands(Status(engine'), "ret")
    BY <1>8 DEF CloseStep, RunTasks, Lands
  <2> QED BY <1>1, <2>1
<1>9. CASE ReadThrows \/ StackOverflow
  BY <1>9 DEF ReadThrows, StackOverflow, Throw, Course
<1>10. CASE Return
  <2>1. stack' = Tail(stack) /\ <<>> \o <<>> \o Tail(stack) = Tail(stack)
    BY <1>0, <1>10, HeadTailProperties, ConcatEmptySeq DEF Return
  <2> QED BY <2>1 DEF Course, Pops, Calls
<1>11. CASE Peer \/ UNCHANGED vars
  BY <1>11 DEF Peer, vars, Course
<1>12. ~Caller
  BY <1>0 DEF Caller, AuthenticateAsClient, send, receive, close, Enter, Running
<1> QED BY <1>3, <1>4, <1>5, <1>6, <1>7, <1>8, <1>9, <1>10, <1>11, <1>12 DEF Next, StreamStep

(* The next method on top, and what is suspended under it.                 *)
LEMMA CourseStack ==
    ASSUME Inv, Waiting(stack), Slim, [Next]_vars, stack # <<>>
    PROVE  /\ OnTop("doUnwrap")' =>
                 \/ stack' = stack /\ UNCHANGED streamVars
                 \/ InHandshake(engine') \/ appIn'.pos = 0
           /\ (\E i \in 2..Len(stack') : stack'[i] = "wrapRest") =>
                 (\E i \in 2..Len(stack) : stack[i] = "wrapRest") \/ InHandshake(engine')
<1>1. /\ Len(stack) \in Nat /\ Len(stack) > 0 /\ stack' \in Seq(Frames)
      /\ Pops => /\ Len(stack') = Len(stack) - 1
                 /\ \A i \in 1..Len(stack') : stack'[i] = stack[i + 1]
      /\ \A w \in Frames :
            Turns(w) => /\ Len(stack') = Len(stack) /\ stack'[1] = w
                        /\ \A i \in 2..Len(stack') : stack'[i] = stack[i]
      /\ \A f, w \in Frames :
            CallsOn(f, w) => /\ Len(stack') = Len(stack) + 1
                             /\ stack'[1] = f /\ stack'[2] = w
                             /\ \A i \in 3..Len(stack') : stack'[i] = stack[i - 1]
  BY NextInv, ShapeOf DEF Inv, Safe, TypeOK
<1>2. OnTop("doUnwrap")' => Len(stack') \in Nat /\ Len(stack') > 0 /\ stack'[1] = "doUnwrap"
  BY <1>1, HeadTailProperties, EmptySeq DEF OnTop
<1>3. /\ {"ret", "wrapRest", "closeRest", "wrapOverflow", "receive", "unwrapOverflow",
          "unwrapUnderflow", "doWrap", "doUnwrap", "runTasks", "close"} \subseteq Frames
      /\ "doUnwrap" \notin Suspends
  BY DEF Frames, Suspends, Resting
<1>4. ASSUME NEW f \in Frames, NEW w \in Frames, CallsOn(f, w), w # "wrapRest",
             NEW i \in 2..Len(stack'), stack'[i] = "wrapRest"
      PROVE  \E j \in 2..Len(stack) : stack[j] = "wrapRest"
  <2>1. i # 2
    BY <1>1, <1>4
  <2>2. i \in 3..Len(stack') /\ i - 1 \in 2..Len(stack)
    BY <1>1, <1>4, <2>1
  <2> QED BY <1>1, <1>4, <2>2
<1>5. ASSUME NEW w \in Frames, Turns(w)
      PROVE  (\E i \in 2..Len(stack') : stack'[i] = "wrapRest") =>
                 \E i \in 2..Len(stack) : stack[i] = "wrapRest"
  BY <1>1, <1>5
<1>6. CASE stack' = <<>>
  BY <1>2, <1>6
<1>7. CASE stack' = stack /\ UNCHANGED streamVars
  BY <1>7
<1>8. CASE Pops
  <2>1. ~OnTop("doUnwrap")'
    <3>1. ASSUME OnTop("doUnwrap")' PROVE FALSE
      <4>1. stack'[1] = stack[2] /\ 2 \in 2..Len(stack)
        BY <1>1, <1>2, <1>8, <3>1
      <4> QED BY <1>2, <1>3, <3>1, <4>1 DEF Waiting
    <3> QED BY <3>1
  <2>2. ASSUME NEW i \in 2..Len(stack'), stack'[i] = "wrapRest"
        PROVE  i + 1 \in 2..Len(stack) /\ stack[i + 1] = "wrapRest"
    BY <1>1, <1>8, <2>2
  <2> QED BY <2>1, <2>2
<1>9. ASSUME NEW w \in {"ret", "wrapRest", "closeRest"},
             Reaches(w), w = "wrapRest" => engine'.out # "closing", ~InHandshake(engine')
      PROVE  /\ ~OnTop("doUnwrap")'
             /\ (\E i \in 2..Len(stack') : stack'[i] = "wrapRest") =>
                    \E i \in 2..Len(stack) : stack[i] = "wrapRest"
  <2>1. CASE stack' = <<>>
    BY <1>1, <1>2, <2>1
  <2>2. CASE Turns(w)
    BY <1>2, <1>3, <1>5, <1>9, <2>2, <1>1
  <2>3. CASE CallsOn("doWrap", w) /\ w # "wrapRest"
    <3>1. stack'[1] = "doWrap"
      BY <1>1, <1>3, <2>3
    <3> QED BY <1>2, <1>3, <1>4, <2>3, <3>1
  <2> QED BY <1>9, <2>1, <2>2, <2>3 DEF Reaches
<1>10. ASSUME NEW f \in {"doWrap", "close"}, NEW w \in {"ret", "wrapOverflow"}, CallsOn(f, w)
       PROVE  /\ ~OnTop("doUnwrap")'
              /\ (\E i \in 2..Len(stack') : stack'[i] = "wrapRest") =>
                     \E i \in 2..Len(stack) : stack[i] = "wrapRest"
  <2>1. f \in Frames /\ w \in Frames /\ w # "wrapRest" /\ f # "doUnwrap"
    BY <1>3
  <2>2. stack'[1] = f
    BY <1>1, <1>10, <2>1
  <2> QED BY <1>2, <1>4, <1>10, <2>1, <2>2
<1>11. ASSUME NEW w \in {"receive", "unwrapOverflow", "unwrapUnderflow"},
              CallsOn("doUnwrap", w)
       PROVE  (\E i \in 2..Len(stack') : stack'[i] = "wrapRest") =>
                  \E i \in 2..Len(stack) : stack[i] = "wrapRest"
  <2>1. w \in Frames /\ w # "wrapRest" /\ "doUnwrap" \in Frames
    BY <1>3
  <2> QED BY <1>4, <1>11, <2>1
<1>12. Course
  BY CourseStep
<1> QED BY <1>6, <1>7, <1>8, <1>9, <1>10, <1>11, <1>12 DEF Course

LEMMA SlimStep ==
    ASSUME Inv, Waiting(stack), Slim, [Next]_vars
    PROVE  Slim'
<1>0. /\ GoodBuffer(netOut) /\ netOut.cap \in Nat /\ appOut.cap \in Nat
      /\ stack # <<>> => call \in Running
      /\ InitPacketSize \in Nat /\ PacketSize \in Nat /\ InitPacketSize <= PacketSize
      /\ AppOutSize \in Nat
  BY BuffersGood, RunningBuffers, EngineAssumption, TlsStreamAssumption
     DEF Inv, Safe, GoodBuffer, ByteBuffers
<1>1. CASE AuthenticateAsClient
  <2>1. /\ engine' = NewEngine /\ appOut' = Allocate(AppOutSize)
        /\ netOut' = Allocate(PacketBufferSize(NewEngine))
        /\ appIn'.pos = 0 /\ stack' = checkHandshakeStatus(Status(NewEngine)) \o <<"ret">>
    BY <1>1 DEF AuthenticateAsClient, Allocate
  <2>2. PacketBufferSize(NewEngine) >= InitPacketSize
    BY <1>0 DEF PacketBufferSize
  <2>3. ~\E i \in 2..Len(stack') : stack'[i] = "wrapRest"
    <3>1. Len(stack') \in 1..2 /\ (Len(stack') = 2 => stack'[2] = "ret")
      BY <2>1, CalledStack
    <3>2. \A n \in 1..2 : \A i \in 2..n : i = 2 /\ n = 2
      OBVIOUS
    <3> QED BY <3>1, <3>2
  <2> QED BY <1>0, <2>1, <2>2, <2>3 DEF Slim, NewEngine, Allocate
<1>2. CASE ~AuthenticateAsClient
  <2>1. /\ engine'.failed => engine'.in = "closed"
        /\ InHandshake(engine') => InHandshake(engine)
        /\ appOut'.cap = appOut.cap /\ netOut'.cap >= netOut.cap
        /\ appOut.pos = 0 /\ call # "idle" => appOut'.pos = 0
        /\ appIn.pos = 0 => appIn'.pos = 0 \/ ~Handshaking(engine)
        /\ call' # "new" => call # "new"
    BY <1>2, FailedReadsNothing, HandshakeBefore, BuffersStep, OnlyAuthenticateOpens DEF Slim
  <2>2. netOut'.cap \in Nat
    BY NextInv, BuffersGood DEF Inv, Safe, TypeOK, ByteBuffers
  <2>3. call' # "new" => netOut'.cap >= InitPacketSize
    BY <1>0, <2>1, <2>2 DEF Slim
  <2>4. ASSUME InHandshake(engine') PROVE appOut'.pos = 0 /\ appIn'.pos = 0
    <3>1. InHandshake(engine) /\ Handshaking(engine) /\ appOut.pos = 0 /\ appIn.pos = 0
      BY <2>1, <2>4 DEF Slim, InHandshake
    <3>2. call # "idle"
      BY <3>1, HandshakeTop
    <3> QED BY <2>1, <3>1, <3>2
  <2>5. CASE stack # <<>>
    <3>1. call # "idle"
      BY <1>0, <2>5 DEF Running
    <3>2. OnTop("doUnwrap")' => appIn'.pos = 0
      <4>1. stack' = stack /\ UNCHANGED streamVars => (OnTop("doUnwrap")' => appIn'.pos = 0)
        BY DEF Slim, OnTop, streamVars
      <4> QED BY <2>4, <2>5, <4>1, CourseStack
    <3>3. (\E i \in 2..Len(stack') : stack'[i] = "wrapRest") => appOut'.pos = 0
      BY <2>1, <2>4, <2>5, <3>1, CourseStack DEF Slim
    <3> QED BY <2>1, <2>3, <2>4, <3>2, <3>3 DEF Slim
  <2>6. CASE stack = <<>>
    <3>1. stack' \in {<<>>, <<"doWrap", "ret">>, <<"receive">>, <<"close", "ret">>}
      <4>1. ~StreamStep
        <5>1. Len(<<>>) = 0 /\ ~(0 > StackLimit)
          BY TlsStreamAssumption
        <5> QED BY <2>6, <5>1 DEF StreamStep, ReceiveStep, doWrap, WrapRest, UnwrapBuffered,
                    ReadAndUnwrap, HandleEndOfStream, ReadThrows, CloseStep, CloseRest,
                    RunTasks, Return, StackOverflow, Top
      <4> QED BY <1>2, <2>6, <4>1
              DEF Next, Caller, send, Throw, receive, close, Peer, vars
    <3>2. ~OnTop("doUnwrap")'
      BY <3>1 DEF OnTop
    <3>3. ~\E i \in 2..Len(stack') : stack'[i] = "wrapRest"
      BY <3>1
    <3> QED BY <2>1, <2>3, <2>4, <3>2, <3>3 DEF Slim
  <2> QED BY <2>5, <2>6
<1> QED BY <1>1, <1>2

LEMMA InitSlim == Init => Slim
<1>1. AppOutSize \in Nat
  BY TlsStreamAssumption
<1> QED BY <1>1 DEF Init, Slim, OnTop, NewEngine, Allocate

(* There is room for the methods on the stack and those they will call ... *)
Deep ==
    Fits(stack, engine, Short(netOut, PacketSize), Short(appIn, AppSize), appOut.pos)

(* ... unless doUnwrap() holds a part of a record: then it calls itself    *)
(* again and again.                                                        *)
Stuck ==
    /\ OnTop("doUnwrap") /\ netIn.pos # 0 /\ netIn.pos < RecLen
    /\ engine.in = "open" /\ Status(engine) \notin {"NEED_WRAP", "NEED_TASK"}

AffordsNext(m, k) ==
    Affords(engine', Short(netOut', PacketSize), Short(appIn', AppSize), appOut'.pos, m, k)
RestsNext(w, k) ==
    Rests(engine', Short(netOut', PacketSize), Short(appIn', AppSize), w, k)

LEMMA ShortNat ==
    ASSUME NEW b, NEW n
    PROVE  Short(b, n) \in 0..1
BY DEF Short

LEMMA ShortLess ==
    ASSUME NEW b, NEW c, b.cap \in Nat, c.cap \in Nat, c.cap >= b.cap, NEW n \in Nat
    PROVE  Short(c, n) <= Short(b, n)
BY DEF Short

(* It is enough that a step leaves room for the frames it pushes.          *)
LEMMA DeepStep ==
    ASSUME Inv, Waiting(stack), Slim, [Next]_vars, stack # <<>>, Deep
    PROVE  /\ Room(stack) \in Int
           /\ Affords(engine, Short(netOut, PacketSize), Short(appIn, AppSize), appOut.pos,
                      Head(stack), Room(stack))
           /\ appOut.pos \in Nat /\ appOut'.pos \in Nat
           /\ Short(netOut', PacketSize) <= Short(netOut, PacketSize)
           /\ Short(appIn', AppSize) <= Short(appIn, AppSize)
           /\ stack' = <<>> \/ Pops => Deep'
           /\ \A w \in Frames : Turns(w) /\ AffordsNext(w, Room(stack)) => Deep'
           /\ \A m, w \in Frames :
                 CallsOn(m, w) =>
                     (RestsNext(w, Room(stack)) /\ AffordsNext(m, Room(stack) - 1) => Deep')
<1> DEFINE o == Short(netOut, PacketSize)
           a == Short(appIn, AppSize)
           p == appOut.pos
           q == Short(netOut', PacketSize)
           b == Short(appIn', AppSize)
           r == appOut'.pos
<1>0. TypeOK /\ TypeOK' /\ call \in Running /\ ~AuthenticateAsClient
  <2>1. call \in Running
    BY RunningBuffers
  <2> QED BY <2>1, NextInv DEF Inv, Safe, AuthenticateAsClient, Running
<1>1. /\ netOut.cap \in Nat /\ appIn.cap \in Nat /\ p \in Nat
      /\ netOut'.cap \in Nat /\ appIn'.cap \in Nat /\ r \in Nat
      /\ AppSize \in Nat /\ PacketSize \in Nat
  BY <1>0, BuffersGood, EngineAssumption DEF TypeOK, ByteBuffers
<1>2. o \in Nat /\ a \in Nat /\ q \in Nat /\ b \in Nat
  BY ShortNat
<1>3. q <= o /\ b <= a
  BY <1>0, <1>1, BuffersStep, ShortLess
<1>4. engine.out = "closed" => engine'.out = "closed"
  BY <1>0, HandshakeBefore
<1>5. (\E i \in 2..Len(stack) : stack[i] = "wrapRest") => r = 0
  <2>1. call # "idle"
    BY <1>0 DEF Running
  <2> QED BY <1>0, <2>1, BuffersStep DEF Slim
<1>6. Fits(stack, engine, o, a, p)
  BY DEF Deep
<1>7. Deep' <=> Fits(stack', engine', q, b, r)
  BY DEF Deep
<1>8. Room(stack) \in Int /\ Head(stack) = stack[1]
  BY <1>0, ShapeOf, TlsStreamAssumption DEF Room
<1>9. Affords(engine, o, a, p, Head(stack), Room(stack))
  BY <1>6, <1>8 DEF Fits
<1>10. /\ \A w \in Frames : \A k : AffordsNext(w, k) <=> Affords(engine', q, b, r, w, k)
       /\ \A w \in Frames : \A k : RestsNext(w, k) <=> Rests(engine', q, b, w, k)
  BY DEF AffordsNext, RestsNext
<1> HIDE DEF o, a, p, q, b, r
<1>11. stack' = <<>> => Fits(stack', engine', q, b, r)
  BY DEF Fits
<1>12. /\ Pops => Fits(stack', engine', q, b, r)
       /\ \A w \in Frames :
             Turns(w) /\ Affords(engine', q, b, r, w, Room(stack))
                 => Fits(stack', engine', q, b, r)
       /\ \A m, w \in Frames :
             CallsOn(m, w) =>
                 (Rests(engine', q, b, w, Room(stack))
                     /\ Affords(engine', q, b, r, m, Room(stack) - 1)
                     => Fits(stack', engine', q, b, r))
  BY <1>0, <1>1, <1>2, <1>3, <1>4, <1>5, <1>6, FitsStep
<1>13. /\ \A w \in Frames : Turns(w) /\ AffordsNext(w, Room(stack)) => Deep'
       /\ \A m, w \in Frames :
             CallsOn(m, w) =>
                 (RestsNext(w, Room(stack)) /\ AffordsNext(m, Room(stack) - 1) => Deep')
  BY <1>7, <1>10, <1>12
<1> QED BY <1>1, <1>3, <1>7, <1>8, <1>9, <1>11, <1>12, <1>13 DEF o, a, p, q, b, r

(* The engine's steps left, before and after one.                          *)
LEMMA StepsLeftNat ==
    ASSUME NEW e \in Engines
    PROVE  /\ StepsLeft(e) \in Nat
           /\ InHandshake(e) => StepsLeft(e) >= 1
           /\ \A f \in Engines : Advanced(e, f) /\ InHandshake(f) =>
                 InHandshake(e) /\ StepsLeft(f) = StepsLeft(e) - 1
<1>1. Len(Script) \in Nat
  BY EngineAssumption, LenProperties
<1>2. \A f \in Engines : f.step \in 0..Len(Script)
  BY DEF Engines
<1> QED BY <1>1, <1>2 DEF StepsLeft, InHandshake, Handshaking, Advanced

(* One more record of application data.                                    *)
LEMMA OneMoreRecord ==
    ASSUME NEW m \in Int
    PROVE  (m - 1) * AppSize = m * AppSize - AppSize
BY EngineAssumption

(* Where a method that asked the engine goes on.                           *)
LEMMA ReachesDeep ==
    ASSUME Inv, Waiting(stack), Slim, [Next]_vars, stack # <<>>, Deep,
           NEW q, q = Short(netOut', PacketSize),
           NEW w \in {"ret", "wrapRest", "closeRest"}, Reaches(w),
           Room(stack) >= 1,
           w = "closeRest" => Room(stack) >= IF engine'.out = "closed" THEN 2 ELSE 4 + q,
           w = "wrapRest" /\ appOut'.pos > 0
               => WrapAffords(engine', q, appOut'.pos, Room(stack) - 1),
           engine'.out = "closing" => Room(stack) >= 3 + q,
           InHandshake(engine') => Room(stack) >= 4 + q + StepsLeft(engine')
    PROVE  Deep'
<1> DEFINE k == Room(stack)
           b == Short(appIn', AppSize)
           r == appOut'.pos
<1>1. k \in Int /\ q \in 0..1 /\ b \in 0..1 /\ r \in Nat
  BY DeepStep, ShortNat
<1>2. /\ stack' = <<>> => Deep'
      /\ \A v \in Frames : Turns(v) /\ AffordsNext(v, k) => Deep'
      /\ \A m, v \in Frames :
            CallsOn(m, v) => (RestsNext(v, k) /\ AffordsNext(m, k - 1) => Deep')
  BY DeepStep
<1>3. /\ \A v, l : AffordsNext(v, l) <=> Affords(engine', q, b, r, v, l)
      /\ \A v, l : RestsNext(v, l) <=> Rests(engine', q, b, v, l)
  BY DEF AffordsNext, RestsNext
<1>4. {"ret", "wrapRest", "closeRest", "doWrap", "doUnwrap", "runTasks"} \subseteq Frames
  BY DEF Frames, Resting
<1>5. InHandshake(engine') => engine'.out = "open" /\ StepsLeft(engine') \in Nat
  <2>1. engine' \in Engines
    BY NextInv DEF Inv, Safe, TypeOK
  <2> QED BY <2>1, StepsLeftNat DEF InHandshake
<1> HIDE DEF k, b, r
<1>6. Rests(engine', q, b, w, k) /\ Affords(engine', q, b, r, w, k)
  BY <1>1 DEF Rests, Affords, k, r
<1>7. engine'.out = "closing" => Affords(engine', q, b, r, "doWrap", k - 1)
  BY <1>1, <1>5 DEF Rests, Affords, WrapAffords, k, InHandshake
<1>8. ASSUME InHandshake(engine'), NEW f \in {"doWrap", "doUnwrap", "runTasks"}
      PROVE  Affords(engine', q, b, r, f, k - 1)
  <2>1. k - 1 >= 3 + q + StepsLeft(engine') /\ StepsLeft(engine') \in Nat
        /\ engine'.out = "open"
    BY <1>1, <1>5, <1>8 DEF k
  <2> QED BY <1>1, <1>8, <2>1 DEF Rests, Affords, WrapAffords
<1> QED BY <1>2, <1>3, <1>4, <1>6, <1>7, <1>8 DEF Reaches

(* The record that doWrap() took leaves the rest of the plaintext one      *)
(* frame less to fit in.                                                   *)
LEMMA RestFits ==
    ASSUME NEW m \in Int, NEW n \in Int, m <= n, NEW p \in Nat, p <= m * AppSize, p > AppSize
    PROVE  m >= 2 /\ p - AppSize <= (n - 1) * AppSize
<1>1. AppSize \in Nat \ {0}
  BY EngineAssumption
<1>2. ASSUME NEW x \in Nat, NEW y \in Nat PROVE x * y \in Nat
  BY <1>2
<1>3. m >= 2
  <2>1. ASSUME m <= 1 PROVE FALSE
    <3>1. 1 - m \in Nat
      BY <2>1
    <3>2. (1 - m) * AppSize \in Nat
      BY <1>1, <1>2, <3>1
    <3>3. (1 - m) * AppSize = AppSize - m * AppSize
      BY <1>1
    <3> QED BY <1>1, <3>2, <3>3
  <2> QED BY <2>1
<1>4. (n - m) * AppSize \in Nat
  <2>1. n - m \in Nat
    OBVIOUS
  <2> QED BY <1>1, <1>2, <2>1
<1>5. (n - m) * AppSize = (n - 1) * AppSize - m * AppSize + AppSize
  BY <1>1
<1>6. m * AppSize \in Int /\ (n - 1) * AppSize \in Int
  BY <1>1
<1> QED BY <1>1, <1>3, <1>4, <1>5, <1>6

LEMMA doWrapDeep ==
    ASSUME Inv, Waiting(stack), Slim, [Next]_vars, Deep, doWrap
    PROVE  Deep'
<1> DEFINE k == Room(stack)
           o == Short(netOut, PacketSize)
           q == Short(netOut', PacketSize)
           p == appOut.pos
           r == appOut'.pos
<1>0. /\ TypeOK /\ OnTop("doWrap") /\ stack # <<>> /\ Head(stack) = "doWrap"
      /\ engine \in Engines /\ engine' \in Engines
  <2>1. stack # <<>> /\ Head(stack) = "doWrap"
    BY DEF doWrap, Top
  <2> QED BY <2>1, NextInv DEF OnTop, Inv, Safe, TypeOK
<1>1. /\ k \in Int /\ o \in 0..1 /\ q \in 0..1 /\ q <= o
      /\ p \in Nat /\ r \in Nat /\ AppSize \in Nat \ {0}
  BY <1>0, DeepStep, ShortNat, EngineAssumption
<1>2. WrapAffords(engine, o, p, k)
  <2>1. Affords(engine, o, Short(appIn, AppSize), p, "doWrap", k)
    BY <1>0, DeepStep
  <2> QED BY <2>1 DEF Affords
<1>3. /\ Pops => Deep'
      /\ CallsOn("doWrap", "wrapOverflow") =>
            (RestsNext("wrapOverflow", k) /\ AffordsNext("doWrap", k - 1) => Deep')
  BY <1>0, DeepStep DEF Frames, Resting
<1>4. CASE /\ engine.out # "closed" /\ engine' = engine /\ r = p
           /\ netOut.cap < PacketBufferSize(engine)
           /\ netOut'.cap >= PacketBufferSize(engine)
           /\ CallsOn("doWrap", "wrapOverflow")
  <2>1. ~Handshaking(engine)
    <3>1. call # "new"
      BY <1>0, RunningBuffers DEF Running
    <3>2. netOut.cap >= InitPacketSize
      BY <3>1 DEF Slim
    <3>3. netOut.cap \in Nat /\ InitPacketSize \in Nat
      BY <1>0, BuffersGood, EngineAssumption DEF GoodBuffer, ByteBuffers
    <3> QED BY <1>4, <3>2, <3>3 DEF PacketBufferSize
  <2>2. o = 1 /\ q = 0
    <3>1. /\ netOut.cap < PacketSize /\ netOut'.cap >= PacketSize
          /\ netOut.cap \in Nat /\ netOut'.cap \in Nat /\ PacketSize \in Nat
      <4>1. GoodBuffer(netOut)
        BY <1>0, BuffersGood
      <4>2. GoodBuffer(netOut')
        BY NextInv, BuffersGood DEF Inv, Safe, TypeOK, GoodBuffer
      <4> QED BY <1>4, <2>1, <4>1, <4>2, EngineAssumption
              DEF PacketBufferSize, GoodBuffer, ByteBuffers
    <3> QED BY <3>1 DEF Short
  <2> HIDE DEF k, o, p, q, r
  <2>3. ~InHandshake(engine)
    BY <2>1 DEF InHandshake
  <2>4. k >= 1 /\ WrapAffords(engine, q, p, k - 1)
    <3>1. engine.out \in {"open", "closing"}
      BY <1>0, <1>4 DEF Engines
    <3>2. (k - 1) - 0 = k - 1
      BY <1>1
    <3> QED BY <1>1, <1>2, <2>2, <2>3, <3>1, <3>2 DEF WrapAffords
  <2>5. RestsNext("wrapOverflow", k) /\ AffordsNext("doWrap", k - 1)
    <3>1. k - 1 >= 1
      BY <2>4 DEF WrapAffords
    <3> QED BY <1>4, <2>4, <3>1 DEF RestsNext, AffordsNext, Rests, Affords, p, q, r
  <2> QED BY <1>3, <1>4, <2>5
<1>5. CASE /\ engine.out # "open" /\ engine'.out = "closed"
           /\ Lands("NOT_HANDSHAKING", "closeRest")
  <2>1. Reaches("closeRest")
    BY <1>0, <1>5, LandsReaches
  <2>2. ~InHandshake(engine')
    BY <1>5 DEF InHandshake
  <2>3. k >= 2
    <3>1. engine.out \in {"closed", "closing"}
      BY <1>0, <1>5 DEF Engines
    <3> HIDE DEF k, o, p, q, r
    <3> QED BY <1>1, <1>2, <3>1 DEF WrapAffords
  <2>4. k >= 1
    BY <1>1, <2>3
  <2> QED BY <1>0, <1>5, <2>1, <2>2, <2>3, <2>4, ReachesDeep
<1>6. CASE /\ engine.out = "open" /\ Handshaking(engine) /\ r = p
           /\ \/ /\ Script[engine.step + 1] # "NEED_WRAP"
                 /\ engine' = engine /\ Lands(Status(engine), "wrapRest")
              \/ /\ Script[engine.step + 1] = "NEED_WRAP"
                 /\ Advanced(engine, engine') /\ Lands(StepStatus(engine'), "wrapRest")
  <2>1. InHandshake(engine) /\ Status(engine) = "NEED_WRAP"
    <3>1. call \in Running
      BY <1>0, RunningBuffers
    <3>2. ~OnTop("close") /\ ~OnTop("doUnwrap") /\ ~OnTop("runTasks")
      BY <1>0 DEF OnTop
    <3> QED BY <1>6, <3>1, <3>2, HandshakeTop
  <2>2. Advanced(engine, engine') /\ Lands(StepStatus(engine'), "wrapRest")
    BY <1>0, <1>6, <2>1, StatusAsks
  <2>3. Reaches("wrapRest")
    BY <1>0, <2>2, LandsReaches
  <2>4. r = 0 /\ engine'.out = "open"
    BY <1>6, <2>1, <2>2 DEF Slim, Advanced
  <2>5. /\ StepsLeft(engine) \in Nat /\ StepsLeft(engine) >= 1
        /\ InHandshake(engine') => StepsLeft(engine') = StepsLeft(engine) - 1
    BY <1>0, <2>1, <2>2, StepsLeftNat
  <2>6. k >= 3 + o + StepsLeft(engine)
    BY <1>2, <2>1 DEF WrapAffords
  <2>7. k >= 1 /\ (InHandshake(engine') => k >= 4 + q + StepsLeft(engine'))
    <3> HIDE DEF k, o, q
    <3> QED BY <1>1, <2>5, <2>6
  <2> QED BY <1>0, <2>3, <2>4, <2>7, ReachesDeep
<1>7. CASE /\ engine.out = "open" /\ Carried(engine, engine')
           /\ r = IF p <= AppSize THEN 0 ELSE p - AppSize
           /\ Lands("NOT_HANDSHAKING", "wrapRest")
  <2>1. Reaches("wrapRest")
    BY <1>0, <1>7, LandsReaches
  <2>2. /\ engine'.out = "open" /\ ~InHandshake(engine') /\ ~InHandshake(engine)
    BY <1>7 DEF Carried, InHandshake, Handshaking
  <2> HIDE DEF k, o, p, q, r
  <2>3. k >= 1 + o /\ p <= (k - o) * AppSize
    BY <1>7, <2>2, <1>2 DEF WrapAffords
  <2>4. ASSUME r > 0 PROVE WrapAffords(engine', q, r, k - 1)
    <3>1. p > AppSize /\ r = p - AppSize
      BY <1>1, <1>7, <2>4
    <3>2. k - o \in Int /\ k - q \in Int /\ k - o <= k - q
      BY <1>1
    <3>3. k - o >= 2 /\ r <= ((k - q) - 1) * AppSize
      BY <1>1, <2>3, <3>1, <3>2, RestFits
    <3>4. (k - q) - 1 = (k - 1) - q
      BY <1>1
    <3>5. r <= ((k - 1) - q) * AppSize
      BY <3>3, <3>4
    <3> QED BY <1>1, <2>2, <3>3, <3>5 DEF WrapAffords
  <2>5. k >= 1
    BY <1>1, <2>3
  <2> QED BY <1>0, <2>1, <2>2, <2>4, <2>5, ReachesDeep DEF k, p, q, r
<1> QED BY <1>3, <1>4, <1>5, <1>6, <1>7, doWrapCases

LEMMA doUnwrapDeep ==
    ASSUME Inv, Waiting(stack), Slim, [Next]_vars, Deep, UnwrapBuffered \/ ReadAndUnwrap
    PROVE  Deep' \/ Stuck'
<1> DEFINE k == Room(stack)
           o == Short(netOut, PacketSize)
           a == Short(appIn, AppSize)
           q == Short(netOut', PacketSize)
           b == Short(appIn', AppSize)
           r == appOut'.pos
<1>0. /\ TypeOK /\ OnTop("doUnwrap") /\ stack # <<>> /\ Head(stack) = "doUnwrap"
      /\ engine \in Engines /\ engine' \in Engines /\ UNCHANGED <<appOut, netOut>>
      /\ appIn.pos = 0 /\ call \in Running
  <2>1. stack # <<>> /\ Head(stack) = "doUnwrap" /\ UNCHANGED <<appOut, netOut>>
    BY DEF UnwrapBuffered, ReadAndUnwrap, Top
  <2>2. OnTop("doUnwrap")
    BY <2>1 DEF OnTop
  <2> QED BY <2>1, <2>2, NextInv, RunningBuffers DEF Slim, Inv, Safe, TypeOK
<1>1. /\ k \in Int /\ o \in 0..1 /\ a \in 0..1 /\ q = o /\ b \in 0..1 /\ b <= a
  BY <1>0, DeepStep, ShortNat DEF Short
<1>2. k >= IF InHandshake(engine) THEN 3 + o + StepsLeft(engine) ELSE 4 + o + a
  <2>1. Affords(engine, o, a, appOut.pos, "doUnwrap", k)
    BY <1>0, DeepStep
  <2> QED BY <2>1 DEF Affords
<1>3. /\ UnwrapLands
      /\ appIn.cap \in Nat /\ appIn'.cap \in Nat /\ AppSize \in Nat
  <2>1. GoodBuffer(appIn) /\ GoodBuffer(appIn')
    BY NextInv, BuffersGood DEF Inv, Safe, TypeOK, GoodBuffer
  <2> QED BY <1>0, <2>1, doUnwrapCases, EngineAssumption DEF GoodBuffer, ByteBuffers
<1>4. InHandshake(engine) => Status(engine) = "NEED_UNWRAP"
  <2>1. ~OnTop("doWrap") /\ ~OnTop("runTasks")
    BY <1>0 DEF OnTop
  <2> QED BY <1>0, <2>1, HandshakeTop
<1>5. /\ StepsLeft(engine) \in Nat
      /\ InHandshake(engine) => StepsLeft(engine) >= 1
      /\ Advanced(engine, engine') /\ InHandshake(engine') =>
            InHandshake(engine) /\ StepsLeft(engine') = StepsLeft(engine) - 1
  BY <1>0, StepsLeftNat
<1>6. ASSUME NEW w \in {"ret", "closeRest"},
             NEW hs \in {"NOT_HANDSHAKING", Status(engine'), StepStatus(engine')}, Lands(hs, w),
             w = "closeRest" => ~InHandshake(engine),
             InHandshake(engine') => Advanced(engine, engine')
      PROVE  Deep'
  <2>1. Reaches(w)
    BY <1>0, <1>6, LandsReaches
  <2>2. k >= 1 /\ k >= 3 + q /\ (w = "closeRest" => k >= 4 + q)
    <3> HIDE DEF k, o, a, q, b, r
    <3> QED BY <1>1, <1>2, <1>5, <1>6
  <2>3. InHandshake(engine') => k >= 4 + q + StepsLeft(engine')
    <3> HIDE DEF k, o, a, q, b, r
    <3> QED BY <1>1, <1>2, <1>5, <1>6
  <2>4. w = "closeRest" => k >= IF engine'.out = "closed" THEN 2 ELSE 4 + q
    <3> HIDE DEF k, o, a, q, b, r
    <3> QED BY <1>1, <2>2
  <2> QED BY <1>0, <1>6, <2>1, <2>2, <2>3, <2>4, ReachesDeep
<1>7. CASE engine.in = "closed" /\ engine' = engine /\ Lands(Status(engine), "closeRest")
  <2>1. ~InHandshake(engine) /\ ~InHandshake(engine')
    BY <1>7 DEF InHandshake
  <2> QED BY <1>6, <1>7, <2>1
<1>8. CASE /\ Status(engine) \in {"NEED_WRAP", "NEED_TASK"} /\ engine' = engine
           /\ Lands(Status(engine), "ret")
  <2>1. ~InHandshake(engine')
    BY <1>4, <1>8
  <2> QED BY <1>6, <1>8, <2>1
<1>9. CASE /\ engine.in = "open" /\ Status(engine) \notin {"NEED_WRAP", "NEED_TASK"}
           /\ engine' = engine /\ netIn'.pos # 0 /\ netIn'.pos < RecLen
           /\ CallsOn("doUnwrap", "unwrapUnderflow")
  <2>1. Len(stack') = Len(stack) + 1 /\ stack'[1] = "doUnwrap" /\ Len(stack) \in Nat
    BY <1>0, <1>9, ShapeOf DEF Frames, Resting
  <2>2. stack' # <<>> /\ stack'[1] = Head(stack')
    <3>1. TypeOK'
      BY NextInv DEF Inv, Safe
    <3>2. stack' \in Seq(Frames)
      BY <3>1 DEF TypeOK
    <3>3. stack' # <<>>
      BY <2>1, <3>2, EmptySeq
    <3> QED BY <3>2, <3>3, HeadTailProperties
  <2> QED BY <1>9, <2>1, <2>2 DEF Stuck, OnTop
<1>10. CASE Failed(engine, engine') /\ Pops
  BY <1>0, <1>10, DeepStep
<1>11. CASE Advanced(engine, engine') /\ Lands(StepStatus(engine'), "ret")
  BY <1>6, <1>11
<1>12. CASE /\ ~Handshaking(engine) /\ Shuts(engine, engine') /\ engine'.in = "closed"
            /\ Lands(Status(engine'), "closeRest")
  <2>1. ~InHandshake(engine) /\ ~InHandshake(engine')
    BY <1>12 DEF InHandshake
  <2> QED BY <1>6, <1>12, <2>1
<1>13. CASE ~Handshaking(engine) /\ Carried(engine, engine') /\ Lands(Status(engine'), "ret")
  <2>1. ~InHandshake(engine')
    BY <1>13 DEF InHandshake, Carried, Handshaking
  <2> QED BY <1>6, <1>13, <2>1
<1>14. CASE /\ ~Handshaking(engine) /\ engine' = engine
            /\ appIn.cap < AppSize /\ appIn'.cap >= AppSize
            /\ CallsOn("doUnwrap", "unwrapOverflow")
  <2>1. a = 1 /\ b = 0 /\ ~InHandshake(engine) /\ ~InHandshake(engine')
    BY <1>3, <1>14 DEF Short, InHandshake
  <2>2. CallsOn("doUnwrap", "unwrapOverflow") =>
            (RestsNext("unwrapOverflow", k) /\ AffordsNext("doUnwrap", k - 1) => Deep')
    BY <1>0, DeepStep DEF Frames, Resting
  <2>3. /\ RestsNext("unwrapOverflow", k) <=> Rests(engine', q, b, "unwrapOverflow", k)
        /\ AffordsNext("doUnwrap", k - 1) <=> Affords(engine', q, b, r, "doUnwrap", k - 1)
    BY DEF RestsNext, AffordsNext
  <2> HIDE DEF k, o, a, q, b, r
  <2>4. k >= 5 + o
    BY <1>1, <1>2, <2>1
  <2> QED BY <1>1, <1>14, <2>1, <2>2, <2>3, <2>4 DEF Rests, Affords
<1> QED BY <1>3, <1>7, <1>8, <1>9, <1>10, <1>11, <1>12, <1>13, <1>14 DEF UnwrapLands

(* The other methods.                                                      *)
LEMMA OthersDeep ==
    ASSUME Inv, Waiting(stack), Slim, [Next]_vars, stack # <<>>, Deep,
           ~doWrap, ~UnwrapBuffered, ~ReadAndUnwrap
    PROVE  Deep'
<1> DEFINE k == Room(stack)
           o == Short(netOut, PacketSize)
           a == Short(appIn, AppSize)
           q == Short(netOut', PacketSize)
           b == Short(appIn', AppSize)
           p == appOut.pos
           r == appOut'.pos
<1>0. /\ TypeOK /\ call \in Running /\ stack \in Seq(Frames)
      /\ engine \in Engines /\ engine' \in Engines
  BY NextInv, RunningBuffers DEF Inv, Safe, TypeOK
<1>1. /\ k \in Int /\ o \in 0..1 /\ a \in 0..1 /\ q \in 0..1 /\ b \in 0..1
      /\ p \in Nat /\ r \in Nat /\ q <= o /\ b <= a
      /\ Affords(engine, o, a, p, Head(stack), k)
  BY DeepStep, ShortNat
<1>2. /\ stack' = <<>> \/ Pops => Deep'
      /\ \A w \in Frames : Turns(w) /\ AffordsNext(w, k) => Deep'
      /\ \A m, w \in Frames :
            CallsOn(m, w) => (RestsNext(w, k) /\ AffordsNext(m, k - 1) => Deep')
  BY DeepStep
<1>3. /\ \A w, l : RestsNext(w, l) <=> Rests(engine', q, b, w, l)
      /\ \A w, l : AffordsNext(w, l) <=> Affords(engine', q, b, r, w, l)
  BY DEF RestsNext, AffordsNext
<1>4. k >= 1
  BY <1>1 DEF Affords, Rests
<1>5. ASSUME Turns("ret") PROVE Deep'
  <2>1. "ret" \in Frames /\ Affords(engine', q, b, r, "ret", k)
    BY <1>4 DEF Frames, Resting, Affords, Rests
  <2> QED BY <1>2, <1>3, <1>5, <2>1
<1>6. ASSUME NEW m \in {"doWrap", "doUnwrap", "close"}, NEW w \in {"ret", "receive"},
             CallsOn(m, w), Rests(engine', q, b, w, k), Affords(engine', q, b, r, m, k - 1)
      PROVE  Deep'
  <2>1. m \in Frames /\ w \in Frames
    BY DEF Frames, Resting
  <2> QED BY <1>2, <1>3, <1>6, <2>1
<1>7. ASSUME OnTop("close") \/ OnTop("closeRest") \/ OnTop("receive") \/ OnTop("wrapRest")
      PROVE  ~InHandshake(engine)
  <2>1. ~OnTop("doWrap") /\ ~OnTop("doUnwrap") /\ ~OnTop("runTasks")
    BY <1>7 DEF OnTop
  <2> QED BY <1>0, <2>1, HandshakeTop
<1>8. CASE ReceiveStep
  <2>1. /\ Head(stack) = "receive" /\ engine' = engine
        /\ Pops \/ CallsOn("doUnwrap", "receive")
    BY <1>8 DEF ReceiveStep, Top, Pops, CallsOn
  <2>2. ~InHandshake(engine)
    BY <1>7, <2>1 DEF OnTop
  <2> HIDE DEF k, o, a, q, b, p, r
  <2>3. k >= 5 + q + b
    BY <1>1, <2>1 DEF Affords, Rests
  <2>4. Rests(engine', q, b, "receive", k) /\ Affords(engine', q, b, r, "doUnwrap", k - 1)
    BY <1>1, <2>1, <2>2, <2>3 DEF Affords, Rests
  <2> QED BY <1>2, <1>6, <2>1, <2>4
<1>9. CASE HandleEndOfStream
  <2>1. /\ Head(stack) = "doUnwrap"
        /\ \E e \in CloseInbound(engine) :
              engine' = e.engine /\ (CallsOn("close", "ret") \/ Turns("ret"))
    BY <1>9 DEF HandleEndOfStream, Top, Turns, CallsOn
  <2>2. StepsLeft(engine) \in Nat
    BY <1>0, StepsLeftNat
  <2> HIDE DEF k, o, a, q, b, p, r
  <2>3. k >= 4 + q
    <3>1. InHandshake(engine) => StepsLeft(engine) >= 1
      BY <1>0, StepsLeftNat
    <3> QED BY <1>1, <2>1, <2>2, <3>1 DEF Affords
  <2>4. Rests(engine', q, b, "ret", k) /\ Affords(engine', q, b, r, "close", k - 1)
    BY <1>1, <2>3 DEF Affords, Rests
  <2> QED BY <1>5, <1>6, <2>1, <2>4
<1>10. CASE ReadThrows \/ StackOverflow
  BY <1>2, <1>10 DEF ReadThrows, StackOverflow, Throw
<1>11. CASE CloseStep
  <2>1. /\ Head(stack) = "close" /\ engine' = CloseOutbound(engine)
        /\ Lands(Status(engine'), "ret")
    BY <1>11 DEF CloseStep, Top, Lands
  <2>2. /\ engine'.out = IF engine.out = "open" THEN "closing" ELSE engine.out
        /\ ~InHandshake(engine')
    BY <1>0, <2>1, CloseOutboundControl DEF InHandshake
  <2>3. Reaches("ret")
    BY <1>0, <2>1, LandsReaches
  <2>4. engine'.out = "closing" => k >= 3 + q
    <3> HIDE DEF k, o, a, q, b, p, r
    <3>1. k >= IF engine.out = "closed" THEN 1 ELSE 3 + o
      BY <1>1, <2>1 DEF Affords
    <3> QED BY <1>1, <2>2, <3>1
  <2> QED BY <1>4, <2>2, <2>3, <2>4, ReachesDeep
<1>12. CASE CloseRest
  <2>1. Head(stack) = "closeRest" /\ engine' = engine /\ CallsOn("close", "ret")
    BY <1>12 DEF CloseRest, Top, CallsOn, streamVars
  <2> HIDE DEF k, o, a, q, b, p, r
  <2>2. k >= IF engine.out = "closed" THEN 2 ELSE 4 + o
    BY <1>1, <2>1 DEF Affords, Rests
  <2>3. Rests(engine', q, b, "ret", k) /\ Affords(engine', q, b, r, "close", k - 1)
    BY <1>1, <2>1, <2>2 DEF Affords, Rests
  <2> QED BY <1>6, <2>1, <2>3
<1>13. CASE WrapRest
  <2>1. /\ Head(stack) = "wrapRest" /\ UNCHANGED streamVars
        /\ Turns("ret") \/ (p > 0 /\ CallsOn("doWrap", "ret"))
    BY <1>13 DEF WrapRest, Top, Turns, CallsOn
  <2>2. engine' = engine /\ q = o /\ r = p
    BY <2>1 DEF streamVars
  <2> HIDE DEF k, o, a, q, b, p, r
  <2>3. ASSUME p > 0
        PROVE  Rests(engine', q, b, "ret", k) /\ Affords(engine', q, b, r, "doWrap", k - 1)
    <3>1. WrapAffords(engine, o, p, k - 1)
      BY <1>1, <2>1, <2>3 DEF Affords
    <3>2. k - 1 >= 1
      BY <3>1 DEF WrapAffords
    <3> QED BY <1>4, <2>2, <3>1, <3>2 DEF Affords, Rests
  <2> QED BY <1>5, <1>6, <2>1, <2>3
<1>14. CASE RunTasks
  <2>1. /\ Head(stack) = "runTasks" /\ engine' = RunDelegatedTasks(engine)
        /\ Lands(Status(engine'), "ret")
    BY <1>14 DEF RunTasks, Top, Lands
  <2>2. Reaches("ret")
    BY <1>0, <2>1, LandsReaches
  <2>3. InHandshake(engine) => Status(engine) = "NEED_TASK"
    <3>1. ~OnTop("doWrap") /\ ~OnTop("doUnwrap")
      BY <2>1 DEF OnTop
    <3> QED BY <1>0, <3>1, HandshakeTop
  <2>4. /\ StepsLeft(engine) \in Nat
        /\ InHandshake(engine) => StepsLeft(engine) >= 1
        /\ InHandshake(engine') => /\ InHandshake(engine)
                                   /\ StepsLeft(engine') = StepsLeft(engine) - 1
    <3>1. \/ engine' = engine /\ Status(engine) # "NEED_TASK"
          \/ Advanced(engine, engine')
      BY <1>0, <2>1, RunDelegatedTasksControl
    <3> QED BY <1>0, <2>3, <3>1, StepsLeftNat
  <2>5. k >= 3 + q /\ (InHandshake(engine') => k >= 4 + q + StepsLeft(engine'))
    <3> HIDE DEF k, o, a, q, b, p, r
    <3>1. k >= IF InHandshake(engine) THEN 3 + o + StepsLeft(engine) ELSE 4 + o + a
      BY <1>1, <2>1 DEF Affords
    <3> QED BY <1>1, <2>4, <3>1
  <2> QED BY <1>4, <2>2, <2>5, ReachesDeep
<1>15. CASE Return
  <2>1. stack' = Tail(stack) /\ <<>> \o <<>> \o Tail(stack) = Tail(stack)
    BY <1>0, <1>15, HeadTailProperties, ConcatEmptySeq DEF Return
  <2> QED BY <1>2, <2>1 DEF Pops, Calls
<1>16. CASE Peer \/ UNCHANGED vars
  BY <1>16 DEF Peer, vars, streamVars, Deep
<1>17. ~Caller
  BY <1>0 DEF Caller, AuthenticateAsClient, send, receive, close, Enter, Running
<1> QED BY <1>8, <1>9, <1>10, <1>11, <1>12, <1>13, <1>14, <1>15, <1>16, <1>17 DEF Next, StreamStep

(* What is stuck stays so until the stack overflows.                       *)
LEMMA StuckStep ==
    ASSUME Inv, Slim, [Next]_vars, Stuck
    PROVE  Stuck' \/ stack' = <<>>
<1>1. /\ TypeOK /\ TypeOK' /\ stack # <<>> /\ Head(stack) = "doUnwrap" /\ ~MustRead
      /\ call \in Running /\ netIn.pos \in Nat /\ RecLen \in Nat
  <2>1. TypeOK /\ TypeOK' /\ stack # <<>> /\ Head(stack) = "doUnwrap" /\ ~MustRead
    BY NextInv DEF Stuck, OnTop, MustRead, Inv, Safe
  <2>2. netIn.pos \in Nat
    BY <2>1, BuffersGood DEF GoodBuffer, ByteBuffers
  <2> QED BY <2>1, <2>2, RunningBuffers, EngineAssumption
<1>2. CASE UnwrapBuffered
  <2>1. UnwrapLands
    BY <1>2, doUnwrapCases DEF Slim, Stuck
  <2>2. /\ engine' = engine /\ netIn'.pos # 0 /\ netIn'.pos < RecLen
        /\ CallsOn("doUnwrap", "unwrapUnderflow")
    BY <1>1, <2>1 DEF UnwrapLands, Stuck
  <2>3. Len(stack') = Len(stack) + 1 /\ stack'[1] = "doUnwrap" /\ Len(stack) \in Nat
    BY <1>1, <2>2, ShapeOf DEF Frames, Resting
  <2>4. stack' # <<>> /\ stack'[1] = Head(stack')
    <3>1. stack' \in Seq(Frames)
      BY <1>1 DEF TypeOK
    <3>2. stack' # <<>>
      BY <2>3, <3>1, EmptySeq
    <3> QED BY <3>1, <3>2, HeadTailProperties
  <2> QED BY <2>2, <2>3, <2>4 DEF Stuck, OnTop
<1>3. CASE Peer \/ UNCHANGED vars
  BY <1>3 DEF Peer, vars, streamVars, Stuck, OnTop
<1>4. CASE StackOverflow
  BY <1>4 DEF StackOverflow
<1>5. /\ ~ReceiveStep /\ ~doWrap /\ ~WrapRest /\ ~ReadAndUnwrap /\ ~HandleEndOfStream
      /\ ~ReadThrows /\ ~CloseStep /\ ~CloseRest /\ ~RunTasks /\ ~Return
  BY <1>1 DEF ReceiveStep, doWrap, WrapRest, ReadAndUnwrap, HandleEndOfStream, ReadThrows,
              CloseStep, CloseRest, RunTasks, Return, Top, Resting
<1>6. ~Caller
  BY <1>1 DEF Caller, AuthenticateAsClient, send, receive, close, Enter, Running
<1> QED BY <1>2, <1>3, <1>4, <1>5, <1>6 DEF Next, StreamStep

(* The stack that the recursion needs: four frames beside the handshake's  *)
(* steps, six for receive(), one for each full record of what send() can   *)
(* take, and one more when the session asks for a larger packet buffer     *)
(* than the handshake did.                                                 *)
Growth == IF InitPacketSize < PacketSize THEN 1 ELSE 0
EnoughStack ==
    /\ StackLimit >= Len(Script) + 4 + Growth
    /\ StackLimit >= 6 + Growth
    /\ AppOutSize <= (StackLimit - 1 - Growth) * AppSize

LEMMA EnoughFor ==
    ASSUME EnoughStack, NEW o \in Nat, o <= Growth, NEW p \in Nat, p <= AppOutSize
    PROVE  /\ StackLimit \in Nat /\ Growth \in 0..1 /\ StackLimit >= 6 + o
           /\ StackLimit - 1 >= 3 + o + Len(Script) /\ Len(Script) \in Nat
           /\ p <= (StackLimit - 1 - o) * AppSize
<1>1. /\ StackLimit \in Nat /\ AppOutSize \in Nat /\ AppSize \in Nat /\ Growth \in 0..1
      /\ Len(Script) \in Nat
  BY TlsStreamAssumption, EngineAssumption, LenProperties DEF Growth
<1>2. /\ StackLimit >= Len(Script) + 4 + Growth /\ StackLimit >= 6 + Growth
      /\ AppOutSize <= (StackLimit - 1 - Growth) * AppSize
  BY DEF EnoughStack
<1> DEFINE g == Growth
<1>3. p <= (StackLimit - 1 - o) * AppSize
  <2> HIDE DEF g
  <2>1. \A x, y \in Nat : x * y \in Nat
    OBVIOUS
  <2>2. (g - o) * AppSize \in Nat
    <3>1. g - o \in Nat
      BY <1>1 DEF g
    <3> QED BY <1>1, <2>1, <3>1
  <2>3. (StackLimit - 1 - o) * AppSize = (StackLimit - 1 - g) * AppSize + (g - o) * AppSize
    BY <1>1 DEF g
  <2>4. (StackLimit - 1 - g) * AppSize \in Int
    BY <1>1 DEF g
  <2>5. p <= (StackLimit - 1 - g) * AppSize
    BY <1>1, <1>2, <2>4 DEF g
  <2> QED BY <2>2, <2>3, <2>4, <2>5
<1> QED BY <1>1, <1>2, <1>3

(* The stack that a public method starts with.                             *)
LEMMA FreshFits ==
    ASSUME EnoughStack, NEW e \in Engines, NEW o \in Nat, o <= Growth, NEW a \in 0..1,
           NEW p \in Nat, p <= AppOutSize
    PROVE  /\ Fits(<<"ret">>, e, o, a, p) /\ Fits(<<"receive">>, e, o, a, p)
           /\ Fits(<<"close", "ret">>, e, o, a, p)
           /\ ~InHandshake(e) \/ Status(e) = "NEED_WRAP" => Fits(<<"doWrap", "ret">>, e, o, a, p)
           /\ InHandshake(e) => \A f \in {"doUnwrap", "runTasks"} :
                                   Fits(<<f, "ret">>, e, o, a, p)
<1> DEFINE k == StackLimit
<1>1. /\ k \in Nat /\ k >= 6 + o /\ k - 1 >= 3 + o + Len(Script) /\ Len(Script) \in Nat
      /\ p <= (k - 1 - o) * AppSize /\ o \in 0..1
  BY EnoughFor
<1>2. StepsLeft(e) \in Nat /\ StepsLeft(e) <= Len(Script)
  <2>1. e.step \in 0..Len(Script)
    BY DEF Engines
  <2> QED BY <1>1, <2>1, StepsLeftNat DEF StepsLeft
<1>3. k - 1 >= 3 + o + StepsLeft(e) /\ k \in Int /\ k - 1 \in Int /\ k >= 5 + o + a
  BY <1>1, <1>2
<1>4. \A f : Room(<<f, "ret">>) = k - 1 /\ Room(<<f>>) = k
  BY <1>1 DEF Room
<1>5. Rests(e, o, a, "ret", k) /\ Affords(e, o, a, p, "ret", k)
  BY <1>1 DEF Rests, Affords
<1>6. ASSUME NEW f, Affords(e, o, a, p, f, k - 1) PROVE Fits(<<f, "ret">>, e, o, a, p)
  <2>1. ASSUME NEW i \in 2..Len(<<f, "ret">>)
        PROVE  Rests(e, o, a, <<f, "ret">>[i], StackLimit - (Len(<<f, "ret">>) - i))
    <3>1. i = 2 /\ StackLimit - (2 - 2) = k
      BY <1>1 DEF k
    <3> QED BY <1>5, <3>1
  <2> QED BY <1>4, <1>6, <2>1 DEF Fits
<1>7. ASSUME NEW f, Affords(e, o, a, p, f, k) PROVE Fits(<<f>>, e, o, a, p)
  <2>1. ~\E i \in 2..Len(<<f>>) : TRUE
    OBVIOUS
  <2> QED BY <1>4, <1>7, <2>1 DEF Fits
<1> HIDE DEF k
<1>8. Affords(e, o, a, p, "receive", k)
  BY <1>3 DEF Rests, Affords
<1>9. Affords(e, o, a, p, "close", k - 1)
  BY <1>1, <1>3 DEF Rests, Affords
<1>10. ASSUME ~InHandshake(e) \/ Status(e) = "NEED_WRAP"
       PROVE  Affords(e, o, a, p, "doWrap", k - 1)
  BY <1>1, <1>2, <1>3 DEF Rests, Affords, WrapAffords
<1>11. ASSUME InHandshake(e), NEW f \in {"doUnwrap", "runTasks"}
       PROVE  Affords(e, o, a, p, f, k - 1)
  BY <1>1, <1>3, <1>11 DEF Rests, Affords
<1> QED BY <1>5, <1>6, <1>7, <1>8, <1>9, <1>10, <1>11

LEMMA EmptyStep ==
    ASSUME EnoughStack, Inv, Waiting(stack), Slim, [Next]_vars, stack = <<>>
    PROVE  Deep'
<1> DEFINE o == Short(netOut', PacketSize)
           a == Short(appIn', AppSize)
           p == appOut'.pos
<1>1. /\ TypeOK' /\ Slim' /\ engine' \in Engines
      /\ GoodBuffer(appOut') /\ GoodBuffer(netOut')
  <2>1. TypeOK' /\ Slim'
    BY NextInv, SlimStep DEF Inv, Safe
  <2> QED BY <2>1, BuffersGood DEF TypeOK, GoodBuffer
<1>2. CASE stack' = <<>>
  BY <1>2 DEF Deep, Fits
<1>3. CASE call' # "new"
  <2>1. o \in Nat /\ o <= Growth
    <3>1. netOut'.cap \in Nat /\ netOut'.cap >= InitPacketSize
      BY <1>1, <1>3 DEF Slim, GoodBuffer, ByteBuffers
    <3> QED BY <3>1, EngineAssumption DEF Short, Growth
  <2>2. a \in 0..1
    BY ShortNat
  <2>3. p \in Nat /\ p <= AppOutSize
    <3>1. p \in Nat /\ p <= appOut'.cap /\ appOut'.cap \in Nat /\ appOut'.cap <= AppOutSize
      BY <1>1 DEF GoodBuffer, ByteBuffers, WellFormed, Slim
    <3> QED BY <3>1, TlsStreamAssumption
  <2>4. Deep' <=> Fits(stack', engine', o, a, p)
    BY DEF Deep
  <2> HIDE DEF o, a, p
  <2>5. /\ Fits(<<"ret">>, engine', o, a, p) /\ Fits(<<"receive">>, engine', o, a, p)
        /\ Fits(<<"close", "ret">>, engine', o, a, p)
        /\ ~InHandshake(engine') \/ Status(engine') = "NEED_WRAP"
              => Fits(<<"doWrap", "ret">>, engine', o, a, p)
        /\ InHandshake(engine') => \A f \in {"doUnwrap", "runTasks"} :
                                      Fits(<<f, "ret">>, engine', o, a, p)
    BY <1>1, <2>1, <2>2, <2>3, FreshFits
  <2>6. CASE AuthenticateAsClient
    <3>1. stack' = checkHandshakeStatus(Status(engine')) \o <<"ret">>
      BY <2>6 DEF AuthenticateAsClient
    <3>2. /\ Status(engine') = "NEED_WRAP" /\ stack' = <<"doWrap">> \o <<"ret">>
          \/ /\ Status(engine') \in {"NEED_UNWRAP", "NEED_TASK"} /\ InHandshake(engine')
             /\ \E f \in {"doUnwrap", "runTasks"} : stack' = <<f>> \o <<"ret">>
          \/ stack' = <<>> \o <<"ret">>
      BY <1>1, <3>1, StatusAsks DEF checkHandshakeStatus
    <3>3. /\ <<>> \o <<"ret">> = <<"ret">>
          /\ \A f \in {"doWrap", "doUnwrap", "runTasks"} : <<f>> \o <<"ret">> = <<f, "ret">>
      BY JoinedFrames
    <3> QED BY <2>4, <2>5, <3>2, <3>3
  <2>7. CASE receive \/ close
    BY <2>4, <2>5, <2>7 DEF receive, close
  <2>8. CASE \E n \in SendSizes : send(n)
    <3>1. ~AuthenticateAsClient /\ call = "idle"
      BY <2>8 DEF send, Enter, AuthenticateAsClient
    <3>2. ~InHandshake(engine)
      BY <3>1, HandshakeTop
    <3>3. ~InHandshake(engine')
      BY <3>1, <3>2, HandshakeBefore
    <3>4. stack' = <<"doWrap", "ret">> \/ stack' = <<>>
      BY <2>8 DEF send, Throw
    <3> QED BY <1>2, <2>4, <2>5, <3>3, <3>4
  <2>9. ~StreamStep
    <3>1. Len(<<>>) = 0 /\ ~(0 > StackLimit)
      BY TlsStreamAssumption
    <3> QED BY <3>1 DEF StreamStep, ReceiveStep, doWrap, WrapRest, UnwrapBuffered,
                ReadAndUnwrap, HandleEndOfStream, ReadThrows, CloseStep, CloseRest,
                RunTasks, Return, StackOverflow, Top
  <2>10. Peer \/ UNCHANGED vars => stack' = <<>>
    BY DEF Peer, vars
  <2> QED BY <1>2, <2>6, <2>7, <2>8, <2>9, <2>10 DEF Next, Caller
<1>4. CASE call' = "new"
  <2>1. stack' = <<>>
    BY <1>4, NextInv DEF Inv, Safe, Control, Running
  <2> QED BY <1>2, <2>1
<1> QED BY <1>3, <1>4

(* The invariant: enough stack, unless a part of a record came.            *)
LEMMA DepthStep ==
    ASSUME EnoughStack, Inv, Waiting(stack), Slim, Deep \/ Stuck, [Next]_vars
    PROVE  Deep' \/ Stuck'
<1>1. CASE stack = <<>>
  BY <1>1, EmptyStep
<1>2. CASE Stuck
  BY <1>2, StuckStep DEF Deep, Fits
<1>3. CASE stack # <<>> /\ Deep
  BY <1>3, doWrapDeep, doUnwrapDeep, OthersDeep
<1> QED BY <1>1, <1>2, <1>3

Depth == Inv /\ Waiting(stack) /\ Slim /\ (Deep \/ Stuck)

LEMMA DepthAlways ==
    ASSUME EnoughStack
    PROVE  Spec => []Depth /\ [][Depth /\ Next]_vars
<1>1. Init => Depth
  BY InitInv, InitSlim DEF Init, Waiting, Deep, Fits, Depth
<1>2. Depth /\ [Next]_vars => Depth'
  BY NextInv, WaitingStep, SlimStep, DepthStep DEF Depth
<1> QED BY <1>1, <1>2, PTL DEF Spec

-----------------------------------------------------------------------------
(* Without fragments the stack does not overflow.                          *)

(* Whole records are taken from the socket, unless reads may be split.     *)
WholeReads == ~Fragmented => readIn % RecLen = 0

LEMMA WholeReadsStep == WholeReads /\ [Next]_vars => WholeReads'
<1>1. ReadAndUnwrap /\ ~Fragmented => readIn' % RecLen = 0
  BY DEF ReadAndUnwrap, ReadCounts
<1>2. [Next]_vars /\ ~ReadAndUnwrap => readIn' = readIn
  BY DEF Next, StreamStep, Caller, Peer, PeerStep, PeerHandshake, PeerSend, PeerFin, PeerReset,
         vars, wireVars, ReceiveStep, doWrap, WrapRest, UnwrapBuffered, HandleEndOfStream,
         ReadThrows, CloseStep, CloseRest, RunTasks, Return, StackOverflow,
         AuthenticateAsClient, send, receive, close
<1> QED BY <1>1, <1>2 DEF WholeReads

(* Then netInBuffer never holds a part of a record only.                   *)
LEMMA NeverStuck ==
    ASSUME Inv, Slim, WholeReads, ~Fragmented
    PROVE  ~Stuck
<1> SUFFICES ASSUME Stuck PROVE FALSE
  OBVIOUS
<1>1. ~engine.failed /\ call # "aborted" /\ netIn.pos \in Nat
  BY BuffersGood DEF Stuck, Slim, Inv, Safe, TypeOK, GoodBuffer, ByteBuffers
<1>2. netIn.pos = 0 \/ netIn.pos >= RecLen
  BY <1>1, WholeRecordsOnly DEF Inv, Safe, WholeReads
<1> QED BY <1>1, <1>2, EngineAssumption DEF Stuck

(* A stack that is deep enough does not overflow.                          *)
LEMMA DeepEnough ==
    ASSUME TypeOK, Deep, [Next]_vars
    PROVE  ~StackOverflow /\ (call' = "crashed" => call = "crashed")
<1>1. ~StackOverflow
  <2>1. ASSUME StackOverflow PROVE FALSE
    <3>1. stack # <<>> /\ Len(stack) > StackLimit /\ Len(stack) \in Nat /\ StackLimit \in Nat
      <4>1. stack \in Seq(Frames) /\ StackLimit \in Nat /\ Len(stack) > StackLimit
        BY <2>1, TlsStreamAssumption DEF TypeOK, StackOverflow
      <4> QED BY <4>1, LenProperties, EmptySeq
    <3>2. Room(stack) >= 1
      BY <3>1 DEF Deep, Fits, Affords, Rests
    <3> QED BY <3>1, <3>2 DEF Room
  <2> QED BY <2>1
<1>2. [Next]_vars /\ ~StackOverflow => (call' = "crashed" => call = "crashed")
  BY DEF Next, StreamStep, Caller, Peer, vars, callerVars, ReceiveStep, Throw, Flush,
         doWrap, WrapThrew, WrapOK, WrapClosed, WrapOverflow, WrapRest, UnwrapBuffered,
         ReadAndUnwrap, HandleEndOfStream, ReadThrows, CloseStep, CloseRest, RunTasks, Return,
         AuthenticateAsClient, send, receive, close, Enter
<1> QED BY <1>1, <1>2

(* With a stack as deep as that, and records that arrive whole, the        *)
(* recursion of SSLStream.java never overflows it, for every handshake,    *)
(* every record and buffer size, and whatever the peer and the caller do.  *)
THEOREM StackSuffices == EnoughStack /\ ~Fragmented => (Spec => []NoStackOverflow)
<1> SUFFICES ASSUME EnoughStack, ~Fragmented PROVE Spec => []NoStackOverflow
  OBVIOUS
<1>1. Init => WholeReads /\ NoStackOverflow
  <2>1. RecLen \in Nat \ {0}
    BY EngineAssumption
  <2>2. 0 % RecLen = 0
    BY <2>1
  <2> QED BY <2>2 DEF Init, TransportInit, WholeReads, NoStackOverflow
<1>2. Depth /\ WholeReads /\ NoStackOverflow /\ [Next]_vars => (WholeReads /\ NoStackOverflow)'
  <2>1. ASSUME Depth, WholeReads, NoStackOverflow, [Next]_vars PROVE NoStackOverflow'
    <3>1. Deep /\ TypeOK
      BY <2>1, NeverStuck DEF Depth, Inv, Safe
    <3> QED BY <2>1, <3>1, DeepEnough DEF NoStackOverflow
  <2> QED BY <2>1, WholeReadsStep
<1> QED BY <1>1, <1>2, DepthAlways, PTL DEF Spec

-----------------------------------------------------------------------------
(* The end of the stream.                                                  *)

(* receive() waits at the bottom of the stack until it has its data.       *)
Awaits == call = "receive" => "receive" \in Range(stack)

LEMMA AwaitsStep == Inv /\ Awaits /\ [Next]_vars => Awaits'
<1> SUFFICES ASSUME Inv, Awaits, [Next]_vars, call' = "receive"
             PROVE  "receive" \in Range(stack')
  BY DEF Awaits
<1>1. TypeOK /\ Move /\ stack \in Seq(Frames) /\ (stack # <<>> => call \in Running)
  BY NextInv DEF Inv, Safe, TypeOK, Control
<1>2. CASE stack # <<>> /\ Head(stack) = "receive"
  <2>1. call # "idle" /\ call # "new"
    BY <1>1, <1>2 DEF Running
  <2>2. \/ GoesOn(<<"doUnwrap">>, <<"receive">>)
        \/ stack' = stack /\ call' = call
    BY <1>2, <2>1
       DEF Next, StreamStep, Caller, AuthenticateAsClient, send, receive, close, Enter,
           ReceiveStep, doWrap, WrapRest, UnwrapBuffered, ReadAndUnwrap, HandleEndOfStream,
           ReadThrows, CloseStep, CloseRest, RunTasks, Return, StackOverflow, Top, Resting,
           Peer, vars, callerVars, GoesOn
  <2>3. CASE GoesOn(<<"doUnwrap">>, <<"receive">>)
    <3>1. <<"doUnwrap">> \in Seq(Frames) /\ <<"receive">> \in Seq(Frames)
      BY PushedFrames
    <3>2. Range(stack') = Range(<<"doUnwrap">>) \cup Range(<<"receive">>)
                              \cup Range(Tail(stack))
      BY <1>1, <1>2, <2>3, <3>1, RangeGoesOn
    <3>3. Range(<<"receive">>) = {"receive"}
      BY RangeOne
    <3> QED BY <3>2, <3>3
  <2> QED BY <2>2, <2>3 DEF Awaits
<1>3. CASE stack = <<>> \/ Head(stack) # "receive"
  <2>1. CASE InnerStep
    <3>1. PICK c \in Seq(InnerFrames), d \in Seq(InnerFrames) : GoesOn(c, d)
      BY <2>1 DEF InnerStep
    <3>2. c \in Seq(Frames) /\ d \in Seq(Frames)
      BY SeqMonotonic DEF InnerFrames
    <3>3. stack # <<>> /\ Head(stack) # "receive" /\ call = "receive"
      BY <2>1, <3>1 DEF InnerStep, ReceiveFrames, GoesOn
    <3> QED BY <1>1, <3>1, <3>2, <3>3, RangeGoesOn DEF Awaits
  <2>2. CASE ReceiveStack
    <3>1. stack # <<>> /\ Head(stack) = "receiveRest"
      BY <1>3, <2>2 DEF ReceiveStack, OnTop
    <3>2. call # "idle" /\ call # "new"
      BY <1>1, <3>1 DEF Running
    <3>3. stack' = stack /\ call' = call
      BY <3>1, <3>2
         DEF Next, StreamStep, Caller, AuthenticateAsClient, send, receive, close, Enter,
             ReceiveStep, doWrap, WrapRest, UnwrapBuffered, ReadAndUnwrap, HandleEndOfStream,
             ReadThrows, CloseStep, CloseRest, RunTasks, Return, StackOverflow, Top, Resting,
             Peer, vars, callerVars
    <3> QED BY <3>3 DEF Awaits
  <2>3. CASE EndStep
    BY <2>3 DEF EndStep, Stopped
  <2>4. CASE CallStep
    BY <2>4, RangeOne DEF CallStep, Stopped
  <2> QED BY <1>1, <2>1, <2>2, <2>3, <2>4, MoveStack DEF Awaits
<1> QED BY <1>2, <1>3

(* Every step from the end of the stream leads back to it.                 *)
LEMMA TrapStep ==
    ASSUME TypeOK, Deep, Awaits, AtEndOfStream, [Next]_vars
    PROVE  AtEndOfStream' \/ reset'
<1>1. /\ call = "receive" /\ fin /\ readIn = Arrived /\ ~reset /\ MustRead
      /\ netIn.pos = 0 /\ appIn.pos = 0
  BY DEF AtEndOfStream, EndOfStream, MustRead
<1>2. /\ UNCHANGED <<log, fin, readIn, call, netIn>> /\ appIn'.pos = 0 => AtEndOfStream' \/ reset'
  BY <1>1 DEF AtEndOfStream, EndOfStream, Arrived
<1>3. CASE ReceiveStep
  <2>1. Remaining(Flip(appIn)) = 0
    BY <1>1 DEF Flip, Remaining
  <2>2. Compact(Flip(appIn)).pos = 0
    BY <2>1 DEF Compact
  <2> QED BY <1>2, <1>3, <2>1, <2>2 DEF ReceiveStep, peerVars, wireVars
<1>4. CASE doWrap
  <2>1. UNCHANGED <<peerVars, readIn, netIn, appIn, call>>
    BY <1>1, <1>4 DEF doWrap, WrapThrew, WrapOK, WrapClosed, WrapOverflow, Flush
  <2> QED BY <1>1, <1>2, <2>1 DEF peerVars
<1>5. ~ReadAndUnwrap
  <2>1. readIn \in Int
    BY DEF TypeOK, TransportTypeOK
  <2>2. ReadCounts(netIn.lim) = {}
    BY <1>1, <2>1 DEF ReadCounts
  <2> QED BY <2>2 DEF ReadAndUnwrap
<1>6. ~UnwrapBuffered /\ ~ReadThrows /\ ~StackOverflow
  BY <1>1, DeepEnough DEF UnwrapBuffered, ReadThrows
<1>7. CASE Return
  <2>1. Len(stack) # 1
    <3>1. ASSUME Len(stack) = 1 PROVE FALSE
      <4>1. stack \in Seq(Frames)
        BY DEF TypeOK
      <4>2. Range(stack) = {Head(stack)}
        BY <3>1, <4>1, LastFrame
      <4> QED BY <1>1, <1>7, <4>2 DEF Return, Awaits, Resting
    <3> QED BY <3>1
  <2> QED BY <1>1, <1>2, <1>7, <2>1 DEF Return, peerVars, wireVars, streamVars
<1>8. CASE WrapRest \/ HandleEndOfStream \/ CloseStep \/ CloseRest \/ RunTasks
  BY <1>1, <1>2, <1>8
     DEF WrapRest, HandleEndOfStream, CloseStep, CloseRest, RunTasks, peerVars, wireVars,
         streamVars, callerVars
<1>9. CASE Peer
  BY <1>1, <1>2, <1>9
     DEF Peer, PeerStep, PeerHandshake, PeerSend, PeerFin, PeerReset, PeerOpen, wireVars,
         streamVars, callerVars
<1>10. CASE UNCHANGED vars
  BY <1>1, <1>2, <1>10 DEF vars, peerVars, wireVars, streamVars, callerVars
<1>11. ~Caller
  BY <1>1 DEF Caller, AuthenticateAsClient, send, receive, close, Enter
<1> QED BY <1>3, <1>4, <1>5, <1>6, <1>7, <1>8, <1>9, <1>10, <1>11 DEF Next, StreamStep

(* With a stack as deep as that, receive() has no way out of the end of    *)
(* the stream: handleEndOfStream() leaves it reading -1 again and again,   *)
(* until the connection is reset.                                          *)
THEOREM EndOfStreamTrapped == EnoughStack => (Spec => EndOfStreamTraps)
<1> SUFFICES ASSUME EnoughStack PROVE Spec => EndOfStreamTraps
  OBVIOUS
<1>1. Init => Awaits
  BY DEF Init, Awaits
<1>2. Depth /\ Awaits /\ [Next]_vars => Awaits'
  BY AwaitsStep DEF Depth
<1>3. Depth /\ Awaits /\ [Next]_vars => [AtEndOfStream => AtEndOfStream' \/ reset']_vars
  <2>1. Depth /\ AtEndOfStream => TypeOK /\ Deep
    BY DEF Depth, Inv, Safe, AtEndOfStream, Stuck
  <2> QED BY <2>1, TrapStep
<1> QED BY <1>1, <1>2, <1>3, DepthAlways, PTL DEF Spec, EndOfStreamTraps

=============================================================================
