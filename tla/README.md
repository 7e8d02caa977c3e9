# Verification of JavaSSLStream

JavaSSLStream is an experiment: a TLS client stream that a .NET runtime on
Android could use. It drives Java's `SSLEngine` itself, once in Java
(`SSLStream.java`) and once in C over JNI (`pal_sslstream.c`), and it comes with
a .NET server and a .NET client to talk to. This directory holds TLA+ models of
these programs, the TLC configurations that check them and TLAPS proofs.
Paths below are relative to `src/`; `cpp/` stands for
`JavaSslStreamClient/app/src/main/cpp/`.

## The system

| part | state it keeps | operations |
|---|---|---|
| `SSLStream.java` | the engine and four `ByteBuffer`s: appOut (plaintext to send), netOut (records to write), netIn (bytes read), appIn (plaintext received) | `AuthenticateAsClient`, `send`, `receive`, `close`; private `doWrap`, `doUnwrap`, `flush`, `checkHandshakeStatus`, `handleEndOfStream`, `ensureRemaining` |
| `cpp/pal_sslstream.c` | the same, as JNI global references in a struct, and a cached session | `Create…AndStartHandshake`, `…Read`, `…Write`, `…Dispose`, and C versions of the private methods |
| `cpp/native-lib.c` | two globals: the references of the socket's streams | `SSLStreamNative` and the read and write callbacks |
| `cpp/pal_jni.c` | looked-up classes and methods | reference helpers, exception checks |
| `MainActivity.java` | none | `onCreate` starts a thread that opens a socket and runs one of the two streams |
| `TrustAllCerts.java` | none | accepts every certificate |
| `DotnetServer/Program.cs` | the listener, one client at a time | `RunServer`, `ProcessClient`, `ReadMessage` |
| `DotnetClient/Program.cs` | one connection | `RunClient`, `ReadMessage`; `LoggableStream` forwards |

**Interaction.** The activity's thread calls a stream; the stream calls the
engine, and the socket through `InputStream` and `OutputStream` (in C: through
two callbacks). The socket leads to the server, which reads one message, up to
the marker `<EOF>`, answers and closes. Nothing in a stream is asynchronous: the
difficulty lies in the *recursion*. `checkHandshakeStatus` calls `doWrap` or
`doUnwrap`, which call it again, or themselves, or `close`, so that a handshake
is one deep recursion whose frames resume later, with buffers that deeper frames
have changed or replaced.

**What is hard to test**: how the network cuts the byte stream into reads; a
failure (alert, FIN, reset, `SSLException`) in any state of that recursion; a
buffer that is replaced while it holds data; calls in an order no demo makes; a
client of the server that stops at any point. `PROJECT.json` lists the hazards,
each with its line and the properties that cover it.

**What makes each part correct**: a *stream* delivers the plaintext of each
direction in order, without loss and repetition, whatever the reads and
failures; its calls come to an end, with the handshake complete or the engine
closed; its stack does not overflow. The *server* closes every connection,
answers only whole messages, and lets no client wait for ever. *ReadMessage*
ends at the marker however the reads cut the message.

## The modules

| module | models | built on |
|---|---|---|
| `ByteBuffer` | `java.nio.ByteBuffer`: position, limit, flip, compact, put | |
| `SslEngine` | the contract of `SSLEngine`: result and handshake status, buffer sizes, half-closes, exceptions | `ByteBuffer` |
| `Transport` | the socket and the server as a stream sees it | `SslEngine` |
| `TlsStream` | what both streams share: buffers, call stack, properties | `Transport` |
| `SSLStream` | `SSLStream.java` | `TlsStream` |
| `PalSslStream` | `pal_sslstream.c` with the callbacks of `native-lib.c` | `TlsStream` |
| `SecureStream` | the abstract promise of a stream, which both streams implement | `ByteBuffer` |
| `NativeReferences` | the local references that a native call leaves behind | `PalSslStream` |
| `NativeLib` | `native-lib.c` and the global references in several threads, against the server | |
| `ReadMessage` | `ReadMessage()` of server and client | |
| `SslTcp` | the server's loop and the clients it serves | |
| `ByteBuffer_proofs`, `SslEngine_proofs`, `TlsStream_proofs` | lemmas about buffers, the engine, and any stream whose steps are moves | each other |
| `SSLStream_proofs`, `PalSslStream_proofs` | theorems of the two streams | `TlsStream_proofs` |
| `SslTcp_proofs`, `ReadMessage_proofs`, `NativeLib_proofs` | theorems of the server, of `ReadMessage()` and of the native library | |
| `MCSSLStream`, `MCPalSslStream`, `MCNativeReferences`, `MCReadMessage` | definitions for the configurations | |

**Bytes.** A byte is its offset in its stream: 1, 2, 3, … A buffer that holds
the right bytes therefore holds a *span* of consecutive numbers, and a byte
that is lost, repeated or overtaken shows as a gap. A TLS record is `RecLen`
bytes on the wire, whatever it carries.

**Control.** `stack` is the call stack, innermost method first. A step runs the
method on top up to its next call of another; a frame such as `wrapRest` is a
method that is suspended at a call, here at line 115 of `SSLStream.java`.
`checkHandshakeStatus` only chooses whom to call and is folded into its
callers. One slot is one activation of `doWrap`, `doUnwrap`, `close` or
`receive`, so `StackLimit` bounds the real recursion: when the stack would grow
beyond it, the Java thread dies of `StackOverflowError` (which
`catch (Exception)` in `MainActivity` lets pass) and the native process of a
signal. A suspended method that has no more to do still holds its slot
until it returns, as in the code.

**Outcomes.** `call` is the public method that runs, or how things ended:
`idle` (returned), `threw` (an exception reached the activity, whose thread then
ends), `aborted` (native: the process was aborted), `crashed` (stack overflow),
`disposed`. The activity is the only caller in the repository and makes one
fixed sequence of calls. The models let the caller authenticate once and then
make `send`, `receive` and `close` in any order, up to `MaxCalls`.

**The engine** is external. Where the documentation or the implementations of
`SSLEngine` leave a choice, every outcome is allowed: `closeInbound()` may
throw or not when the peer sent no close_notify; a failing `unwrap` may or may
not consume the record, and may or may not leave an alert to wrap; a
close_notify may or may not have to be answered; `wrap` may throw during the
handshake. The session's buffer sizes may grow when the handshake ends
(`InitPacketSize`/`PacketSize`, `InitAppSize`/`AppSize`), which is what makes
`BUFFER_OVERFLOW` happen. Two things are fixed: once its outbound side is closed
the engine asks for nothing more, as Android's does, and there is no
renegotiation (both streams ask for TLS 1.2).

**The native stream** is modelled for a debuggable build, the one the project
is run with: `assert` is on, and a Java exception that is pending at the next JNI
call aborts the process. As no function does anything else after an exception,
an exception *is* the abort. `EofThrows` tells the callback of `native-lib.c`,
which at the end of the stream calls `GetByteArrayRegion` with length -1 and so
leaves an exception (TRUE), from one that a C# caller would provide (FALSE); the
comment in `native-lib.c:8-11` says that these callbacks are examples. The
session that the stream fetched before the handshake is taken to report current
sizes, as Android's does.

**The promise.** `SecureStream` says what a stream does for its caller and
nothing of how: bytes that are accepted are transmitted in order, bytes that
arrive are returned in order and all at once, nothing passes before the handshake
is complete or after its direction was shut, and a call returns only when its
work is done. `TlsStream` maps the concrete state to it: a byte is *transmitted*
when the engine has taken it (`engine.plain`), *arrived* when the engine has
decrypted it (`engine.rxApp`), the directions are the engine's half-closes, and
`secure` is the end of the handshake. The native `Read` has delivered when only
frames that return are left on its stack; the mapping calls this `delivered`.
`KeepsPromise` is the refinement, and the stack, the four buffers and the wire
are what it abstracts from.

**The native library.** `native-lib.c` keeps the references of the socket's
streams in two globals, which every call of `SSLStreamNative` overwrites, and an
activity that is created again starts another call. `NativeLib` has one thread
for each `onCreate()`, each with a socket of its own; the callbacks use the
globals as they are when they are called. A session is six records (four
flights, the message, the answer), each of which belongs to the session that it
was made in, so that a record which reaches another's socket is refused, except
one that opens a session. The server is the one of `SslTcp`, reduced to what
these threads can observe: one connection at a time, refusals, the timeout after
the handshake. An exception in one thread aborts the process with all of them.
The model also has the global references: the seven of a stream and the two of
the library, released or not as the code has it. What a stream does between two
records of its session, retries and growing buffers included, is left to
`PalSslStream`.

**Local references.** JNI frees them when the native method returns to Java, and
guarantees room for 16. Most of those that `pal_sslstream.c` makes it deletes at
once; `NativeReferences` runs the steps of `PalSslStream` and counts those that it
leaves: the result of each `wrap` and `unwrap`, first attempts and retries alike,
the `data` of each `flush` and of a `Read`, `tmp` at the end of the stream, three
of `Create…` (one is deleted at its end) and `thisObj`. `LocalsBounded` is what
they come to while nobody breaks off and no record is split: two for each record written, one for each
record read, one for each call, and one for each of the two buffers that may grow.
They grow with the records, then, and pass 16 in a conversation of a dozen; but a
retry that had to be repeated, or a path that left one more, would break the bound.

**The server** model has the accept queue, the phases of `ProcessClient` with
both handlers and the finally block, and the timeouts, which apply to what
comes after line 57. The TLS handshake is its four flights; a message is
`Pieces` records, with the marker in the last one. Clients run `RunClient`, where
only `AuthenticationException` is caught, and may refuse the handshake, die
(their connection is then closed by their system) or hang (it is not).
`AnswersWholeMessages` and the liveness property rely on `ReadMessage` only
through what its own module checks: it ends at the marker or at the end of
the stream, and not before.

**ReadMessage** is modelled on UTF-8 bytes: characters of one byte and of any
larger number, with a new decoder for each read, as in the code, and a marker
whose two halves may arrive in different reads. What was decoded is kept byte by
byte, a character at its last byte, so that what a lost character does to the
text around it can be seen. `IndexOf("<EOF>")` compares by the current culture, as
it does in a .NET Core 3.1 program with ICU (`InvariantGlobalization` is not set in
`SSLStreamServer.csproj`): `HasMarker` skips characters without weight, such as U+0000
and U+200B, and does not match where a combining character joins the end. The
replacement character has a weight. A text is `Plain` when none of its
characters makes a difference to that: nothing ignorable stands right before the
end of a marker and nothing combining right after. What the programs of the
repository send is plain, and `SslTcp` takes its messages to be.

## What the runs show

| run | configuration | shows |
|---|---|---|
| `java_faults` | short handshake, reads that cut records anywhere, every fault | types; both directions in order (`InboundInOrder`, `DeliveredInOrder`, `OutboundInOrder`, `WrittenInOrder`); nothing left unsent; authentication settles; overflow retries fit; `close()` closes the outbound side only with its close_notify on the wire; `AuthenticateAsClient` comes to an end; and all of it together implements `SecureStream` (`KeepsPromise`). And two flaws of the design, stated as what always happens: a record that arrives in two reads always ends in a stack overflow (`SplitRecordCrashes`), and `receive()` spins at the end of the stream (`EndOfStreamTraps`) |
| `java_whole` | the whole TLS 1.2 handshake with a delegated task, every fault, reads that end at record boundaries | nine frames are always enough (`NoStackOverflow`; eight are not); unless someone breaks off, the handshake completes and `receive()` returns what was sent, past empty records |
| `native_faults` | as `java_faults`, with larger growth of the sizes | the C code keeps both directions in order and implements `SecureStream`, up to the abort; a split record overflows its stack too; until someone breaks off, the local references that a call leaves are accounted for by its records (`LocalsBounded`) |
| `native_smooth` | whole handshake, no faults | the process survives within five frames (four are not enough), completes the handshake, and returns what was sent |
| `native_exception` | violated | comments at `cpp/pal_sslstream.c:106-108, 175-177` let an `SSLException` make the function return; the code aborts |
| `native_eof` | violated | the comment at lines 28-31 closes the engine at the end of the stream; the code aborts first |
| `native_growth` | violated | the comment at line 72 sizes the new buffer after the flip, the code before it (line 82), so that the promised room is missing |
| `native_length` | violated | `Read` ignores its `length`, contrary to the assertion at `cpp/native-lib.c:59` |
| `native_lib` | two threads | a call that returned was answered in a session of its own; once a stream has used the other's socket, some call never returns (`CrossingCosts`); references are live while used, and each call leaves two behind; what one call leaves does not hinder a later one (`AloneReturns`) |
| `server` | two clients, hangs anywhere | every accepted connection is closed; only whole messages are answered; every client comes to an end unless the server is blocked by one that hangs in its handshake, which it then is for ever (`HungHandshakeBlocksAll`) |
| `message` | seven messages, two of them not plain, reads of up to three bytes | a plain text is read up to its marker or the end of the stream; the loop ends |
| `message_utf8` | violated | the comment at `DotnetServer/Program.cs:110-111` means the decoder for characters that span two buffers; a new decoder for each read loses them |

Each property of a passing run has a mutant in `PROJECT.json`: a plausible bug
in one definition that makes the property fail. The mutants are operators at
the head of each module that the specification does not use.

**Bounds, and why they are enough.** Records are 2 bytes: a read can end before,
in or after one. Packet buffers start with room for one record and a half, and
grow; appIn starts smaller than a full record; appOut holds 3 bytes, so that a
message of 3 takes two records and one of 1 leaves room that a second message may or may not
fit; in `native_faults` it holds 4, which a message of 4 fills and one of 5
exceeds. A record of the peer carries from no bytes at all
to more than appIn first holds. Three records of the peer after or in the handshake and three calls
give every pair of calls a third one that meets what they left.
`MaxCalls` and `MaxRecords` keep the runs finite; no proof depends on their values.
In `native_lib` two threads give every pair of steps an order, which is all that
two globals can confuse. The messages of `message` have characters of one to
three bytes before, in and after the marker, and each kind that the search treats
in a way of its own. The two passing runs of the native stream are of
`NativeReferences`, whose steps are those of `PalSslStream` with the count.
`CHECK_DEADLOCK FALSE` stands in every configuration because a system at rest is
normal here: a read blocks without timeout, and a caller or client may stop.

**Fairness.** A stream's thread is scheduled (`WF(StreamStep)`), and the peer
plays its half of the handshake (`WF(PeerAnswers)`): otherwise a blocked read
waits for ever. Nothing is assumed of the caller, of faults, or of application
data. In `SslTcp` the server's thread and each client that did not hang go on;
`WF(ServerStep)` includes the timeout, which must fire when nothing else
happens. In `NativeLib` the server's thread and each thread that was started go
on; none has to start. In `ReadMessage` only the reader is fair.

## What is proved

Every theorem holds for every value of the constants that satisfies the named
assumptions of its module. `MaxCalls` and `MaxRecords` are among these values: no
proof depends on them being small.

**The streams.** The two programs differ in how they fail and in how they grow
buffers, but they move the same way, and `TlsStream_proofs` is about any stream
that does. `Move` lists what a step may be: a wrap, an unwrap, the end of the
stream, a turn of `receive`, `close`, delegated tasks, the rest of a suspended
method, a return, an end, a call, or the peer. Each proof module of a stream
shows that its `Next` is a `Move` (`NextIsMove`), where the lemmas about buffers
(`ByteBuffer_proofs`) and about every outcome of `wrap` and `unwrap`
(`SslEngine_proofs`) are used; the rest is proved once.

The inductive invariant is `Safe`, the conjunction of

* `TypeOK`: every buffer satisfies position <= limit <= capacity, no `put()`
  exceeds its buffer. It is inductive.
* `Control`: a method runs exactly while the stack is not empty, the frames of
  `receive` are where `receive` runs, an unused stream is in its initial state, a
  stream that threw is never used again. All others need it.
* `Duties`: for each thing that must not be forgotten, a frame on the stack that
  will do it. While plaintext waits in appOut and the engine would take it, a
  `doWrap` or the rest of one is on the stack (`SendDuty`); the same for a
  close_notify that was not wrapped (`CloseDuty`) and for a handshake that is not
  complete (`HandshakeDuty`). This is what makes properties of a call's *return*
  follow: when the stack is empty, no duty can be left.
* `Delivering`, `WrittenInOrder`, `OutboundInOrder`, `InboundInv`: the order of
  the bytes in the four buffers. `InboundInOrder` alone is not inductive: a
  record can only be dropped from the front of netIn if it is there, which
  `InboundInv` adds as "the engine consumed no more than was read".

`SSLStream_proofs` adds to it that `receive` is at the bottom of the stack only,
which its loop needs, and that nothing aborts (`Inv`).

`RetryFits` is inductive once it is known where the methods below the top wait
(`Waiting`): the frames of a retry are left only by the return of
`ensureRemaining`, and whoever resumes one finds the buffer as it was left.

| theorem | Java | native |
|---|---|---|
| `TypeCorrect`: `TypeOK` | yes | yes |
| `Delivered`: `DeliveredInOrder` | yes | until the abort |
| `Written`: `WrittenInOrder` | yes | yes |
| `Outbound`: `OutboundInOrder` | yes | yes |
| `Inbound`: `InboundInOrder` | yes | until the abort |
| `NothingLeft`: `NothingLeftBehind` | yes | yes |
| `Settles`: `AuthenticateSettles` | yes | yes |
| `CloseFlushed`: `CloseFlushes` | yes | (no `close` to call) |
| `RetriesFit`: `RetryFits` | yes | (`RetryFits` is checked for Java only) |
| `StackSuffices`: `NoStackOverflow` | `EnoughStack`, reads of whole records | |
| `EndOfStreamTrapped`: `EndOfStreamTraps` | `EnoughStack` | |
| `NeverStopped`: `NeverStops` | | `Smooth` and `EnoughStack` |
| `LocalsAreBounded`: `LocalsBounded` | | `Smooth` and `EnoughStack` |
| `PromiseKept`: `KeepsPromise` | yes | yes |

"Until the abort": with some buffer sizes a `put()` in the native
`ensureRemaining` does not fit, and the abort leaves a new buffer without its
bytes. The sizes of `native_faults` do not reach this, so that the run checks the
invariants as they are. `PromiseKept` maps the initial states and each move:
`SafePromise` shows that a move under `Safe` is a step of `SecureStream` or
changes nothing that it sees.

**The depth of the recursion.** `StackSuffices` and `EndOfStreamTrapped` assume
that the stack has room: `EnoughStack` asks for the steps of the handshake and
four frames more, for six frames at least, and for one for each full record of what a `send()`
can take; and for one more frame if the session's packet size grows, which costs
an overflow and its retry. Both configurations of the Java stream satisfy it, and so
do a JVM's default stack and the repository's buffers by orders of magnitude. The
inductive invariant is `Depth`: `Deep`, that the frames on the stack leave room
for each of the methods on it to make the calls it may still make, or `Stuck`, that
`doUnwrap` holds a part of a record, from where it calls itself for ever.
What a method may still call is bounded by the steps that the handshake has left,
the plaintext that waits, and the buffers that may still overflow; `Slim`
relates these to the place the program is at, such as: no plaintext waits in
appOut while an unfinished `doWrap` is suspended. Where
reads do not cut records `Stuck` cannot arise (`NeverStuck`), which is
`StackSuffices`. Where they do, the one way into it is what `SplitRecordCrashes`
is about.

**The native process survives where nothing fails.** In the native library every
failure ends the process, so `NeverStopped` needs that there is none: `Smooth` says
that the peer plays its part of the handshake and then sends only records with data, that reads
return whole records, that `wrap` does not throw, that the engine delegates no
task, and that a message fits `appOutBuffer`; its own `EnoughStack` asks for a
frame for each step of the handshake and one more, for three at least, and for as
many as the records of a message need. No other value is bounded: any handshake
without tasks, any sizes of buffers and records, any order of calls. The run
`native_smooth` has such constants. The invariant `Calm` is `Safe` and

* `PeerAgrees` and `EngineAgrees`: the handshake's records come first on the wire,
  and each side has sent or consumed as many as its place in the script asks for.
  This is what makes the record that `unwrap` meets the one that it wants.
* `Whole`: only whole records were read, so that `unwrap` never finds a part.
* `Course`: nothing is closed (`Peace`); the function on top is the one that the
  handshake asks for (`Asked`); `netOutBuffer` never shrinks below what a handshake
  record needs, and `appInBuffer` is empty where `doUnwrap` begins, so that it
  overflows at most once and what is put into its successor fits (`Slim`); those
  that wait below have nothing left to wrap or find the data they wait for
  (`Waits`); and there are frames for every call that may follow (`Deep`).

The hypotheses are needed: `native_exception` and `native_eof` each drop some of
them and show how the process ends; and `Read` calls itself for each empty record,
where `receive` loops.

**The local references** stay within `LocalsBounded` under the same hypotheses.
The invariant is `Calm` and `Counted`. Its part `Bounded` adds to the references
those that may still be left without a record to show for them: one by a `Read`
that waits for its data, one by each buffer that is still too small (`Spare`). A
retry uses up its buffer's; the step that takes or makes a record pays for itself.
That needs `Loaded`: after the handshake `doWrap` runs only with plaintext in
appOut, so that no `wrap` leaves references without writing a record. The bound
would not survive a `doWrap` that finds nothing to wrap, nor a buffer that grows
twice.

**The server** (`SslTcp_proofs`), for any number of clients, any length of
message and any set of places to hang: `TypeCorrect`, `NoneLeaked`
(`AcceptedAreClosed`), `WholeMessages` (`AnswersWholeMessages`) and `HungBlocks`
(the action property `HungHandshakeBlocksAll`). The invariant adds that the
server has a client exactly while it is out of accept (`Busy`), and that it
answers only with the message read or the client gone (`WritesWhole`); an
accepted client is in the queue, being processed, or closed (`Accounted`).

**The native library** (`NativeLib_proofs`), for any number of threads:
`TypeCorrect`; `Held` (`ReferencesHeld`);
`AnsweredBefore` (`ReturnedWereAnswered`). `Local` says for each place what a
thread has done and holds there; `GlobalsSet` that a thread which runs finds the
globals set; `WireInv` that clients send odd records; `QueueInv` that each
connection is queued and processed once, so that an answered connection stays
answered; `AnswersInv` that an answer in flight, or received, was sent when the
server closed the connection of its session. `CrossingLosesACall`
(`CrossingCosts`): once a callback has used another's socket, a record is missing
where it belongs, and its session cannot reach its answer.

**ReadMessage** (`ReadMessage_proofs`), for any size of the buffer and any reads:
`TypeCorrect`, for any UTF-8 text, and `EndsAtItsMarker` (`EndsAtMarker`), for any
plain one. The invariant is that each byte read has become
what belongs in its place or a replacement character (`DecodeInPlace`). The
loop looks for the marker in what it decoded, the property in what was sent: that
the two agree (`SameMarker`) needs that the decoder puts out nothing only inside a
character, that the text is whole characters, so that nothing that is
lost can bring two halves of a marker together, and that it is plain, so that the
search by culture neither skips what stands between two halves nor misses a marker.
A combining character right after `<EOF>` does make it miss one, and the loop then
reads on.

**Only model-checked.** Liveness under fairness, which the prover cannot do:
`SplitRecordCrashes`, `AuthenticateReturns`, `HandshakeCompletes`,
`ReceiveReturns`, `AloneReturns`, `EveryClientEnds` and `ReadMessageEnds`. Every
invariant and every action property of the passing runs is proved, those marked
"until the abort" in the table in that weaker form, and `NoStackOverflow`,
`EndOfStreamTraps`, `NeverStops` and `LocalsBounded` under the hypotheses that the
table names.

## What is not modelled

* `TrustAllCerts`, UI, logging, certificate display, build files: no state that a
  property is about. `AddGRef`, `SaveTo` and `GetField` of `pal_jni.c`: not called.
  The lookups of `JNI_OnLoad` are one step that succeeds or fails an assertion.
* Release builds of the native code: with `NDEBUG` the exception checks are not
  even called, and JNI calls with a pending exception are undefined.
* The C heap (a failed read leaks its buffer, where this program aborts anyway)
  and the garbage collection of sockets, which no code closes.
* TLS 1.3 and 1.1, renegotiation, engines that keep an alert pending after
  `CLOSED`, sessions whose sizes do not follow the handshake, and engines that
  delegate tasks to the native stream (the model aborts then, as the assertion
  does, but no run has such a script): outside of what the repository runs on.
* In `NativeLib`, the streams' buffers and recursion: a record passes in one step.
  They are in `PalSslStream`, whose single thread is what each of these threads
  does between two callbacks.

## How the work was ordered

First the buffers, the engine and the Java stream with its order theorems; then
the native stream, `ReadMessage` and the server; then the promise and its
refinement, the native library with its threads and references, and the theorems
of the native stream, the server and the library. What could follow is larger
rather than new: an engine with TLS 1.3's post-handshake messages, and a release
build of the native code, once what it does is defined.
