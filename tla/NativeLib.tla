------------------------------ MODULE NativeLib ------------------------------
(***************************************************************************)
(* native-lib.c when the activity is created more than once: every         *)
(* onCreate() starts a thread that opens a socket and calls                *)
(* SSLStreamNative(), and the threads share the two global references that *)
(* the read and write callbacks use.  Against them stands the server, which*)
(* takes one connection after the other.                                   *)
(*                                                                         *)
(* A session is six records, sent in turn by the client (odd) and the      *)
(* server (even): the four flights of the TLS 1.2 handshake, the message   *)
(* and its answer.  A record belongs to the session it was made in, and an *)
(* engine rejects those of another; only the first, which opens a session, *)
(* is anybody's.  What one stream does between two of these, the retries   *)
(* of wrap() and unwrap() and the growth of its buffers included, is the   *)
(* subject of PalSslStream; here it is one step.  As there, an exception   *)
(* that is pending in C aborts the process, and with it all the threads.   *)
(***************************************************************************)
EXTENDS Naturals, Sequences

CONSTANTS
    Threads, \* one for each onCreate(); also names its socket
    None

ASSUME NativeLibAssumption == None \notin Threads

HandshakeRecords == 4
SessionRecords == 6

VARIABLES
    lib,       \* "unloaded", "loaded", or "aborted" with the process
    inputStreamGref, outputStreamGref, \* the socket whose stream they refer to
    at,        \* where each thread is
    step,      \* records of its session that each thread has sent and got
    reading,   \* the socket that each thread waits for in read()
    crossed,   \* has a callback used a socket that is not its caller's?
    refs,      \* the live global references
    toServer, toClient, \* the records in flight on each connection
    backlog, conn,      \* the server's accept queue and its current client
    session,   \* whose records the server takes on each connection
    turn,      \* records of that session so far
    ended      \* how the server closed each connection

threadVars == <<at, step, reading, crossed>>
globalVars == <<lib, inputStreamGref, outputStreamGref, refs>>
serverVars == <<conn, session, turn, ended>>
wireVars == <<toServer, toClient, backlog>>
vars == <<threadVars, globalVars, serverVars, wireVars>>

StreamKinds == {"sslContext", "sslEngine", "sslSession", "appOutBuffer",
                "netOutBuffer", "appInBuffer", "netInBuffer"}
References == (Threads \X (StreamKinds \cup {"inputStream", "outputStream"}))
                  \cup {<<None, "classes">>}
Records == [of : Threads, pos : 1..SessionRecords]

(* Every variable keeps its type: no call, session or wire ever holds more *)
(* records than a session has, and the references are of the known kinds.  *)
TypeOK ==
    /\ lib \in {"unloaded", "loaded", "aborted"}
    /\ {inputStreamGref, outputStreamGref, conn} \subseteq Threads \cup {None}
    /\ at \in [Threads -> {"start", "enter", "output", "create", "handshake",
                           "write", "read", "dispose", "leave", "returned"}]
    /\ step \in [Threads -> 0..SessionRecords]
    /\ reading \in [Threads -> Threads \cup {None}]
    /\ crossed \in BOOLEAN
    /\ refs \subseteq References
    /\ toServer \in [Threads -> Seq(Records)]
    /\ toClient \in [Threads -> Seq(Records)]
    /\ backlog \in Seq(Threads)
    /\ session \in [Threads -> Threads \cup {None}]
    /\ turn \in [Threads -> 0..SessionRecords]
    /\ ended \in [Threads -> {"open", "answered", "refused", "timedOut"}]

Init ==
    /\ lib = "unloaded"
    /\ inputStreamGref = None /\ outputStreamGref = None
    /\ at = [t \in Threads |-> "start"]
    /\ step = [t \in Threads |-> 0]
    /\ reading = [t \in Threads |-> None]
    /\ crossed = FALSE
    /\ refs = {}
    /\ toServer = [t \in Threads |-> <<>>]
    /\ toClient = [t \in Threads |-> <<>>]
    /\ backlog = <<>> /\ conn = None
    /\ session = [t \in Threads |-> None]
    /\ turn = [t \in Threads |-> 0]
    /\ ended = [t \in Threads |-> "open"]

-----------------------------------------------------------------------------
(* pal_jni.c                                                               *)

(* The classes and methods are looked up when the library is loaded; one   *)
(* that is not found fails an assertion.                                   *)
JNI_OnLoad ==
    /\ lib = "unloaded"
    /\ \/ lib' = "loaded" /\ refs' = {<<None, "classes">>}
       \/ lib' = "aborted" /\ UNCHANGED refs
    /\ UNCHANGED <<threadVars, inputStreamGref, outputStreamGref, serverVars, wireVars>>

(* Thread t runs at `here', in a process that was not aborted.             *)
Runs(t, here) == lib = "loaded" /\ at[t] = here /\ reading[t] = None

Goto(t, there) == at' = [at EXCEPT ![t] = there]

(* ToGRef() makes a global reference of a local one.                       *)
ToGRef(t, kinds) == refs' = refs \cup ({t} \X kinds)

(* Mutant: one reference is forgotten.                                     *)
ReleaseGRefButSession(t, kinds) ==
    refs' = refs \ ({t} \X (kinds \ {"sslSession"}))

ReleaseGRef(t, kinds) == refs' = refs \ ({t} \X kinds)

(* AssertOnJNIExceptions(), or the JVM: the process ends.                  *)
Abort == lib' = "aborted"

-----------------------------------------------------------------------------
(* The callbacks use the global references as they are when called.        *)

Crosses(t, socket) == crossed' = (crossed \/ socket # t)

(* The record that t wraps next is written.  A socket that the server has  *)
(* closed takes it or throws.                                              *)
onInnerStreamWrite(t) ==
    LET socket == outputStreamGref
    IN  /\ Crosses(t, socket)
        /\ \/ /\ toServer' = [toServer EXCEPT ![socket] =
                                  Append(@, [of |-> t, pos |-> step[t] + 1])]
              /\ step' = [step EXCEPT ![t] = @ + 1]
              /\ UNCHANGED lib
           \/ /\ ended[socket] # "open" /\ Abort
              /\ UNCHANGED <<toServer, step>>

(* read() waits on the socket it was called with.                          *)
onInnerStreamRead(t) ==
    /\ reading' = [reading EXCEPT ![t] = inputStreamGref]
    /\ Crosses(t, inputStreamGref)

(* A record comes, and unwrap() takes it or throws.                        *)
ReadReturns(t) ==
    /\ lib = "loaded" /\ reading[t] # None
    /\ toClient[reading[t]] # <<>>
    /\ toClient' = [toClient EXCEPT ![reading[t]] = Tail(@)]
    /\ \/ /\ Head(toClient[reading[t]]) = [of |-> t, pos |-> step[t] + 1]
          /\ step' = [step EXCEPT ![t] = @ + 1]
          /\ reading' = [reading EXCEPT ![t] = None]
          /\ UNCHANGED lib
       \/ /\ Head(toClient[reading[t]]) # [of |-> t, pos |-> step[t] + 1]
          /\ Abort  \* SSLException
          /\ UNCHANGED <<step, reading>>
    /\ UNCHANGED <<at, crossed, inputStreamGref, outputStreamGref, refs,
                   serverVars, toServer, backlog>>

(* The end of the stream, or the reset of a connection that was closed     *)
(* with data unread: an exception either way.                              *)
ReadFails(t) ==
    /\ lib = "loaded" /\ reading[t] # None
    /\ ended[reading[t]] # "open"
    /\ toClient[reading[t]] = <<>> \/ toServer[reading[t]] # <<>>
    /\ Abort
    /\ UNCHANGED <<threadVars, inputStreamGref, outputStreamGref, refs,
                   serverVars, wireVars>>

-----------------------------------------------------------------------------
(* Mutants: plausible bugs, one for each property to catch.  None is used  *)
(* by the specification.                                                   *)

(* Mutant: the stream that is known already is kept.                       *)
SetOutputOnce(t) ==
    /\ Runs(t, "output") /\ Goto(t, "create")
    /\ outputStreamGref' = IF outputStreamGref = None THEN t ELSE outputStreamGref
    /\ ToGRef(t, {"outputStream"})
    /\ UNCHANGED <<step, reading, crossed, lib, inputStreamGref, serverVars, wireVars>>

(* Mutant: line 141 is missing its condition, and the message is wrapped   *)
(* again.                                                                  *)
WriteAgain(t) ==
    /\ Runs(t, "write")
    /\ onInnerStreamWrite(t)
    /\ UNCHANGED <<at, reading, inputStreamGref, outputStreamGref, refs,
                   serverVars, toClient, backlog>>

(* Mutant: Read() returns when there is nothing yet.                       *)
ReadDoneEarly(t) ==
    /\ Runs(t, "read") /\ Goto(t, "dispose")
    /\ UNCHANGED <<step, reading, crossed, globalVars, serverVars, wireVars>>

(* Mutant: a close_notify is written first.                                *)
DisposeNotifying(t) ==
    /\ Runs(t, "dispose") /\ Goto(t, "leave")
    /\ Crosses(t, outputStreamGref)
    /\ ReleaseGRef(t, StreamKinds)
    /\ UNCHANGED <<step, reading, lib, inputStreamGref, outputStreamGref,
                   serverVars, wireVars>>

-----------------------------------------------------------------------------
(* The thread of onCreate() and SSLStreamNative().                         *)

Connect(t) ==
    /\ Runs(t, "start") /\ Goto(t, "enter")
    /\ backlog' = Append(backlog, t)
    /\ UNCHANGED <<step, reading, crossed, globalVars, serverVars, toServer, toClient>>

SetInput(t) ==
    /\ Runs(t, "enter") /\ Goto(t, "output")
    /\ inputStreamGref' = t
    /\ ToGRef(t, {"inputStream"})
    /\ UNCHANGED <<step, reading, crossed, lib, outputStreamGref, serverVars, wireVars>>

SetOutput(t) ==
    /\ Runs(t, "output") /\ Goto(t, "create")
    /\ outputStreamGref' = t
    /\ ToGRef(t, {"outputStream"})
    /\ UNCHANGED <<step, reading, crossed, lib, inputStreamGref, serverVars, wireVars>>

Create(t) ==
    /\ Runs(t, "create") /\ Goto(t, "handshake")
    /\ ToGRef(t, StreamKinds)
    /\ UNCHANGED <<step, reading, crossed, lib, inputStreamGref, outputStreamGref,
                   serverVars, wireVars>>

(* checkHandshakeStatus() drives the flights.                              *)
Wrap(t) ==
    /\ Runs(t, "handshake") /\ step[t] \in {0, 2}
    /\ onInnerStreamWrite(t)
    /\ UNCHANGED <<at, reading, inputStreamGref, outputStreamGref, refs,
                   serverVars, toClient, backlog>>

Unwrap(t) ==
    /\ Runs(t, "handshake") /\ step[t] \in {1, 3}
    /\ onInnerStreamRead(t)
    /\ UNCHANGED <<at, step, globalVars, serverVars, wireVars>>

Created(t) ==
    /\ Runs(t, "handshake") /\ step[t] = HandshakeRecords
    /\ Goto(t, "write")
    /\ UNCHANGED <<step, reading, crossed, globalVars, serverVars, wireVars>>

Write(t) ==
    /\ Runs(t, "write") /\ Goto(t, "read")
    /\ onInnerStreamWrite(t)
    /\ UNCHANGED <<reading, inputStreamGref, outputStreamGref, refs,
                   serverVars, toClient, backlog>>

Read(t) ==
    /\ Runs(t, "read") /\ step[t] = SessionRecords - 1
    /\ onInnerStreamRead(t)
    /\ UNCHANGED <<at, step, globalVars, serverVars, wireVars>>

ReadDone(t) ==
    /\ Runs(t, "read") /\ step[t] = SessionRecords
    /\ Goto(t, "dispose")
    /\ UNCHANGED <<step, reading, crossed, globalVars, serverVars, wireVars>>

Dispose(t) ==
    /\ Runs(t, "dispose") /\ Goto(t, "leave")
    /\ ReleaseGRef(t, StreamKinds)
    /\ UNCHANGED <<step, reading, crossed, lib, inputStreamGref, outputStreamGref,
                   serverVars, wireVars>>

Leave(t) ==
    /\ Runs(t, "leave") /\ Goto(t, "returned")
    /\ UNCHANGED <<step, reading, crossed, globalVars, serverVars, wireVars>>

NativeStep(t) ==
    \/ SetInput(t) \/ SetOutput(t)
    \/ Create(t) \/ Wrap(t) \/ Unwrap(t) \/ Created(t)
    \/ Write(t) \/ Read(t) \/ ReadDone(t) \/ Dispose(t) \/ Leave(t)
    \/ ReadReturns(t) \/ ReadFails(t)

-----------------------------------------------------------------------------
(* The server: one connection at a time.                                   *)

End(how) == ended' = [ended EXCEPT ![conn] = how] /\ conn' = None

Accept ==
    /\ conn = None /\ backlog # <<>>
    /\ conn' = Head(backlog) /\ backlog' = Tail(backlog)
    /\ UNCHANGED <<threadVars, globalVars, session, turn, ended, toServer, toClient>>

Expected(rec) ==
    /\ rec.pos = turn[conn] + 1
    /\ session[conn] \in {None, rec.of}

(* It answers each record; after the answer to the message it closes.  A   *)
(* record that does not belong here ends the connection.                   *)
ServerTurn ==
    /\ conn # None /\ toServer[conn] # <<>>
    /\ LET rec == Head(toServer[conn])
       IN  \/ /\ Expected(rec)
              /\ session' = [session EXCEPT ![conn] = rec.of]
              /\ turn' = [turn EXCEPT ![conn] = @ + 2]
              /\ toClient' = [toClient EXCEPT ![conn] =
                                  Append(@, [rec EXCEPT !.pos = @ + 1])]
              /\ IF turn[conn] + 2 = SessionRecords THEN End("answered")
                 ELSE UNCHANGED <<ended, conn>>
           \/ /\ ~Expected(rec) /\ End("refused")
              /\ UNCHANGED <<session, turn, toClient>>
    /\ toServer' = [toServer EXCEPT ![conn] = Tail(@)]
    /\ UNCHANGED <<threadVars, globalVars, backlog>>

(* The sockets of an aborted process are closed.                           *)
ClientLost ==
    /\ conn # None /\ lib = "aborted" /\ toServer[conn] = <<>>
    /\ End("refused")
    /\ UNCHANGED <<threadVars, globalVars, session, turn, wireVars>>

(* Timeouts are set after the handshake.                                   *)
TimeOut ==
    /\ conn # None /\ turn[conn] = HandshakeRecords /\ toServer[conn] = <<>>
    /\ End("timedOut")
    /\ UNCHANGED <<threadVars, globalVars, session, turn, wireVars>>

ServerStep == Accept \/ ServerTurn \/ ClientLost \/ TimeOut

-----------------------------------------------------------------------------

Next ==
    \/ JNI_OnLoad
    \/ \E t \in Threads : Connect(t) \/ NativeStep(t)
    \/ ServerStep

Spec == Init /\ [][Next]_vars

(* Threads that were started and the server are scheduled.                 *)
FairSpec ==
    Spec /\ WF_vars(ServerStep) /\ \A t \in Threads : WF_vars(NativeStep(t))

-----------------------------------------------------------------------------

(* A call that returned was answered: the server took its message, in a    *)
(* session of its own, on a connection that served no other call.          *)
ReturnedWereAnswered ==
    \A t \in Threads : at[t] \in {"dispose", "leave", "returned"} =>
        \E c \in Threads : session[c] = t /\ ended[c] = "answered"

(* Once a stream has used another's socket, some call is lost: it hangs or *)
(* the process is aborted.  The race on the globals is never harmless.     *)
CrossingCosts == crossed => \E t \in Threads : at[t] # "returned"

(* The references that callbacks and streams use are live, and a call that *)
(* returned leaves the two of the globals, which nobody deletes.           *)
ReferencesHeld ==
    /\ inputStreamGref # None => <<inputStreamGref, "inputStream">> \in refs
    /\ outputStreamGref # None => <<outputStreamGref, "outputStream">> \in refs
    /\ \A t \in Threads :
          /\ at[t] \in {"handshake", "write", "read", "dispose"}
                => {t} \X StreamKinds \subseteq refs
          /\ at[t] = "returned"
                => {r \in refs : r[1] = t} = {t} \X {"inputStream", "outputStream"}

(* No other call is going on.                                              *)
Alone(t) == \A u \in Threads \ {t} : at[u] \in {"start", "returned"}

(* What earlier calls left behind does not hinder a later one: a call that *)
(* no other overlaps returns, unless the server gives up waiting for it.   *)
AloneReturns ==
    \A t \in Threads :
        at[t] = "enter" /\ Alone(t)
            ~> at[t] = "returned" \/ ~Alone(t) \/ ended[t] = "timedOut"

=============================================================================
