--------------------------- MODULE NativeLib_proofs ---------------------------
(***************************************************************************)
(* Theorems about NativeLib, for every number of threads.                  *)
(***************************************************************************)
EXTENDS NativeLib, SequenceTheorems, WellFoundedInduction, TLAPS

-----------------------------------------------------------------------------
(* The type invariant, in parts.                                           *)

Places == {"start", "enter", "output", "create", "handshake",
           "write", "read", "dispose", "leave", "returned"}

ThreadTypes ==
    /\ at \in [Threads -> Places]
    /\ step \in [Threads -> 0..SessionRecords]
    /\ reading \in [Threads -> Threads \cup {None}]
    /\ crossed \in BOOLEAN

GlobalTypes ==
    /\ lib \in {"unloaded", "loaded", "aborted"}
    /\ inputStreamGref \in Threads \cup {None} /\ outputStreamGref \in Threads \cup {None}
    /\ refs \subseteq References

WireTypes ==
    /\ toServer \in [Threads -> Seq(Records)]
    /\ toClient \in [Threads -> Seq(Records)]
    /\ backlog \in Seq(Threads)

ServerTypes ==
    /\ conn \in Threads \cup {None}
    /\ session \in [Threads -> Threads \cup {None}]
    /\ turn \in [Threads -> 0..SessionRecords]
    /\ ended \in [Threads -> {"open", "answered", "refused", "timedOut"}]

-----------------------------------------------------------------------------
(* What a thread has done, and holds, where it is.                         *)

Globals == {"inputStream", "outputStream"}
Kinds == StreamKinds \cup Globals

Done(t) ==
    /\ at[t] \in {"start", "enter", "output", "create"} => step[t] = 0
    /\ at[t] = "handshake" => step[t] \in 0..4
    /\ at[t] = "write" => step[t] = 4
    /\ at[t] = "read" => step[t] \in 4..6  \* 4 if the write failed
    /\ at[t] \in {"dispose", "leave", "returned"} => step[t] = 6
    /\ reading[t] # None => /\ at[t] \in {"handshake", "read"} /\ step[t] \in {1, 3, 5}

(* The global references that thread t made and nobody released.           *)
Holds(t, kinds) == \A k \in Kinds : <<t, k>> \in refs <=> k \in kinds

Owns(t) ==
    /\ at[t] \in {"start", "enter"} => Holds(t, {})
    /\ at[t] = "output" => Holds(t, {"inputStream"})
    /\ at[t] \in {"create", "leave", "returned"} => Holds(t, Globals)
    /\ at[t] \in {"handshake", "write", "read", "dispose"} => Holds(t, Kinds)

(* The globals refer to a socket once a thread has set them.               *)
GlobalsSet ==
    /\ \A t \in Threads : at[t] \notin {"start", "enter"} => inputStreamGref # None
    /\ \A t \in Threads : at[t] \notin {"start", "enter", "output"} => outputStreamGref # None
    /\ inputStreamGref # None => at[inputStreamGref] \notin {"start", "enter"}
    /\ outputStreamGref # None => at[outputStreamGref] \notin {"start", "enter", "output"}
    /\ lib = "unloaded" => \A t \in Threads : at[t] = "start"

(* Nothing of thread u changes.                                            *)
Keeps(u) ==
    /\ at'[u] = at[u] /\ step'[u] = step[u]
    /\ reading'[u] = reading[u]
    /\ \A k \in Kinds : <<u, k>> \in refs' <=> <<u, k>> \in refs

(* Only thread t changes.                                                  *)
Moves(t) == ThreadTypes' /\ refs' \subseteq References /\ \A u \in Threads \ {t} : Keeps(u)

LEMMA KindsMatter ==
    /\ StreamKinds \cap Globals = {} /\ StreamKinds \subseteq Kinds /\ Globals \subseteq Kinds
    /\ Threads \X Kinds \subseteq References
    /\ \A t \in Threads, k \in Kinds : <<t, k>> # <<None, "classes">>
BY NativeLibAssumption DEF StreamKinds, Globals, Kinds, References

(* Making and releasing references touches one thread's.                   *)
LEMMA ToGRefHolds ==
    ASSUME refs \subseteq References, NEW t \in Threads, NEW kinds, NEW K \in SUBSET Kinds,
           ToGRef(t, K), Holds(t, kinds)
    PROVE  /\ Holds(t, kinds \cup K)' /\ refs' \subseteq References
           /\ \A u \in Threads \ {t}, k \in Kinds : <<u, k>> \in refs' <=> <<u, k>> \in refs
BY KindsMatter DEF ToGRef, Holds

LEMMA ReleaseGRefHolds ==
    ASSUME refs \subseteq References, NEW t \in Threads, NEW kinds, NEW K \in SUBSET Kinds,
           ReleaseGRef(t, K), Holds(t, kinds)
    PROVE  /\ Holds(t, kinds \ K)' /\ refs' \subseteq References
           /\ \A u \in Threads \ {t}, k \in Kinds : <<u, k>> \in refs' <=> <<u, k>> \in refs
BY KindsMatter DEF ReleaseGRef, Holds

Local(t) == Done(t) /\ Owns(t)

LEMMA KeepsLocal == ASSUME NEW t \in Threads, Local(t), Keeps(t) PROVE Local(t)'
BY DEF Local, Keeps, Done, Owns, Holds

-----------------------------------------------------------------------------
(* Each step of a thread, in turn.                                         *)

(* A step that goes from one place to another and leaves the references.   *)
LEMMA PlainMoves ==
    ASSUME ThreadTypes, GlobalTypes, NEW t \in Threads, Local(t),
           Connect(t) \/ Created(t) \/ ReadDone(t) \/ Leave(t)
    PROVE  Moves(t) /\ Local(t)'
<1>1. UNCHANGED <<step, reading, crossed, refs>> /\ reading[t] = None
  BY DEF Connect, Created, ReadDone, Leave, Runs, globalVars
<1>2. \/ at[t] = "start" /\ at' = [at EXCEPT ![t] = "enter"]
      \/ at[t] = "handshake" /\ step[t] = 4 /\ at' = [at EXCEPT ![t] = "write"]
      \/ at[t] = "read" /\ step[t] = 6 /\ at' = [at EXCEPT ![t] = "dispose"]
      \/ at[t] = "leave" /\ at' = [at EXCEPT ![t] = "returned"]
  BY DEF Connect, Created, ReadDone, Leave, Runs, Goto, HandshakeRecords, SessionRecords
<1>3. ThreadTypes'
  BY <1>1, <1>2 DEF ThreadTypes, Places
<1>4. Moves(t)
  BY <1>1, <1>2, <1>3 DEF Moves, Keeps, GlobalTypes, ThreadTypes
<1>5. Done(t)'
  BY <1>1, <1>2 DEF Done, Local, ThreadTypes
<1>6. Owns(t)'
  BY <1>1, <1>2 DEF Owns, Holds, Local, ThreadTypes
<1> QED BY <1>4, <1>5, <1>6 DEF Local

(* A step that makes or releases global references.                        *)
LEMMA GRefMoves ==
    ASSUME ThreadTypes, GlobalTypes, NEW t \in Threads, Local(t),
           SetInput(t) \/ SetOutput(t) \/ Create(t) \/ Dispose(t)
    PROVE  Moves(t) /\ Local(t)'
<1>1. UNCHANGED <<step, reading, crossed>> /\ reading[t] = None
  BY DEF SetInput, SetOutput, Create, Dispose, Runs
<1>2. \/ at[t] = "enter" /\ at' = [at EXCEPT ![t] = "output"]
      \/ at[t] = "output" /\ at' = [at EXCEPT ![t] = "create"]
      \/ at[t] = "create" /\ at' = [at EXCEPT ![t] = "handshake"]
      \/ at[t] = "dispose" /\ at' = [at EXCEPT ![t] = "leave"]
  BY DEF SetInput, SetOutput, Create, Dispose, Runs, Goto
<1>3. ThreadTypes'
  BY <1>1, <1>2 DEF ThreadTypes, Places
<1>4. /\ Owns(t)' /\ refs' \subseteq References
      /\ \A u \in Threads \ {t}, k \in Kinds : <<u, k>> \in refs' <=> <<u, k>> \in refs
  <2>1. refs \subseteq References /\ Kinds \ StreamKinds = Globals
    BY KindsMatter DEF GlobalTypes, Kinds
  <2>2. CASE SetInput(t)
    <3>1. /\ ToGRef(t, {"inputStream"}) /\ at'[t] = "output"
          /\ Holds(t, {}) /\ {"inputStream"} \subseteq Kinds
      BY <2>2 DEF SetInput, Runs, Goto, ThreadTypes, Local, Owns, Kinds, Globals
    <3>2. {} \cup {"inputStream"} = {"inputStream"}
      OBVIOUS
    <3> QED BY <2>1, <3>1, <3>2, ToGRefHolds DEF Owns
  <2>3. CASE SetOutput(t)
    <3>1. /\ ToGRef(t, {"outputStream"}) /\ at'[t] = "create"
          /\ Holds(t, {"inputStream"}) /\ {"outputStream"} \subseteq Kinds
      BY <2>3 DEF SetOutput, Runs, Goto, ThreadTypes, Local, Owns, Kinds, Globals
    <3>2. {"inputStream"} \cup {"outputStream"} = Globals
      BY DEF Globals
    <3> QED BY <2>1, <3>1, <3>2, ToGRefHolds DEF Owns
  <2>4. CASE Create(t)
    <3>1. ToGRef(t, StreamKinds) /\ at'[t] = "handshake" /\ Holds(t, Globals)
      BY <2>4 DEF Create, Runs, Goto, ThreadTypes, Local, Owns
    <3>2. Globals \cup StreamKinds = Kinds /\ StreamKinds \in SUBSET Kinds
      BY DEF Kinds
    <3>3. Holds(t, Globals \cup StreamKinds)'
      BY <2>1, <3>1, <3>2, ToGRefHolds
    <3>4. /\ refs' \subseteq References
          /\ \A u \in Threads \ {t}, k \in Kinds : <<u, k>> \in refs' <=> <<u, k>> \in refs
      BY <2>1, <3>1, <3>2, ToGRefHolds
    <3> QED BY <3>1, <3>2, <3>3, <3>4 DEF Owns
  <2>5. CASE Dispose(t)
    <3>1. ReleaseGRef(t, StreamKinds) /\ at'[t] = "leave" /\ Holds(t, Kinds)
      BY <2>5 DEF Dispose, Runs, Goto, ThreadTypes, Local, Owns
    <3> QED BY <2>1, <3>1, KindsMatter, ReleaseGRefHolds DEF Owns
  <2> QED BY <2>2, <2>3, <2>4, <2>5
<1>5. Moves(t)
  BY <1>1, <1>2, <1>3, <1>4 DEF Moves, Keeps, ThreadTypes
<1>6. Done(t)'
  BY <1>1, <1>2 DEF Done, Local, ThreadTypes
<1> QED BY <1>4, <1>5, <1>6 DEF Local

(* A step that writes, starts a read or ends one.                          *)
LEMMA RecordMoves ==
    ASSUME ThreadTypes, GlobalTypes, GlobalsSet, NEW t \in Threads, Local(t),
           Wrap(t) \/ Unwrap(t) \/ Write(t) \/ Read(t) \/ ReadReturns(t) \/ ReadFails(t)
    PROVE  Moves(t) /\ Local(t)'
<1>1. UNCHANGED refs
  BY DEF Wrap, Unwrap, Write, Read, ReadReturns, ReadFails, globalVars
<1>2. CASE Wrap(t) \/ Write(t)
  <2>1. /\ UNCHANGED reading /\ reading[t] = None /\ crossed' \in BOOLEAN
        /\ \/ at[t] = "handshake" /\ step[t] \in {0, 2} /\ UNCHANGED at
           \/ at[t] = "write" /\ at' = [at EXCEPT ![t] = "read"]
    BY <1>2 DEF Wrap, Write, Runs, Goto, onInnerStreamWrite, Crosses, ThreadTypes
  <2>2. step' = [step EXCEPT ![t] = @ + 1] \/ UNCHANGED step
    BY <1>2 DEF Wrap, Write, onInnerStreamWrite
  <2>3. at[t] = "handshake" \/ step[t] = 4
    BY <2>1 DEF Local, Done
  <2>4. ThreadTypes'
    BY <2>1, <2>2, <2>3 DEF ThreadTypes, Places, SessionRecords
  <2>5. Moves(t)
    BY <1>1, <2>1, <2>2, <2>4 DEF Moves, Keeps, GlobalTypes, ThreadTypes
  <2>6. Done(t)' /\ Owns(t)'
    BY <1>1, <2>1, <2>2, <2>3
       DEF Done, Owns, Holds, Local, ThreadTypes
  <2> QED BY <2>5, <2>6 DEF Local
<1>3. CASE Unwrap(t) \/ Read(t)
  <2>0. crossed' \in BOOLEAN
    BY <1>3 DEF Unwrap, Read, onInnerStreamRead, Crosses
  <2>1. /\ UNCHANGED <<at, step>> /\ reading[t] = None
        /\ \/ at[t] = "handshake" /\ step[t] \in {1, 3}
           \/ at[t] = "read" /\ step[t] = 5
        /\ reading' = [reading EXCEPT ![t] = inputStreamGref]
    BY <1>3 DEF Unwrap, Read, Runs, onInnerStreamRead, SessionRecords
  <2>2. inputStreamGref \in Threads /\ inputStreamGref # None
    BY <2>1 DEF GlobalsSet, GlobalTypes
  <2>3. ThreadTypes'
    BY <2>0, <2>1, <2>2 DEF ThreadTypes
  <2>4. Moves(t)
    BY <1>1, <2>1, <2>3 DEF Moves, Keeps, GlobalTypes, ThreadTypes
  <2>5. Done(t)' /\ Owns(t)'
    BY <1>1, <2>1, <2>2 DEF Done, Owns, Holds, Local, ThreadTypes
  <2> QED BY <2>4, <2>5 DEF Local
<1>4. CASE ReadReturns(t) \/ ReadFails(t)
  <2>1. UNCHANGED <<at, crossed>> /\ reading[t] # None
    BY <1>4 DEF ReadReturns, ReadFails, threadVars
  <2>2. \/ /\ step' = [step EXCEPT ![t] = @ + 1]
           /\ reading' = [reading EXCEPT ![t] = None]
        \/ UNCHANGED <<step, reading>>
    BY <1>4 DEF ReadReturns, ReadFails, threadVars
  <2>3. /\ at[t] \in {"handshake", "read"} /\ step[t] \in {1, 3, 5}
        /\ at[t] = "handshake" => step[t] \in {1, 3}
        /\ at[t] = "read" => step[t] = 5
    BY <2>1 DEF Local, Done
  <2>4. ThreadTypes'
    BY <2>1, <2>2, <2>3 DEF ThreadTypes, SessionRecords
  <2>5. Moves(t)
    BY <1>1, <2>1, <2>2, <2>4 DEF Moves, Keeps, GlobalTypes, ThreadTypes
  <2>6. Done(t)' /\ Owns(t)'
    BY <1>1, <2>1, <2>2, <2>3
       DEF Done, Owns, Holds, Local, ThreadTypes
  <2> QED BY <2>5, <2>6 DEF Local
<1> QED BY <1>2, <1>3, <1>4

-----------------------------------------------------------------------------
(* All threads, and what they share.                                       *)

ThreadStep(t) == Connect(t) \/ NativeStep(t)

ThreadsInv == ThreadTypes /\ GlobalTypes /\ GlobalsSet /\ \A t \in Threads : Local(t)

LEMMA LocalMoves ==
    ASSUME ThreadsInv, NEW t \in Threads, ThreadStep(t)
    PROVE  Moves(t) /\ Local(t)'
BY PlainMoves, GRefMoves, RecordMoves DEF ThreadsInv, ThreadStep, NativeStep

(* A thread moves on; it runs in a library that is loaded, and sets the    *)
(* globals at their places only.                                           *)
SetsGlobals(t) ==
    /\ lib = "loaded" /\ lib' \in {"loaded", "aborted"}
    /\ \/ /\ at[t] = "start" /\ at' = [at EXCEPT ![t] = "enter"]
          /\ UNCHANGED <<inputStreamGref, outputStreamGref>>
       \/ /\ at[t] = "enter" /\ at' = [at EXCEPT ![t] = "output"]
          /\ inputStreamGref' = t /\ UNCHANGED outputStreamGref
       \/ /\ at[t] = "output" /\ at' = [at EXCEPT ![t] = "create"]
          /\ outputStreamGref' = t /\ UNCHANGED inputStreamGref
       \/ /\ at[t] \notin {"start", "enter", "output"}
          /\ at' = at \/ \E there \in {"handshake", "write", "read", "dispose", "leave",
                                       "returned"} : at' = [at EXCEPT ![t] = there]
          /\ UNCHANGED <<inputStreamGref, outputStreamGref>>

LEMMA ThreadGlobals ==
    ASSUME ThreadsInv, NEW t \in Threads, ThreadStep(t)
    PROVE  SetsGlobals(t)
<1>1. CASE Connect(t) \/ SetInput(t) \/ SetOutput(t)
  BY <1>1 DEF Connect, SetInput, SetOutput, Runs, Goto, globalVars, SetsGlobals
<1>2. CASE Create(t) \/ Created(t) \/ ReadDone(t) \/ Dispose(t) \/ Leave(t)
  BY <1>2 DEF Create, Created, ReadDone, Dispose, Leave, Runs, Goto, globalVars, SetsGlobals
<1>3. CASE Wrap(t) \/ Write(t)
  BY <1>3 DEF Wrap, Write, onInnerStreamWrite, Abort, Runs, Goto, SetsGlobals
<1>4. CASE Unwrap(t) \/ Read(t)
  BY <1>4 DEF Unwrap, Read, Runs, globalVars, SetsGlobals
<1>5. CASE ReadReturns(t) \/ ReadFails(t)
  <2>1. at[t] \in {"handshake", "read"}
    BY <1>5 DEF ReadReturns, ReadFails, ThreadsInv, Local, Done
  <2> QED BY <1>5, <2>1 DEF ReadReturns, ReadFails, Abort, threadVars, SetsGlobals
<1> QED BY <1>1, <1>2, <1>3, <1>4, <1>5 DEF ThreadStep, NativeStep

LEMMA ThreadsInvStep == ThreadsInv /\ [Next]_vars => ThreadsInv'
<1> SUFFICES ASSUME ThreadsInv, [Next]_vars PROVE ThreadsInv'
  OBVIOUS
<1>1. ASSUME NEW t \in Threads, ThreadStep(t) PROVE ThreadsInv'
  <2>1. Moves(t) /\ Local(t)' /\ SetsGlobals(t)
    BY <1>1, LocalMoves, ThreadGlobals
  <2>2. \A u \in Threads : Local(u)'
    BY <2>1, KeepsLocal DEF Moves, ThreadsInv
  <2>3. GlobalTypes'
    BY <2>1 DEF Moves, SetsGlobals, GlobalTypes, ThreadsInv
  <2>4. at \in [Threads -> Places] /\ GlobalsSet /\ None \notin Threads
        /\ inputStreamGref \in Threads \cup {None} /\ outputStreamGref \in Threads \cup {None}
    BY NativeLibAssumption DEF ThreadsInv, ThreadTypes, GlobalTypes
  <2>5. GlobalsSet'
    BY <2>1, <2>4 DEF SetsGlobals, GlobalsSet
  <2> QED BY <2>1, <2>2, <2>3, <2>5 DEF Moves, ThreadsInv
<1>2. CASE JNI_OnLoad
  <2>1. /\ UNCHANGED <<at, step, reading, crossed, inputStreamGref, outputStreamGref>>
        /\ lib = "unloaded" /\ lib' \in {"loaded", "aborted"}
        /\ refs' = {<<None, "classes">>} \/ refs' = refs
    BY <1>2 DEF JNI_OnLoad, threadVars
  <2>2. ThreadTypes' /\ GlobalTypes' /\ GlobalsSet'
    BY <2>1 DEF ThreadsInv, ThreadTypes, GlobalTypes, GlobalsSet, References
  <2>3. ASSUME NEW t \in Threads PROVE Local(t)'
    <3>1. at[t] = "start" /\ Local(t)
      BY <2>1 DEF ThreadsInv, GlobalsSet
    <3>2. Holds(t, {})'
      BY <2>1, <3>1, KindsMatter DEF Local, Owns, Holds
    <3> QED BY <2>1, <3>1, <3>2 DEF Local, Done, Owns
  <2> QED BY <2>2, <2>3 DEF ThreadsInv
<1>3. CASE ServerStep \/ UNCHANGED vars
  <2>1. UNCHANGED <<at, step, reading, crossed, lib, inputStreamGref, outputStreamGref, refs>>
    BY <1>3 DEF ServerStep, Accept, ServerTurn, ClientLost, TimeOut, vars, threadVars, globalVars
  <2> QED BY <2>1 DEF ThreadsInv, ThreadTypes, GlobalTypes, GlobalsSet,
                      Local, Done, Owns, Holds
<1> QED BY <1>1, <1>2, <1>3 DEF Next, ThreadStep

LEMMA InitThreadsInv == Init => ThreadsInv
<1> SUFFICES ASSUME Init PROVE ThreadsInv
  OBVIOUS
<1>1. ThreadTypes
  <2>1. at \in [Threads -> Places] /\ crossed \in BOOLEAN
    BY DEF Init, Places
  <2>2. step \in [Threads -> 0..SessionRecords]
    BY DEF Init, SessionRecords
  <2>3. reading \in [Threads -> Threads \cup {None}]
    BY DEF Init
  <2> QED BY <2>1, <2>2, <2>3 DEF ThreadTypes
<1>2. GlobalTypes /\ GlobalsSet
  BY DEF Init, GlobalTypes, GlobalsSet
<1>3. ASSUME NEW t \in Threads PROVE Local(t)
  <2>1. at[t] = "start" /\ step[t] = 0 /\ reading[t] = None /\ refs = {}
    BY DEF Init
  <2>2. Holds(t, {})
    BY <2>1 DEF Holds
  <2> QED BY <2>1, <2>2 DEF Local, Done, Owns
<1> QED BY <1>1, <1>2, <1>3 DEF ThreadsInv

-----------------------------------------------------------------------------
(* Records and the server.                                                 *)

(* Clients send the odd records of a session, the server the even ones.    *)
WireInv ==
    /\ WireTypes /\ ServerTypes
    /\ \A c \in Threads : \A i \in DOMAIN toServer[c] : toServer[c][i].pos \in {1, 3, 5}

(* A step of a thread appends a record that is its turn, or takes one.     *)
Sends(t) ==
    /\ UNCHANGED toClient
    /\ \/ UNCHANGED step
       \/ step[t] \in {0, 2, 4} /\ step' = [step EXCEPT ![t] = @ + 1]
    /\ \/ UNCHANGED toServer
       \/ /\ outputStreamGref \in Threads /\ step[t] \in {0, 2, 4}
          /\ toServer' = [toServer EXCEPT ![outputStreamGref] =
                              Append(@, [of |-> t, pos |-> step[t] + 1])]

Receives(t) ==
    /\ UNCHANGED toServer
    /\ \E c \in Threads :
          /\ toClient[c] # <<>> /\ toClient' = [toClient EXCEPT ![c] = Tail(@)]
          /\ \/ UNCHANGED step
             \/ /\ Head(toClient[c]) = [of |-> t, pos |-> step[t] + 1]
                /\ step' = [step EXCEPT ![t] = @ + 1]

LEMMA ThreadWires ==
    ASSUME ThreadsInv, NEW t \in Threads, ThreadStep(t)
    PROVE  /\ UNCHANGED serverVars
           /\ \/ UNCHANGED backlog /\ (at[t] # "start" \/ at' = at)
              \/ at[t] = "start" /\ at'[t] # "start" /\ backlog' = Append(backlog, t)
           /\ Sends(t) \/ Receives(t)
<1>1. CASE Connect(t)
  BY <1>1 DEF Connect, Runs, Goto, ThreadsInv, ThreadTypes, Sends
<1>2. CASE SetInput(t) \/ SetOutput(t) \/ Create(t) \/ Created(t) \/ ReadDone(t)
           \/ Dispose(t) \/ Leave(t)
  BY <1>2 DEF SetInput, SetOutput, Create, Created, ReadDone, Dispose, Leave, Runs,
              wireVars, Sends
<1>3. CASE Wrap(t) \/ Write(t)
  <2>1. /\ outputStreamGref \in Threads /\ step[t] \in {0, 2, 4}
    BY <1>3 DEF Wrap, Write, Runs, ThreadsInv, GlobalsSet, GlobalTypes, Local, Done
  <2> QED BY <1>3, <2>1 DEF Wrap, Write, Runs, onInnerStreamWrite, Sends
<1>4. CASE Unwrap(t) \/ Read(t)
  BY <1>4 DEF Unwrap, Read, Runs, wireVars, Sends
<1>5. CASE ReadReturns(t)
  <2>1. reading[t] \in Threads /\ at[t] # "start"
    BY <1>5 DEF ReadReturns, ThreadsInv, ThreadTypes, Local, Done
  <2> QED BY <1>5, <2>1 DEF ReadReturns, Receives
<1>6. CASE ReadFails(t)
  BY <1>6 DEF ReadFails, threadVars, wireVars, Sends
<1> QED BY <1>1, <1>2, <1>3, <1>4, <1>5, <1>6 DEF ThreadStep, NativeStep

LEMMA AppendPos ==
    ASSUME NEW s \in Seq(Records), NEW r \in Records
    PROVE  /\ Append(s, r) \in Seq(Records)
           /\ \A i \in DOMAIN Append(s, r) : Append(s, r)[i] = r \/ \E j \in DOMAIN s :
                 Append(s, r)[i] = s[j]
BY AppendProperties, LenProperties

LEMMA TailPos ==
    ASSUME NEW S, NEW s \in Seq(S), s # <<>>
    PROVE  /\ Tail(s) \in Seq(S) /\ Head(s) \in S
           /\ \E j \in DOMAIN s : Head(s) = s[j]
           /\ \A i \in DOMAIN Tail(s) : \E j \in DOMAIN s : Tail(s)[i] = s[j]
<1>1. /\ Len(s) \in Nat \ {0} /\ DOMAIN s = 1..Len(s)
      /\ Tail(s) \in Seq(S) /\ Head(s) \in S /\ Head(s) = s[1]
      /\ DOMAIN Tail(s) = 1..Len(s) - 1
      /\ \A i \in 1..Len(s) - 1 : Tail(s)[i] = s[i + 1]
  BY HeadTailProperties, LenProperties, EmptySeq
<1> QED BY <1>1

(* A connection is in the server's queue once, before it is processed, and *)
(* is processed once.                                                      *)
Queued(c) == \E i \in DOMAIN backlog : backlog[i] = c

QueueInv ==
    /\ \A i, j \in DOMAIN backlog : backlog[i] = backlog[j] => i = j
    /\ conn # None => ~Queued(conn)
    /\ \A c \in Threads : at[c] = "start" => ended[c] = "open"
    /\ \A c \in Threads : at[c] = "start" \/ ended[c] # "open" => c # conn /\ ~Queued(c)

(* What a thread has got as its answer, or has in flight, was sent when    *)
(* the server took its message and closed the connection.                  *)
Answered(c, t) == session[c] = t /\ ended[c] = "answered"

AnswersInv ==
    /\ \A c \in Threads : \A i \in DOMAIN toClient[c] :
          toClient[c][i].pos = 6 => Answered(c, toClient[c][i].of)
    /\ \A t \in Threads : step[t] = 6 => \E c \in Threads : Answered(c, t)

(* The server does something for conn, or accepts it.                      *)
LEMMA ServerMoves ==
    ASSUME ThreadsInv, WireInv, ServerStep
    PROVE  \/ /\ conn = None /\ backlog # <<>>
              /\ conn' = Head(backlog) /\ backlog' = Tail(backlog)
              /\ UNCHANGED <<session, turn, ended, toServer, toClient>>
           \/ /\ conn \in Threads /\ UNCHANGED backlog
              /\ conn' = conn \/ conn' = None
              /\ session' = session \/ \E t \in Threads : session' = [session EXCEPT ![conn] = t]
              /\ conn' = conn => ended' = ended
              /\ ended' = ended \/ \E how \in {"answered", "refused", "timedOut"} :
                                      conn' = None /\ ended' = [ended EXCEPT ![conn] = how]
<1>1. conn = None \/ conn \in Threads
  BY DEF WireInv, ServerTypes
<1>2. CASE Accept
  BY <1>2 DEF Accept
<1>3. CASE ServerTurn
  <2>1. /\ conn \in Threads /\ toServer[conn] # <<>>
    BY <1>1, <1>3 DEF ServerTurn
  <2>2. Head(toServer[conn]) \in Records
    BY <2>1, TailPos DEF WireInv, WireTypes
  <2>3. Head(toServer[conn]).of \in Threads
    BY <2>2 DEF Records
  <2> QED BY <1>3, <2>1, <2>3 DEF ServerTurn, End
<1>4. CASE ClientLost \/ TimeOut
  BY <1>1, <1>4 DEF ClientLost, TimeOut, End, wireVars
<1> QED BY <1>2, <1>3, <1>4 DEF ServerStep

LEMMA QueueStep ==
    ASSUME ThreadsInv, WireInv, QueueInv, [Next]_vars
    PROVE  QueueInv'
<1>0. /\ backlog \in Seq(Threads) /\ at \in [Threads -> Places]
      /\ ended \in [Threads -> {"open", "answered", "refused", "timedOut"}]
      /\ None \notin Threads
      /\ Len(backlog) \in Nat /\ DOMAIN backlog = 1..Len(backlog)
  BY NativeLibAssumption, LenProperties
     DEF ThreadsInv, ThreadTypes, WireInv, WireTypes, ServerTypes
<1>1. ASSUME UNCHANGED <<backlog, conn, ended>>,
             \A c \in Threads : at'[c] = "start" => at[c] = "start"
      PROVE  QueueInv'
  BY <1>1 DEF QueueInv, Queued
<1>2. ASSUME NEW t \in Threads, ThreadStep(t) PROVE QueueInv'
  <2>1. /\ UNCHANGED serverVars
        /\ \/ UNCHANGED backlog /\ (at[t] # "start" \/ at' = at)
           \/ at[t] = "start" /\ at'[t] # "start" /\ backlog' = Append(backlog, t)
    BY <1>2, ThreadWires
  <2>2. \A c \in Threads : at'[c] = "start" => at[c] = "start"
    BY <1>0, <1>2, ThreadGlobals DEF SetsGlobals
  <2>3. CASE at[t] = "start" /\ at'[t] # "start" /\ backlog' = Append(backlog, t)
    <3>1. /\ DOMAIN backlog' = 1..Len(backlog) + 1
          /\ backlog'[Len(backlog) + 1] = t
          /\ \A i \in 1..Len(backlog) : backlog'[i] = backlog[i]
      BY <1>0, <2>3, AppendProperties, LenProperties
    <3>2. t # conn /\ ~Queued(t) /\ ended[t] = "open"
      BY <2>3 DEF QueueInv
    <3>3. \A c \in Threads : Queued(c)' => Queued(c) \/ c = t
      BY <1>0, <3>1 DEF Queued
    <3>4. \A i, j \in DOMAIN backlog' : backlog'[i] = backlog'[j] => i = j
      <4>1. \A i \in 1..Len(backlog) : backlog[i] # t
        BY <1>0, <3>2 DEF Queued
      <4>2. \A i, j \in 1..Len(backlog) : backlog[i] = backlog[j] => i = j
        BY <1>0 DEF QueueInv
      <4> QED BY <1>0, <3>1, <4>1, <4>2
    <3>5. UNCHANGED <<conn, ended>> /\ (conn = None \/ conn \in Threads)
      BY <2>1 DEF serverVars, WireInv, ServerTypes
    <3>6. conn' # None => ~Queued(conn)'
      BY <3>2, <3>3, <3>5 DEF QueueInv, Queued
    <3> QED BY <2>2, <2>3, <3>2, <3>3, <3>4, <3>5, <3>6 DEF QueueInv
  <2> QED BY <1>1, <2>1, <2>2, <2>3 DEF serverVars
<1>3. CASE ServerStep
  <2>1. UNCHANGED at
    BY <1>3 DEF ServerStep, Accept, ServerTurn, ClientLost, TimeOut, threadVars
  <2>2. CASE conn = None /\ backlog # <<>> /\ conn' = Head(backlog)
             /\ backlog' = Tail(backlog) /\ ended' = ended
    <3>1. /\ Len(backlog) \in Nat \ {0} /\ Head(backlog) = backlog[1]
          /\ DOMAIN backlog' = 1..Len(backlog) - 1
          /\ \A i \in 1..Len(backlog) - 1 : backlog'[i] = backlog[i + 1]
      BY <1>0, <2>2, HeadTailProperties, LenProperties, EmptySeq
    <3>2. \A i, j \in DOMAIN backlog' : backlog'[i] = backlog'[j] => i = j
      BY <1>0, <3>1 DEF QueueInv
    <3>3. \A i \in DOMAIN backlog' : backlog'[i] # conn'
      BY <1>0, <2>2, <3>1 DEF QueueInv, Queued
    <3>4. \A c : Queued(c)' => Queued(c)
      BY <1>0, <3>1 DEF Queued
    <3>5. Queued(conn')
      BY <1>0, <2>2, <3>1 DEF Queued
    <3>6. conn' # None => ~Queued(conn)'
      BY <3>3 DEF Queued
    <3>7. \A c \in Threads : (at[c] = "start" \/ ended[c] # "open")' => c # conn' /\ ~Queued(c)'
      BY <2>1, <2>2, <3>4, <3>5 DEF QueueInv
    <3> QED BY <2>1, <2>2, <3>2, <3>6, <3>7 DEF QueueInv
  <2>3. CASE /\ conn \in Threads /\ UNCHANGED backlog
             /\ conn' = conn \/ conn' = None
             /\ conn' = conn => ended' = ended
             /\ ended' = ended \/ \E how \in {"answered", "refused", "timedOut"} :
                                     conn' = None /\ ended' = [ended EXCEPT ![conn] = how]
    <3>1. \A c : Queued(c)' = Queued(c)
      BY <2>3 DEF Queued
    <3>2. (conn' = conn /\ ended' = ended) \/ conn' = None
      BY <2>3
    <3>3. \A c \in Threads : c # conn => ended'[c] = ended[c]
      BY <1>0, <2>3
    <3> QED BY <1>0, <2>1, <2>3, <3>1, <3>2, <3>3 DEF QueueInv
  <2> QED BY <1>3, <2>2, <2>3, ServerMoves
<1>4. CASE JNI_OnLoad \/ UNCHANGED vars
  BY <1>1, <1>4 DEF JNI_OnLoad, threadVars, serverVars, wireVars, vars
<1> QED BY <1>2, <1>3, <1>4 DEF Next, ThreadStep

(* The record that the server takes, and its answer to it.                 *)
LEMMA ServerTakes ==
    ASSUME WireInv, ServerTurn, NEW rec, rec = Head(toServer[conn])
    PROVE  /\ conn \in Threads /\ toServer[conn] # <<>>
           /\ rec \in Records /\ rec.pos \in {1, 3, 5}
           /\ [rec EXCEPT !.pos = @ + 1] \in Records
           /\ [rec EXCEPT !.pos = @ + 1].of = rec.of
           /\ [rec EXCEPT !.pos = @ + 1].pos = rec.pos + 1
<1>1. conn \in Threads /\ toServer[conn] # <<>>
  BY DEF ServerTurn, WireInv, ServerTypes
<1>2. rec \in Records /\ \E j \in DOMAIN toServer[conn] : rec = toServer[conn][j]
  BY <1>1, TailPos DEF WireInv, WireTypes
<1>3. rec.pos \in {1, 3, 5}
  BY <1>1, <1>2 DEF WireInv
<1> QED BY <1>1, <1>2, <1>3 DEF Records, SessionRecords

LEMMA WireStep ==
    ASSUME ThreadsInv, WireInv, [Next]_vars
    PROVE  WireInv'
<1>0. /\ toServer \in [Threads -> Seq(Records)] /\ toClient \in [Threads -> Seq(Records)]
      /\ backlog \in Seq(Threads)
      /\ \A c \in Threads : \A i \in DOMAIN toServer[c] : toServer[c][i].pos \in {1, 3, 5}
  BY DEF WireInv, WireTypes
<1>1. ASSUME NEW t \in Threads, ThreadStep(t) PROVE WireInv'
  <2>1. ServerTypes' /\ backlog' \in Seq(Threads)
    <3>1. ServerTypes'
      BY <1>1, ThreadWires DEF serverVars, WireInv, ServerTypes
    <3>2. UNCHANGED backlog \/ backlog' = Append(backlog, t)
      BY <1>1, ThreadWires
    <3>3. backlog' \in Seq(Threads)
      <4>1. backlog \in Seq(Threads) /\ t \in Threads
        BY <1>0
      <4>2. Append(backlog, t) \in Seq(Threads)
        BY <4>1, AppendProperties
      <4> QED BY <3>2, <4>1, <4>2
    <3> QED BY <3>1, <3>3
  <2>2. CASE Sends(t)
    <3>1. CASE UNCHANGED toServer
      BY <1>0, <2>1, <2>2, <3>1 DEF Sends, WireInv, WireTypes
    <3>2. CASE ~UNCHANGED toServer
      <4>1. PICK r \in Records :
               /\ r.pos \in {1, 3, 5}
               /\ outputStreamGref \in Threads
               /\ toServer' = [toServer EXCEPT ![outputStreamGref] = Append(@, r)]
        <5>1. step[t] \in {0, 2, 4} /\ outputStreamGref \in Threads
          BY <2>2, <3>2 DEF Sends
        <5>2. [of |-> t, pos |-> step[t] + 1] \in Records
          BY <5>1 DEF Records, SessionRecords
        <5> QED BY <2>2, <3>2, <5>1, <5>2 DEF Sends
      <4>2. /\ Append(toServer[outputStreamGref], r) \in Seq(Records)
            /\ \A i \in DOMAIN Append(toServer[outputStreamGref], r) :
                  Append(toServer[outputStreamGref], r)[i].pos \in {1, 3, 5}
        BY <1>0, <4>1, AppendPos
      <4>3. toServer' \in [Threads -> Seq(Records)]
        BY <1>0, <4>1, <4>2
      <4>4. \A c \in Threads : \A i \in DOMAIN toServer'[c] : toServer'[c][i].pos \in {1, 3, 5}
        BY <1>0, <4>1, <4>2
      <4> QED BY <1>0, <2>1, <2>2, <4>3, <4>4 DEF Sends, WireInv, WireTypes
    <3> QED BY <3>1, <3>2
  <2>3. CASE Receives(t)
    <3>1. PICK c \in Threads : toClient[c] # <<>> /\ toClient' = [toClient EXCEPT ![c] = Tail(@)]
      BY <2>3 DEF Receives
    <3>2. toClient' \in [Threads -> Seq(Records)]
      BY <1>0, <3>1, TailPos
    <3> QED BY <1>0, <2>1, <2>3, <3>2 DEF Receives, WireInv, WireTypes
  <2> QED BY <1>1, <2>2, <2>3, ThreadWires
<1>2. CASE ServerTurn
  <2> DEFINE rec == Head(toServer[conn])
             reply == [rec EXCEPT !.pos = @ + 1]
  <2>1. /\ conn \in Threads /\ toServer[conn] # <<>>
        /\ rec \in Records /\ rec.pos \in {1, 3, 5} /\ reply \in Records
    BY <1>2, ServerTakes
  <2>2. rec.of \in Threads
    BY <2>1 DEF Records
  <2>3. /\ \/ /\ Expected(rec)
              /\ session' = [session EXCEPT ![conn] = rec.of]
              /\ turn' = [turn EXCEPT ![conn] = @ + 2]
              /\ toClient' = [toClient EXCEPT ![conn] = Append(@, reply)]
              /\ End("answered") \/ UNCHANGED <<ended, conn>>
           \/ End("refused") /\ UNCHANGED <<session, turn, toClient>>
        /\ toServer' = [toServer EXCEPT ![conn] = Tail(@)]
        /\ UNCHANGED backlog
    BY <1>2 DEF ServerTurn
  <2> HIDE DEF reply
  <2>4. ServerTypes'
    <3>1. Expected(rec) => turn[conn] + 2 \in 0..SessionRecords
      BY <2>1 DEF Expected, SessionRecords, WireInv, ServerTypes
    <3>2. turn' \in [Threads -> 0..SessionRecords]
      BY <2>3, <3>1 DEF WireInv, ServerTypes
    <3>3. session' \in [Threads -> Threads \cup {None}]
      BY <2>2, <2>3 DEF WireInv, ServerTypes
    <3>4. /\ conn' \in Threads \cup {None}
          /\ ended' \in [Threads -> {"open", "answered", "refused", "timedOut"}]
      BY <2>3 DEF End, WireInv, ServerTypes
    <3> QED BY <3>2, <3>3, <3>4 DEF ServerTypes
  <2>5. toClient' \in [Threads -> Seq(Records)]
    <3>1. Append(toClient[conn], reply) \in Seq(Records)
      BY <1>0, <2>1, AppendProperties
    <3> QED BY <1>0, <2>3, <3>1
  <2>6. /\ toServer' \in [Threads -> Seq(Records)]
        /\ \A c \in Threads : \A i \in DOMAIN toServer'[c] : toServer'[c][i].pos \in {1, 3, 5}
    <3>1. /\ Tail(toServer[conn]) \in Seq(Records)
          /\ \A i \in DOMAIN Tail(toServer[conn]) : Tail(toServer[conn])[i].pos \in {1, 3, 5}
      BY <1>0, <2>1, TailPos
    <3> QED BY <1>0, <2>3, <3>1
  <2> QED BY <1>0, <2>3, <2>4, <2>5, <2>6 DEF WireInv, WireTypes
<1>3. CASE Accept
  BY <1>0, <1>3, HeadTailProperties DEF Accept, WireInv, WireTypes, ServerTypes
<1>4. CASE ClientLost \/ TimeOut
  <2>1. /\ UNCHANGED <<toServer, toClient, backlog, session, turn>>
        /\ conn' = None
        /\ \E how \in {"refused", "timedOut"} : ended' = [ended EXCEPT ![conn] = how]
    BY <1>4 DEF ClientLost, TimeOut, End, wireVars
  <2> QED BY <2>1 DEF WireInv, WireTypes, ServerTypes
<1>5. CASE JNI_OnLoad \/ UNCHANGED vars
  BY <1>5 DEF JNI_OnLoad, serverVars, wireVars, vars, WireInv, WireTypes, ServerTypes
<1> QED BY <1>1, <1>2, <1>3, <1>4, <1>5 DEF Next, ThreadStep, ServerStep

-----------------------------------------------------------------------------
(* Answers.                                                                *)

(* An answered connection stays so.                                        *)
LEMMA AnsweredStays ==
    ASSUME ThreadsInv, WireInv, QueueInv, [Next]_vars,
           NEW c \in Threads, NEW t, Answered(c, t)
    PROVE  Answered(c, t)'
<1>1. c # conn
  BY DEF Answered, QueueInv
<1>2. /\ session \in [Threads -> Threads \cup {None}]
      /\ ended \in [Threads -> {"open", "answered", "refused", "timedOut"}]
  BY DEF WireInv, ServerTypes
<1>3. session'[c] = session[c] /\ ended'[c] = ended[c]
  <2>1. CASE ServerStep
    BY <1>1, <1>2, <2>1, ServerMoves
  <2>2. ASSUME NEW u \in Threads, ThreadStep(u) PROVE UNCHANGED <<session, ended>>
    BY <2>2, ThreadWires DEF serverVars
  <2>3. CASE JNI_OnLoad \/ UNCHANGED vars
    BY <2>3 DEF JNI_OnLoad, serverVars, vars
  <2> QED BY <2>1, <2>2, <2>3 DEF Next, ThreadStep
<1> QED BY <1>3 DEF Answered

StillAnswered(c, t) == session'[c] = t /\ ended'[c] = "answered"

LEMMA AnsweredStill ==
    ASSUME ThreadsInv, WireInv, QueueInv, [Next]_vars
    PROVE  \A c \in Threads : \A t : Answered(c, t) => StillAnswered(c, t)
BY AnsweredStays DEF Answered, StillAnswered

LEMMA AnswersStep ==
    ASSUME ThreadsInv, WireInv, QueueInv, AnswersInv, [Next]_vars
    PROVE  AnswersInv'
<1>0. /\ toClient \in [Threads -> Seq(Records)]
      /\ step \in [Threads -> 0..SessionRecords]
      /\ \A c \in Threads : toClient[c] \in Seq(Records)
  BY DEF WireInv, WireTypes, ThreadsInv, ThreadTypes
<1>1. /\ \A c \in Threads : \A i \in DOMAIN toClient[c] :
            toClient[c][i].pos = 6 => StillAnswered(c, toClient[c][i].of)
      /\ \A t \in Threads : step[t] = 6 => \E c \in Threads : StillAnswered(c, t)
  BY AnsweredStill DEF AnswersInv
<1>2. CASE UNCHANGED <<toClient, step>>
  BY <1>1, <1>2 DEF AnswersInv, Answered, StillAnswered
<1>3. ASSUME NEW t \in Threads, ThreadStep(t) PROVE AnswersInv'
  <2>1. CASE Sends(t)
    <3>1. toClient' = toClient /\ \A u \in Threads : step'[u] = 6 => step[u] = 6
      BY <1>0, <2>1 DEF Sends
    <3> QED BY <1>1, <3>1 DEF AnswersInv, Answered, StillAnswered
  <2>2. CASE Receives(t)
    <3>1. PICK c \in Threads :
             /\ toClient[c] # <<>> /\ toClient' = [toClient EXCEPT ![c] = Tail(@)]
             /\ \/ UNCHANGED step
                \/ /\ Head(toClient[c]) = [of |-> t, pos |-> step[t] + 1]
                   /\ step' = [step EXCEPT ![t] = @ + 1]
      BY <2>2 DEF Receives
    <3>2. /\ \E j \in DOMAIN toClient[c] : Head(toClient[c]) = toClient[c][j]
          /\ \A i \in DOMAIN Tail(toClient[c]) :
                \E j \in DOMAIN toClient[c] : Tail(toClient[c])[i] = toClient[c][j]
      BY <1>0, <3>1, TailPos
    <3>3. \A d \in Threads : \A i \in DOMAIN toClient'[d] :
             \E j \in DOMAIN toClient[d] : toClient'[d][i] = toClient[d][j]
      BY <1>0, <3>1, <3>2
    <3>4. \A d \in Threads : \A i \in DOMAIN toClient'[d] :
             toClient'[d][i].pos = 6 => StillAnswered(d, toClient'[d][i].of)
      BY <1>1, <3>3
    <3>5. ASSUME NEW u \in Threads, step'[u] = 6 PROVE \E d \in Threads : StillAnswered(d, u)
      <4>1. CASE step[u] = 6
        BY <1>1, <4>1
      <4>2. CASE step[u] # 6
        <5>1. u = t /\ Head(toClient[c]) = [of |-> t, pos |-> 6]
          BY <1>0, <3>1, <3>5, <4>2
        <5>2. [of |-> t, pos |-> 6].pos = 6 /\ [of |-> t, pos |-> 6].of = t
          OBVIOUS
        <5> QED BY <1>1, <3>2, <5>1, <5>2
      <4> QED BY <4>1, <4>2
    <3> QED BY <3>4, <3>5 DEF AnswersInv, Answered, StillAnswered
  <2> QED BY <1>3, <2>1, <2>2, ThreadWires
<1>4. CASE ServerTurn
  <2> DEFINE rec == Head(toServer[conn])
             reply == [rec EXCEPT !.pos = @ + 1]
  <2>1. /\ conn \in Threads /\ rec.pos \in {1, 3, 5}
        /\ reply \in Records /\ reply.of = rec.of /\ reply.pos = rec.pos + 1
    BY <1>4, ServerTakes
  <2>2. UNCHANGED step
    BY <1>4 DEF ServerTurn, threadVars
  <2>3. CASE UNCHANGED toClient
    BY <1>2, <2>2, <2>3
  <2>4. CASE /\ Expected(rec)
             /\ session' = [session EXCEPT ![conn] = rec.of]
             /\ toClient' = [toClient EXCEPT ![conn] = Append(@, reply)]
             /\ IF turn[conn] + 2 = SessionRecords THEN End("answered")
                ELSE UNCHANGED <<ended, conn>>
    <3>1. \A i \in DOMAIN Append(toClient[conn], reply) :
             \/ Append(toClient[conn], reply)[i] = reply
             \/ \E j \in DOMAIN toClient[conn] :
                   Append(toClient[conn], reply)[i] = toClient[conn][j]
      BY <1>0, <2>1, AppendPos
    <3>2. reply.pos = 6 => StillAnswered(conn, reply.of)
      <4>1. reply.pos = 6 => turn[conn] + 2 = SessionRecords
        BY <2>1, <2>4 DEF Expected, SessionRecords, WireInv, ServerTypes
      <4>2. /\ session \in [Threads -> Threads \cup {None}]
            /\ ended \in [Threads -> {"open", "answered", "refused", "timedOut"}]
        BY DEF WireInv, ServerTypes
      <4>3. reply.pos = 6 => session'[conn] = rec.of /\ ended'[conn] = "answered"
        BY <2>1, <2>4, <4>1, <4>2 DEF End
      <4> QED BY <2>1, <4>3 DEF StillAnswered
    <3> HIDE DEF reply
    <3>3. \A d \in Threads : \A i \in DOMAIN toClient'[d] :
             toClient'[d][i].pos = 6 => StillAnswered(d, toClient'[d][i].of)
      BY <1>0, <1>1, <2>1, <2>4, <3>1, <3>2
    <3> QED BY <1>1, <2>2, <3>3 DEF AnswersInv, Answered, StillAnswered
  <2> QED BY <1>4, <2>3, <2>4 DEF ServerTurn
<1>5. CASE Accept \/ ClientLost \/ TimeOut \/ JNI_OnLoad \/ UNCHANGED vars
  BY <1>2, <1>5 DEF Accept, ClientLost, TimeOut, JNI_OnLoad, threadVars, wireVars, vars
<1> QED BY <1>3, <1>4, <1>5 DEF Next, ThreadStep, ServerStep

-----------------------------------------------------------------------------

Inv == ThreadsInv /\ WireInv /\ QueueInv /\ AnswersInv

LEMMA InitInv == Init => Inv
<1> SUFFICES ASSUME Init PROVE Inv
  OBVIOUS
<1>1. \A c \in Threads : toServer[c] = <<>> /\ toClient[c] = <<>> /\ step[c] = 0
  BY DEF Init
<1>2. \A S : <<>> \in Seq(S) /\ DOMAIN <<>> = {}
  BY EmptySeq, LenProperties
<1>3. WireInv
  <2>1. WireTypes
    BY <1>2 DEF Init, WireTypes
  <2>2. ServerTypes
    BY DEF Init, ServerTypes, SessionRecords
  <2> QED BY <1>1, <1>2, <2>1, <2>2 DEF WireInv
<1>4. QueueInv
  BY <1>2, NativeLibAssumption DEF Init, QueueInv, Queued
<1>5. AnswersInv
  BY <1>1, <1>2 DEF AnswersInv
<1> QED BY <1>3, <1>4, <1>5, InitThreadsInv DEF Inv

LEMMA InvAlways == Spec => []Inv
<1>1. Inv /\ [Next]_vars => Inv'
  BY ThreadsInvStep, WireStep, QueueStep, AnswersStep DEF Inv
<1> QED BY <1>1, InitInv, PTL DEF Spec

(* Every variable keeps its type, whatever the threads do to one another:  *)
(* no session has more records than its six, and no reference is made that *)
(* is not a stream's, a global's or the library's.                         *)
THEOREM TypeCorrect == Spec => []TypeOK
<1>1. Inv => TypeOK
  BY DEF Inv, ThreadsInv, ThreadTypes, GlobalTypes, WireInv, WireTypes,
         ServerTypes, Places, TypeOK
<1> QED BY <1>1, InvAlways, PTL

(* For any number of calls, in whatever order their steps come: the global *)
(* references in use are live, a stream's are released once, and those of  *)
(* the two globals are left behind by each call.                           *)
THEOREM Held == Spec => []ReferencesHeld
<1>1. Inv => ReferencesHeld
  <2> SUFFICES ASSUME Inv PROVE ReferencesHeld
    OBVIOUS
  <2>0. /\ refs \subseteq References /\ None \notin Threads
        /\ \A t \in Threads : Owns(t) /\ at[t] \in Places
    BY NativeLibAssumption DEF Inv, ThreadsInv, GlobalTypes, ThreadTypes, Local
  <2>1. ASSUME NEW t \in Threads, at[t] \notin {"start", "enter"}
        PROVE  <<t, "inputStream">> \in refs
    BY <2>0, <2>1 DEF Places, Owns, Holds, Kinds, Globals
  <2>2. ASSUME NEW t \in Threads, at[t] \notin {"start", "enter", "output"}
        PROVE  <<t, "outputStream">> \in refs
    BY <2>0, <2>2 DEF Places, Owns, Holds, Kinds, Globals
  <2>3. /\ inputStreamGref # None => <<inputStreamGref, "inputStream">> \in refs
        /\ outputStreamGref # None => <<outputStreamGref, "outputStream">> \in refs
    BY <2>1, <2>2 DEF Inv, ThreadsInv, GlobalsSet, GlobalTypes
  <2>4. ASSUME NEW t \in Threads, at[t] \in {"handshake", "write", "read", "dispose"}
        PROVE  {t} \X StreamKinds \subseteq refs
    BY <2>0, <2>4, KindsMatter DEF Owns, Holds
  <2>5. ASSUME NEW t \in Threads, at[t] = "returned"
        PROVE  {r \in refs : r[1] = t} = {t} \X Globals
    <3>1. \A k \in Kinds : <<t, k>> \in refs <=> k \in Globals
      BY <2>0, <2>5 DEF Owns, Holds
    <3>2. \A r \in refs : r[1] = t => \E k \in Kinds : r = <<t, k>>
      BY <2>0 DEF References, Kinds, Globals
    <3> QED BY <3>1, <3>2, KindsMatter
  <2> QED BY <2>3, <2>4, <2>5 DEF ReferencesHeld, Globals
<1> QED BY <1>1, InvAlways, PTL

(* However many threads cross their streams: a call that got its answer    *)
(* was alone on some connection, and the server took its whole message.    *)
THEOREM AnsweredBefore == Spec => []ReturnedWereAnswered
<1>1. Inv => ReturnedWereAnswered
  BY DEF Inv, ThreadsInv, Local, Done, AnswersInv, Answered, ReturnedWereAnswered
<1> QED BY <1>1, InvAlways, PTL

-----------------------------------------------------------------------------
(* Streams that use each other's sockets.  The threads that have set the   *)
(* output are ranked in that order, and a record, and with it the session  *)
(* that the server opens for it, goes to its own socket or to one set      *)
(* later.  A record that strayed leaves a trace that no later step removes.*)

Setter(c) == at[c] \notin {"start", "enter", "output"}
Sent(c, t, p) == \E i \in DOMAIN toServer[c] : toServer[c][i] = [of |-> t, pos |-> p]
Got(c, t) == \E i \in DOMAIN toClient[c] : toClient[c][i].of = t

Reaches(rank, c, t) == Setter(t) /\ Setter(c) /\ rank[t] <= rank[c]

Ranked(rank) ==
    /\ \A c, d \in Threads : Setter(c) /\ Setter(d) /\ c # d => rank[c] # rank[d]
    /\ \A c \in Threads : Setter(c) => rank[c] <= rank[outputStreamGref]
    /\ \A c, t \in Threads :
          /\ \A p \in Nat : Sent(c, t, p) => Reaches(rank, c, t)
          /\ session[c] = t => Reaches(rank, c, t)

RankInv == \E rank \in [Threads -> Nat] : Ranked(rank)

(* A session is never ahead of the stream whose records it takes.          *)
SessionsInv ==
    /\ \A c, t \in Threads :
          /\ \A p \in Nat : Sent(c, t, p) => p <= step[t]
          /\ Got(c, t) => session[c] = t
          /\ session[c] = t => turn[c] \in {2, 4, 6} /\ turn[c] - 1 <= step[t]
    /\ \A c \in Threads :
          /\ session[c] = None => turn[c] = 0
          /\ ended[c] = "answered" => turn[c] = 6

(* The traces: an abort, a record gone elsewhere, a read of another's      *)
(* socket, a session on one.                                               *)
Elsewhere(t, k) == k <= step[t] /\ ~Sent(t, t, k) /\ ~(session[t] = t /\ turn[t] >= k)

Strayed ==
    \/ lib = "aborted" /\ \E t \in Threads : at[t] # "returned"
    \/ \E t \in Threads, k \in {1, 3, 5} : Elsewhere(t, k)
    \/ \E t \in Threads : reading[t] \notin {None, t}
    \/ \E s, t \in Threads : s # t /\ session[s] = t

CrossedInv == crossed => Strayed

(* What a step of a thread does to records in flight.                      *)
LEMMA AppendedRecord ==
    ASSUME NEW s \in Seq(Records), NEW r \in Records,
           NEW i \in DOMAIN Append(s, r)
    PROVE  Append(s, r)[i] = r \/ \E j \in DOMAIN s : Append(s, r)[i] = s[j]
BY AppendPos

LEMMA ThreadRecords ==
    ASSUME ThreadsInv, WireInv, NEW t \in Threads, ThreadStep(t)
    PROVE  /\ \A c, u \in Threads : Got(c, u)' => Got(c, u)
           /\ \A c, u \in Threads : \A p \in Nat : Sent(c, u, p)' =>
                 \/ Sent(c, u, p)
                 \/ /\ c = outputStreamGref /\ u = t /\ Setter(t)
                    /\ p = step[t] + 1 /\ step'[t] = p
           /\ \A u \in Threads : step'[u] \in Nat /\ step[u] \in Nat /\ step[u] <= step'[u]
           /\ UNCHANGED <<session, turn, ended>>
<1>0. /\ step \in [Threads -> 0..SessionRecords] /\ SessionRecords = 6
      /\ toServer \in [Threads -> Seq(Records)] /\ toClient \in [Threads -> Seq(Records)]
  BY DEF ThreadsInv, ThreadTypes, WireInv, WireTypes, SessionRecords
<1>1. UNCHANGED <<session, turn, ended>>
  BY ThreadWires DEF serverVars
<1>a. \A u \in Threads : step[u] \in Nat
  BY DEF ThreadsInv, ThreadTypes, SessionRecords
<1>2. CASE UNCHANGED <<toServer, toClient, step>>
  <2>1. \A u \in Threads : step'[u] = step[u] /\ step[u] <= step[u]
    BY <1>a, <1>2
  <2>2. \A c, u \in Threads : (Got(c, u)' => Got(c, u)) /\ \A p \in Nat : Sent(c, u, p)' => Sent(c, u, p)
    BY <1>2 DEF Got, Sent
  <2> QED BY <1>a, <1>1, <2>1, <2>2
<1>3. CASE Wrap(t) \/ Write(t)
  <2>1. /\ outputStreamGref \in Threads /\ step[t] \in {0, 2, 4} /\ Setter(t)
    BY <1>3 DEF Wrap, Write, Runs, ThreadsInv, GlobalsSet, GlobalTypes, Local, Done, Setter
  <2>2. PICK r \in Records : r = [of |-> t, pos |-> step[t] + 1]
    <3>1. step[t] + 1 \in 1..6
      BY <2>1
    <3>2. [of |-> t, pos |-> step[t] + 1] \in Records
      BY <3>1 DEF Records, SessionRecords
    <3> QED BY <3>2
  <2>3. /\ UNCHANGED toClient
        /\ \/ /\ toServer' = [toServer EXCEPT ![outputStreamGref] = Append(@, r)]
              /\ step' = [step EXCEPT ![t] = @ + 1]
           \/ UNCHANGED <<toServer, step>>
    BY <1>3, <2>2 DEF Wrap, Write, onInnerStreamWrite
  <2>4. CASE /\ toServer' = [toServer EXCEPT ![outputStreamGref] = Append(@, r)]
             /\ step' = [step EXCEPT ![t] = @ + 1]
    <3>1. ASSUME NEW c \in Threads, NEW u \in Threads, NEW p \in Nat, Sent(c, u, p)', ~Sent(c, u, p)
          PROVE  c = outputStreamGref /\ [of |-> u, pos |-> p] = r
      <4>1. c = outputStreamGref
        BY <1>0, <2>4, <3>1 DEF Sent
      <4>2. toServer'[c] = Append(toServer[c], r) /\ toServer[c] \in Seq(Records)
        BY <1>0, <2>4, <4>1
      <4>3. PICK i \in DOMAIN toServer'[c] : toServer'[c][i] = [of |-> u, pos |-> p]
        BY <3>1 DEF Sent
      <4>4. ~\E j \in DOMAIN toServer[c] : toServer'[c][i] = toServer[c][j]
        BY <3>1, <4>3 DEF Sent
      <4>5. toServer'[c][i] = r
        BY <4>2, <4>3, <4>4, AppendedRecord
      <4> QED BY <4>1, <4>3, <4>5
    <3>2. step'[t] = step[t] + 1
      BY <1>0, <2>4
    <3>3. ASSUME NEW c \in Threads, NEW u \in Threads, NEW p \in Nat, Sent(c, u, p)', ~Sent(c, u, p)
          PROVE  c = outputStreamGref /\ u = t /\ p = step[t] + 1
      <4>1. c = outputStreamGref /\ [of |-> u, pos |-> p] = [of |-> t, pos |-> step[t] + 1]
        BY <2>2, <3>1, <3>3
      <4>2. /\ [of |-> u, pos |-> p].of = u /\ [of |-> u, pos |-> p].pos = p
            /\ [of |-> t, pos |-> step[t] + 1].of = t
            /\ [of |-> t, pos |-> step[t] + 1].pos = step[t] + 1
        OBVIOUS
      <4> QED BY <4>1, <4>2
    <3>4. \A c, u \in Threads : Got(c, u)' => Got(c, u)
      BY <2>3 DEF Got
    <3>5. \A u \in Threads : step'[u] \in Nat /\ step[u] \in Nat /\ step[u] <= step'[u]
      <4>1. \A u \in Threads : step'[u] = IF u = t THEN step[u] + 1 ELSE step[u]
        BY <1>0, <2>4
      <4> QED BY <1>a, <4>1
    <3> QED BY <1>1, <2>1, <3>2, <3>3, <3>4, <3>5
  <2> QED BY <1>2, <2>3, <2>4
<1>4. CASE ReadReturns(t)
  <2>1. PICK c \in Threads :
           /\ toClient[c] # <<>> /\ toClient' = [toClient EXCEPT ![c] = Tail(@)]
           /\ UNCHANGED toServer
           /\ UNCHANGED step \/ step' = [step EXCEPT ![t] = @ + 1]
    BY <1>4 DEF ReadReturns, ThreadsInv, ThreadTypes
  <2>2. \A i \in DOMAIN Tail(toClient[c]) :
           \E j \in DOMAIN toClient[c] : Tail(toClient[c])[i] = toClient[c][j]
    BY <1>0, <2>1, TailPos
  <2>3. \A d, u \in Threads : Got(d, u)' => Got(d, u)
    BY <1>0, <2>1, <2>2 DEF Got
  <2>4. \A d, u \in Threads : \A p \in Nat : Sent(d, u, p)' => Sent(d, u, p)
    BY <2>1 DEF Sent
  <2>5. \A u \in Threads : step'[u] \in Nat /\ step[u] \in Nat /\ step[u] <= step'[u]
    <3>1. \A u \in Threads : step'[u] = step[u] \/ step'[u] = step[u] + 1
      BY <1>0, <2>1
    <3> QED BY <1>a, <3>1
  <2> QED BY <1>1, <2>3, <2>4, <2>5
<1>5. CASE ~(Wrap(t) \/ Write(t) \/ ReadReturns(t))
  BY <1>2, <1>5 DEF ThreadStep, NativeStep, Connect, SetInput, SetOutput, Create, Unwrap,
                    Created, Read, ReadDone, Dispose, Leave, ReadFails, wireVars, threadVars
<1> QED BY <1>3, <1>4, <1>5

(* What a step of the server does to them, and to the sessions.            *)
Progress(c, s) ==
    /\ Sent(c, s, turn[c] + 1) /\ turn[c] + 1 \in {1, 3, 5}
    /\ session[c] \in {None, s} /\ session'[c] = s
    /\ turn'[c] = turn[c] + 2 /\ ended[c] = "open"

LEMMA ServerRecords ==
    ASSUME ThreadsInv, WireInv, QueueInv, ServerStep
    PROVE  /\ \A c, u \in Threads : Got(c, u)' => Got(c, u) \/ session'[c] = u
           /\ \A c, u \in Threads : \A p \in Nat : Sent(c, u, p)' => Sent(c, u, p)
           /\ \A c \in Threads :
                 /\ \/ session'[c] = session[c] /\ turn'[c] = turn[c]
                    \/ \E s \in Threads : Progress(c, s)
                 /\ ended'[c] = "answered" => ended[c] = "answered" \/ turn'[c] = 6
           /\ UNCHANGED <<at, step, reading, crossed, lib, outputStreamGref>>
<1>0. /\ toServer \in [Threads -> Seq(Records)] /\ toClient \in [Threads -> Seq(Records)]
      /\ session \in [Threads -> Threads \cup {None}]
      /\ turn \in [Threads -> 0..6] /\ \A c \in Threads : turn[c] \in 0..6
      /\ ended \in [Threads -> {"open", "answered", "refused", "timedOut"}]
  BY DEF WireInv, WireTypes, ServerTypes, SessionRecords
<1>1. UNCHANGED <<at, step, reading, crossed, lib, outputStreamGref>>
  BY DEF ServerStep, Accept, ServerTurn, ClientLost, TimeOut, threadVars, globalVars
<1>2. CASE Accept
  BY <1>1, <1>2 DEF Accept, Got, Sent
<1>3. CASE ClientLost \/ TimeOut
  <2>1. /\ UNCHANGED <<toServer, toClient, session, turn>>
        /\ \E how \in {"refused", "timedOut"} : ended' = [ended EXCEPT ![conn] = how]
    BY <1>3 DEF ClientLost, TimeOut, End, wireVars
  <2>2. \A c \in Threads : ended'[c] = "answered" => ended[c] = "answered"
    BY <1>0, <2>1
  <2> QED BY <1>1, <2>1, <2>2 DEF Got, Sent
<1>4. CASE ServerTurn
  <2>0. PICK rec \in Records : rec = Head(toServer[conn])
    BY <1>4, ServerTakes
  <2>1. /\ conn \in Threads /\ toServer[conn] # <<>>
        /\ rec.pos \in {1, 3, 5} /\ rec.of \in Threads
    BY <1>4, <2>0, ServerTakes DEF Records
  <2>2. PICK reply \in Records :
           reply.of = rec.of /\ reply = [rec EXCEPT !.pos = @ + 1]
    BY <1>4, <2>0, ServerTakes
  <2>3. Sent(conn, rec.of, rec.pos)
    <3>1. rec = [of |-> rec.of, pos |-> rec.pos]
      BY <2>0 DEF Records
    <3>2. \E j \in DOMAIN toServer[conn] : rec = toServer[conn][j]
      BY <1>0, <2>0, <2>1, TailPos
    <3> QED BY <3>1, <3>2 DEF Sent
  <2>4. ended[conn] = "open"
    BY <2>1 DEF QueueInv
  <2>5. /\ \/ /\ Expected(rec)
              /\ session' = [session EXCEPT ![conn] = rec.of]
              /\ turn' = [turn EXCEPT ![conn] = @ + 2]
              /\ toClient' = [toClient EXCEPT ![conn] = Append(@, reply)]
              /\ \/ turn[conn] + 2 = 6 /\ ended' = [ended EXCEPT ![conn] = "answered"]
                 \/ UNCHANGED ended
           \/ /\ ended' = [ended EXCEPT ![conn] = "refused"]
              /\ UNCHANGED <<session, turn, toClient>>
        /\ toServer' = [toServer EXCEPT ![conn] = Tail(@)]
    BY <1>4, <2>0, <2>2 DEF ServerTurn, End, SessionRecords
  <2>6. \A c, u \in Threads : \A p \in Nat : Sent(c, u, p)' => Sent(c, u, p)
    <3>1. \A i \in DOMAIN Tail(toServer[conn]) :
             \E j \in DOMAIN toServer[conn] : Tail(toServer[conn])[i] = toServer[conn][j]
      BY <1>0, <2>1, TailPos
    <3> QED BY <1>0, <2>5, <3>1 DEF Sent
  <2>7. CASE /\ Expected(rec)
             /\ session' = [session EXCEPT ![conn] = rec.of]
             /\ turn' = [turn EXCEPT ![conn] = @ + 2]
             /\ toClient' = [toClient EXCEPT ![conn] = Append(@, reply)]
             /\ \/ turn[conn] + 2 = 6 /\ ended' = [ended EXCEPT ![conn] = "answered"]
                \/ UNCHANGED ended
    <3>1. rec.pos = turn[conn] + 1 /\ session[conn] \in {None, rec.of}
      BY <2>7 DEF Expected
    <3>2. \A c \in Threads : c # conn =>
             session'[c] = session[c] /\ turn'[c] = turn[c] /\ ended'[c] = ended[c]
      BY <1>0, <2>7
    <3>3. session'[conn] = rec.of /\ turn'[conn] = turn[conn] + 2
      BY <1>0, <2>1, <2>7
    <3>4. Progress(conn, rec.of)
      BY <2>1, <2>3, <2>4, <3>1, <3>3 DEF Progress
    <3>5. ended'[conn] = "answered" => turn'[conn] = 6
      BY <1>0, <2>1, <2>4, <2>7, <3>3
    <3>6. \A c, u \in Threads : Got(c, u)' => Got(c, u) \/ session'[c] = u
      <4>1. \A c \in Threads : c # conn => toClient'[c] = toClient[c]
        BY <1>0, <2>7
      <4>2. ASSUME NEW c \in Threads, NEW u \in Threads, c = conn, Got(c, u)'
            PROVE  Got(c, u) \/ session'[c] = u
        <5>1. toClient'[c] = Append(toClient[c], reply) /\ toClient[c] \in Seq(Records)
          BY <1>0, <2>1, <2>7, <4>2
        <5>2. PICK i \in DOMAIN toClient'[c] : toClient'[c][i].of = u
          BY <4>2 DEF Got
        <5>3. toClient'[c][i] = reply \/ \E j \in DOMAIN toClient[c] :
                 toClient'[c][i] = toClient[c][j]
          BY <5>1, <5>2, AppendedRecord
        <5> QED BY <2>2, <3>3, <4>2, <5>2, <5>3 DEF Got
      <4> QED BY <4>1, <4>2 DEF Got
    <3> QED BY <1>1, <2>1, <2>6, <3>2, <3>4, <3>5, <3>6
  <2>8. CASE ended' = [ended EXCEPT ![conn] = "refused"] /\ UNCHANGED <<session, turn, toClient>>
    <3>1. \A c \in Threads : ended'[c] = "answered" => ended[c] = "answered"
      BY <1>0, <2>8
    <3> QED BY <1>1, <2>6, <2>8, <3>1 DEF Got
  <2> QED BY <2>5, <2>7, <2>8
<1> QED BY <1>2, <1>3, <1>4 DEF ServerStep

(* The rank of a thread is given when it sets the output.                  *)
LEMMA RankStep ==
    ASSUME ThreadsInv, WireInv, QueueInv, RankInv, [Next]_vars
    PROVE  RankInv'
<1>0. /\ at \in [Threads -> Places] /\ None \notin Threads
      /\ \A c \in Threads : Setter(c) => outputStreamGref \in Threads /\ Setter(outputStreamGref)
  BY NativeLibAssumption DEF ThreadsInv, ThreadTypes, GlobalTypes, GlobalsSet, Setter
<1>1. PICK rank \in [Threads -> Nat] : Ranked(rank)
  BY DEF RankInv
<1>2. /\ \A c, d \in Threads : Setter(c) /\ Setter(d) /\ c # d => rank[c] # rank[d]
      /\ \A c \in Threads : Setter(c) => rank[c] <= rank[outputStreamGref]
      /\ \A c, t \in Threads : \A p \in Nat : Sent(c, t, p) => Reaches(rank, c, t)
      /\ \A c, t \in Threads : session[c] = t => Reaches(rank, c, t)
  BY <1>1 DEF Ranked
<1>3. ASSUME UNCHANGED outputStreamGref, \A c \in Threads : Setter(c)' = Setter(c),
             \A c, t \in Threads : \A p \in Nat : Sent(c, t, p)' =>
                Sent(c, t, p) \/ (c = outputStreamGref /\ Setter(t)),
             \A c, t \in Threads : session'[c] = t => session[c] = t \/ \E p \in Nat : Sent(c, t, p)
      PROVE  RankInv'
  <2>1. \A c, t \in Threads : Reaches(rank, c, t) => Reaches(rank, c, t)'
    BY <1>3 DEF Reaches
  <2>2. \A t \in Threads : Setter(t) => Reaches(rank, outputStreamGref, t)
    BY <1>0, <1>2 DEF Reaches
  <2>3. \A c, t \in Threads : \A p \in Nat : Sent(c, t, p)' => Reaches(rank, c, t)'
    BY <1>2, <1>3, <2>1, <2>2
  <2>4. \A c, t \in Threads : session'[c] = t => Reaches(rank, c, t)'
    BY <1>2, <1>3, <2>1
  <2>5. /\ \A c, d \in Threads : Setter(c)' /\ Setter(d)' /\ c # d => rank[c] # rank[d]
        /\ \A c \in Threads : Setter(c)' => rank[c] <= rank[outputStreamGref']
    BY <1>2, <1>3
  <2>6. Ranked(rank)'
    BY <2>3, <2>4, <2>5 DEF Ranked
  <2> QED BY <1>1, <2>6 DEF RankInv
<1>4. ASSUME NEW t \in Threads, ThreadStep(t) PROVE RankInv'
  <2>1. SetsGlobals(t)
    BY <1>4, ThreadGlobals
  <2>2. /\ \A c, u \in Threads : \A p \in Nat : Sent(c, u, p)' =>
              Sent(c, u, p) \/ (c = outputStreamGref /\ u = t /\ Setter(t))
        /\ UNCHANGED session
    BY <1>4, ThreadRecords
  <2>3. CASE ~(at[t] = "output" /\ at' = [at EXCEPT ![t] = "create"])
    <3>1. UNCHANGED outputStreamGref /\ \A c \in Threads : Setter(c)' = Setter(c)
      BY <1>0, <2>1, <2>3 DEF SetsGlobals, Setter
    <3> QED BY <1>3, <2>2, <3>1
  <2>4. CASE at[t] = "output" /\ at' = [at EXCEPT ![t] = "create"]
    <3>1. /\ outputStreamGref' = t /\ ~Setter(t)
          /\ \A c \in Threads : Setter(c)' <=> Setter(c) \/ c = t
      BY <1>0, <2>1, <2>4 DEF SetsGlobals, Setter
    <3>a. PICK top \in Nat : outputStreamGref \in Threads => top = rank[outputStreamGref] + 1
      <4>1. CASE outputStreamGref \in Threads
        <5>1. rank[outputStreamGref] + 1 \in Nat
          BY <1>1, <4>1
        <5> QED BY <5>1
      <4>2. CASE outputStreamGref \notin Threads
        <5>1. 0 \in Nat
          OBVIOUS
        <5> QED BY <4>2, <5>1
      <4> QED BY <4>1, <4>2
    <3>2. PICK new \in [Threads -> Nat] : new[t] = top /\ \A c \in Threads \ {t} : new[c] = rank[c]
      <4>1. [rank EXCEPT ![t] = top] \in [Threads -> Nat]
        BY <1>1, <3>a
      <4>2. /\ [rank EXCEPT ![t] = top][t] = top
            /\ \A c \in Threads \ {t} : [rank EXCEPT ![t] = top][c] = rank[c]
        BY <1>1
      <4> QED BY <4>1, <4>2
    <3>3. \A c \in Threads : Setter(c) => c # t /\ new[c] = rank[c] /\ rank[c] < top
      <4>1. ASSUME NEW c \in Threads, Setter(c) PROVE rank[c] < top
        <5>1. /\ outputStreamGref \in Threads /\ rank[c] <= rank[outputStreamGref]
              /\ rank[c] \in Nat /\ rank[outputStreamGref] \in Nat
          BY <1>0, <1>1, <1>2, <4>1
        <5> QED BY <3>a, <5>1
      <4> QED BY <3>1, <3>2, <4>1
    <3>4. top \in Nat
      BY <3>a
    <3>5. \A c, u \in Threads : Reaches(rank, c, u) => Reaches(new, c, u)'
      BY <3>1, <3>3 DEF Reaches
    <3>6. \A c, u \in Threads :
             /\ \A p \in Nat : Sent(c, u, p)' => Reaches(new, c, u)'
             /\ session'[c] = u => Reaches(new, c, u)'
      BY <1>2, <2>2, <3>1, <3>5
    <3>7. \A c, d \in Threads : Setter(c)' /\ Setter(d)' /\ c # d => new[c] # new[d]
      <4>1. ASSUME NEW c \in Threads, NEW d \in Threads, Setter(c)', Setter(d)', c # d
            PROVE  new[c] # new[d]
        <5>1. rank[c] \in Nat /\ rank[d] \in Nat
          BY <1>1
        <5>2. CASE c = t
          BY <3>1, <3>2, <3>3, <3>4, <4>1, <5>1, <5>2
        <5>3. CASE d = t
          BY <3>1, <3>2, <3>3, <3>4, <4>1, <5>1, <5>3
        <5>4. CASE c # t /\ d # t
          BY <1>2, <3>1, <3>3, <4>1, <5>4
        <5> QED BY <5>2, <5>3, <5>4
      <4> QED BY <4>1
    <3>8. \A c \in Threads : Setter(c)' => new[c] <= new[outputStreamGref']
      <4>1. ASSUME NEW c \in Threads, Setter(c)' PROVE new[c] <= top
        BY <1>1, <3>1, <3>2, <3>3, <3>4, <4>1
      <4> QED BY <3>1, <3>2, <4>1
    <3>9. Ranked(new)'
      BY <3>6, <3>7, <3>8 DEF Ranked
    <3> QED BY <3>2, <3>9 DEF RankInv
  <2> QED BY <2>3, <2>4
<1>5. CASE ServerStep
  <2>1. /\ UNCHANGED <<at, outputStreamGref>>
        /\ \A c, u \in Threads : \A p \in Nat : Sent(c, u, p)' => Sent(c, u, p)
        /\ \A c \in Threads : session'[c] = session[c] \/ \E s \in Threads : Progress(c, s)
    BY <1>5, ServerRecords
  <2>2. \A c, t \in Threads : session'[c] = t => session[c] = t \/ \E p \in Nat : Sent(c, t, p)
    BY <2>1 DEF Progress
  <2>3. \A c \in Threads : Setter(c)' = Setter(c)
    BY <2>1 DEF Setter
  <2> QED BY <1>3, <2>1, <2>2, <2>3
<1>6. CASE JNI_OnLoad \/ UNCHANGED vars
  <2>1. UNCHANGED <<at, outputStreamGref, toServer, session>>
    BY <1>6 DEF JNI_OnLoad, threadVars, serverVars, wireVars, vars, globalVars
  <2>2. /\ \A c \in Threads : Setter(c)' = Setter(c)
        /\ \A c, t \in Threads : \A p \in Nat : Sent(c, t, p)' => Sent(c, t, p)
    BY <2>1 DEF Setter, Sent
  <2> QED BY <1>3, <2>1, <2>2
<1> QED BY <1>4, <1>5, <1>6 DEF Next, ThreadStep

LEMMA SessionsStep ==
    ASSUME ThreadsInv, WireInv, QueueInv, SessionsInv, [Next]_vars
    PROVE  SessionsInv'
<1>0. /\ \A t \in Threads : step[t] \in Nat
      /\ \A c \in Threads : turn[c] \in Nat /\ session[c] \in Threads \cup {None}
      /\ None \notin Threads
  BY NativeLibAssumption
     DEF ThreadsInv, ThreadTypes, WireInv, ServerTypes, SessionRecords
<1>1. ASSUME NEW t \in Threads, ThreadStep(t) PROVE SessionsInv'
  <2>1. /\ \A c, u \in Threads : Got(c, u)' => Got(c, u)
        /\ \A c, u \in Threads : \A p \in Nat : Sent(c, u, p)' =>
              Sent(c, u, p) \/ (p <= step'[u])
        /\ \A u \in Threads : step'[u] \in Nat /\ step[u] <= step'[u]
        /\ UNCHANGED <<session, turn, ended>>
    BY <1>1, ThreadRecords
  <2>2. ASSUME NEW c \in Threads, NEW u \in Threads
        PROVE  /\ \A p \in Nat : Sent(c, u, p)' => p <= step'[u]
               /\ Got(c, u)' => session'[c] = u
               /\ session'[c] = u => turn'[c] \in {2, 4, 6} /\ turn'[c] - 1 <= step'[u]
    <3>1. \A p \in Nat : Sent(c, u, p)' => p <= step'[u]
      <4>1. \A p \in Nat : Sent(c, u, p) => p <= step[u]
        BY DEF SessionsInv
      <4>2. step[u] \in Nat /\ step'[u] \in Nat /\ step[u] <= step'[u]
        BY <1>0, <2>1
      <4> QED BY <2>1, <4>1, <4>2
    <3>2. Got(c, u)' => session'[c] = u
      BY <2>1 DEF SessionsInv
    <3>3. session'[c] = u => turn'[c] \in {2, 4, 6} /\ turn'[c] - 1 <= step'[u]
      <4>1. session[c] = u => turn[c] \in {2, 4, 6} /\ turn[c] - 1 <= step[u]
        BY DEF SessionsInv
      <4>2. /\ step[u] \in Nat /\ step'[u] \in Nat /\ step[u] <= step'[u]
            /\ session'[c] = session[c] /\ turn'[c] = turn[c]
        BY <1>0, <2>1
      <4> QED BY <4>1, <4>2
    <3> QED BY <3>1, <3>2, <3>3
  <2>3. \A c \in Threads : /\ session'[c] = None => turn'[c] = 0
                           /\ ended'[c] = "answered" => turn'[c] = 6
    BY <2>1 DEF SessionsInv
  <2> QED BY <2>2, <2>3 DEF SessionsInv
<1>2. CASE ServerStep
  <2>1. /\ \A c, u \in Threads : Got(c, u)' => Got(c, u) \/ session'[c] = u
        /\ \A c, u \in Threads : \A p \in Nat : Sent(c, u, p)' => Sent(c, u, p)
        /\ UNCHANGED step
    BY <1>2, ServerRecords
  <2>2. \A c \in Threads :
           /\ \/ session'[c] = session[c] /\ turn'[c] = turn[c]
              \/ \E s \in Threads : Progress(c, s)
           /\ ended'[c] = "answered" => ended[c] = "answered" \/ turn'[c] = 6
    BY <1>2, ServerRecords
  <2>3. ASSUME NEW c \in Threads
        PROVE  /\ \A u \in Threads : session[c] = u => session'[c] = u
               /\ \A u \in Threads : session'[c] = u =>
                     turn'[c] \in {2, 4, 6} /\ turn'[c] - 1 <= step[u]
               /\ session'[c] = None => turn'[c] = 0
               /\ ended'[c] = "answered" => turn'[c] = 6
    <3>1. CASE session'[c] = session[c] /\ turn'[c] = turn[c]
      BY <2>2, <3>1 DEF SessionsInv
    <3>2. ASSUME NEW s \in Threads, Progress(c, s)
          PROVE  /\ \A u \in Threads : session[c] = u => session'[c] = u
                 /\ \A u \in Threads : session'[c] = u =>
                       turn'[c] \in {2, 4, 6} /\ turn'[c] - 1 <= step[u]
                 /\ session'[c] # None
                 /\ ended'[c] = "answered" => turn'[c] = 6
      <4>1. /\ Sent(c, s, turn[c] + 1) /\ turn[c] + 1 \in {1, 3, 5}
            /\ session[c] \in {None, s} /\ session'[c] = s
            /\ turn'[c] = turn[c] + 2 /\ ended[c] = "open" /\ turn[c] \in Nat
        BY <1>0, <3>2 DEF Progress
      <4>2. turn[c] + 1 <= step[s]
        BY <4>1 DEF SessionsInv
      <4>3. ended'[c] = "answered" => turn'[c] = 6
        BY <2>2, <4>1
      <4>4. turn'[c] \in {2, 4, 6} /\ turn'[c] - 1 <= step[s]
        BY <4>1, <4>2
      <4>5. session'[c] # None /\ \A u \in Threads : session[c] = u => session'[c] = u
        BY <1>0, <4>1
      <4> QED BY <4>1, <4>3, <4>4, <4>5
    <3> QED BY <2>2, <3>1, <3>2
  <2>4. \A c, u \in Threads : Got(c, u)' => session'[c] = u
    BY <2>1, <2>3 DEF SessionsInv
  <2>5. \A c, u \in Threads : \A p \in Nat : Sent(c, u, p)' => p <= step'[u]
    BY <2>1 DEF SessionsInv
  <2> QED BY <2>1, <2>3, <2>4, <2>5 DEF SessionsInv
<1>3. CASE JNI_OnLoad \/ UNCHANGED vars
  <2>1. UNCHANGED <<step, toServer, toClient, session, turn, ended>>
    BY <1>3 DEF JNI_OnLoad, threadVars, serverVars, wireVars, vars
  <2> QED BY <2>1 DEF SessionsInv, Got, Sent
<1> QED BY <1>1, <1>2, <1>3 DEF Next, ThreadStep

(* A record that is gone elsewhere stays gone: what t sends later is of a  *)
(* later turn, and its own connection cannot come to that turn without it. *)
LEMMA ElsewhereStays ==
    ASSUME ThreadsInv, WireInv, QueueInv, SessionsInv, [Next]_vars,
           NEW t \in Threads, NEW k \in {1, 3, 5}, Elsewhere(t, k)
    PROVE  Elsewhere(t, k)'
<1>0. /\ step[t] \in Nat /\ turn[t] \in Nat /\ k <= step[t] /\ ~Sent(t, t, k)
      /\ ~(session[t] = t /\ turn[t] >= k) /\ None \notin Threads
  BY NativeLibAssumption
     DEF Elsewhere, ThreadsInv, ThreadTypes, WireInv, ServerTypes, SessionRecords
<1>1. ASSUME NEW u \in Threads, ThreadStep(u) PROVE Elsewhere(t, k)'
  <2>1. Sent(t, t, k)' => Sent(t, t, k) \/ k = step[t] + 1
    BY <1>1, ThreadRecords
  <2>2. step'[t] \in Nat /\ step[t] <= step'[t] /\ UNCHANGED <<session, turn>>
    BY <1>1, ThreadRecords
  <2>3. ~Sent(t, t, k)' /\ k <= step'[t]
    BY <1>0, <2>1, <2>2
  <2> QED BY <1>0, <2>2, <2>3 DEF Elsewhere
<1>2. CASE ServerStep
  <2>1. /\ Sent(t, t, k)' => Sent(t, t, k)
        /\ \/ session'[t] = session[t] /\ turn'[t] = turn[t]
           \/ \E s \in Threads : Progress(t, s)
        /\ UNCHANGED step
    BY <1>2, ServerRecords
  <2>2. ASSUME Progress(t, t), turn'[t] >= k PROVE FALSE
    <3>1. /\ Sent(t, t, turn[t] + 1) /\ turn[t] + 1 \in {1, 3, 5}
          /\ session[t] \in {None, t} /\ turn'[t] = turn[t] + 2
      BY <2>2 DEF Progress
    <3>2. turn[t] < k
      BY <1>0, <3>1 DEF SessionsInv
    <3>3. turn[t] + 1 = k
      BY <1>0, <2>2, <3>1, <3>2
    <3> QED BY <1>0, <3>1, <3>3
  <2>3. ~(session'[t] = t /\ turn'[t] >= k)
    BY <1>0, <2>1, <2>2 DEF Progress
  <2> QED BY <1>0, <2>1, <2>3 DEF Elsewhere
<1>3. CASE JNI_OnLoad \/ UNCHANGED vars
  <2>1. UNCHANGED <<step, toServer, session, turn>>
    BY <1>3 DEF JNI_OnLoad, threadVars, serverVars, wireVars, vars
  <2> QED BY <2>1 DEF Elsewhere, Sent
<1> QED BY <1>1, <1>2, <1>3 DEF Next, ThreadStep

LEMMA StrayedStays ==
    ASSUME ThreadsInv, WireInv, QueueInv, SessionsInv, [Next]_vars, Strayed
    PROVE  Strayed'
<1>0. /\ at \in [Threads -> Places] /\ reading \in [Threads -> Threads \cup {None}]
      /\ None \notin Threads
  BY NativeLibAssumption DEF ThreadsInv, ThreadTypes
<1>1. CASE lib = "aborted" /\ \E t \in Threads : at[t] # "returned"
  <2>1. \A t \in Threads : ~ThreadStep(t)
    BY <1>1, ThreadGlobals DEF SetsGlobals
  <2>2. UNCHANGED <<lib, at>>
    BY <1>1, <2>1, ServerRecords DEF Next, ThreadStep, JNI_OnLoad, vars, globalVars, threadVars
  <2> QED BY <1>1, <2>2 DEF Strayed
<1>2. CASE \E t \in Threads, k \in {1, 3, 5} : Elsewhere(t, k)
  BY <1>2, ElsewhereStays DEF Strayed
<1>3. ASSUME NEW t \in Threads, reading[t] \notin {None, t} PROVE Strayed'
  <2>1. CASE reading'[t] = reading[t]
    BY <1>3, <2>1 DEF Strayed
  <2>2. CASE reading'[t] # reading[t]
    <3>1. ReadReturns(t)
      <4>1. ASSUME NEW u \in Threads, ThreadStep(u) PROVE ThreadStep(t)
        <5>1. CASE u # t
          BY <2>2, <4>1, <5>1, LocalMoves DEF Moves, Keeps
        <5> QED BY <4>1, <5>1
      <4>2. ThreadStep(t)
        BY <2>2, <4>1, ServerRecords DEF Next, ThreadStep, JNI_OnLoad, vars, threadVars
      <4> QED BY <1>3, <2>2, <4>2
           DEF ThreadStep, NativeStep, Connect, SetInput, SetOutput, Create, Wrap, Unwrap,
               Created, Write, Read, ReadDone, Dispose, Leave, Runs, ReadFails, threadVars
    <3>2. PICK c \in Threads : c = reading[t] /\ c # t
      BY <1>0, <1>3
    <3>3. toClient[c] # <<>> /\ Head(toClient[c]) = [of |-> t, pos |-> step[t] + 1]
      BY <2>2, <3>1, <3>2 DEF ReadReturns
    <3>4. Got(c, t)
      <4>1. toClient[c] \in Seq(Records)
        BY DEF WireInv, WireTypes
      <4>2. \E j \in DOMAIN toClient[c] : toClient[c][j] = [of |-> t, pos |-> step[t] + 1]
        BY <3>3, <4>1, TailPos
      <4> QED BY <4>2 DEF Got
    <3>5. session[c] = t /\ session' = session
      BY <3>1, <3>4 DEF SessionsInv, ReadReturns, serverVars
    <3> QED BY <3>2, <3>5 DEF Strayed
  <2> QED BY <2>1, <2>2
<1>4. ASSUME NEW s \in Threads, NEW t \in Threads, s # t, session[s] = t PROVE Strayed'
  <2>1. session'[s] = session[s]
    <3>1. CASE ServerStep
      <4>1. session'[s] = session[s] \/ \E u \in Threads : Progress(s, u)
        BY <3>1, ServerRecords
      <4> QED BY <1>0, <1>4, <4>1 DEF Progress
    <3>2. ASSUME NEW u \in Threads, ThreadStep(u) PROVE session' = session
      BY <3>2, ThreadRecords
    <3>3. CASE JNI_OnLoad \/ UNCHANGED vars
      BY <3>3 DEF JNI_OnLoad, serverVars, vars
    <3> QED BY <3>1, <3>2, <3>3 DEF Next, ThreadStep
  <2> QED BY <1>4, <2>1 DEF Strayed
<1> QED BY <1>1, <1>2, <1>3, <1>4 DEF Strayed

(* A thread that uses another's socket leaves a trace at once.             *)
LEMMA CrossingStrays ==
    ASSUME ThreadsInv, WireInv, QueueInv, SessionsInv, NEW t \in Threads, ThreadStep(t),
           crossed', ~crossed
    PROVE  Strayed'
<1>0. /\ at \in [Threads -> Places] /\ None \notin Threads
      /\ reading \in [Threads -> Threads \cup {None}]
      /\ step \in [Threads -> 0..6] /\ step[t] \in Nat /\ turn[t] \in Nat
      /\ toServer \in [Threads -> Seq(Records)]
  <2>1. step \in [Threads -> 0..6] /\ turn \in [Threads -> 0..6]
    BY DEF ThreadsInv, ThreadTypes, WireInv, ServerTypes, SessionRecords
  <2>2. step[t] \in Nat /\ turn[t] \in Nat
    BY <2>1
  <2> QED BY <2>1, <2>2, NativeLibAssumption
       DEF ThreadsInv, ThreadTypes, WireInv, WireTypes
<1>1. CASE Wrap(t) \/ Write(t)
  <2>1. /\ outputStreamGref \in Threads /\ outputStreamGref # t
        /\ step[t] \in {0, 2, 4} /\ at'[t] # "returned" /\ UNCHANGED <<session, turn>>
    <3>1. /\ outputStreamGref \in Threads /\ step[t] \in {0, 2, 4}
      BY <1>1 DEF Wrap, Write, Runs, ThreadsInv, GlobalsSet, GlobalTypes, Local, Done
    <3>2. outputStreamGref # t
      BY <1>1 DEF Wrap, Write, onInnerStreamWrite, Crosses
    <3>3. at'[t] # "returned"
      BY <1>0, <1>1 DEF Wrap, Write, Runs, Goto
    <3>4. UNCHANGED <<session, turn>>
      BY <1>1, ThreadRecords DEF ThreadStep, NativeStep
    <3> QED BY <3>1, <3>2, <3>3, <3>4
  <2>2. CASE Abort
    BY <2>1, <2>2 DEF Abort, Strayed
  <2>3. CASE step' = [step EXCEPT ![t] = @ + 1]
    <3>1. PICK k \in {1, 3, 5} : k = step[t] + 1
      BY <2>1
    <3>2. step'[t] = k
      BY <1>0, <2>3, <3>1
    <3>3. ~Sent(t, t, k)'
      <4>1. ~Sent(t, t, k)
        BY <1>0, <3>1 DEF SessionsInv
      <4>2. toServer'[t] = toServer[t]
        BY <1>0, <1>1, <2>1 DEF Wrap, Write, onInnerStreamWrite
      <4> QED BY <4>1, <4>2 DEF Sent
    <3>4. session[t] = t => turn[t] < k
      <4>1. session[t] = t => turn[t] \in {2, 4, 6} /\ turn[t] - 1 <= step[t]
        BY DEF SessionsInv
      <4> QED BY <2>1, <3>1, <4>1
    <3>5. Elsewhere(t, k)'
      BY <1>0, <2>1, <3>1, <3>2, <3>3, <3>4 DEF Elsewhere
    <3> QED BY <3>5 DEF Strayed
  <2> QED BY <1>1, <2>2, <2>3 DEF Wrap, Write, onInnerStreamWrite
<1>2. CASE Unwrap(t) \/ Read(t)
  <2>1. /\ inputStreamGref \in Threads
    BY <1>2 DEF Unwrap, Read, Runs, ThreadsInv, GlobalsSet, GlobalTypes, Local, Done
  <2>2. inputStreamGref # t /\ reading' = [reading EXCEPT ![t] = inputStreamGref]
    BY <1>2 DEF Unwrap, Read, onInnerStreamRead, Crosses
  <2>3. reading'[t] \notin {None, t}
    BY <1>0, <2>1, <2>2
  <2> QED BY <2>3 DEF Strayed
<1>3. CASE ~(Wrap(t) \/ Write(t) \/ Unwrap(t) \/ Read(t))
  <2>1. crossed' = crossed
    BY <1>3 DEF ThreadStep, NativeStep, Connect, SetInput, SetOutput, Create, Created,
                ReadDone, Dispose, Leave, ReadReturns, ReadFails, threadVars
  <2> QED BY <2>1
<1> QED BY <1>1, <1>2, <1>3

CrossInv == RankInv /\ SessionsInv /\ CrossedInv

LEMMA CrossStep == Inv /\ CrossInv /\ [Next]_vars => CrossInv'
<1> SUFFICES ASSUME Inv, CrossInv, [Next]_vars PROVE CrossInv'
  OBVIOUS
<1>1. ThreadsInv /\ WireInv /\ QueueInv /\ RankInv /\ SessionsInv /\ CrossedInv
  BY DEF Inv, CrossInv
<1>2. RankInv' /\ SessionsInv'
  BY <1>1, RankStep, SessionsStep
<1>3. CASE Strayed
  BY <1>1, <1>2, <1>3, StrayedStays DEF CrossInv, CrossedInv
<1>4. CASE ~Strayed
  <2>1. ~crossed
    BY <1>1, <1>4 DEF CrossedInv
  <2>2. ASSUME crossed' PROVE \E t \in Threads : ThreadStep(t)
    BY <2>1, <2>2, <1>1, ServerRecords DEF Next, ThreadStep, JNI_OnLoad, threadVars, vars
  <2> QED BY <1>1, <1>2, <2>1, <2>2, CrossingStrays DEF CrossInv, CrossedInv
<1> QED BY <1>3, <1>4

LEMMA InitCross == Init => CrossInv
<1> SUFFICES ASSUME Init PROVE CrossInv
  OBVIOUS
<1>1. /\ None \notin Threads
      /\ \A c \in Threads : /\ ~Setter(c) /\ session[c] = None /\ turn[c] = 0
                            /\ ended[c] = "open" /\ toServer[c] = <<>> /\ toClient[c] = <<>>
  BY NativeLibAssumption DEF Init, Setter
<1>2. \A c, t \in Threads : /\ \A p \in Nat : ~Sent(c, t, p)
                            /\ ~Got(c, t) /\ session[c] # t
  <2>1. DOMAIN <<>> = {}
    BY EmptySeq, LenProperties
  <2> QED BY <1>1, <2>1 DEF Sent, Got
<1>3. RankInv
  <2>1. PICK rank \in [Threads -> Nat] : rank = [t \in Threads |-> 0]
    <3>1. [t \in Threads |-> 0] \in [Threads -> Nat]
      OBVIOUS
    <3> QED BY <3>1
  <2> QED BY <1>1, <1>2 DEF RankInv, Ranked
<1>4. SessionsInv
  BY <1>1, <1>2 DEF SessionsInv
<1>5. ~crossed
  BY DEF Init
<1> QED BY <1>3, <1>4, <1>5 DEF CrossInv, CrossedInv

(* A map of a bounded ranking into itself that loses nobody and ranks      *)
(* nobody lower is the identity.                                           *)
LEMMA NobodyHigher ==
    ASSUME NEW rank \in [Threads -> Nat], NEW n \in Nat, \A c \in Threads : rank[c] <= n,
           \A c, d \in Threads : c # d => rank[c] # rank[d],
           NEW f \in [Threads -> Threads], \A c, d \in Threads : f[c] = f[d] => c = d,
           \A t \in Threads : rank[t] <= rank[f[t]]
    PROVE  \A t \in Threads : f[t] = t
<1> DEFINE gap == [t \in Threads |-> n - rank[t]]
           gaps == {gap[t] : t \in {c \in Threads : f[c] # c}}
<1>1. ASSUME NEW t \in Threads
      PROVE  rank[t] \in Nat /\ gap[t] \in Nat /\ gap[t] = n - rank[t] /\ f[t] \in Threads
  <2>1. rank[t] \in Nat /\ rank[t] <= n /\ f[t] \in Threads
    OBVIOUS
  <2>2. n - rank[t] \in Nat
    BY <2>1
  <2> QED BY <2>1, <2>2
<1> HIDE DEF gap
<1> SUFFICES ASSUME NEW u \in Threads, f[u] # u PROVE FALSE
  OBVIOUS
<1>2. gaps # {}
  <2>1. gap[u] \in gaps
    OBVIOUS
  <2> QED BY <2>1
<1>3. gaps \subseteq Nat
  BY <1>1
<1>4. PICK least \in gaps : \A g \in gaps : ~(<<g, least>> \in OpToRel(<, Nat))
  BY <1>2, <1>3, NatLessThanWellFounded, WFMin
<1>5. PICK t \in Threads : f[t] # t /\ gap[t] = least
  BY <1>4
<1>6. rank[t] < rank[f[t]]
  BY <1>1, <1>5
<1>7. gap[f[t]] < least /\ gap[f[t]] \in Nat /\ least \in Nat
  BY <1>1, <1>5, <1>6
<1>8. f[f[t]] # f[t]
  BY <1>1, <1>5
<1>9. gap[f[t]] \in gaps
  BY <1>1, <1>8
<1>10. <<gap[f[t]], least>> \in OpToRel(<, Nat)
  BY <1>7 DEF OpToRel
<1> QED BY <1>4, <1>9, <1>10

(* If every call returns, each was answered on its own connection.         *)
LEMMA AllAnsweredAlone ==
    ASSUME Inv, CrossInv, \A t \in Threads : at[t] = "returned"
    PROVE  \A t \in Threads : Answered(t, t)
<1>1. /\ \A t \in Threads : \E c \in Threads : Answered(c, t)
      /\ \A t \in Threads : Setter(t)
  BY DEF Inv, ThreadsInv, Local, Done, AnswersInv, Setter
<1>2. PICK rank \in [Threads -> Nat] : Ranked(rank)
  BY DEF CrossInv, RankInv
<1> DEFINE f == [t \in Threads |-> CHOOSE c \in Threads : Answered(c, t)]
<1>3. \A t \in Threads : f[t] \in Threads /\ Answered(f[t], t)
  BY <1>1
<1>4. f \in [Threads -> Threads]
  BY <1>3
<1> HIDE DEF f
<1>5. \A c, d \in Threads : f[c] = f[d] => c = d
  BY <1>3 DEF Answered
<1>6. \A t \in Threads : rank[t] <= rank[f[t]]
  BY <1>2, <1>3 DEF Ranked, Answered, Reaches
<1>7. /\ \A c, d \in Threads : c # d => rank[c] # rank[d]
      /\ \A c \in Threads : rank[c] <= rank[outputStreamGref]
  BY <1>1, <1>2 DEF Ranked
<1>8. ASSUME NEW t \in Threads PROVE f[t] = t
  <2>1. outputStreamGref \in Threads
    BY <1>1 DEF Setter, Inv, ThreadsInv, GlobalsSet, GlobalTypes
  <2>2. PICK n \in Nat : n = rank[outputStreamGref]
    BY <1>2, <2>1
  <2> QED BY <1>2, <1>4, <1>5, <1>6, <1>7, <2>2, NobodyHigher
<1> QED BY <1>3, <1>8

(* The race on the two globals is never harmless, for any number of calls: *)
(* once a callback has used a socket that is not its caller's, the calls   *)
(* do not all return.  The records that strayed are missing on the         *)
(* connection they were meant for.                                         *)
THEOREM CrossingLosesACall == Spec => []CrossingCosts
<1>1. Inv /\ CrossInv => CrossingCosts
  <2> SUFFICES ASSUME Inv, CrossInv, crossed, \A t \in Threads : at[t] = "returned"
               PROVE  FALSE
    BY DEF CrossingCosts
  <2>1. /\ \A t \in Threads : session[t] = t /\ ended[t] = "answered"
    BY AllAnsweredAlone DEF Answered
  <2>2. \A t \in Threads : turn[t] = 6 /\ reading[t] = None
    BY <2>1 DEF CrossInv, SessionsInv, Inv, ThreadsInv, Local, Done
  <2>3. Strayed
    BY DEF CrossInv, CrossedInv
  <2> QED BY <2>1, <2>2, <2>3 DEF Strayed, Elsewhere
<1>2. Inv /\ Inv' /\ CrossInv /\ [Next]_vars => CrossInv'
  BY CrossStep
<1> QED BY <1>1, <1>2, InitCross, InvAlways, PTL DEF Spec

=============================================================================
