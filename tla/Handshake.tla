------------------------------ MODULE Handshake ------------------------------
(***************************************************************************)
(* How agents find the app: the handshake file (runtime/handshake.ts), the *)
(* order in which a process of the app publishes itself and goes away      *)
(* (desktop/src/main/service.ts, main/index.ts), and the client of the MCP *)
(* server (mcp/src/client.ts), which reads the file anew for every call.   *)
(*                                                                         *)
(* A process stands for its pid, its port and its token.  Each step is one *)
(* call on the file system or on the socket; a process may be killed       *)
(* between any two.                                                        *)
(***************************************************************************)
EXTENDS Naturals

CONSTANTS Processes, Nobody

\* Nobody stands for no process and no file.
ASSUME HandshakeAssumption ==
    Nobody \notin Processes \cup [of : Processes, whole : BOOLEAN]

VARIABLES
    process,  \* "unborn", "waiting" (for the lock), "listening", "cleared", "created",
              \* "up", "closing", "gone", "killed"
    lock,     \* the single-instance lock of the data directory
    file,     \* the handshake file: whose it is, and whether all of it is written
    recycled, \* the pids of processes that are gone which something else now has
    call,     \* the client's call: not under way, or about to be sent
    seen,     \* the handshake the client has last read
    upThen    \* ghost: the process that was up when the call began

handshakeVars == <<process, lock, file, recycled, call, seen, upThen>>
client == <<call, seen, upThen>>

HandshakeTypeOK ==
    /\ process \in [Processes -> {"unborn", "waiting", "listening", "cleared", "created",
                                  "up", "closing", "gone", "killed"}]
    /\ lock \in Processes \cup {Nobody}
    /\ file \in [of : Processes, whole : BOOLEAN] \cup {Nobody}
    /\ recycled \subseteq {p \in Processes : process[p] \in {"gone", "killed"}}
    /\ call \in {"idle", "read"}
    /\ seen \in Processes \cup {Nobody} /\ upThen \in Processes \cup {Nobody}

HandshakeInit ==
    /\ process = [p \in Processes |-> "unborn"]
    /\ lock = Nobody
    /\ file = Nobody
    /\ recycled = {}
    /\ call = "idle" /\ seen = Nobody /\ upThen = Nobody

Goes(p, from, to) == process[p] = from /\ process' = [process EXCEPT ![p] = to]
Alive(p) == process[p] \notin {"unborn", "gone", "killed"}

-----------------------------------------------------------------------------
(* A process of the app.                                                   *)

\* Mutant: the lock is machine-wide, or not asked for: every process goes on.
StartUnlocked(p) == Goes(p, "unborn", "waiting") /\ UNCHANGED <<lock, file, recycled, client>>

\* requestSingleInstanceLock: the second process raises the first one's window.
RequestLock(p) ==
    /\ IF lock = Nobody
       THEN Goes(p, "unborn", "waiting") /\ lock' = p
       ELSE Goes(p, "unborn", "gone") /\ UNCHANGED lock
    /\ UNCHANGED <<file, recycled, client>>

\* The services, the registry, and the port.
Listen(p) == Goes(p, "waiting", "listening") /\ UNCHANGED <<lock, file, recycled, client>>

\* writeHandshake: whatever a process that was killed has left is removed,
Clear(p) ==
    /\ Goes(p, "listening", "cleared")
    /\ file' = Nobody
    /\ UNCHANGED <<lock, recycled, client>>

\* the file is created ("wx": it must not exist; fatal exits),
Create(p) ==
    /\ IF file = Nobody
       THEN /\ Goes(p, "cleared", "created")
            /\ file' = [of |-> p, whole |-> FALSE]
            /\ UNCHANGED lock
       ELSE /\ Goes(p, "cleared", "gone")
            /\ lock' = IF lock = p THEN Nobody ELSE lock
            /\ UNCHANGED file
    /\ UNCHANGED <<recycled, client>>

\* and written, and the handlers that remove it are set.
Write(p) ==
    /\ Goes(p, "created", "up")
    /\ file' = [of |-> p, whole |-> TRUE]
    /\ UNCHANGED <<lock, recycled, client>>

\* Mutant: the port is closed first.
CloseBackwards(p) == Goes(p, "up", "closing") /\ UNCHANGED <<lock, file, recycled, client>>

\* before-quit, and service.close as far as its first await; or a signal.
Close(p) ==
    /\ Goes(p, "up", "closing")
    /\ file' = Nobody
    /\ UNCHANGED <<lock, recycled, client>>

\* The loopback server and the stores are closed, and the process ends.
Exit(p) ==
    /\ Goes(p, "closing", "gone")
    /\ lock' = IF lock = p THEN Nobody ELSE lock
    /\ UNCHANGED <<file, recycled, client>>

\* A forced kill, a power cut, a crash: the lock goes with the process, the file stays.
Kill(p) ==
    /\ Alive(p)
    /\ process' = [process EXCEPT ![p] = "killed"]
    /\ lock' = IF lock = p THEN Nobody ELSE lock
    /\ UNCHANGED <<file, recycled, client>>

Recycle(p) ==
    /\ process[p] \in {"gone", "killed"} /\ p \notin recycled
    /\ recycled' = recycled \cup {p}
    /\ UNCHANGED <<process, lock, file, client>>

-----------------------------------------------------------------------------
(* A call of the client.                                                   *)

\* isRunning: a pid that something else has now passes.
IsRunning(p) == Alive(p) \/ p \in recycled

\* A file that is missing, half written or of a process that is gone is all the same.
ReadHandshake == IF file # Nobody /\ file.whole /\ IsRunning(file.of) THEN file.of ELSE Nobody

\* Mutant: read once, and cached.
SeeOnce == IF seen # Nobody THEN seen ELSE ReadHandshake

\* state: re-read on every call
See == ReadHandshake

Up == {p \in Processes : process[p] = "up"}

\* AppNotRunning is the end of the call when there is no handshake.
Read ==
    /\ call = "idle"
    /\ seen' = See
    /\ call' = IF See = Nobody THEN "idle" ELSE "read"
    /\ upThen' = IF Up = {} THEN Nobody ELSE CHOOSE p \in Up : TRUE
    /\ UNCHANGED <<process, lock, file, recycled>>

\* The port answers and the token is its own.  A port that nobody listens to, or
\* somebody else, makes the call fail: AppNotRunning, unauthorized, unreadable.
Served == process[seen] \in {"listening", "cleared", "created", "up"}

Send ==
    /\ call = "read"
    /\ call' = "idle"
    /\ UNCHANGED <<process, lock, file, recycled, seen, upThen>>

-----------------------------------------------------------------------------
HandshakeNext ==
    \/ \E p \in Processes :
        \/ RequestLock(p) \/ Listen(p) \/ Clear(p) \/ Create(p) \/ Write(p)
        \/ Close(p) \/ Exit(p) \/ Kill(p) \/ Recycle(p)
    \/ Read \/ Send

HandshakeSpec == HandshakeInit /\ [][HandshakeNext]_handshakeVars

-----------------------------------------------------------------------------
(* What is checked.                                                        *)

\* A process that is up is the one the file names, through kills, restarts and
\* second launches (main/index.ts 79-84: two would race to publish different ports).
UpIsPublished == \A p \in Up : file = [of |-> p, whole |-> TRUE]

\* A whole file names a process that listens, unless that process was killed
\* (main/service.ts 187-189 and 223-226: no window in which an agent reads a live
\* handshake for a server that does not answer).
PublishedListens == file # Nobody /\ file.whole => process[file.of] \in {"up", "killed"}

AppIsFound == UpIsPublished /\ PublishedListens

\* A call that fails was made while no app was up, or the app it began with has
\* gone since: a restart does not strand a session of the agent (mcp/src/client.ts
\* 66-68: re-read on every call rather than caching).
ServedWhenUp ==
    [][/\ Read /\ seen' = Nobody => Up = {}
       /\ Send /\ ~Served => upThen \notin Up]_handshakeVars

=============================================================================
