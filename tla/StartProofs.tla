------------------------------ MODULE StartProofs ------------------------------
(***************************************************************************)
(* How the app comes up: a launcher finds or fetches a runtime, the app    *)
(* opens its stores, and publishes where it listens.  For any number of    *)
(* launchers and processes, any of which may be killed between two steps.  *)
(***************************************************************************)
EXTENDS Handshake, Launcher, Stores, TLAPS

-----------------------------------------------------------------------------
(* The handshake: an app that is up can be found.                          *)

\* A process goes on only while the lock is its own.
OneGoesOn == \A p \in Processes : Alive(p) => lock = p

\* The file is the work of the process that got that far, unless it was killed since;
\* and that process has published all that it should have by then.
FileIsTheirs ==
    /\ \A p \in Processes :
        /\ process[p] = "cleared" => file = Nobody
        /\ process[p] = "created" => file = [of |-> p, whole |-> FALSE]
        /\ process[p] = "up" => file = [of |-> p, whole |-> TRUE]
    /\ file # Nobody =>
        /\ file.whole => process[file.of] \in {"up", "killed"}
        /\ ~file.whole => process[file.of] \in {"created", "killed"}

\* A call that began while a process was up has read the handshake of that process.
ReadIsUp == call = "read" => seen \in Processes /\ upThen \in {Nobody, seen}

HInv == HandshakeTypeOK /\ OneGoesOn /\ FileIsTheirs /\ ReadIsUp

-----------------------------------------------------------------------------
\* The file is never of nobody.
LEMMA FileIsSome ==
    ASSUME NEW p \in Processes, NEW whole \in BOOLEAN
    PROVE  [of |-> p, whole |-> whole] \in [of : Processes, whole : BOOLEAN] \cup {Nobody}
  OBVIOUS

\* Starting takes the lock, or ends at once.
LEMMA RequestKeeps == ASSUME HInv, NEW p \in Processes, RequestLock(p) PROVE HInv'
<1>1. HandshakeTypeOK'
  BY DEF HInv, HandshakeTypeOK, RequestLock, Goes, client
<1>2. OneGoesOn'
  BY HandshakeAssumption DEF HInv, HandshakeTypeOK, OneGoesOn, RequestLock, Goes, Alive
<1>3. FileIsTheirs'
  BY DEF HInv, HandshakeTypeOK, FileIsTheirs, RequestLock, Goes, client
<1>4. ReadIsUp'
  BY DEF HInv, ReadIsUp, RequestLock, client
<1>5. QED
  BY <1>1, <1>2, <1>3, <1>4 DEF HInv

\* Listening touches nothing that others see.
LEMMA ListenKeeps == ASSUME HInv, NEW p \in Processes, Listen(p) PROVE HInv'
<1>1. HandshakeTypeOK'
  BY FileIsSome DEF HInv, HandshakeTypeOK, Listen, Goes, client
<1>2. OneGoesOn'
  BY HandshakeAssumption DEF HInv, HandshakeTypeOK, OneGoesOn, Listen, Goes, Alive
<1>3. FileIsTheirs'
  BY DEF HInv, HandshakeTypeOK, OneGoesOn, Alive, FileIsTheirs, Listen, Goes, client
<1>4. ReadIsUp'
  BY DEF HInv, ReadIsUp, Listen, client
<1>5. QED
  BY <1>1, <1>2, <1>3, <1>4 DEF HInv

\* Only the holder of the lock clears the file, so that no other process is up.
LEMMA ClearKeeps == ASSUME HInv, NEW p \in Processes, Clear(p) PROVE HInv'
<1>1. HandshakeTypeOK'
  BY FileIsSome DEF HInv, HandshakeTypeOK, Clear, Goes, client
<1>2. OneGoesOn'
  BY HandshakeAssumption DEF HInv, HandshakeTypeOK, OneGoesOn, Clear, Goes, Alive
<1>3. FileIsTheirs'
  BY DEF HInv, HandshakeTypeOK, OneGoesOn, Alive, FileIsTheirs, Clear, Goes, client
<1>4. ReadIsUp'
  BY DEF HInv, ReadIsUp, Clear, client
<1>5. QED
  BY <1>1, <1>2, <1>3, <1>4 DEF HInv

\* The file that is created is the holder's, and not whole.
LEMMA CreateKeeps == ASSUME HInv, NEW p \in Processes, Create(p) PROVE HInv'
<1>1. HandshakeTypeOK'
  BY FileIsSome DEF HInv, HandshakeTypeOK, Create, Goes, client
<1>2. OneGoesOn'
  BY HandshakeAssumption DEF HInv, HandshakeTypeOK, OneGoesOn, Create, Goes, Alive
<1>3. FileIsTheirs'
  BY DEF HInv, HandshakeTypeOK, OneGoesOn, Alive, FileIsTheirs, Create, Goes, client
<1>4. ReadIsUp'
  BY DEF HInv, ReadIsUp, Create, client
<1>5. QED
  BY <1>1, <1>2, <1>3, <1>4 DEF HInv

\* It is made whole.
LEMMA PublishKeeps == ASSUME HInv, NEW p \in Processes, Write(p) PROVE HInv'
<1>1. HandshakeTypeOK'
  BY FileIsSome DEF HInv, HandshakeTypeOK, Write, Goes, client
<1>2. OneGoesOn'
  BY HandshakeAssumption DEF HInv, HandshakeTypeOK, OneGoesOn, Write, Goes, Alive
<1>3. FileIsTheirs'
  BY DEF HInv, HandshakeTypeOK, OneGoesOn, Alive, FileIsTheirs, Write, Goes, client
<1>4. ReadIsUp'
  BY DEF HInv, ReadIsUp, Write, client
<1>5. QED
  BY <1>1, <1>2, <1>3, <1>4 DEF HInv

\* The file is removed before the port is closed.
LEMMA CloseKeeps == ASSUME HInv, NEW p \in Processes, Close(p) PROVE HInv'
<1>1. HandshakeTypeOK'
  BY FileIsSome DEF HInv, HandshakeTypeOK, Close, Goes, client
<1>2. OneGoesOn'
  BY HandshakeAssumption DEF HInv, HandshakeTypeOK, OneGoesOn, Close, Goes, Alive
<1>3. FileIsTheirs'
  BY DEF HInv, HandshakeTypeOK, OneGoesOn, Alive, FileIsTheirs, Close, Goes, client
<1>4. ReadIsUp'
  BY DEF HInv, ReadIsUp, Close, client
<1>5. QED
  BY <1>1, <1>2, <1>3, <1>4 DEF HInv

\* The lock is let go by a process that has removed its file.
LEMMA ExitKeeps == ASSUME HInv, NEW p \in Processes, Exit(p) PROVE HInv'
<1>1. HandshakeTypeOK'
  BY FileIsSome DEF HInv, HandshakeTypeOK, Exit, Goes, client
<1>2. OneGoesOn'
  BY HandshakeAssumption DEF HInv, HandshakeTypeOK, OneGoesOn, Exit, Goes, Alive
<1>3. FileIsTheirs'
  BY DEF HInv, HandshakeTypeOK, OneGoesOn, Alive, FileIsTheirs, Exit, Goes, client
<1>4. ReadIsUp'
  BY DEF HInv, ReadIsUp, Exit, client
<1>5. QED
  BY <1>1, <1>2, <1>3, <1>4 DEF HInv

\* A process that is killed leaves its file to the next one.
LEMMA KillKeeps == ASSUME HInv, NEW p \in Processes, Kill(p) PROVE HInv'
<1>1. HandshakeTypeOK'
  BY FileIsSome DEF HInv, HandshakeTypeOK, Kill, Goes, client
<1>2. OneGoesOn'
  BY HandshakeAssumption DEF HInv, HandshakeTypeOK, OneGoesOn, Kill, Goes, Alive
<1>3. FileIsTheirs'
  BY DEF HInv, HandshakeTypeOK, OneGoesOn, Alive, FileIsTheirs, Kill, Goes, client
<1>4. ReadIsUp'
  BY DEF HInv, ReadIsUp, Kill, client
<1>5. QED
  BY <1>1, <1>2, <1>3, <1>4 DEF HInv

\* A pid that is used again was of a process that is gone.
LEMMA RecycleKeeps == ASSUME HInv, NEW p \in Processes, Recycle(p) PROVE HInv'
<1>1. HandshakeTypeOK'
  BY FileIsSome DEF HInv, HandshakeTypeOK, Recycle, Goes, client
<1>2. OneGoesOn'
  BY HandshakeAssumption DEF HInv, HandshakeTypeOK, OneGoesOn, Recycle, Goes, Alive
<1>3. FileIsTheirs'
  BY DEF HInv, HandshakeTypeOK, OneGoesOn, Alive, FileIsTheirs, Recycle, Goes, client
<1>4. ReadIsUp'
  BY DEF HInv, ReadIsUp, Recycle, client
<1>5. QED
  BY <1>1, <1>2, <1>3, <1>4 DEF HInv

\* What a call reads is the handshake of the process that is up, if one is.
LEMMA ReadsUp ==
    ASSUME HInv
    PROVE  /\ See \in Processes \cup {Nobody}
           /\ \A p \in Up : See = p
<1>1. See \in Processes \cup {Nobody}
  BY DEF HInv, HandshakeTypeOK, See, ReadHandshake
<1>2. ASSUME NEW p \in Up
      PROVE  See = p
  <2>1. p \in Processes /\ process[p] = "up" /\ file = [of |-> p, whole |-> TRUE] /\ Alive(p)
    BY DEF Up, HInv, FileIsTheirs, Alive
  <2>2. [of |-> p, whole |-> TRUE] \in [of : Processes, whole : BOOLEAN]
    BY <2>1
  <2>3. file # Nobody
    BY <2>1, <2>2, HandshakeAssumption
  <2>4. QED
    BY <2>1, <2>3 DEF See, ReadHandshake, IsRunning
<1>3. QED
  BY <1>1, <1>2

\* A call reads the handshake once, at its beginning.
LEMMA CallKeeps == ASSUME HInv, Read \/ Send PROVE HInv'
<1>1. HandshakeTypeOK' /\ ReadIsUp'
  <2>1. CASE Read
    <3>1. (CHOOSE p \in Up : TRUE) \in Up \/ Up = {}
      OBVIOUS
    <3>2. Up \subseteq Processes
      BY DEF Up
    <3>3. QED
      BY <2>1, <3>1, <3>2, ReadsUp DEF Read, HInv, HandshakeTypeOK, ReadIsUp
  <2>2. CASE Send
    BY <2>2 DEF Send, HInv, HandshakeTypeOK, ReadIsUp
  <2>3. QED
    BY <2>1, <2>2
<1>2. OneGoesOn' /\ FileIsTheirs'
  BY DEF Read, Send, HInv, OneGoesOn, FileIsTheirs, Alive
<1>3. QED
  BY <1>1, <1>2 DEF HInv

\* The lock and the order of publishing keep the file, the lock and the processes agreed.
LEMMA HandshakeInductive == HandshakeSpec => []HInv
<1>1. HandshakeInit => HInv
  BY DEF HandshakeInit, HInv, HandshakeTypeOK, OneGoesOn, FileIsTheirs, ReadIsUp, Alive
<1>2. HInv /\ [HandshakeNext]_handshakeVars => HInv'
  <2>1. ASSUME HInv, HandshakeNext
        PROVE  HInv'
    BY <2>1, RequestKeeps, ListenKeeps, ClearKeeps, CreateKeeps, PublishKeeps,
       CloseKeeps, ExitKeeps, KillKeeps, RecycleKeeps, CallKeeps DEF HandshakeNext
  <2>2. CASE UNCHANGED handshakeVars
    BY <2>2 DEF handshakeVars, HInv, HandshakeTypeOK, OneGoesOn, FileIsTheirs, ReadIsUp, Alive
  <2>3. QED
    BY <2>1, <2>2
<1>3. QED
  BY <1>1, <1>2, PTL DEF HandshakeSpec

-----------------------------------------------------------------------------
\* The state keeps its type.
THEOREM HandshakeTypeTheorem == HandshakeSpec => []HandshakeTypeOK
<1>1. HInv => HandshakeTypeOK
  BY DEF HInv
<1>2. QED
  BY <1>1, HandshakeInductive, PTL

\* A process that is up is the one the file names, and one that a whole file names is up
\* or was killed.
THEOREM AppIsFoundTheorem == HandshakeSpec => []AppIsFound
<1>1. HInv => AppIsFound
  BY DEF HInv, FileIsTheirs, AppIsFound, UpIsPublished, PublishedListens, Up
<1>2. QED
  BY <1>1, HandshakeInductive, PTL

\* A call that fails was made while no app was up, or the one it began with has gone.
THEOREM ServedTheorem == HandshakeSpec => ServedWhenUp
<1>1. HInv /\ [HandshakeNext]_handshakeVars
        => [/\ Read /\ seen' = Nobody => Up = {}
            /\ Send /\ ~Served => upThen \notin Up]_handshakeVars
  <2>1. ASSUME HInv, Read, seen' = Nobody
        PROVE  Up = {}
    BY <2>1, ReadsUp, HandshakeAssumption DEF Read, Up
  <2>2. ASSUME HInv, Send, ~Served
        PROVE  upThen \notin Up
    BY <2>2, HandshakeAssumption DEF Send, Served, Up, HInv, ReadIsUp
  <2>3. QED
    BY <2>1, <2>2
<1>2. QED
  BY <1>1, HandshakeInductive, PTL DEF HandshakeSpec, ServedWhenUp

-----------------------------------------------------------------------------
(* The launcher: nothing is started but what was published and probed.     *)

AfterSandbox == {"look", "compare", "drop", "fetch", "untar", "build", "clear", "place",
                 "tidy", "abandon", "spawn", "app"}

\* What a launcher at a place has found out, of a host that stays the same and a slot
\* that nobody replaces, and what its archive and its directory hold by then.
KnownOf(place, p) ==
    /\ place \notin {"start", "failed", "killed"} => host.local # "foreign"
    /\ place \in {"unpack", "recheck", "move"} => archive[p] = "whole"
    /\ place \in {"recheck", "move"} =>
          \A d \in scratch : d.of = p /\ d.kind = "runtime" => d.holds = "whole"
    /\ place \in {"sandbox"} \cup AfterSandbox => runtime = "whole"
    /\ place \in AfterSandbox => SandboxDecision(host) # "refuse"

LInv == LauncherTypeOK /\ SlotIsPublished /\ \A p \in Launchers : KnownOf(pc[p], p)

\* A directory that is made or filled is of the launcher that does it.
LEMMA Directories ==
    ASSUME LauncherTypeOK, NEW p \in Launchers, NEW holds \in Contents,
           NEW kind \in {"runtime", "staging", "built"}
    PROVE  /\ With(p, kind, holds) \subseteq [of : Launchers, holds : Contents,
                                              kind : {"runtime", "staging", "built"}]
           /\ \A d \in With(p, kind, holds) :
                 d.of # p \/ d.kind # kind => d \in scratch
           /\ \A d \in With(p, kind, holds) :
                 d.of = p /\ d.kind = kind => d.holds = holds
           /\ Without(p, kind) \subseteq scratch
  BY DEF LauncherTypeOK, With, Without, Mine

\* A step takes nothing from what the others know, so that what counts is where it goes.
LEMMA StepKeeps ==
    ASSUME LInv, NEW p \in Launchers, NEW to \in Running \cup Ended,
           UNCHANGED host, pc' = [pc EXCEPT ![p] = to],
           runtime' = runtime \/ runtime = Absent,
           \A q \in Launchers \ {p} : archive'[q] = archive[q],
           \A d \in scratch' : d.of # p => d \in scratch,
           KnownOf(to, p)'
    PROVE  /\ pc' \in [Launchers -> Running \cup Ended]
           /\ \A q \in Launchers : KnownOf(pc[q], q)'
<1>1. pc' \in [Launchers -> Running \cup Ended] /\ pc'[p] = to
      /\ \A q \in Launchers \ {p} : pc'[q] = pc[q]
  BY DEF LInv, LauncherTypeOK
<1>2. SandboxDecision(host)' = SandboxDecision(host)
  BY DEF SandboxDecision, HelperIsUsable, UserNamespacesAvailable
<1>3. ASSUME NEW q \in Launchers \ {p}, NEW place, KnownOf(place, q)
      PROVE  KnownOf(place, q)'
  BY <1>2, <1>3, LauncherAssumption DEF KnownOf
<1>4. \A q \in Launchers \ {p} : KnownOf(pc[q], q)
  BY DEF LInv
<1>5. QED
  BY <1>1, <1>3, <1>4

\* The same for a step that changes nothing but the place.
LEMMA KeepsKeeps ==
    ASSUME LInv, NEW p \in Launchers, NEW from, NEW to \in Running \cup Ended,
           UNCHANGED <<host, wear>>, Keeps(p, from, to),
           KnownOf(from, p) => KnownOf(to, p)
    PROVE  LInv'
<1>1. pc[p] = from /\ pc' = [pc EXCEPT ![p] = to]
      /\ UNCHANGED <<runtime, native, archive, scratch>>
  BY DEF Keeps, Proceeds
<1>2. KnownOf(to, p)
  BY <1>1 DEF LInv
<1>3. KnownOf(to, p)'
  BY <1>1, <1>2 DEF KnownOf, SandboxDecision, HelperIsUsable, UserNamespacesAvailable
<1>4. (\A q \in Launchers : KnownOf(pc[q], q))' /\ pc' \in [Launchers -> Running \cup Ended]
  BY <1>1, <1>3, StepKeeps
<1>5. QED
  BY <1>1, <1>4 DEF LInv, LauncherTypeOK, SlotIsPublished

\* A step on which only p's directories change.
LEMMA ScratchKeeps ==
    ASSUME LInv, NEW p \in Launchers, NEW to \in Running \cup Ended,
           UNCHANGED <<host, wear, archive>>, pc' = [pc EXCEPT ![p] = to],
           runtime' = runtime, native' \in {"whole", "damaged", Absent},
           scratch' \subseteq [of : Launchers, holds : Contents,
                               kind : {"runtime", "staging", "built"}],
           \A d \in scratch' : d.of # p => d \in scratch,
           KnownOf(to, p)'
    PROVE  LInv'
<1>1. (\A q \in Launchers : KnownOf(pc[q], q))' /\ pc' \in [Launchers -> Running \cup Ended]
  BY StepKeeps
<1>2. QED
  BY <1>1 DEF LInv, LauncherTypeOK, SlotIsPublished

\* The runtime: from the download of its archive to the rename.
LEMMA RuntimeKeeps ==
    ASSUME LInv, NEW p \in Launchers, UNCHANGED <<host, wear>>,
           \/ host.local # "foreign" /\ FindRuntime(p)
           \/ Checksums(p) \/ Download(p) \/ Verify(p) \/ Unpack(p) \/ Recheck(p) \/ Move(p)
           \/ Undo(p)
    PROVE  LInv'
<1>. USE DEF Running, Ended
<1>1. CASE host.local # "foreign" /\ FindRuntime(p)
  <2>1. CASE runtime # Absent
    <3>1. Keeps(p, "start", "probe")
      BY <1>1, <2>1 DEF FindRuntime, Keeps
    <3>2. QED
      BY <1>1, <3>1, KeepsKeeps DEF KnownOf, AfterSandbox
  <2>2. CASE runtime = Absent
    <3>1. scratch' = With(p, "runtime", "nothing")
          /\ pc' = [pc EXCEPT ![p] = "checksums"] /\ UNCHANGED <<runtime, native, archive>>
      BY <1>1, <2>2 DEF FindRuntime, Proceeds
    <3>2. KnownOf("checksums", p)'
      BY <1>1 DEF KnownOf, AfterSandbox
    <3>3. scratch' \subseteq [of : Launchers, holds : Contents,
                              kind : {"runtime", "staging", "built"}]
          /\ \A d \in scratch' : d.of # p => d \in scratch
      BY <3>1, Directories DEF LInv, Contents
    <3>4. QED
      BY <3>1, <3>2, <3>3, ScratchKeeps DEF LInv, LauncherTypeOK
  <2>3. QED
    BY <2>1, <2>2
<1>2. CASE Checksums(p)
  BY <1>2, KeepsKeeps DEF Checksums, KnownOf, AfterSandbox
<1>3. CASE Download(p)
  <2>1. CASE Keeps(p, "download", "undo")
    BY <2>1, KeepsKeeps DEF KnownOf, AfterSandbox
  <2>2. ASSUME NEW bytes \in {"forged", "whole"}, archive' = [archive EXCEPT ![p] = bytes],
               pc[p] = "download", pc' = [pc EXCEPT ![p] = "verify"],
               UNCHANGED <<runtime, native, scratch>>
        PROVE  LInv'
    <3>1. KnownOf("verify", p)'
      BY <2>2 DEF KnownOf, AfterSandbox, LInv
    <3>2. (\A q \in Launchers : KnownOf(pc[q], q))' /\ pc' \in [Launchers -> Running \cup Ended]
          /\ archive' \in [Launchers -> {"none", "forged", "whole"}]
      BY <2>2, <3>1, StepKeeps DEF LInv, LauncherTypeOK
    <3>3. QED
      BY <2>2, <3>2 DEF LInv, LauncherTypeOK, SlotIsPublished
  <2>3. QED
    BY <1>3, <2>1, <2>2 DEF Download, Proceeds
<1>4. CASE Verify(p)
  BY <1>4, KeepsKeeps DEF Verify, KnownOf, AfterSandbox
<1>5. CASE Unpack(p)
  <2>. PICK to \in {"unpack", "recheck", "undo"}, content \in {"part", archive[p]} :
         /\ pc[p] = "unpack" /\ pc' = [pc EXCEPT ![p] = to]
         /\ scratch' = With(p, "runtime", content)
         /\ to = "recheck" => content = archive[p]
         /\ UNCHANGED <<runtime, native, archive>>
    BY <1>5 DEF Unpack, Proceeds
  <2>1. KnownOf("unpack", p) /\ archive[p] = "whole" /\ content \in Contents
    BY DEF LInv, KnownOf, Contents
  <2>2. scratch' \subseteq [of : Launchers, holds : Contents,
                            kind : {"runtime", "staging", "built"}]
        /\ \A d \in scratch' : d.of # p => d \in scratch
    BY <2>1, Directories DEF LInv
  <2>. \A d \in scratch' : d.of = p /\ d.kind = "runtime" => d.holds = content
    BY <2>1, Directories DEF LInv
  <2>3. host'.local # "foreign" /\ archive'[p] = "whole" /\ to \notin {"sandbox"} \cup AfterSandbox
    BY <2>1 DEF KnownOf, AfterSandbox
  <2>4. to \in {"recheck", "move"} =>
            \A d \in scratch' : d.of = p /\ d.kind = "runtime" => d.holds = "whole"
    <3>1. SUFFICES ASSUME to \in {"recheck", "move"},
                          NEW d \in scratch', d.of = p, d.kind = "runtime"
                   PROVE  d.holds = "whole"
      OBVIOUS
    <3>2. d.holds = content
      BY <3>1
    <3>3. to = "recheck"
      BY <3>1
    <3>4. QED
      BY <2>1, <3>2, <3>3
  <2>5. KnownOf(to, p)'
    BY <2>3, <2>4 DEF KnownOf, AfterSandbox
  <2>6. QED
    BY <2>2, <2>5, ScratchKeeps DEF LInv, LauncherTypeOK
<1>6. CASE Recheck(p)
  BY <1>6, KeepsKeeps DEF Recheck, KnownOf, AfterSandbox
<1>7. CASE Move(p)
  <2>1. CASE runtime # Absent
    <3>1. Keeps(p, "move", "undo")
      BY <1>7, <2>1 DEF Move, Keeps
    <3>2. QED
      BY <3>1, KeepsKeeps DEF KnownOf, AfterSandbox
  <2>2. CASE runtime = Absent
    <3>1. pc[p] = "move" /\ pc' = [pc EXCEPT ![p] = "probe"] /\ scratch' = Without(p, "runtime")
          /\ UNCHANGED <<native, archive>>
          /\ \E d \in Mine(p, "runtime") : runtime' = d.holds
      BY <1>7, <2>2 DEF Move, Proceeds
    <3>2. runtime' = "whole"
      BY <3>1 DEF LInv, KnownOf, Mine
    <3>3. KnownOf("probe", p)'
      BY <3>1 DEF KnownOf, AfterSandbox, LInv
    <3>4. scratch' \subseteq scratch
      BY <3>1 DEF Without
    <3>5. (\A q \in Launchers : KnownOf(pc[q], q))' /\ pc' \in [Launchers -> Running \cup Ended]
      BY <2>2, <3>1, <3>3, <3>4, StepKeeps
    <3>6. QED
      BY <3>1, <3>2, <3>4, <3>5 DEF LInv, LauncherTypeOK, SlotIsPublished, Contents
  <2>3. QED
    BY <2>1, <2>2
<1>8. CASE Undo(p)
  <2>1. pc' = [pc EXCEPT ![p] = "failed"] /\ UNCHANGED <<runtime, native, archive>>
        /\ scratch' \subseteq scratch
    BY <1>8 DEF Undo, Proceeds, Without
  <2>2. KnownOf("failed", p)'
    BY DEF KnownOf, AfterSandbox
  <2>3. QED
    BY <2>1, <2>2, ScratchKeeps DEF LInv, LauncherTypeOK
<1>9. QED
  BY <1>1, <1>2, <1>3, <1>4, <1>5, <1>6, <1>7, <1>8

\* The checks that come before every start.
LEMMA ChecksKeep ==
    ASSUME LInv, NEW p \in Launchers, UNCHANGED <<host, wear>>,
           Foreign(p) \/ Probe(p) \/ Sandbox(p) \/ Spawn(p)
    PROVE  LInv'
<1>. USE DEF Running, Ended
<1>1. CASE Foreign(p)
  BY <1>1, KeepsKeeps DEF Foreign, KnownOf, AfterSandbox
<1>2. CASE Probe(p)
  BY <1>2, KeepsKeeps DEF Probe, AbiMismatch, KnownOf, AfterSandbox
<1>3. CASE Sandbox(p)
  <2>1. \/ Keeps(p, "sandbox", "failed")
        \/ SandboxDecision(host) # "refuse"
           /\ (Keeps(p, "sandbox", "spawn") \/ Keeps(p, "sandbox", "look"))
    <3>1. CASE SandboxDecision(host) = "refuse"
      BY <1>3, <3>1 DEF Sandbox
    <3>2. CASE SandboxDecision(host) # "refuse" /\ host.local = "usable"
      BY <1>3, <3>2 DEF Sandbox
    <3>3. CASE SandboxDecision(host) # "refuse" /\ host.local # "usable"
      BY <1>3, <3>3 DEF Sandbox
    <3>4. QED
      BY <3>1, <3>2, <3>3
  <2>2. ASSUME NEW to \in {"failed", "spawn", "look"}, Keeps(p, "sandbox", to),
               to # "failed" => SandboxDecision(host) # "refuse"
        PROVE  LInv'
    <3>1. KnownOf("sandbox", p) => KnownOf(to, p)
      BY <2>2 DEF KnownOf, AfterSandbox
    <3>2. QED
      BY <2>2, <3>1, KeepsKeeps
  <2>3. QED
    BY <2>1, <2>2
<1>4. CASE Spawn(p)
  BY <1>4, KeepsKeeps DEF Spawn, KnownOf, AfterSandbox
<1>5. QED
  BY <1>1, <1>2, <1>3, <1>4

\* The binding: nothing here touches the runtime's slot.
LEMMA NativeKeeps ==
    ASSUME LInv, NEW p \in Launchers, UNCHANGED <<host, wear>>,
           \/ Look(p) \/ Compare(p) \/ Drop(p) \/ Fetch(p) \/ Untar(p) \/ Build(p)
           \/ ClearSlot(p) \/ Place(p) \/ Tidy(p)
    PROVE  LInv'
<1>. USE DEF Running, Ended
<1>1. CASE Look(p) \/ Compare(p) \/ Keeps(p, "fetch", "failed")
  BY <1>1, KeepsKeeps DEF Look, Compare, KnownOf, AfterSandbox
<1>2. ASSUME NEW from \in AfterSandbox, NEW to \in AfterSandbox \cup {"failed"},
             pc[p] = from, pc' = [pc EXCEPT ![p] = to], UNCHANGED <<runtime, archive>>,
             native' \in {native, Absent, "whole"},
             \/ scratch' \subseteq scratch
             \/ \E kind \in {"staging", "built"}, holds \in Contents :
                    scratch' = With(p, kind, holds)
      PROVE  LInv'
  <2>1. scratch' \subseteq [of : Launchers, holds : Contents,
                            kind : {"runtime", "staging", "built"}]
        /\ \A d \in scratch' : d.of # p => d \in scratch
    BY <1>2, Directories DEF LInv, LauncherTypeOK
  <2>2. KnownOf(from, p)
    BY <1>2 DEF LInv
  <2>3. KnownOf(to, p)'
    BY <1>2, <2>2 DEF KnownOf, AfterSandbox, SandboxDecision, HelperIsUsable,
                      UserNamespacesAvailable
  <2>4. native' \in {"whole", "damaged", Absent} /\ to \in Running \cup Ended
    BY <1>2 DEF LInv, LauncherTypeOK, AfterSandbox
  <2>5. QED
    BY <1>2, <2>1, <2>3, <2>4, ScratchKeeps
<1>3. CASE Drop(p) \/ ClearSlot(p)
  BY <1>2, <1>3 DEF Drop, ClearSlot, Proceeds, AfterSandbox
<1>4. CASE Fetch(p) /\ ~Keeps(p, "fetch", "failed")
  BY <1>2, <1>4 DEF Fetch, Proceeds, AfterSandbox, Contents
<1>5. CASE Untar(p)
  BY <1>2, <1>5 DEF Untar, Proceeds, AfterSandbox, Contents
<1>6. CASE Build(p)
  BY <1>2, <1>6 DEF Build, Proceeds, AfterSandbox, Contents
<1>7. CASE Place(p)
  BY <1>2, <1>7 DEF Place, Proceeds, AfterSandbox, Without
<1>8. CASE Tidy(p)
  BY <1>2, <1>8 DEF Tidy, Proceeds, AfterSandbox, Without
<1>9. QED
  BY <1>1, <1>3, <1>4, <1>5, <1>6, <1>7, <1>8

\* No launcher goes on from anything but a whole runtime, whoever put it there.
LEMMA LauncherInductive == LauncherSpec => []LInv
<1>1. LauncherInit => LInv
  BY LauncherAssumption DEF LauncherInit, LInv, LauncherTypeOK, SlotIsPublished, KnownOf,
     Contents, Running, Ended, AfterSandbox
<1>2. LInv /\ [LauncherNext]_launcherVars => LInv'
  <2>1. ASSUME LInv, Wear
        PROVE  LInv'
    <3>1. LauncherTypeOK'
      BY <2>1, LauncherAssumption DEF Wear, LInv, LauncherTypeOK
    <3>2. QED
      BY <2>1, <3>1 DEF Wear, LInv, SlotIsPublished, KnownOf, SandboxDecision, HelperIsUsable,
                        UserNamespacesAvailable
  <2>2. ASSUME LInv, NEW p \in Launchers, Dies(p)
        PROVE  LInv'
    <3>1. KnownOf("killed", p)'
      BY DEF KnownOf, AfterSandbox
    <3>2. QED
      BY <2>2, <3>1, ScratchKeeps DEF Dies, LInv, LauncherTypeOK, Ended
  <2>3. ASSUME LInv, NEW p \in Launchers, Step(p)
        PROVE  LInv'
    BY <2>3, RuntimeKeeps, ChecksKeep, NativeKeeps DEF Step
  <2>4. CASE UNCHANGED launcherVars
    BY <2>4 DEF launcherVars, LInv, LauncherTypeOK, SlotIsPublished, KnownOf, SandboxDecision,
                HelperIsUsable, UserNamespacesAvailable
  <2>5. QED
    BY <2>1, <2>2, <2>3, <2>4 DEF LauncherNext
<1>3. QED
  BY <1>1, <1>2, PTL DEF LauncherSpec

-----------------------------------------------------------------------------
\* The state of cache and launchers keeps its type.
THEOREM LauncherTypeTheorem == LauncherSpec => []LauncherTypeOK
<1>1. LInv => LauncherTypeOK
  BY DEF LInv
<1>2. QED
  BY <1>1, LauncherInductive, PTL

\* The cache only ever holds what was published, whole, and an app is started only from
\* what was probed, on a machine with a sandbox for it (cache.ts, launch.ts).
THEOREM OnlyCheckedTheorem == LauncherSpec => []OnlyCheckedRuns
<1>1. LInv => OnlyCheckedRuns
  BY DEF LInv, OnlyCheckedRuns, StartedChecked, KnownOf, AfterSandbox
<1>2. QED
  BY <1>1, LauncherInductive, PTL

-----------------------------------------------------------------------------
(* The stores: an upgrade loses nothing, wherever it dies.                 *)

Mirrors ==
    [version : 0..LastMirror,
     tables : SUBSET {"connections", "freshness", "tickets", "ticket_activity", "pull_requests",
                      "check_results", "branch_refs", "comparisons", "local_workspaces"},
     columns : SUBSET {"priority", "story_points", "sprint", "description", "fix_versions",
                       "time_spent", "pull_requests"},
     connections : SUBSET Connections, tickets : SUBSET Connections,
     fresh : SUBSET {"tickets", "pulls"}]

Links == {<< >>} \cup [Sessions -> Projects \cup {Null}]
Settings == Payload \cup {Null, Unreadable}

Authoreds ==
    [version : 0..LastAuthored,
     tables : SUBSET {"projects", "notes", "agent_sessions", "outbox_actions",
                      "finding_dismissals", "settings", "active_ticket", "agent_updates",
                      "prompts", "ticket_history"},
     projects : SUBSET [id : Projects, jira : BOOLEAN], sessions : Links,
     settings : Settings]

\* Tickets are of a connection that is there, and that a migration keeps.
TicketsAreKept == mirror.tickets \subseteq mirror.connections \cap {Jira}

\* From the migration on that removes it, the mirror does not know the connection; and a
\* launch that has opened the mirror has made that migration.
HubIsRemoved ==
    /\ mirror.version >= 4 => Hub \notin mirror.connections
    /\ launch \in {"authored", "up"} => mirror.version = LastMirror

\* A secret without a row is in the memory of a launch, unless one died with it.
SecretsAreKnown ==
    /\ launch \in {"down", "up"} => orphans = {}
    /\ Hub \in keychain /\ ~interrupted =>
          Hub \in orphans \/ (launch = "down" /\ mirror.version < 4 /\ Hub \in mirror.connections)

SInv == /\ StoresTypeOK /\ mirror \in Mirrors /\ authored \in Authoreds
        /\ TicketsAreKept /\ HubIsRemoved /\ SecretsAreKnown

\* A migration of the mirror removes a connection, or adds tables and columns.
LEMMA MirrorMigrations ==
    ASSUME NEW m \in Mirrors, NEW version \in 1..LastMirror, NEW enforced \in BOOLEAN,
           version = 4 => ~enforced
    PROVE  LET new == MirrorMigrated(m, version, enforced)
           IN  /\ new \in Mirrors /\ new.tickets = m.tickets
               /\ new.connections =
                     IF version = 4 THEN m.connections \cap {Jira} ELSE m.connections
<1>1. CASE version = 1
  <2>1. MirrorMigrated(m, version, enforced) = MirrorInit(m)
    BY <1>1 DEF MirrorMigrated
  <2>2. MirrorInit(m) \in Mirrors /\ MirrorInit(m).tickets = m.tickets
        /\ MirrorInit(m).connections = m.connections
    BY DEF Mirrors, MirrorInit
  <2>3. QED
    BY <1>1, <2>1, <2>2
<1>2. CASE version = 2
  <2>1. MirrorMigrated(m, version, enforced) = AddPriorityAndPoints(m)
    BY <1>2 DEF MirrorMigrated
  <2>2. AddPriorityAndPoints(m) \in Mirrors /\ AddPriorityAndPoints(m).tickets = m.tickets
        /\ AddPriorityAndPoints(m).connections = m.connections
    BY DEF Mirrors, AddPriorityAndPoints, Widened
  <2>3. QED
    BY <1>2, <2>1, <2>2
<1>3. CASE version = 3
  <2>1. MirrorMigrated(m, version, enforced) = AddSprint(m)
    BY <1>3 DEF MirrorMigrated
  <2>2. AddSprint(m) \in Mirrors /\ AddSprint(m).tickets = m.tickets
        /\ AddSprint(m).connections = m.connections
    BY DEF Mirrors, AddSprint, Widened
  <2>3. QED
    BY <1>3, <2>1, <2>2
<1>4. CASE version = 4
  <2>. DEFINE new == RemoveCodeHost(m, enforced)
  <2>1. MirrorMigrated(m, version, enforced) = new
    BY <1>4 DEF MirrorMigrated
  <2>2. new \in Mirrors /\ new.tickets = m.tickets
        /\ new.connections = m.connections \cap {Jira}
    BY <1>4 DEF Mirrors, RemoveCodeHost, Connections
  <2>3. QED
    BY <1>4, <2>1, <2>2
<1>5. CASE version = 5
  <2>1. MirrorMigrated(m, version, enforced) = AddDescription(m)
    BY <1>5 DEF MirrorMigrated
  <2>2. AddDescription(m) \in Mirrors /\ AddDescription(m).tickets = m.tickets
        /\ AddDescription(m).connections = m.connections
    BY DEF Mirrors, AddDescription, Widened
  <2>3. QED
    BY <1>5, <2>1, <2>2
<1>6. CASE version = 6
  <2>1. MirrorMigrated(m, version, enforced) = AddFixVersions(m)
    BY <1>6 DEF MirrorMigrated
  <2>2. AddFixVersions(m) \in Mirrors /\ AddFixVersions(m).tickets = m.tickets
        /\ AddFixVersions(m).connections = m.connections
    BY DEF Mirrors, AddFixVersions, Widened
  <2>3. QED
    BY <1>6, <2>1, <2>2
<1>7. CASE version = 7
  <2>1. MirrorMigrated(m, version, enforced) = AddTimeAndPulls(m)
    BY <1>7 DEF MirrorMigrated
  <2>2. AddTimeAndPulls(m) \in Mirrors /\ AddTimeAndPulls(m).tickets = m.tickets
        /\ AddTimeAndPulls(m).connections = m.connections
    BY DEF Mirrors, AddTimeAndPulls, Widened
  <2>3. QED
    BY <1>7, <2>1, <2>2
<1>8. QED
  BY <1>1, <1>2, <1>3, <1>4, <1>5, <1>6, <1>7 DEF LastMirror

\* A threshold that was chosen is kept when the payload is reshaped.
LEMMA ReshapedKeeps ==
    ASSUME NEW settings \in Settings
    PROVE  /\ Reshaped(settings) \in Settings
           /\ Chosen(settings) = Tuned => Chosen(Reshaped(settings)) = Tuned
<1>1. CASE settings \notin Payload
  BY <1>1 DEF Reshaped
<1>2. CASE settings \in Payload
  <2>. DEFINE kept == NumberOr(Or(settings.sessions, settings.pulls), Usual)
              new == [pulls |-> Null, sessions |-> kept, grace |-> FALSE]
  <2>1. kept \in {Tuned, Usual} /\ (Or(settings.sessions, settings.pulls) = Tuned => kept = Tuned)
    BY DEF NumberOr
  <2>2. Reshaped(settings) = new
    BY <1>2 DEF Reshaped
  <2>. HIDE DEF kept
  <2>3. new \in Payload /\ new.sessions = kept
    BY <2>1 DEF Payload
  <2>4. Chosen(settings) = Or(settings.sessions, settings.pulls)
    BY <1>2 DEF Chosen
  <2>5. kept = Tuned => Chosen(new) = Tuned
    BY <2>3, StoresAssumption DEF Chosen, Or
  <2>6. QED
    BY <2>1, <2>2, <2>3, <2>4, <2>5 DEF Settings
<1>3. QED
  BY <1>1, <1>2

\* A migration of what was written keeps every row and link, and what was chosen.
LEMMA AuthoredMigrations ==
    ASSUME NEW a \in Authoreds, NEW version \in 1..LastAuthored, NEW enforced \in BOOLEAN,
           version = 2 => ~enforced
    PROVE  LET new == AuthoredMigrated(a, version, enforced)
           IN  /\ new \in Authoreds
               /\ new.projects = a.projects /\ new.sessions = a.sessions
               /\ Chosen(a.settings) = Tuned => Chosen(new.settings) = Tuned
<1>1. CASE version = 1
  <2>1. AuthoredMigrated(a, version, enforced) = AuthoredInit(a)
    BY <1>1 DEF AuthoredMigrated
  <2>2. AuthoredInit(a) \in Authoreds /\ AuthoredInit(a).projects = a.projects
        /\ AuthoredInit(a).sessions = a.sessions /\ AuthoredInit(a).settings = a.settings
    BY DEF Authoreds, AuthoredInit
  <2>3. QED
    BY <2>1, <2>2
<1>2. CASE version = 2
  <2>. DEFINE new == RebuildProjects(a, enforced)
              settings == Reshaped(a.settings)
  <2>1. AuthoredMigrated(a, version, enforced) = new
    BY <1>2 DEF AuthoredMigrated
  <2>2. a.settings \in Settings
    BY DEF Authoreds
  <2>3. settings \in Settings /\ (Chosen(a.settings) = Tuned => Chosen(settings) = Tuned)
    BY <2>2, ReshapedKeeps
  <2>4. new = [a EXCEPT !.sessions = a.sessions, !.settings = settings]
    BY <1>2 DEF RebuildProjects, Authoreds
  <2>. HIDE DEF settings, new
  <2>5. new \in Authoreds /\ new.projects = a.projects
        /\ new.sessions = a.sessions /\ new.settings = settings
    BY <2>3, <2>4 DEF Authoreds
  <2>6. QED
    BY <2>1, <2>3, <2>5
<1>3. CASE version = 3
  <2>1. AuthoredMigrated(a, version, enforced) = AddActiveTicket(a)
    BY <1>3 DEF AuthoredMigrated
  <2>2. AddActiveTicket(a) \in Authoreds /\ AddActiveTicket(a).projects = a.projects
        /\ AddActiveTicket(a).sessions = a.sessions /\ AddActiveTicket(a).settings = a.settings
    BY DEF Authoreds, AddActiveTicket, AddTable
  <2>3. QED
    BY <2>1, <2>2
<1>4. CASE version = 4
  <2>1. AuthoredMigrated(a, version, enforced) = AddAgentUpdates(a)
    BY <1>4 DEF AuthoredMigrated
  <2>2. AddAgentUpdates(a) \in Authoreds /\ AddAgentUpdates(a).projects = a.projects
        /\ AddAgentUpdates(a).sessions = a.sessions /\ AddAgentUpdates(a).settings = a.settings
    BY DEF Authoreds, AddAgentUpdates, AddTable
  <2>3. QED
    BY <2>1, <2>2
<1>5. CASE version = 5
  <2>1. AuthoredMigrated(a, version, enforced) = AddPrompts(a)
    BY <1>5 DEF AuthoredMigrated
  <2>2. AddPrompts(a) \in Authoreds /\ AddPrompts(a).projects = a.projects
        /\ AddPrompts(a).sessions = a.sessions /\ AddPrompts(a).settings = a.settings
    BY DEF Authoreds, AddPrompts, AddTable
  <2>3. QED
    BY <2>1, <2>2
<1>6. CASE version = 6
  <2>1. AuthoredMigrated(a, version, enforced) = AddTicketHistory(a)
    BY <1>6 DEF AuthoredMigrated
  <2>2. AddTicketHistory(a) \in Authoreds /\ AddTicketHistory(a).projects = a.projects
        /\ AddTicketHistory(a).sessions = a.sessions /\ AddTicketHistory(a).settings = a.settings
    BY DEF Authoreds, AddTicketHistory, AddTable
  <2>3. QED
    BY <2>1, <2>2
<1>7. QED
  BY <1>1, <1>2, <1>3, <1>4, <1>5, <1>6 DEF LastAuthored

\* What a launch finds: nothing, or the files of a release.
LEMMA StoresBegin == ASSUME StoresInit PROVE SInv
<1>. USE DEF LastMirror, LastAuthored
<1>1. ASSUME mirror \in Mirrors, authored \in Authoreds, mirror.version \in 0..3,
             mirror.tickets \subseteq mirror.connections \cap {Jira}
      PROVE  SInv
  <2>1. launch = "down" /\ orphans = {} /\ interrupted = FALSE /\ keychain = mirror.connections
    BY DEF StoresInit
  <2>2. StoresTypeOK
    BY <1>1, <2>1 DEF StoresTypeOK, Mirrors, Authoreds, Settings
  <2>3. TicketsAreKept /\ HubIsRemoved /\ SecretsAreKnown
    BY <1>1, <2>1 DEF TicketsAreKept, HubIsRemoved, SecretsAreKnown
  <2>4. QED
    BY <1>1, <2>2, <2>3 DEF SInv
<1>2. NoMirror \in Mirrors /\ NoMirror.version = 0 /\ NoMirror.tickets = {}
  BY DEF NoMirror, Mirrors
<1>3. NoAuthored \in Authoreds
  BY DEF NoAuthored, Authoreds, Links, Settings
<1>4. OldMirror \in Mirrors /\ OldMirror.version = 3
      /\ OldMirror.tickets \subseteq OldMirror.connections \cap {Jira}
  <2>. DEFINE new == AddSprint(AddPriorityAndPoints(MirrorInit(NoMirror)))
  <2>1. MirrorInit(NoMirror) \in Mirrors
    BY <1>2 DEF MirrorInit, Mirrors
  <2>2. AddPriorityAndPoints(MirrorInit(NoMirror)) \in Mirrors
    BY <2>1 DEF AddPriorityAndPoints, Widened, Mirrors
  <2>3. new \in Mirrors
    BY <2>2 DEF AddSprint, Widened, Mirrors
  <2>4. OldMirror = [new EXCEPT !.version = Old.mirror, !.connections = Connections,
                                !.tickets = {Jira}, !.fresh = {"tickets", "pulls"}]
    BY DEF OldMirror
  <2>. HIDE DEF new
  <2>5. Old.mirror = 3
    BY DEF Old
  <2>6. DOMAIN new = {"version", "tables", "columns", "connections", "tickets", "fresh"}
    BY <2>3 DEF Mirrors
  <2>7. OldMirror.version = 3 /\ OldMirror.connections = Connections /\ OldMirror.tickets = {Jira}
    BY <2>4, <2>5, <2>6
  <2>8. OldMirror = [version |-> 3, tables |-> new.tables, columns |-> new.columns,
                     connections |-> Connections, tickets |-> {Jira},
                     fresh |-> {"tickets", "pulls"}]
    BY <2>4, <2>5, <2>6
  <2>9. OldMirror \in Mirrors
    BY <2>3, <2>8 DEF Mirrors, Connections
  <2>10. QED
    BY <2>7, <2>9 DEF Connections
<1>5. ASSUME NEW settings \in Settings, NEW sessions \in [Sessions -> Projects \cup {Null}]
      PROVE  OldAuthored(settings, sessions) \in Authoreds
  <2>. DEFINE new == AuthoredInit(NoAuthored)
  <2>1. new \in Authoreds
    BY <1>3 DEF AuthoredInit, Authoreds
  <2>2. OldAuthored(settings, sessions) =
           [new EXCEPT !.version = Old.authored, !.projects = [id : Projects, jira : BOOLEAN],
                       !.sessions = sessions, !.settings = settings]
    BY DEF OldAuthored
  <2>. DEFINE all == [id : Projects, jira : BOOLEAN]
  <2>. HIDE DEF new
  <2>3. Old.authored = 1 /\ sessions \in Links
    BY DEF Old, Links
  <2>4. DOMAIN new = {"version", "tables", "projects", "sessions", "settings"}
    BY <2>1 DEF Authoreds
  <2>5. OldAuthored(settings, sessions) =
          [version |-> 1, tables |-> new.tables, projects |-> all,
           sessions |-> sessions, settings |-> settings]
    BY <2>2, <2>3, <2>4
  <2>6. all \in SUBSET [id : Projects, jira : BOOLEAN]
    OBVIOUS
  <2>. HIDE DEF all
  <2>7. QED
    BY <2>1, <2>3, <2>5, <2>6 DEF Authoreds
<1>6. \/ mirror = NoMirror /\ authored = NoAuthored
      \/ mirror = OldMirror /\ authored \in Authoreds
  BY <1>5 DEF StoresInit, Settings
<1>7. QED
  BY <1>1, <1>2, <1>3, <1>4, <1>6

\* The references are read from a mirror that may still know the connection.
LEMMA OpenMirrorKeeps == ASSUME SInv, OpenMirror PROVE SInv' /\ SoundUpgrade
<1>. UNCHANGED <<mirror, authored, keychain, interrupted>> /\ launch = "down"
     /\ launch' = "mirror" /\ orphans' = Orphans
  BY DEF OpenMirror
<1>1. Orphans \subseteq {Hub}
  BY DEF SInv, StoresTypeOK, Orphans, Connections
<1>2. StoresTypeOK' /\ mirror' \in Mirrors /\ authored' \in Authoreds
  BY <1>1 DEF SInv, StoresTypeOK
<1>3. TicketsAreKept' /\ HubIsRemoved'
  BY DEF SInv, TicketsAreKept, HubIsRemoved
<1>4. SecretsAreKnown'
  BY StoresAssumption DEF SInv, SecretsAreKnown, Orphans
<1>5. SoundUpgrade
  BY DEF SoundUpgrade
<1>6. QED
  BY <1>2, <1>3, <1>4, <1>5 DEF SInv

\* No ticket is left without its connection, so that no launch ends here.
LEMMA MigrateMirrorKeeps == ASSUME SInv, MigrateMirror PROVE SInv' /\ SoundUpgrade
<1>. DEFINE next == mirror.version + 1
            new == MirrorMigrated(mirror, next, Enforced("mirror", next))
            migrated == [new EXCEPT !.version = next]
<1>1. mirror \in Mirrors /\ next \in 1..LastMirror
  BY DEF SInv, StoresTypeOK, MigrateMirror, LastMirror
<1>2. Enforced("mirror", next) \in BOOLEAN /\ (next = 4 => ~Enforced("mirror", next))
  BY DEF Enforced
<1>3. mirror' = migrated /\ launch = "mirror"
      /\ launch' = (IF Dangling(migrated) = {} THEN launch ELSE "down")
      /\ orphans' = (IF Dangling(migrated) = {} THEN orphans ELSE {})
      /\ UNCHANGED <<authored, keychain, interrupted>>
  BY DEF MigrateMirror
<1>4. /\ new \in Mirrors /\ new.tickets = mirror.tickets
      /\ new.connections = IF next = 4 THEN mirror.connections \cap {Jira}
                           ELSE mirror.connections
  BY <1>1, <1>2, MirrorMigrations
<1>. HIDE DEF new, next
<1>5. /\ migrated \in Mirrors /\ migrated.version = next
      /\ migrated.tickets = new.tickets /\ migrated.connections = new.connections
  BY <1>1, <1>4 DEF Mirrors, LastMirror
<1>. HIDE DEF migrated
<1>6. Dangling(migrated) = {}
  BY <1>4, <1>5 DEF Dangling, SInv, TicketsAreKept
<1>7. UNCHANGED <<launch, orphans>>
  BY <1>3, <1>6
<1>8. StoresTypeOK' /\ mirror' \in Mirrors /\ authored' \in Authoreds
  BY <1>3, <1>5, <1>7 DEF SInv, StoresTypeOK, Mirrors
<1>9. TicketsAreKept'
  BY <1>3, <1>4, <1>5 DEF SInv, TicketsAreKept
<1>10. HubIsRemoved'
  BY <1>1, <1>3, <1>4, <1>5, <1>7, StoresAssumption
     DEF SInv, StoresTypeOK, HubIsRemoved, next, LastMirror
<1>11. SecretsAreKnown'
  BY <1>3, <1>7 DEF SInv, SecretsAreKnown
<1>12. SoundUpgrade
  BY <1>3, <1>4, <1>5, <1>7 DEF SoundUpgrade
<1>13. QED
  BY <1>8, <1>9, <1>10, <1>11, <1>12 DEF SInv

\* What was written outlives its migrations.
LEMMA MigrateAuthoredKeeps == ASSUME SInv, MigrateAuthored PROVE SInv' /\ SoundUpgrade
<1>. DEFINE next == authored.version + 1
            new == AuthoredMigrated(authored, next, Enforced("authored", next))
            migrated == [new EXCEPT !.version = next]
<1>1. authored \in Authoreds /\ next \in 1..LastAuthored
  BY DEF SInv, StoresTypeOK, MigrateAuthored, LastAuthored
<1>2. Enforced("authored", next) \in BOOLEAN /\ (next = 2 => ~Enforced("authored", next))
  BY DEF Enforced
<1>3. authored' = migrated /\ launch = "authored"
      /\ UNCHANGED <<mirror, keychain, launch, orphans, interrupted>>
  BY DEF MigrateAuthored
<1>4. /\ new \in Authoreds
      /\ new.projects = authored.projects /\ new.sessions = authored.sessions
      /\ Chosen(authored.settings) = Tuned => Chosen(new.settings) = Tuned
  BY <1>1, <1>2, AuthoredMigrations
<1>. HIDE DEF new, next
<1>5. /\ migrated \in Authoreds /\ migrated.version = next
      /\ migrated.projects = new.projects /\ migrated.sessions = new.sessions
      /\ migrated.settings = new.settings
  BY <1>1, <1>4 DEF Authoreds, LastAuthored
<1>. HIDE DEF migrated
<1>6. StoresTypeOK' /\ mirror' \in Mirrors /\ authored' \in Authoreds
  <2>1. migrated.version \in 0..LastAuthored
        /\ migrated.settings \in Payload \cup {Null, Unreadable}
    BY <1>5 DEF Authoreds, Settings
  <2>2. QED
    BY <1>3, <1>5, <2>1 DEF SInv, StoresTypeOK
<1>7. TicketsAreKept' /\ HubIsRemoved' /\ SecretsAreKnown'
  BY <1>3 DEF SInv, TicketsAreKept, HubIsRemoved, SecretsAreKnown
<1>8. SoundUpgrade
  BY <1>3, <1>4, <1>5 DEF SoundUpgrade
<1>9. QED
  BY <1>6, <1>7, <1>8 DEF SInv

\* The steps of a launch that move no row.
LEMMA LaunchKeeps ==
    ASSUME SInv, OpenAuthored \/ Ready \/ Die \/ \E c \in Connections : DeleteOrphan(c)
    PROVE  SInv' /\ SoundUpgrade
<1>. UNCHANGED <<mirror, authored>>
  BY DEF OpenAuthored, Ready, Die, DeleteOrphan
<1>1. StoresTypeOK' /\ mirror' \in Mirrors /\ authored' \in Authoreds
  BY DEF OpenAuthored, Ready, Die, DeleteOrphan, SInv, StoresTypeOK
<1>2. TicketsAreKept' /\ HubIsRemoved'
  BY DEF OpenAuthored, Ready, Die, DeleteOrphan, SInv, TicketsAreKept, HubIsRemoved
<1>3. SecretsAreKnown'
  BY DEF OpenAuthored, Ready, Die, DeleteOrphan, SInv, StoresTypeOK, SecretsAreKnown
<1>4. Ready => (~interrupted' => Hub \notin keychain' \cup mirror'.connections)
  BY DEF Ready, SInv, HubIsRemoved, SecretsAreKnown, LastMirror
<1>5. launch' = "up" => Ready
  BY DEF OpenAuthored, Ready, Die, DeleteOrphan
<1>6. SoundUpgrade
  BY <1>4, <1>5 DEF SoundUpgrade
<1>7. QED
  BY <1>1, <1>2, <1>3, <1>6 DEF SInv

\* What the operator does between launches, or in one that is up.
LEMMA OperatorKeeps ==
    ASSUME SInv, AddConnection \/ DeleteMirror
    PROVE  SInv' /\ SoundUpgrade
<1>1. CASE AddConnection
  <2>1. mirror' = [mirror EXCEPT !.connections = @ \cup {Jira}, !.tickets = {Jira},
                                 !.fresh = {"tickets"}]
        /\ keychain' = keychain \cup {Jira} /\ launch = "up"
        /\ UNCHANGED <<authored, launch, orphans, interrupted>>
    BY <1>1 DEF AddConnection
  <2>2. /\ mirror' \in Mirrors /\ mirror'.version = mirror.version
        /\ mirror'.connections = mirror.connections \cup {Jira} /\ mirror'.tickets = {Jira}
    BY <2>1 DEF SInv, Mirrors, Connections
  <2>3. StoresTypeOK' /\ authored' \in Authoreds
    BY <2>1, <2>2 DEF SInv, StoresTypeOK, Connections
  <2>4. TicketsAreKept' /\ HubIsRemoved' /\ SecretsAreKnown'
    BY <2>1, <2>2, StoresAssumption
       DEF SInv, TicketsAreKept, HubIsRemoved, SecretsAreKnown, LastMirror
  <2>5. SoundUpgrade
    BY <2>1, <2>2, <2>4 DEF SInv, SoundUpgrade, HubIsRemoved, SecretsAreKnown, LastMirror
  <2>6. QED
    BY <2>2, <2>3, <2>4, <2>5 DEF SInv
<1>2. CASE DeleteMirror
  <2>1. mirror' = NoMirror /\ launch = "down" /\ UNCHANGED <<authored, keychain, launch, orphans>>
        /\ interrupted' = (interrupted \/ Hub \in mirror.connections)
    BY <1>2 DEF DeleteMirror
  <2>2. NoMirror \in Mirrors /\ NoMirror.version = 0 /\ NoMirror.connections = {}
        /\ NoMirror.tickets = {}
    BY DEF NoMirror, Mirrors, LastMirror
  <2>3. StoresTypeOK' /\ authored' \in Authoreds
    BY <2>1, <2>2 DEF SInv, StoresTypeOK, LastMirror
  <2>4. TicketsAreKept' /\ HubIsRemoved' /\ SecretsAreKnown'
    BY <2>1, <2>2 DEF SInv, StoresTypeOK, TicketsAreKept, HubIsRemoved, SecretsAreKnown
  <2>5. SoundUpgrade
    BY <2>1 DEF SoundUpgrade
  <2>6. QED
    BY <2>1, <2>2, <2>3, <2>4, <2>5 DEF SInv
<1>3. QED
  BY <1>1, <1>2

\* Wherever a launch dies, the next one goes on from a state like these.
LEMMA StoresStep == SInv /\ [StoresNext]_storesVars => SInv' /\ [SoundUpgrade]_storesVars
<1>1. ASSUME SInv, StoresNext
      PROVE  SInv' /\ SoundUpgrade
  BY <1>1, OpenMirrorKeeps, MigrateMirrorKeeps, MigrateAuthoredKeeps, LaunchKeeps, OperatorKeeps
     DEF StoresNext
<1>2. ASSUME SInv, UNCHANGED storesVars
      PROVE  SInv'
  BY <1>2 DEF storesVars, SInv, StoresTypeOK, TicketsAreKept, HubIsRemoved, SecretsAreKnown,
              Mirrors, Authoreds
<1>3. QED
  BY <1>1, <1>2

LEMMA StoresInductive == StoresSpec => []SInv
<1>1. QED
  BY StoresBegin, StoresStep, PTL DEF StoresSpec

-----------------------------------------------------------------------------
\* The files and the launch keep their types.
THEOREM StoresTypeTheorem == StoresSpec => []StoresTypeOK
<1>1. SInv => StoresTypeOK
  BY DEF SInv
<1>2. QED
  BY <1>1, StoresInductive, PTL

\* An upgrade loses nothing that was written, however often it dies, and a launch that
\* comes up has removed the secrets of what it removed (migrate.ts, open.ts, services.ts).
THEOREM UpgradesTheorem == StoresSpec => UpgradesAreSound
<1>1. QED
  BY StoresStep, StoresInductive, PTL DEF StoresSpec, UpgradesAreSound

=============================================================================
