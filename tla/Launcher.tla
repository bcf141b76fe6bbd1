------------------------------- MODULE Launcher -------------------------------
(***************************************************************************)
(* `npx grndctrl` (packages/launcher): find or fetch the Electron runtime, *)
(* ask it what it is, choose a sandbox, find or fetch the SQLite binding,  *)
(* start the app.  Several launchers share one cache directory, and any of *)
(* them may be killed between two of its calls.                            *)
(*                                                                         *)
(* A call on the file system is one step.  A scratch directory belongs to  *)
(* the launcher that made it; the two slots belong to everybody.           *)
(***************************************************************************)
EXTENDS Naturals

CONSTANTS
    Launchers,
    Hosts,     \* the machines: what sandboxDecision and requirements find there
    Absent,
    MaxWear    \* bound on the times the cached binding is damaged

\* owner: of the sandbox helper; the three knobs are "absent" or a number's meaning;
\* local: the binding of a checkout.
Host == [platform : {"linux", "other"},
         owner : {"root_setuid", "someone", "absent"},
         apparmor : {"restricts", "allows", "absent"},
         clone : {"forbids", "allows", "absent"},
         max : {"zero", "some", "absent"},
         local : {"usable", "foreign", "absent"}]

ASSUME LauncherAssumption ==
    /\ Hosts \subseteq Host
    /\ MaxWear \in Nat
    /\ Absent \notin {"nothing", "part", "forged", "older", "whole", "damaged"}

VARIABLES
    host,
    runtime,  \* the runtime's slot: what is in it
    native,   \* the binding's slot: "whole" agrees with the digest beside it
    pc,       \* where each launcher is
    archive,  \* the bytes it downloaded: what was published, or not
    scratch,  \* the scratch directories: whose, which, what is in it
    wear

launcherVars == <<host, runtime, native, pc, archive, scratch, wear>>

\* What a runtime directory may hold: an empty or half unpacked archive, one that is
\* not what was published, or the runtime, for this ABI or (from an older build of
\* the app) for another.
Contents == {"nothing", "part", "forged", "older", "whole"}

Running == {"start", "checksums", "download", "verify", "unpack", "recheck", "move",
            "undo", "probe", "sandbox", "look", "compare", "drop", "fetch", "untar",
            "build", "clear", "place", "tidy", "abandon", "spawn"}
Ended == {"app", "failed", "killed"}

LauncherTypeOK ==
    /\ host \in Hosts
    /\ runtime \in Contents \cup {Absent}
    /\ native \in {"whole", "damaged", Absent}
    /\ pc \in [Launchers -> Running \cup Ended]
    /\ archive \in [Launchers -> {"none", "forged", "whole"}]
    /\ scratch \subseteq [of : Launchers, holds : Contents,
                          kind : {"runtime", "staging", "built"}]
    /\ wear \in 0..MaxWear

LauncherInit ==
    /\ host \in Hosts
    /\ runtime \in {Absent, "whole", "older"}
    /\ native \in {Absent, "whole"}
    /\ pc = [p \in Launchers |-> "start"]
    /\ archive = [p \in Launchers |-> "none"]
    /\ scratch = {}
    /\ wear = 0

-----------------------------------------------------------------------------
Mine(p, kind) == {d \in scratch : d.of = p /\ d.kind = kind}

\* io.scratch and io.remove of p's directory of a kind
With(p, kind, holds) ==
    (scratch \ Mine(p, kind)) \cup {[of |-> p, kind |-> kind, holds |-> holds]}
Without(p, kind) == scratch \ Mine(p, kind)

Proceeds(p, from, to) == pc[p] = from /\ pc' = [pc EXCEPT ![p] = to]
Keeps(p, from, to) == Proceeds(p, from, to) /\ UNCHANGED <<runtime, native, archive, scratch>>

-----------------------------------------------------------------------------
(* ensureRuntime and fetchRuntime.                                         *)

\* A hit, or a scratch directory on the same volume.
FindRuntime(p) ==
    /\ IF runtime # Absent
       THEN Proceeds(p, "start", "probe") /\ UNCHANGED scratch
       ELSE Proceeds(p, "start", "checksums") /\ scratch' = With(p, "runtime", "nothing")
    /\ UNCHANGED <<runtime, native, archive>>

\* The checksums come first; a request that fails, or a file that is not listed, is
\* the end of it.
Checksums(p) == Keeps(p, "checksums", "download") \/ Keeps(p, "checksums", "undo")

Download(p) ==
    \/ Keeps(p, "download", "undo")
    \/ /\ Proceeds(p, "download", "verify")
       /\ \E bytes \in {"forged", "whole"} : archive' = [archive EXCEPT ![p] = bytes]
       /\ UNCHANGED <<runtime, native, scratch>>

\* Mutant: the digest of the file is not compared.
VerifyNothing(p) == Keeps(p, "verify", "unpack")

\* sha256(archive) is what is published, or nothing is unpacked.
Verify(p) == Keeps(p, "verify", IF archive[p] = "whole" THEN "unpack" ELSE "undo")

\* Mutant: straight into the slot.
UnpackInPlace(p) ==
    /\ \/ Proceeds(p, "unpack", "unpack") /\ runtime' = "part"
       \/ Proceeds(p, "unpack", "probe") /\ runtime' = archive[p]
    /\ UNCHANGED <<native, archive, scratch>>

\* Files appear one after another; the extractor may be missing, or fail.
Unpack(p) ==
    /\ \/ Proceeds(p, "unpack", "unpack") /\ scratch' = With(p, "runtime", "part")
       \/ Proceeds(p, "unpack", "recheck") /\ scratch' = With(p, "runtime", archive[p])
       \/ Proceeds(p, "unpack", "undo") /\ scratch' = With(p, "runtime", "part")
    /\ UNCHANGED <<runtime, native, archive>>

\* The loser of a race returns the winner's slot, and leaves its own directory.
Recheck(p) ==
    IF runtime # Absent THEN Keeps(p, "recheck", "probe") ELSE Keeps(p, "recheck", "move")

\* One rename, which fails when the slot has come to exist since.
Move(p) ==
    /\ IF runtime # Absent
       THEN Proceeds(p, "move", "undo") /\ UNCHANGED <<runtime, scratch>>
       ELSE /\ Proceeds(p, "move", "probe")
            /\ \E d \in Mine(p, "runtime") : runtime' = d.holds
            /\ scratch' = Without(p, "runtime")
    /\ UNCHANGED <<native, archive>>

\* catch: the directory is removed, and the error thrown on.
Undo(p) ==
    /\ Proceeds(p, "undo", "failed")
    /\ scratch' = Without(p, "runtime")
    /\ UNCHANGED <<runtime, native, archive>>

-----------------------------------------------------------------------------
(* The checks between the download and the start.                          *)

\* abiMismatch, or a runtime that does not run
AbiMismatch(abi) == abi # "whole"

\* Mutant: only after a download.
ProbeFirstRun(p) ==
    IF archive[p] # "none" /\ AbiMismatch(runtime)
    THEN Keeps(p, "probe", "failed") ELSE Keeps(p, "probe", "sandbox")

\* Before every start, not only after a download.
Probe(p) ==
    IF AbiMismatch(runtime) THEN Keeps(p, "probe", "failed") ELSE Keeps(p, "probe", "sandbox")

HelperIsUsable(owner) == owner = "root_setuid"

\* A knob that is absent denies nothing.
UserNamespacesAvailable(h) ==
    /\ h.apparmor # "restricts"
    /\ h.clone # "forbids"
    /\ h.max # "zero"

\* "setuid" on the other platforms means that no flag is added.
SandboxDecision(h) ==
    CASE h.platform # "linux" -> "setuid"
      [] h.platform = "linux" /\ HelperIsUsable(h.owner) -> "setuid"
      [] h.platform = "linux" /\ ~HelperIsUsable(h.owner) /\ UserNamespacesAvailable(h) ->
            "namespace"
      [] OTHER -> "refuse"

\* A binding of the checkout goes before the cache.
Sandbox(p) ==
    CASE SandboxDecision(host) = "refuse" -> Keeps(p, "sandbox", "failed")
      [] SandboxDecision(host) # "refuse" /\ host.local = "usable" ->
            Keeps(p, "sandbox", "spawn")
      [] OTHER -> Keeps(p, "sandbox", "look")

\* requirements: a binding built for another machine is reported, not replaced,
\* and nothing is launched.
Foreign(p) == host.local = "foreign" /\ Keeps(p, "start", "failed")

-----------------------------------------------------------------------------
(* ensureNative.  Nothing holds the slot between two of these steps.       *)

Look(p) == IF native # Absent THEN Keeps(p, "look", "compare") ELSE Keeps(p, "look", "fetch")

\* The digest written beside it; a file that is gone by now compares like a bad one.
Compare(p) ==
    IF native = "whole" THEN Keeps(p, "compare", "spawn") ELSE Keeps(p, "compare", "drop")

Drop(p) == Proceeds(p, "drop", "fetch") /\ native' = Absent /\ UNCHANGED <<runtime, archive, scratch>>

\* There is no scratch directory yet when the request fails.
Fetch(p) ==
    \/ Keeps(p, "fetch", "failed")
    \/ /\ Proceeds(p, "fetch", "untar")
       /\ scratch' = With(p, "staging", "nothing")
       /\ UNCHANGED <<runtime, native, archive>>

\* Extracted and found; or the archive is cut short, or has no binding in it.
Untar(p) ==
    /\ \/ Proceeds(p, "untar", "build") /\ scratch' = With(p, "staging", "whole")
       \/ Proceeds(p, "untar", "abandon") /\ scratch' = With(p, "staging", "part")
    /\ UNCHANGED <<runtime, native, archive>>

\* The binding alone in a directory of its own, read back, its digest beside it; or
\* it cannot be read back.
Build(p) ==
    /\ \/ Proceeds(p, "build", "clear") /\ scratch' = With(p, "built", "whole")
       \/ Proceeds(p, "build", "abandon") /\ scratch' = With(p, "built", "part")
    /\ UNCHANGED <<runtime, native, archive>>

\* if (io.exists(slot)) io.remove(slot): whatever is there, and whoever put it there
ClearSlot(p) == Proceeds(p, "clear", "place") /\ native' = Absent /\ UNCHANGED <<runtime, archive, scratch>>

\* The rename fails when another launcher's has come in between.
Place(p) ==
    /\ IF native # Absent
       THEN Proceeds(p, "place", "abandon") /\ UNCHANGED <<native, scratch>>
       ELSE /\ Proceeds(p, "place", "tidy")
            /\ native' = "whole"
            /\ scratch' = Without(p, "built")
    /\ UNCHANGED <<runtime, archive>>

\* finally, after success and after failure: `staging` is removed, `built` is not.
Tidy(p) ==
    /\ Proceeds(p, "tidy", "spawn") \/ Proceeds(p, "abandon", "failed")
    /\ scratch' = Without(p, "staging")
    /\ UNCHANGED <<runtime, native, archive>>

-----------------------------------------------------------------------------
Spawn(p) == Keeps(p, "spawn", "app")

\* Ctrl-C, a closed terminal, a dead machine.
Dies(p) ==
    /\ pc[p] \in Running
    /\ pc' = [pc EXCEPT ![p] = "killed"]
    /\ UNCHANGED <<host, runtime, native, archive, scratch, wear>>

\* The cached file is truncated, or partly copied.
Wear ==
    /\ native = "whole" /\ wear < MaxWear
    /\ native' = "damaged"
    /\ wear' = wear + 1
    /\ UNCHANGED <<host, runtime, pc, archive, scratch>>

Step(p) ==
    /\ \/ host.local # "foreign" /\ FindRuntime(p)
       \/ Foreign(p)
       \/ Checksums(p) \/ Download(p) \/ Verify(p) \/ Unpack(p) \/ Recheck(p) \/ Move(p)
       \/ Undo(p) \/ Probe(p) \/ Sandbox(p)
       \/ Look(p) \/ Compare(p) \/ Drop(p) \/ Fetch(p) \/ Untar(p) \/ Build(p)
       \/ ClearSlot(p) \/ Place(p) \/ Tidy(p) \/ Spawn(p)
    /\ UNCHANGED <<host, wear>>

LauncherNext == Wear \/ \E p \in Launchers : Step(p) \/ Dies(p)

LauncherSpec == LauncherInit /\ [][LauncherNext]_launcherVars

-----------------------------------------------------------------------------
(* What is checked.                                                        *)

\* The runtime's slot is only ever a whole runtime whose archive was what had been
\* published, through races, failures and kills at any point (launcher/src/cache.ts:
\* the directory only appears at its real name once it is complete).
SlotIsPublished == runtime \in {Absent, "older", "whole"}

\* An app is started from the right runtime, by a launcher that has a sandbox for
\* it and no binding of another machine, whoever filled the cache and when
\* (launcher/src/launch.ts, rule 2).
StartedChecked ==
    \A p \in Launchers : pc[p] \in {"spawn", "app"} =>
        /\ runtime = "whole"
        /\ SandboxDecision(host) # "refuse"
        /\ host.local # "foreign"
\* A slot holds what was published, all of it, and the app is started only on what was
\* probed (launcher, cache.ts and launch.ts).
OnlyCheckedRuns == SlotIsPublished /\ StartedChecked

=============================================================================
