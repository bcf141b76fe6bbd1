-------------------------------- MODULE Stores --------------------------------
(***************************************************************************)
(* The two database files and how a launch opens them (store/open.ts,      *)
(* store/migrate.ts, the migrations of either store), with what a launch   *)
(* does to the keychain (runtime/services.ts): the references of the       *)
(* connections that a migration removes are read before it and their       *)
(* secrets deleted after both stores are open.                             *)
(*                                                                         *)
(* A migration is one transaction and one step; between two of them the    *)
(* process may die, and the next launch goes on from the version it finds. *)
(* The first migration of either store makes the tables that Tables names; *)
(* most others only add to them.                                           *)
(***************************************************************************)
EXTENDS Naturals

CONSTANTS
    Jira, Hub,    \* two connections, of the kind kept and of the one removed
    Projects,
    Sessions,
    Tuned, Usual, \* thresholds: one the operator has chosen, and the default
    Odd,          \* something that is no number
    Unreadable,   \* a payload that does not parse
    Null

ASSUME StoresAssumption == Jira # Hub /\ Null \notin {Tuned, Usual, Odd}

Connections == {Jira, Hub}

VARIABLES
    mirror,     \* mirror.db
    authored,   \* authored.db
    keychain,   \* whose secrets it holds
    launch,     \* how far the launch is: "down", "mirror", "authored" or "up"
    orphans,    \* orphanedCredentialRefs, in the memory of the launch
    interrupted \* ghost: a launch died, the keychain could not be reached, or the file
                \* that named the secret was deleted

storesVars == <<mirror, authored, keychain, launch, orphans, interrupted>>

-----------------------------------------------------------------------------
(* mirror.db.  fresh: the kinds of resource that freshness has rows of.    *)

MirrorInit(m) ==
    [m EXCEPT !.tables = {"connections", "freshness", "tickets", "ticket_activity",
                          "pull_requests", "check_results", "branch_refs",
                          "comparisons", "local_workspaces"}]

Widened(m, columns) == [m EXCEPT !.columns = @ \cup columns]

AddPriorityAndPoints(m) == Widened(m, {"priority", "story_points"})
AddSprint(m) == Widened(m, {"sprint"})

\* Mutant: the rows of the other kind are copied too.
RemoveKeepsRows(m, enforced) ==
    [m EXCEPT !.tables = @ \ {"comparisons", "branch_refs", "check_results",
                              "pull_requests", "local_workspaces"},
              !.fresh = @ \cap {"tickets"}]

\* The connections that are not Jira's go; dropping the old table takes every ticket
\* with it where foreign keys are enforced.
RemoveCodeHost(m, enforced) ==
    [m EXCEPT !.connections = @ \cap {Jira},
              !.tickets = IF enforced THEN {} ELSE @,
              !.tables = @ \ {"comparisons", "branch_refs", "check_results",
                              "pull_requests", "local_workspaces"},
              !.fresh = @ \cap {"tickets"}]

AddDescription(m) == Widened(m, {"description"})
AddFixVersions(m) == Widened(m, {"fix_versions"})
AddTimeAndPulls(m) == Widened(m, {"time_spent", "pull_requests"})

LastMirror == 7
MirrorMigrated(m, version, enforced) ==
    CASE version = 1 -> MirrorInit(m)
      [] version = 2 -> AddPriorityAndPoints(m)
      [] version = 3 -> AddSprint(m)
      [] version = 4 -> RemoveCodeHost(m, enforced)
      [] version = 5 -> AddDescription(m)
      [] version = 6 -> AddFixVersions(m)
      [] version = 7 -> AddTimeAndPulls(m)

-----------------------------------------------------------------------------
(* authored.db.  A project is bound to Jira or to a repository only; a     *)
(* session names a project or none.  A payload of settings is absent,      *)
(* unreadable, or has the two thresholds, each a number, something else or *)
(* missing.                                                                *)

AuthoredInit(a) ==
    [a EXCEPT !.tables = {"projects", "notes", "agent_sessions", "outbox_actions",
                          "finding_dismissals", "settings"}]

Payload == [pulls : {Tuned, Odd, Null}, sessions : {Tuned, Usual, Odd, Null},
            grace : BOOLEAN]

NumberOr(v, fallback) == IF v \in {Tuned, Usual} THEN v ELSE fallback

\* `a ?? b`
Or(a, b) == IF a # Null THEN a ELSE b

\* sessions ?? pulls, which is a carry-over; driftGraceHours goes.
Reshaped(payload) ==
    IF payload \notin Payload THEN payload
    ELSE [pulls |-> Null,
          sessions |-> NumberOr(Or(payload.sessions, payload.pulls), Usual),
          grace |-> FALSE]

\* Mutant: the replacement CHECK filters out what violates it.
RebuildChecked(a, enforced) ==
    [a EXCEPT !.projects = {p \in @ : p.jira},
              !.sessions = IF enforced THEN [s \in DOMAIN @ |-> Null] ELSE @,
              !.settings = Reshaped(@)]

\* projects is rebuilt with no CHECK: every row is copied.  Dropping the old table
\* unlinks every session from its project where foreign keys are enforced.
RebuildProjects(a, enforced) ==
    [a EXCEPT !.sessions = IF enforced THEN [s \in DOMAIN @ |-> Null] ELSE @,
              !.settings = Reshaped(@)]

AddTable(a, table) == [a EXCEPT !.tables = @ \cup {table}]
AddActiveTicket(a) == AddTable(a, "active_ticket")
AddAgentUpdates(a) == AddTable(a, "agent_updates")
AddPrompts(a) == AddTable(a, "prompts")
AddTicketHistory(a) == AddTable(a, "ticket_history")

LastAuthored == 6
AuthoredMigrated(a, version, enforced) ==
    CASE version = 1 -> AuthoredInit(a)
      [] version = 2 -> RebuildProjects(a, enforced)
      [] version = 3 -> AddActiveTicket(a)
      [] version = 4 -> AddAgentUpdates(a)
      [] version = 5 -> AddPrompts(a)
      [] version = 6 -> AddTicketHistory(a)

-----------------------------------------------------------------------------
\* What a release at either version has left behind.
NoMirror == [version |-> 0, tables |-> {}, columns |-> {}, connections |-> {},
             tickets |-> {}, fresh |-> {}]
NoAuthored == [version |-> 0, tables |-> {}, projects |-> {}, sessions |-> << >>,
               settings |-> Null]

Old == [mirror |-> 3, authored |-> 1]

\* 0.3.0, the last release with two kinds of connection and projects of a repository.
OldMirror ==
    [AddSprint(AddPriorityAndPoints(MirrorInit(NoMirror))) EXCEPT
        !.version = Old.mirror, !.connections = Connections, !.tickets = {Jira},
        !.fresh = {"tickets", "pulls"}]

OldAuthored(settings, sessions) ==
    [AuthoredInit(NoAuthored) EXCEPT
        !.version = Old.authored,
        !.projects = [id : Projects, jira : BOOLEAN],
        !.sessions = sessions,
        !.settings = settings]

StoresInit ==
    /\ \/ mirror = NoMirror /\ authored = NoAuthored
       \/ /\ mirror = OldMirror
          /\ \E settings \in Payload \cup {Null, Unreadable},
                sessions \in [Sessions -> Projects \cup {Null}] :
                authored = OldAuthored(settings, sessions)
    /\ keychain = mirror.connections
    /\ launch = "down"
    /\ orphans = {}
    /\ interrupted = FALSE

-----------------------------------------------------------------------------
(* A launch.                                                               *)

\* Mutant: the references are read when the migrations have run.
OrphansLate == {}

\* openMirror: read before migrate, and only from a mirror that has not passed 4.
Orphans == IF mirror.version < 4 THEN mirror.connections \ {Jira} ELSE {}

OpenMirror ==
    /\ launch = "down"
    /\ launch' = "mirror"
    /\ orphans' = Orphans
    /\ UNCHANGED <<mirror, authored, keychain, interrupted>>

\* Mutant: foreign keys stay on through a rebuild.
EnforcedAlways(store, version) == TRUE

\* rebuildsReferencedTable: off, outside the transaction, for these two.
Enforced(store, version) == <<store, version>> \notin {<<"mirror", 4>>, <<"authored", 2>>}

\* foreign_key_check, which is made when the transaction has been committed.
Dangling(m) == m.tickets \ m.connections

\* migrate, one migration at a time, each with its row of schema_version.
MigrateMirror ==
    LET next == mirror.version + 1
        migrated == [MirrorMigrated(mirror, next, Enforced("mirror", next))
                        EXCEPT !.version = next]
    IN  /\ launch = "mirror" /\ mirror.version < LastMirror
        /\ mirror' = migrated
        /\ launch' = IF Dangling(migrated) = {} THEN launch ELSE "down"
        /\ orphans' = IF Dangling(migrated) = {} THEN orphans ELSE {}
        /\ UNCHANGED <<authored, keychain, interrupted>>

OpenAuthored ==
    /\ launch = "mirror" /\ mirror.version = LastMirror
    /\ launch' = "authored"
    /\ UNCHANGED <<mirror, authored, keychain, orphans, interrupted>>

MigrateAuthored ==
    LET next == authored.version + 1
    IN  /\ launch = "authored" /\ authored.version < LastAuthored
        /\ authored' = [AuthoredMigrated(authored, next, Enforced("authored", next))
                            EXCEPT !.version = next]
        /\ UNCHANGED <<mirror, keychain, launch, orphans, interrupted>>

\* The secrets go when both stores are open; each failure is swallowed.
DeleteOrphan(c) ==
    /\ launch = "authored" /\ authored.version = LastAuthored
    /\ c \in orphans
    /\ orphans' = orphans \ {c}
    /\ \/ keychain' = keychain \ {c} /\ UNCHANGED interrupted
       \/ interrupted' = TRUE /\ UNCHANGED keychain
    /\ UNCHANGED <<mirror, authored, launch>>

Ready ==
    /\ launch = "authored" /\ authored.version = LastAuthored /\ orphans = {}
    /\ launch' = "up"
    /\ UNCHANGED <<mirror, authored, keychain, orphans, interrupted>>

-----------------------------------------------------------------------------
\* The process dies, or an open throws: a full disk, a locked file.
Die ==
    /\ launch # "down"
    /\ launch' = "down"
    /\ orphans' = {}
    /\ interrupted' = (interrupted \/ launch # "up")
    /\ UNCHANGED <<mirror, authored, keychain>>

\* The operator adds his connection: the secret, and then the row.
AddConnection ==
    /\ launch = "up" /\ Jira \notin mirror.connections
    /\ mirror' = [mirror EXCEPT !.connections = @ \cup {Jira}, !.tickets = {Jira},
                                !.fresh = {"tickets"}]
    /\ keychain' = keychain \cup {Jira}
    /\ UNCHANGED <<authored, launch, orphans, interrupted>>

\* "safe to delete": the file is removed while nothing has it open.
DeleteMirror ==
    /\ launch = "down" /\ mirror # NoMirror
    /\ mirror' = NoMirror
    /\ interrupted' = (interrupted \/ Hub \in mirror.connections)
    /\ UNCHANGED <<authored, keychain, launch, orphans>>

StoresNext ==
    \/ OpenMirror \/ MigrateMirror \/ OpenAuthored \/ MigrateAuthored
    \/ \E c \in Connections : DeleteOrphan(c)
    \/ Ready \/ Die \/ AddConnection \/ DeleteMirror

StoresSpec == StoresInit /\ [][StoresNext]_storesVars

-----------------------------------------------------------------------------
(* What is checked.                                                        *)

StoresTypeOK ==
    /\ mirror.version \in 0..LastMirror /\ authored.version \in 0..LastAuthored
    /\ mirror.connections \subseteq Connections /\ keychain \subseteq Connections
    /\ launch \in {"down", "mirror", "authored", "up"}
    /\ orphans \subseteq {Hub}
    /\ authored.settings \in Payload \cup {Null, Unreadable}
    /\ interrupted \in BOOLEAN

\* The threshold the sessions are held to, under the name the file has for it.
Chosen(settings) ==
    IF settings \in Payload THEN Or(settings.sessions, settings.pulls) ELSE Null

\* No launch, however often it dies and wherever, loses a row the operator or an
\* agent wrote, a link between two of them, or a threshold he chose
\* (authored/migrations.ts: no migration here may lose a row); none empties the lane
\* of a mirror that nobody deleted (mirror/migrations.ts, 214-218); and the secret of
\* a connection that the upgrade removed has gone when a launch comes up, unless one
\* died in between, the keychain could not be reached or the file was deleted: the
\* references outlive their rows only in memory (runtime/services.ts 191-208).
SoundUpgrade ==
    /\ authored'.projects = authored.projects
    /\ \A s \in DOMAIN authored.sessions : authored'.sessions[s] = authored.sessions[s]
    /\ Chosen(authored.settings) = Tuned => Chosen(authored'.settings) = Tuned
    /\ mirror' # NoMirror => mirror.tickets \cap {Jira} \subseteq mirror'.tickets
    /\ launch' = "up" /\ ~interrupted' => Hub \notin keychain' \cup mirror'.connections

UpgradesAreSound == [][SoundUpgrade]_storesVars

=============================================================================
