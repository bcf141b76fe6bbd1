------------------------------ MODULE Registry ------------------------------
(***************************************************************************)
(* The operations of the core, as the composition root registers them      *)
(* (registry/build.ts): who may call each, whether it says that it mutates,*)
(* and which tables its handler reads and writes.  The tools of the MCP    *)
(* server and the list of the preload name operations of this table.       *)
(***************************************************************************)
Surfaces == {"ipc", "http", "mcp"}

\* A table stands for what one file of ops/ keeps; "connections" includes the
\* credentials, "mirror" the tickets, their freshness and the viewer identities.
Tables == {"connections", "projects", "settings", "mirror", "notes", "history",
           "sessions", "focus", "updates", "prompts", "outbox"}

Reading(name, exposure, tables) ==
    [name |-> name, exposure |-> exposure, mutates |-> FALSE, reads |-> tables, writes |-> {}]

Writing(name, exposure, tables) ==
    [name |-> name, exposure |-> exposure, mutates |-> TRUE, reads |-> {}, writes |-> tables]

BoardTables == {"mirror", "connections", "projects", "settings", "notes", "sessions"}

WorkOperations ==
    {Reading("work.list", "all", BoardTables),
     Reading("work.get", "all", BoardTables),
     Reading("board.summary", "all", BoardTables)}

LinksOperations ==
    {Reading("links.resolve", "all", {"mirror", "projects", "connections"})}

\* A note is shown with the presence of its subject: a ticket or a session.
NotesOperations ==
    {Reading("notes.list", "all", {"notes", "mirror", "sessions"}),
     Reading("notes.counts", "all", {"notes"}),
     Reading("notes.questions", "all", {"notes", "mirror", "sessions"}),
     Writing("notes.create", "all", {"notes"}),
     Writing("notes.update", "all", {"notes"}),
     Writing("notes.delete", "all", {"notes"})}

FocusOperations ==
    {Reading("focus.get", "all", {"focus"}),
     Writing("focus.set", "all", {"focus"}),
     Writing("focus.clear", "all", {"focus"})}

UpdatesOperations ==
    {Reading("updates.list", "all", {"updates"}),
     Writing("updates.post", "all", {"updates"})}

PromptsOperations ==
    {Reading("prompts.list", "all", {"prompts"}),
     Reading("prompts.get", "ui-only", {"prompts"}),
     Writing("prompts.record", "all", {"prompts"}),
     Writing("prompts.delete", "ui-only", {"prompts"})}

HistoryOperations ==
    {Reading("history.list", "all", {"history"}),
     Reading("history.get", "all", {"history"}),
     Writing("history.record", "all", {"history"}),
     Writing("history.revise", "ui-only", {"history"}),
     Writing("history.delete", "ui-only", {"history"})}

\* The state of a session is derived from the open questions and a setting.
SessionsOperations ==
    {Reading("sessions.list", "all", {"sessions", "notes", "settings"}),
     Writing("sessions.start", "all", {"sessions"}),
     Writing("sessions.heartbeat", "all", {"sessions"}),
     Writing("sessions.activity", "all", {"sessions"}),
     Writing("sessions.end", "all", {"sessions"})}

\* A minted confirmation is kept in memory only.
OutboxOperations ==
    {Writing("outbox.mintConfirmation", "ui-only", {}),
     Writing("outbox.enqueue", "ui-only", {"outbox"}),
     Reading("outbox.pending", "all", {"outbox"}),
     Reading("outbox.list", "all", {"outbox"}),
     Writing("outbox.claim", "all", {"outbox"}),
     Writing("outbox.complete", "all", {"outbox"}),
     Writing("outbox.fail", "all", {"outbox"}),
     Writing("outbox.cancel", "ui-only", {"outbox"})}

SyncOperations ==
    {Reading("sync.status", "all", {"mirror", "connections", "projects", "settings"}),
     Writing("sync.now", "all", {"mirror"})}

ConnectionsOperations ==
    {Reading("connections.list", "ui-only", {"connections", "mirror"}),
     Reading("connections.test", "ui-only", {"connections"}),
     Writing("connections.remove", "ui-only", {"connections", "mirror"})}

ProjectsOperations ==
    {Reading("projects.list", "all", {"projects"}),
     Writing("projects.upsert", "ui-only", {"projects"}),
     Writing("projects.remove", "ui-only", {"projects"})}

SettingsOperations ==
    {Reading("app.status", "all", {}),
     Reading("settings.get", "ui-only", {"settings"}),
     Writing("settings.update", "ui-only", {"settings"})}

\* buildRegistry.  A name registered twice stops the program.
Operations ==
    UNION {WorkOperations, LinksOperations, NotesOperations, FocusOperations,
           UpdatesOperations, PromptsOperations, HistoryOperations, SessionsOperations,
           OutboxOperations, SyncOperations, ConnectionsOperations, ProjectsOperations,
           SettingsOperations}

\* get: there is one of each name.
Operation(name) == CHOOSE op \in Operations : op.name = name

\* surfaceAllows
SurfaceAllows(exposure, surface) ==
    \/ exposure = "all"
    \/ exposure = "ui-only" /\ surface = "ipc"
    \/ exposure = "agent-only" /\ surface \in {"http", "mcp"}

\* What a dispatch gets as far as the handler of.
Dispatched(op, surface) == SurfaceAllows(op.exposure, surface)

NamesFor(surface) == {op.name : op \in {o \in Operations : Dispatched(o, surface)}}

Mutates(op) == op.mutates

-----------------------------------------------------------------------------
(* What the MCP server offers an agent: tools/*.ts.                        *)

ReadTools == {"board.summary", "work.list", "work.get", "app.status", "sync.status",
              "sync.now", "links.resolve", "projects.list"}
NotesTools == {"notes.list", "notes.questions", "notes.counts", "notes.create",
               "notes.update", "notes.delete"}
FocusTools == {"focus.set", "focus.get", "focus.clear"}
SessionsTools == {"sessions.start", "sessions.heartbeat", "sessions.activity",
                  "sessions.end", "sessions.list"}
UpdatesTools == {"updates.post", "updates.list"}
PromptsTools == {"prompts.record", "prompts.list"}
HistoryTools == {"history.record", "history.list", "history.get"}
OutboxTools == {"outbox.pending", "outbox.list", "outbox.claim", "outbox.complete",
                "outbox.fail"}

Tools == ReadTools \cup NotesTools \cup FocusTools \cup SessionsTools
         \cup UpdatesTools \cup PromptsTools \cup HistoryTools \cup OutboxTools

\* The literal list of the preload.
PreloadOperations ==
    {"app.status", "board.summary", "connections.list", "connections.remove",
     "connections.test", "focus.clear", "focus.get", "focus.set", "history.delete",
     "history.get", "history.list", "history.record", "history.revise",
     "links.resolve", "notes.counts", "notes.create", "notes.delete", "notes.list",
     "notes.questions", "notes.update", "outbox.cancel", "outbox.claim",
     "outbox.complete", "outbox.enqueue", "outbox.fail", "outbox.list",
     "outbox.mintConfirmation", "outbox.pending", "projects.list", "projects.remove",
     "projects.upsert", "prompts.delete", "prompts.get", "prompts.list",
     "prompts.record", "sessions.activity", "sessions.end", "sessions.heartbeat",
     "sessions.list", "sessions.start", "settings.get", "settings.update", "sync.now",
     "sync.status", "updates.list", "updates.post", "work.get", "work.list"}

=============================================================================
