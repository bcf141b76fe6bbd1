------------------------------- MODULE MCConsole -------------------------------
(***************************************************************************)
(* The parts of the program that keep a state of their own and share none  *)
(* of it with the others: sessions and the board that reads them, posts,   *)
(* the ticket history and its panel, the launcher, the opening of the      *)
(* stores, the handshake with the app, and the Jira provider.  One of them *)
(* moves in each behaviour, so that the states of a run are the sum of     *)
(* theirs and not the product.                                             *)
(***************************************************************************)
EXTENDS Board, Handshake, History, Launcher, Posts, Stores, Jira, TLC

CONSTANTS
    Parts,
    k1, t1, me, other,                           \* Board
    k2, a1,                                      \* Posts
    p, q,                                        \* History: pieces of notes
    l1, l2,                                      \* Launcher
    j1, j2,                                      \* Stores
    d1, d2, d3                                   \* Handshake

MCProcesses == {d1, d2, d3}
MCAdditions == {<< >>, <<p>>, <<q>>}
MCRevisions == {<< >>, <<q>>}
MCKeys == {k1}
MCTickets == {t1}
MCIntervals == {1, 2}
MCAccounts == {me, other}
MCOperators == {me}
MCLaunchers == {l1, l2}
MCProjects == {j1, j2}

VARIABLE part

consoleVars == <<part, vars, historyVars, postsVars, launcherVars, storesVars, handshakeVars,
                 jiraVars>>

-----------------------------------------------------------------------------
\* Two sessions of one agent.
MCSessionKeys == {k1, k2}
MCAgents == {a1}
MCOwnerOf == k1 :> a1 @@ k2 :> a1

\* Hosts that differ in what the launcher asks of them.
Plain == [platform |-> "linux", owner |-> "someone", apparmor |-> "absent",
          clone |-> "absent", max |-> "some", local |-> "absent"]
MCHosts == {Plain, [Plain EXCEPT !.local = "foreign"], [Plain EXCEPT !.platform = "other"],
          [Plain EXCEPT !.local = "usable", !.owner = "root_setuid"],
          [Plain EXCEPT !.apparmor = "restricts"]}

-----------------------------------------------------------------------------
(* What Jira holds.                                                        *)

Descriptor(id, name, own, type, plugin) ==
    [id |-> id, name |-> name, custom |-> own, type |-> type, plugin |-> plugin]
Pull(url, state, updated) == [url |-> url, state |-> state, updated |-> updated]
Sprint(name, state) == [name |-> name, state |-> state]
Change(at, author, field) == [at |-> at, instant |-> at, author |-> author, field |-> field]
\* A time spelled with another offset: its text sorts before its instant.
Abroad(at, instant, field) ==
    [at |-> at, instant |-> instant, author |-> "person", field |-> field]

\* A site with several fields that could be the one, and an older one that sends no
\* schema and knows of no development.
Rich == << Descriptor("f1", "story point total", TRUE, Nil, "other"),
           Descriptor("f2", "story points", TRUE, "text", "other"),
           Descriptor("f3", "story point estimate", TRUE, "number", "other"),
           Descriptor("f4", "sprint", TRUE, Nil, Nil),
           Descriptor("f5", "iteration", TRUE, Nil, "sprint"),
           Descriptor("f6", "development", TRUE, Nil, "devsummary") >>
Bare == << Descriptor("f4", "sprint", Nil, Nil, Nil),
           Descriptor("f1", "story point total", TRUE, "number", "other") >>

\* Pull requests of two applications, one of them in both; bots among the changes.
Busy == [key |-> "busy", id |-> "10001", category |-> "done", versions |-> <<"v1", Nil>>,
         own |-> "f3" :> 3 @@ "f5" :> << Sprint("s1", "closed"), Nil,
                     Sprint("s2", "active"), Sprint("s3", "future") >>,
         said |-> "summary", types |-> <<"hub", "lab">>,
         pulls |-> "hub" :> << Pull("u1", "merged", 2), Pull(Nil, "open", 1),
                               Pull("u2", "open", 1) >>
                @@ "lab" :> << Pull("u1", "merged", 2), Pull("u3", "open", 2),
                               Pull("u4", "declined", 3) >>,
         changes |-> {Change(3, "bot-like", "status"), Change(2, "person", "comment"),
                      Change(4, "person", "epic")}]
Quiet == [key |-> "quiet", id |-> "10002", category |-> "renamed", versions |-> << >>,
          own |-> "f4" :> << Sprint("s1", "closed"), Sprint("s2", "closed") >>,
          said |-> "nothing", types |-> << >>, pulls |-> << >>, changes |-> {}]
Opaque == [key |-> "opaque", id |-> "10003", category |-> "new", versions |-> << >>,
           own |-> "f5" :> << Sprint("s1", "closed"), Sprint("s2", "closed") >>,
           said |-> "illegible", types |-> <<"hub">>,
           pulls |-> "hub" :> << Pull("u5", "open", 2) >>,
           changes |-> {Change(1, "person", "status"), Change(2, "missing", "status"),
                        Change(3, "person", "labels")}]

\* A summary without its count, and two times that do not sort as they went.
Terse == [key |-> "terse", id |-> "10004", category |-> "new", versions |-> << >>,
          own |-> << >>, said |-> "uncounted", types |-> <<"hub">>,
          pulls |-> "hub" :> << Pull("u6", "open", 1) >>,
          changes |-> {Change(2, "person", "status"), Abroad(1, 3, "comment")}]

Site(fields, issues, names) == [fields |-> fields, issues |-> issues, names |-> names]
MCSites ==
    {Site(fields, issues, "keys") : fields \in {Rich, Bare},
        issues \in {<< >>, <<Terse>>, <<Opaque, Busy>>, <<Busy, Quiet, Opaque>>}}
    \cup {Site(Bare, <<Terse>>, "ids"), Site(Bare, <<Busy, Quiet, Opaque>>, "ids")}

Answer(status, spent) == [status |-> status, spent |-> spent]
MCAnswers == {Answer(0, FALSE), Answer(400, FALSE), Answer(401, FALSE), Answer(403, TRUE),
              Answer(429, TRUE), Answer(500, FALSE)}

-----------------------------------------------------------------------------
ConsoleInit ==
    /\ part \in Parts
    /\ Init /\ PostsInit /\ HistoryInit /\ LauncherInit /\ StoresInit /\ HandshakeInit /\ JiraInit
    /\ part # "history" => mirrored = {}
    /\ part # "launcher" => host = Plain /\ runtime = Absent /\ native = Absent
    /\ part # "stores" => mirror = NoMirror /\ authored = NoAuthored
    /\ part # "jira" => site = Site(Bare, << >>, "keys")

ConsoleNext ==
    /\ UNCHANGED part
    /\ \/ /\ part = "sessions" /\ SessionsNext
          /\ UNCHANGED <<historyVars, postsVars, launcherVars, storesVars, handshakeVars,
                         jiraVars>>
       \/ /\ part = "updates" /\ UNCHANGED <<prompts, recorded, deleted>> /\ PostsNext
          /\ UNCHANGED <<vars, historyVars, launcherVars, storesVars, handshakeVars, jiraVars>>
       \/ /\ part = "prompts" /\ UNCHANGED <<begun, active, updates, posted>> /\ PostsNext
          /\ UNCHANGED <<vars, historyVars, launcherVars, storesVars, handshakeVars, jiraVars>>
       \/ /\ part = "history" /\ HistoryNext
          /\ UNCHANGED <<vars, postsVars, launcherVars, storesVars, handshakeVars, jiraVars>>
       \/ /\ part = "launcher" /\ LauncherNext
          /\ UNCHANGED <<vars, historyVars, postsVars, storesVars, handshakeVars, jiraVars>>
       \/ /\ part = "stores" /\ StoresNext
          /\ UNCHANGED <<vars, historyVars, postsVars, launcherVars, handshakeVars, jiraVars>>
       \/ /\ part = "handshake" /\ HandshakeNext
          /\ UNCHANGED <<vars, historyVars, postsVars, launcherVars, storesVars, jiraVars>>
       \/ /\ part = "jira" /\ JiraNext
          /\ UNCHANGED <<vars, historyVars, postsVars, launcherVars, storesVars, handshakeVars>>

ConsoleSpec == ConsoleInit /\ [][ConsoleNext]_consoleVars

\* The window refetches what it has been told of.
ConsoleFair ==
    ConsoleSpec /\ WF_consoleVars(/\ part = "history" /\ Refetched /\ UNCHANGED <<part, vars>>
                                  /\ UNCHANGED <<postsVars, launcherVars, storesVars,
                                                handshakeVars, jiraVars>>)

-----------------------------------------------------------------------------
\* The variables of each have their types.
ConsoleTypeOK ==
    /\ SessionsTypeOK /\ PostsTypeOK /\ HistoryTypeOK /\ LauncherTypeOK
    /\ StoresTypeOK /\ HandshakeTypeOK /\ JiraTypeOK

=============================================================================
