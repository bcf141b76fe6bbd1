------------------------------ MODULE Projects ------------------------------
(***************************************************************************)
(* The settings screen on which projects are bound to accounts: its two    *)
(* lists and its form (renderer/settings: Projects.tsx, Connections.tsx),  *)
(* and the operations behind it (registry/ops/config.ts, authored/         *)
(* config.ts).                                                             *)
(*                                                                         *)
(* Of a project only the account is kept; its name, key and link are text, *)
(* and its colour and status overrides are carried along by the form.  A   *)
(* submission without a ticket key is refused and changes nothing.         *)
(***************************************************************************)
EXTENDS Naturals, FiniteSets, Sequences, Functions

CONSTANTS
    Codes,     \* the short codes the operator types
    IdOf,      \* a new project's id is its code in lower case
    Accounts,  \* the connections that can be made
    Null,
    MaxSaves   \* bound on submissions that are under way

ASSUME ProjectsAssumption == Null \notin Accounts

VARIABLES
    accounts,  \* the connections that are stored
    table,     \* the projects table
    offered,   \* ["connections"] in the query cache, or Null
    listed,    \* ["projects"] in the query cache, or Null
    wanted,    \* the queries that are being fetched
    form,      \* the form of the screen, or Null while the screen is closed
    saves      \* submissions on their way to main, in order

projectsVars == <<accounts, table, offered, listed, wanted, form, saves>>

ProjectIds == {IdOf[c] : c \in Codes}
ProjectTables == UNION {[ids -> Accounts \cup {Null}] : ids \in SUBSET ProjectIds}
Queries == {"connections", "projects"}

\* `shown`, a ghost: the accounts the operator was shown in the form: those on offer
\* when it was mounted or when one was picked, and the edited project's own.
Forms == [editing : ProjectIds \cup {Null}, account : Accounts \cup {Null},
          shown : SUBSET Accounts]
\* `mine`: submitted by the form as it is mounted now.
Saves == [id : ProjectIds, account : Accounts \cup {Null}, shown : SUBSET Accounts,
          mine : BOOLEAN]

ProjectsTypeOK ==
    /\ accounts \in SUBSET Accounts
    /\ table \in ProjectTables
    /\ offered \in (SUBSET Accounts) \cup {Null}
    /\ listed \in ProjectTables \cup {Null}
    /\ wanted \in SUBSET Queries
    /\ form \in Forms \cup {Null}
    /\ \A i \in DOMAIN saves : saves[i] \in Saves

ProjectsInit ==
    /\ accounts \in SUBSET Accounts
    /\ table \in {t \in ProjectTables : \A id \in DOMAIN t : t[id] \in Accounts}
    /\ offered = Null /\ listed = Null
    /\ wanted = {}
    /\ form = Null
    /\ saves = << >>

-----------------------------------------------------------------------------
(* The screen.                                                             *)

OnOffer == IF offered = Null THEN {} ELSE offered

\* jira[0]
First(list) == IF list \in {Null, {}} THEN Null ELSE CHOOSE c \in list : TRUE

\* Mutant: the form does not look at the list.
ProjectsOwn(account, list) == account

\* The initial state of the account: the project's own, still on offer or not, or else
\* the first on offer.
InitialAccount(account, list) == IF account # Null THEN account ELSE First(list)

\* ProjectForm is mounted, with the list as it is then.
Mounted(id, account) ==
    [editing |-> id, account |-> InitialAccount(account, offered),
     shown |-> OnOffer \cup ({account} \ {Null})]

NewForm == Mounted(Null, Null)

\* A form that is mounted has nothing of its own under way.
Disowned(list) == [i \in DOMAIN list |-> [list[i] EXCEPT !.mine = FALSE]]

\* Both lists are fetched unless they are younger than the stale time.
OpenScreen ==
    /\ form = Null
    /\ form' = NewForm
    /\ \E fresh \in SUBSET Queries :
        /\ "connections" \in fresh => offered # Null
        /\ "projects" \in fresh => listed # Null
        /\ wanted' = wanted \cup (Queries \ fresh)
    /\ UNCHANGED <<accounts, table, offered, listed, saves>>

\* Back to the board; the lists are dropped when nobody has looked for a while.
Leave ==
    /\ form # Null
    /\ form' = Null
    /\ saves' = Disowned(saves)
    /\ UNCHANGED <<accounts, table, offered, listed, wanted>>
Collect ==
    /\ form = Null /\ wanted = {}
    /\ offered' = Null /\ listed' = Null
    /\ UNCHANGED <<accounts, table, wanted, form, saves>>

Fetched(query) ==
    /\ query \in wanted
    /\ wanted' = wanted \ {query}
    /\ IF query = "connections" THEN offered' = accounts /\ UNCHANGED listed
                                ELSE listed' = table /\ UNCHANGED offered
    /\ UNCHANGED <<accounts, table, form, saves>>

\* AddConnection and Remove, on the other half of the screen.
Connect(c) ==
    /\ form # Null /\ c \notin accounts
    /\ accounts' = accounts \cup {c}
    /\ wanted' = wanted \cup {"connections"}
    /\ UNCHANGED <<table, offered, listed, form, saves>>
Disconnect(c) ==
    /\ form # Null /\ offered # Null /\ c \in offered
    /\ accounts' = accounts \ {c}
    /\ wanted' = wanted \cup {"connections"}
    /\ UNCHANGED <<table, offered, listed, form, saves>>

\* EditProject: the form is keyed by the project, and mounted again when that changes.
EditProject(id) ==
    /\ form # Null /\ listed # Null /\ id \in DOMAIN listed
    /\ form.editing # id
    /\ form' = Mounted(id, listed[id])
    /\ saves' = Disowned(saves)
    /\ UNCHANGED <<accounts, table, offered, listed, wanted>>
Cancel ==
    /\ form # Null /\ form.editing # Null
    /\ form' = NewForm
    /\ saves' = Disowned(saves)
    /\ UNCHANGED <<accounts, table, offered, listed, wanted>>

\* The account picker is drawn when there is a choice; an account that is not on
\* offer is drawn as the first, and choosing what is drawn changes nothing.
Pick(c) ==
    /\ form # Null /\ offered # Null /\ Cardinality(offered) > 1 /\ c \in offered
    /\ c # (IF form.account \in offered THEN form.account ELSE First(offered))
    /\ form' = [form EXCEPT !.account = c, !.shown = @ \cup offered]
    /\ UNCHANGED <<accounts, table, offered, listed, wanted, saves>>

Submit(code) ==
    /\ form # Null /\ Len(saves) < MaxSaves
    /\ \A i \in DOMAIN saves : ~saves[i].mine
    /\ saves' = Append(saves,
         [id |-> IF form.editing # Null THEN form.editing ELSE IdOf[code],
          account |-> form.account, shown |-> form.shown, mine |-> TRUE])
    /\ UNCHANGED <<accounts, table, offered, listed, wanted, form>>

\* projects.upsert; onSaved closes whatever is being edited by then.
Save ==
    /\ saves # << >>
    /\ table' = [id \in DOMAIN table \cup {Head(saves).id} |->
                    IF id = Head(saves).id THEN Head(saves).account ELSE table[id]]
    /\ wanted' = wanted \cup {"projects"}
    /\ IF form # Null /\ form.editing # Null
       THEN form' = NewForm /\ saves' = Disowned(Tail(saves))
       ELSE saves' = Tail(saves) /\ UNCHANGED form
    /\ UNCHANGED <<accounts, offered, listed>>

\* projects.upsert refuses the submission, as its code is another project's for one;
\* the form says so and stays.
SaveRefused ==
    /\ saves # << >>
    /\ saves' = Tail(saves)
    /\ UNCHANGED <<accounts, table, offered, listed, wanted, form>>

\* projects.remove
RemoveProject(id) ==
    /\ form # Null /\ listed # Null /\ id \in DOMAIN listed
    /\ table' = Restrict(table, DOMAIN table \ {id})
    /\ wanted' = wanted \cup {"projects"}
    /\ UNCHANGED <<accounts, offered, listed, form, saves>>

ProjectsNext ==
    \/ OpenScreen \/ Leave \/ Collect \/ Cancel \/ Save \/ SaveRefused
    \/ \E query \in Queries : Fetched(query)
    \/ \E c \in Accounts : Connect(c) \/ Disconnect(c) \/ Pick(c)
    \/ \E id \in ProjectIds : EditProject(id) \/ RemoveProject(id)
    \/ \E code \in Codes : Submit(code)

ProjectsSpec == ProjectsInit /\ [][ProjectsNext]_projectsVars

-----------------------------------------------------------------------------
(* What is checked.                                                        *)

\* The account is one that was shown.
TakesShown(f) == f.account \in f.shown \/ (f.account = Null /\ f.shown = {})

\* A form holds, and submits, an account that the operator was shown in it, and none
\* only when none was shown, whatever is removed, fetched, picked, edited and saved in
\* between.  A new project's was on offer; an edited project may keep its own after
\* that has been removed (Projects.tsx).
OfferIsTaken ==
    /\ form # Null => TakesShown(form)
    /\ \A i \in DOMAIN saves : TakesShown(saves[i])

\* A project that is saved while there is an account is bound to one (FR-002: a
\* project MUST be bound to a specific account).
ProjectsAreBound ==
    [][\A id \in DOMAIN table' :
          \/ id \in DOMAIN table /\ table'[id] = table[id]
          \/ accounts = {}
          \/ table'[id] # Null]_projectsVars

=============================================================================
