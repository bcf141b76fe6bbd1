--------------------------------- MODULE Jira ---------------------------------
(***************************************************************************)
(* The Jira provider in one sync of one connection: providers/jira, over   *)
(* the HTTP client of providers/http.ts, called by syncTickets.            *)
(*                                                                         *)
(* A provider is built for every sync.  It looks up the site's own fields  *)
(* once, follows the pages of the search, asks for the pull requests of a  *)
(* page's tickets with a few requests in flight, and asks for the          *)
(* changelogs in batches.  A request is answered in a step of its own and  *)
(* may be answered badly, or with less than Jira holds and no word that    *)
(* the code reads of that.  What Jira holds does not change meanwhile.     *)
(***************************************************************************)
EXTENDS Naturals, FiniteSets, Sequences, Functions

CONSTANTS
    Sites,      \* what Jira may hold, and what it names a changelog by: [fields, issues, names]
    Answers,    \* what may come back instead of an answer: [status, spent]
    PageSize,
    Limit,      \* PULL_REQUEST_CONCURRENCY
    Batch,      \* CHANGELOG_BATCH
    Nil

VARIABLES
    site,     \* of Sites
    phase,    \* what the sync waits for
    custom,   \* the field ids, once they are looked up
    tickets,  \* of the pages that are complete
    page,     \* the issues of the page under way
    next,     \* mapBounded: the first of them that no worker has taken
    workers,
    results,  \* mapBounded: by issue of the page
    logs,     \* the changelogs fetched so far: issue and entry
    asked,    \* the number of issues they have been asked for
    error,    \* what the sync is told, Nil while nothing is
    broken,   \* ghost: the issues of which a request for pull requests failed
    partial,  \* ghost: those of which one was answered, and not with all there is
    shortened \* ghost: those of which a changelog was

jiraVars == <<site, phase, custom, tickets, page, next, workers, results, logs, asked,
          error, broken, partial, shortened>>
pagesVars == <<page, next, workers, results, broken, partial>>
logsVars == <<logs, asked, shortened>>

Issues == UNION {{s.issues[i] : i \in DOMAIN s.issues} : s \in Sites}
Pulls == UNION {UNION {Range(issue.pulls[t]) : t \in DOMAIN issue.pulls} : issue \in Issues}
Authors == {"missing", "app", "bot-like", "person"}
Failures == {"rateLimited", "unauthorized", "providerUnavailable"}

ASSUME JiraAssumption ==
    /\ PageSize \in Nat \ {0} /\ Limit \in Nat \ {0} /\ Batch \in Nat \ {0}
    /\ \A s \in Sites :
        /\ s.fields \in Seq(Range(s.fields)) /\ s.issues \in Seq(Issues)
        /\ \A i, j \in DOMAIN s.issues : s.issues[i].key = s.issues[j].key => i = j
        /\ \A i, j \in DOMAIN s.issues : s.issues[i].id # s.issues[j].key
        /\ s.names \in {"keys", "ids"}
    /\ \A issue \in Issues :
        /\ issue.said \in {"nothing", "summary", "uncounted", "illegible"}
        /\ issue.types \in Seq(DOMAIN issue.pulls)
        /\ issue.said = "nothing" => issue.types = << >>
        /\ \A t \in DOMAIN issue.pulls : issue.pulls[t] \in Seq(Pulls)
        /\ IsFiniteSet(issue.changes)
        /\ \A c \in issue.changes : c.at \in Nat /\ c.instant \in Nat /\ c.author \in Authors
    /\ \A pr \in Pulls : pr.updated \in Nat
    /\ \A answer \in Answers : answer.status \in Nat
    /\ Nil \notin Seq(Pulls)
    /\ Nil \notin [by : {"search", "logs"}, status : Nat, kind : Failures]

Workers == 1..Limit
Idle == [at |-> "idle"]
Unset == [set |-> FALSE]
Unknown == [set |-> TRUE, links |-> Nil]
Known(links) == [set |-> TRUE, links |-> links]

-----------------------------------------------------------------------------
(* providers/http.ts                                                       *)

\* mapStatus.  A status of 0 is a request that reached nobody; `spent` is a rate
\* limit of which nothing is left.
Thrown(answer) ==
    CASE answer.status \in {401, 403} ->
            IF answer.spent THEN "rateLimited" ELSE "unauthorized"
      [] answer.status = 429 -> "rateLimited"
      [] OTHER -> "providerUnavailable"

-----------------------------------------------------------------------------
(* The site's own fields.  A descriptor has an id, a name, whether it is    *)
(* custom, the type of its values and the plugin that made it; each but the *)
(* id may be left unsaid (Nil).                                            *)

FirstId(fields, chosen) ==
    IF chosen = {} THEN Nil ELSE fields[CHOOSE i \in chosen : \A j \in chosen : i <= j].id

StoryPointNames == {"story points", "story point estimate", "story point total"}

StoryPointFieldId(fields) ==
    LET candidates == {i \in DOMAIN fields : /\ fields[i].name \in StoryPointNames
                                             /\ fields[i].custom # FALSE
                                             /\ fields[i].type \in {"number", Nil}}
        Called(name) == {i \in candidates : fields[i].name = name}
    IN  FirstId(fields,
          IF Called("story points") # {} THEN Called("story points")
          ELSE IF Called("story point estimate") # {} THEN Called("story point estimate")
          ELSE candidates)

SprintFieldId(fields) ==
    LET stamped == {i \in DOMAIN fields : fields[i].plugin = "sprint"}
        named == {i \in DOMAIN fields : /\ fields[i].custom # FALSE /\ fields[i].plugin = Nil
                                        /\ fields[i].name = "sprint"}
    IN  FirstId(fields, IF stamped # {} THEN stamped ELSE named)

DevelopmentFieldId(fields) ==
    FirstId(fields, {i \in DOMAIN fields : fields[i].plugin = "devsummary"})

NoIds == [points |-> Nil, sprint |-> Nil, development |-> Nil]

-----------------------------------------------------------------------------
(* One issue.  Its fields are what the site sends under its own ids: for    *)
(* points a number, some text (Nil) or nothing; for sprints a sequence of  *)
(* entries, an entry without a name being Nil.                             *)

ToStatusCategory(key) ==
    CASE key = "done" -> "done"
      [] key \in {"new", "undefined"} -> "new"
      [] OTHER -> "indeterminate"

SprintRank(state) ==
    CASE state = "active" -> 0
      [] state = "future" -> 1
      [] state = "closed" -> 3
      [] OTHER -> 2

\* The entries that have a name, and those of the best rank.
Entries(value) == {i \in DOMAIN value : value[i] # Nil}
Winning(value) ==
    {i \in Entries(value) : \A j \in Entries(value) :
        SprintRank(value[i].state) <= SprintRank(value[j].state)}

\* Mutant: a sprint takes the place only of one of a worse rank.
FirstSprint(value) ==
    IF Entries(value) = {} THEN Nil
    ELSE value[CHOOSE i \in Winning(value) : \A j \in Winning(value) : i <= j].name

\* The last entry of the winning rank.
CurrentSprint(value) ==
    IF Entries(value) = {} THEN Nil
    ELSE value[CHOOSE i \in Winning(value) : \A j \in Winning(value) : j <= i].name

ToFixVersions(value) == LET HasName(entry) == entry # Nil IN SelectSeq(value, HasName)

\* A field that was not asked for is not in the answer.
Field(issue, id) == IF id \in DOMAIN issue.own THEN issue.own[id] ELSE Nil

\* A field that is not known, or not set, is one without entries.
SprintField(issue, ids) ==
    IF ids.sprint = Nil \/ Field(issue, ids.sprint) = Nil THEN << >> ELSE Field(issue, ids.sprint)

ASSUME SprintsAssumption ==
    \A s \in Sites : \A issue \in Range(s.issues) :
        LET value == SprintField(issue, [sprint |-> SprintFieldId(s.fields)])
        IN  value \in Seq(Range(value))

\* toTicket, and the pull requests that searchIssues puts beside it.
ToTicket(issue, ids, links) ==
    [key |-> issue.key, category |-> ToStatusCategory(issue.category),
     points |-> IF ids.points = Nil THEN Nil ELSE Field(issue, ids.points),
     sprint |-> CurrentSprint(SprintField(issue, ids)),
     versions |-> ToFixVersions(issue.versions), pullRequests |-> links,
     active |-> Nil, moved |-> Nil]

-----------------------------------------------------------------------------
(* Pull requests.  A pull request has a URL, Nil when there is none, a      *)
(* state and the time of its last change.                                    *)

\* devSummaryFromField and the count: the types that hold pull requests; Nil when the
\* value cannot be read.  A summary that gives no count has none.
DevSummaryFromField(issue) ==
    CASE issue.said \in {"nothing", "uncounted"} -> << >>
      [] issue.said = "summary" -> issue.types
      [] issue.said = "illegible" -> Nil

PullRank(state) ==
    CASE state = "open" -> 0 [] state = "merged" -> 1
      [] state = "declined" -> 3 [] OTHER -> 2

\* Mutant: sorted by time alone.
BeforeByTime(a, b) == a.updated > b.updated

Before(a, b) ==
    \/ PullRank(a.state) < PullRank(b.state)
    \/ PullRank(a.state) = PullRank(b.state) /\ a.updated > b.updated

\* What an answer may hold of what there is: some of it, in the order it is in.
Picks(n) ==
    {pick \in UNION {[1..count -> 1..n] : count \in 0..n} :
        \A i, j \in DOMAIN pick : i < j => pick[i] < pick[j]}
Excerpts(found) ==
    {[n \in DOMAIN pick |-> found[pick[n]]] : pick \in Picks(Len(found))}

\* toPullRequests: what has no URL is dropped.
Openable(found) == {i \in DOMAIN found : found[i].url # Nil}

\* The sort keeps equals in order.
Ahead(found, i, j) ==
    \/ Before(found[i], found[j])
    \/ ~Before(found[j], found[i]) /\ i < j

\* One entry per URL, the first of them.
OfUrl(found) ==
    {j \in Openable(found) : ~\E i \in Openable(found) :
        Ahead(found, i, j) /\ found[i].url = found[j].url}

\* orderPullRequests: each where it is by the number of those ahead of it.
OrderPullRequests(found) ==
    [n \in 1..Cardinality(OfUrl(found)) |->
        found[CHOOSE j \in OfUrl(found) :
                 Cardinality({i \in OfUrl(found) : Ahead(found, i, j)}) = n - 1]]

-----------------------------------------------------------------------------
(* Changelogs.  The time of a change is a text: `at` is its place among the *)
(* texts, `instant` is when it was.                                        *)

\* classifyAuthor: an author is missing, an app, one whose name gives a bot away, or
\* anybody else.
ClassifyAuthor(author) ==
    CASE author \in {"missing", "app"} -> "automation"
      [] author = "bot-like" -> "bot"
      [] OTHER -> "human"

RealFields == {"status", "assignee", "comment"}
NeverRealFields == {"labels", "rank"}

\* Mutant: what nobody has classified is real.
CountsUnlessNever(entry) ==
    ClassifyAuthor(entry.author) = "human" /\ entry.field \notin NeverRealFields

CountsAsReal(entry) ==
    /\ ClassifyAuthor(entry.author) = "human"
    /\ entry.field \notin NeverRealFields /\ entry.field \in RealFields

LatestAt(entries) ==
    IF entries = {} THEN Nil
    ELSE (CHOOSE e \in entries : \A other \in entries : other.at <= e.at).at

\* applyActivity: the real change whose text sorts last, and that of the status.
ApplyActivity(all, changes) ==
    LET Real(t) == {c.entry : c \in {x \in changes : x.key = t.key /\ CountsAsReal(x.entry)}}
        Statuses(t) == {e \in Real(t) : e.field = "status"}
    IN  [i \in DOMAIN all |-> [all[i] EXCEPT !.active = LatestAt(Real(all[i])),
                                             !.moved = LatestAt(Statuses(all[i]))]]

-----------------------------------------------------------------------------
JiraInit ==
    /\ site \in Sites
    /\ phase = "fields"
    /\ custom = NoIds
    /\ tickets = << >>
    /\ page = << >> /\ next = 1 /\ results = << >> /\ broken = {} /\ partial = {}
    /\ workers = [w \in Workers |-> Idle]
    /\ logs = {} /\ asked = 0 /\ shortened = {}
    /\ error = Nil

\* customFields: one lookup, which the pages share.
FieldsAnswered ==
    /\ phase = "fields"
    /\ custom' = [points |-> StoryPointFieldId(site.fields),
                  sprint |-> SprintFieldId(site.fields),
                  development |-> DevelopmentFieldId(site.fields)]
    /\ phase' = "search"
    /\ UNCHANGED <<site, tickets, pagesVars, logsVars, error>>

\* Mutant: Jira Cloud calls the points' field customfield_10016, mostly.
UsualIds == [NoIds EXCEPT !.points = "customfield_10016"]

\* A lookup that fails is remembered for this sync, as a site without such fields.
WithoutIds == NoIds

FieldsFailed ==
    /\ phase = "fields"
    /\ custom' = WithoutIds
    /\ phase' = "search"
    /\ UNCHANGED <<site, tickets, pagesVars, logsVars, error>>

\* Jira rejects a search that names a field it has not got.
AskedFor == {custom[c] : c \in DOMAIN custom} \ {Nil}
Accepted == AskedFor \subseteq {site.fields[i].id : i \in DOMAIN site.fields}

Left == SubSeq(site.issues, Len(tickets) + 1, Len(site.issues))

SearchAnswered ==
    /\ phase = "search" /\ Accepted
    /\ page' = SubSeq(Left, 1, IF Len(Left) < PageSize THEN Len(Left) ELSE PageSize)
    /\ results' = [i \in DOMAIN page' |-> Unset]
    /\ next' = 1
    /\ phase' = "pulls"
    /\ UNCHANGED <<site, custom, tickets, workers, broken, partial, logsVars, error>>

SearchFailed(answer) ==
    /\ phase = "search"
    /\ ~Accepted => answer.status = 400
    /\ Accepted => answer.status # 400
    /\ phase' = "failed"
    /\ error' = [by |-> "search", status |-> answer.status, kind |-> Thrown(answer)]
    /\ UNCHANGED <<site, custom, tickets, pagesVars, logsVars>>

-----------------------------------------------------------------------------
(* mapBounded and pullRequestsFor, whose requests are in flight at once.   *)

\* Mutant: what is found first is put first.
PutFirstFree(i, result) ==
    LET free == CHOOSE n \in DOMAIN results :
                    ~results[n].set /\ \A m \in 1..(n - 1) : results[m].set
    IN  [results EXCEPT ![free] = result]

Put(i, result) == [results EXCEPT ![i] = result]

Settle(w, result) ==
    /\ results' = Put(workers[w].i, result)
    /\ workers' = [workers EXCEPT ![w] = Idle]

\* The next issue.  The field may have said already that there are none.
Take(w) ==
    LET issue == page[next]
        types == IF custom.development = Nil THEN Nil ELSE DevSummaryFromField(issue)
    IN  /\ phase = "pulls" /\ workers[w] = Idle /\ next <= Len(page)
        /\ next' = next + 1
        /\ IF types = << >>
           THEN /\ results' = Put(next, Known(<< >>)) /\ UNCHANGED workers
                /\ partial' = IF issue.types = << >> THEN partial ELSE partial \cup {issue.key}
           ELSE /\ workers' = [workers EXCEPT ![w] =
                       IF types = Nil THEN [at |-> "summary", i |-> next]
                       ELSE [at |-> "detail", i |-> next, types |-> types, found |-> << >>]]
                /\ UNCHANGED <<results, partial>>
        /\ UNCHANGED <<site, phase, custom, tickets, page, broken, logsVars, error>>

SummaryAnswered(w) ==
    LET types == page[workers[w].i].types
    IN  /\ workers[w].at = "summary"
        /\ IF types = << >> THEN Settle(w, Known(<< >>))
           ELSE /\ workers' = [workers EXCEPT ![w] = [at |-> "detail", i |-> workers[w].i,
                                                      types |-> types, found |-> << >>]]
                /\ UNCHANGED results
        /\ UNCHANGED <<site, phase, custom, tickets, page, next, broken, partial, logsVars, error>>

\* A summary that gives no count says none.
SummaryUncounted(w) ==
    /\ workers[w].at = "summary"
    /\ page[workers[w].i].types # << >>
    /\ Settle(w, Known(<< >>))
    /\ partial' = partial \cup {page[workers[w].i].key}
    /\ UNCHANGED <<site, phase, custom, tickets, page, next, broken, logsVars, error>>

\* What the issue of a worker has of the type it asks for.
Asked(w) == page[workers[w].i].pulls[Head(workers[w].types)]

\* The types are asked for one by one.  The errors an answer may speak of are not read,
\* and one without details holds none.
DetailAnswered(w, answer) ==
    LET worker == workers[w]
        found == worker.found \o answer
    IN  /\ worker.at = "detail"
        /\ partial' = IF answer = Asked(w) THEN partial
                      ELSE partial \cup {page[worker.i].key}
        /\ IF Len(worker.types) = 1 THEN Settle(w, Known(OrderPullRequests(found)))
           ELSE /\ workers' = [workers EXCEPT ![w].types = Tail(worker.types),
                                              ![w].found = found]
                /\ UNCHANGED results
        /\ UNCHANGED <<site, phase, custom, tickets, page, next, broken, logsVars, error>>

\* Mutant: what could not be found out is none.
FailedMeansNone == Known(<< >>)

FailedMeans == Unknown

\* A bad answer, or one without a summary: this ticket's are unknown, and the
\* others are asked for as before.
PullsFailed(w) ==
    /\ workers[w].at \in {"summary", "detail"}
    /\ Settle(w, FailedMeans)
    /\ broken' = broken \cup {page[workers[w].i].key}
    /\ UNCHANGED <<site, phase, custom, tickets, page, next, partial, logsVars, error>>

\* The page is complete, and the token of the next is there or is not.
PageDone ==
    /\ phase = "pulls" /\ next > Len(page) /\ \A w \in Workers : workers[w] = Idle
    /\ tickets' = tickets \o [i \in DOMAIN page |->
                                  ToTicket(page[i], custom, results[i].links)]
    /\ page' = << >> /\ results' = << >> /\ next' = 1
    /\ phase' = IF Len(tickets') < Len(site.issues) THEN "search"
                ELSE IF tickets' = << >> THEN "done" ELSE "logs"
    /\ UNCHANGED <<site, custom, workers, broken, partial, logsVars, error>>

-----------------------------------------------------------------------------
\* Mutant: the next batch begins where the next page would.
BatchAskedByPage == {tickets[i].key : i \in {n \in DOMAIN tickets : asked < n /\ n < asked + Batch}}

BatchAsked == {tickets[i].key : i \in {n \in DOMAIN tickets : asked < n /\ n <= asked + Batch}}

\* What Jira has written down of the issues of a batch.
Written == UNION {{[issue |-> issue, entry |-> e] : e \in issue.changes} :
                     issue \in {x \in Range(site.issues) : x.key \in BatchAsked}}

\* fetchChangelogs takes a log's issueId for the key of the issue.
LogName(issue) == IF site.names = "keys" THEN issue.key ELSE issue.id

\* The changelogs of one more batch; after the last, applyActivity.  One answer is asked
\* for, whether it says that there is more or not, and what gives no issue or no time
\* is left out.
LogsAnswered(answer) ==
    LET changes == logs \cup {[key |-> LogName(c.issue), entry |-> c.entry] : c \in answer}
    IN  /\ phase = "logs"
        /\ asked' = asked + Batch
        /\ logs' = changes
        /\ shortened' = shortened \cup {c.issue.key : c \in Written \ answer}
        /\ IF asked' < Len(tickets) THEN UNCHANGED <<tickets, phase>>
           ELSE tickets' = ApplyActivity(tickets, changes) /\ phase' = "done"
        /\ UNCHANGED <<site, custom, pagesVars, error>>

\* One batch that fails takes the others with it: the activity is unknown, the
\* tickets are kept.
LogsFailed(answer) ==
    /\ phase = "logs" /\ answer.status # 400
    /\ phase' = "done"
    /\ error' = [by |-> "logs", status |-> answer.status, kind |-> Thrown(answer)]
    /\ UNCHANGED <<site, custom, tickets, pagesVars, logsVars>>

JiraNext ==
    \/ FieldsAnswered \/ FieldsFailed \/ SearchAnswered \/ PageDone
    \/ \E answer \in SUBSET Written : LogsAnswered(answer)
    \/ \E answer \in Answers : SearchFailed(answer) \/ LogsFailed(answer)
    \/ \E w \in Workers :
        \/ Take(w) \/ SummaryAnswered(w) \/ SummaryUncounted(w) \/ PullsFailed(w)
        \/ /\ workers[w].at = "detail"
           /\ \E answer \in Excerpts(Asked(w)) : DetailAnswered(w, answer)

JiraSpec == JiraInit /\ [][JiraNext]_jiraVars

-----------------------------------------------------------------------------
(* What is checked.                                                        *)

JiraTypeOK ==
    /\ site \in Sites
    /\ phase \in {"fields", "search", "pulls", "logs", "done", "failed"}
    /\ error \in {Nil} \cup [by : {"search", "logs"}, status : Nat, kind : Failures]
    /\ (phase = "failed") = (error # Nil /\ error.by = "search")
    /\ next \in 1..(Len(page) + 1) /\ DOMAIN results = DOMAIN page /\ asked \in Nat
    /\ \A w \in Workers : workers[w].at # "idle" => workers[w].i < next
    /\ \A i \in DOMAIN tickets : tickets[i].key = site.issues[i].key

Issue(t) == CHOOSE issue \in Range(site.issues) : issue.key = t.key

Held(issue) == UNION {Range(issue.pulls[type]) : type \in Range(issue.types)}

\* Each ticket has pull requests that Jira holds for it and no other's, each once, the
\* open ones first and the newest first among equals; it has all of them, unless an
\* answer for that ticket left some out and the code took it for the whole; and they are
\* unknown only where a request for that ticket's own failed, which is not said as none
\* (jira/index.ts, mapBounded and pullRequestsFor: unknown, not none).
PullRequestsAreTheirs ==
    \A i \in DOMAIN tickets :
        LET links == tickets[i].pullRequests
            issue == Issue(tickets[i])
            urls == {links[n].url : n \in DOMAIN links}
            held == {pr.url : pr \in Held(issue)} \ {Nil}
        IN  IF links = Nil THEN issue.key \in broken
            ELSE /\ urls \subseteq held /\ (issue.key \notin partial => urls = held)
                 /\ \A n, m \in DOMAIN links : n < m =>
                      /\ links[n].url # links[m].url
                      /\ links[m].state = "open" => links[n].state = "open"
                      /\ links[n].state = links[m].state => links[n].updated >= links[m].updated

\* What a person did to an issue that is not bookkeeping.
PersonsChanges(issue) ==
    {c \in issue.changes : c.author = "person" /\ c.field \in {"status", "comment", "assignee"}}

\* The code can tell when it was: the changelog is found under the key, it is whole, and
\* its texts sort as the instants they name.
Datable(issue) ==
    /\ site.names = "keys" /\ issue.key \notin shortened
    /\ \A c, d \in issue.changes : c.at <= d.at => c.instant <= d.instant

\* A column cannot take the lane down: the sync fails only for what Jira answered the
\* search itself, and never because the search named a field the site has not got
\* (jira/index.ts, customFields: not a board with no tickets on it).
ColumnsCannotFailTheLane ==
    phase = "failed" => error.by = "search" /\ error.status # 400

\* A ticket in a running sprint shows that one, a ticket whose sprints are all over
\* the last of them; the activity it shows is something a person did to it, and once its
\* history is known it is the last of that, in whichever batch it was fetched; and no
\* column costs the lane its tickets (jira/index.ts, currentSprint, fetchChangelogs,
\* applyActivity).
TicketsTellTheSite ==
    /\ \A i \in DOMAIN tickets :
        LET issue == Issue(tickets[i])
            active == tickets[i].active
            value == SprintField(issue, custom)
            entries == {n \in DOMAIN value : value[n] # Nil}
        IN  /\ (\E n \in entries : value[n].state = "active")
               => \E n \in entries : value[n].state = "active" /\ value[n].name = tickets[i].sprint
            /\ (\A n \in entries : value[n].state = "closed")
               => \A n \in entries : (\A m \in entries : m <= n) => tickets[i].sprint = value[n].name
            /\ phase = "done" /\ error = Nil =>
                 /\ active # Nil => \E c \in PersonsChanges(issue) : c.at = active
                 /\ Datable(issue) /\ PersonsChanges(issue) # {}
                    => \E c \in PersonsChanges(issue) :
                         /\ c.at = active
                         /\ \A d \in PersonsChanges(issue) : d.instant <= c.instant
    /\ ColumnsCannotFailTheLane

=============================================================================
