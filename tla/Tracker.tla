------------------------------ MODULE Tracker ------------------------------
(***************************************************************************)
(* The GitHub tracker (src/tracker/github.rs, github/mutations.rs): the    *)
(* three fetches, which all read the whole project page by page, and the   *)
(* mutations, which look project and option ids up once and keep them, and *)
(* which repeat a request that met a server error or after which no        *)
(* request is left.                                                        *)
(*                                                                         *)
(* GithubTracker is shared by tasks that call it at the same time.  The    *)
(* board belongs to GitHub: between two requests of a call its items move, *)
(* its options are edited and other calls take effect.  An answer lists    *)
(* the items behind a cursor in the order of the board.  Of the list that  *)
(* a fetch builds from them only how often it holds each item is kept, not *)
(* its order: the scheduler sorts the candidates itself.                   *)
(***************************************************************************)
EXTENDS Integers, FiniteSets

CONSTANTS
  Callers,      \* tasks that use the tracker
  Issues,       \* the project's items
  Ours,         \* those that are issues of the configured repository
  Addressable,  \* those whose ids the tracker has delivered
  Places,       \* an item's place on the board, counted from 1; 0: not on it
  Start,        \* where each item is at first
  Options,      \* the ids of the options of the status field
  Names,        \* their names ...
  StartNames,   \* ... as they are at first
  StateQueries, IdQueries,  \* the lists of states and of ids that are asked for
  OwnerIsOrg,   \* the project belongs to an organization
  PageSize,     \* 50
  MaxRetries,   \* of a request that met a server error: 3
  MaxCalls, MaxEdits,  \* bounds: calls; edits of the board by others
  MaxExhausted         \* bound: last allowed requests that fail, of the calls at once

Gone == "gone"       \* an option that has been deleted
NoStatus == "open"   \* an item without a status has its issue's own state
NoOption == 0

ASSUME TrackerAssumption ==
  /\ IsFiniteSet(Issues) /\ Ours \subseteq Issues /\ Addressable \subseteq Issues
  /\ Places \subseteq Nat \ {0} /\ Start \in [Issues -> Places]
  /\ \A i, j \in Issues : Start[i] = Start[j] => i = j
  /\ {{}} \subseteq StateQueries /\ StateQueries \subseteq SUBSET Names
  /\ {{}} \subseteq IdQueries /\ IdQueries \subseteq SUBSET Ours
  /\ Options \subseteq Nat \ {0} /\ {Gone, NoStatus} \cap Names = {}
  /\ StartNames \in [Options -> Names]
  /\ OwnerIsOrg \in BOOLEAN /\ PageSize \in Nat \ {0}
  /\ MaxRetries \in Nat /\ MaxCalls \in Nat /\ MaxEdits \in Nat
  /\ MaxExhausted \in Nat

Fetches == {"candidates", "states", "ids"}
Mutations == {"move", "comment"}

VARIABLES
  \* GitHub
  place,      \* each item's place
  column,     \* each item's option, or NoOption
  name,       \* the name of each option
  limit,      \* requests meet the rate limit
  calls, edits,
  \* GithubTracker
  project,    \* project_id is known
  cache,      \* field_cache: the option id kept for each name
  \* a caller
  pc,         \* the request it waits for
  call,       \* what it asked for
  isOrg, cursor, all,      \* locals of fetch_project_items
  option, retries,         \* locals of move_issue_state and graphql_mutation
  answer,     \* "ok" or "err"
  \* what really happened, to state the properties with
  touched,    \* the items that have moved or changed state during the call
  effects,    \* how often its mutation took effect
  exhausted   \* how often it is sent again for a request that failed and was
              \* the last allowed

boardVars == <<place, column, name>>
githubVars == <<boardVars, limit, calls, edits>>
cacheVars == <<project, cache>>
fetchVars == <<isOrg, cursor, all>>
mutateVars == <<option, retries, exhausted>>
callVars == <<call, touched, effects>>
vars == <<githubVars, cacheVars, pc, callVars, fetchVars, mutateVars, answer>>

NoCall == [op |-> "none", issue |-> 0, name |-> NoStatus, states |-> {}, ids |-> {}]

Items == [issue : Issues, state : Names \cup {NoStatus}]

NoItems == [e \in Items |-> 0]

Init ==
  /\ place = Start /\ column = [i \in Issues |-> NoOption]
  /\ name = StartNames
  /\ limit = FALSE /\ calls = 0 /\ edits = 0
  /\ project = FALSE /\ cache = [n \in Names |-> NoOption]
  /\ pc = [c \in Callers |-> "idle"] /\ call = [c \in Callers |-> NoCall]
  /\ isOrg = [c \in Callers |-> FALSE] /\ cursor = [c \in Callers |-> 0]
  /\ all = [c \in Callers |-> NoItems]
  /\ option = [c \in Callers |-> NoOption] /\ retries = [c \in Callers |-> 0]
  /\ answer = [c \in Callers |-> "ok"]
  /\ touched = [c \in Callers |-> {}] /\ effects = [c \in Callers |-> 0]
  /\ exhausted = [c \in Callers |-> 0]

Goto(c, l) == pc' = [pc EXCEPT ![c] = l]

Return(c, r) == Goto(c, "done") /\ answer' = [answer EXCEPT ![c] = r]

Begin(c, record) ==
  /\ pc[c] = "idle" /\ calls < MaxCalls
  /\ calls' = calls + 1
  /\ call' = [call EXCEPT ![c] = record]
  /\ UNCHANGED <<boardVars, limit, edits, cacheVars, fetchVars, touched, effects>>

\* The caller takes its answer.
Done(c) ==
  /\ pc[c] = "done"
  /\ Goto(c, "idle")
  /\ call' = [call EXCEPT ![c] = NoCall]
  /\ isOrg' = [isOrg EXCEPT ![c] = FALSE] /\ cursor' = [cursor EXCEPT ![c] = 0]
  /\ all' = [all EXCEPT ![c] = NoItems]
  /\ option' = [option EXCEPT ![c] = NoOption] /\ retries' = [retries EXCEPT ![c] = 0]
  /\ answer' = [answer EXCEPT ![c] = "ok"]
  /\ touched' = [touched EXCEPT ![c] = {}] /\ effects' = [effects EXCEPT ![c] = 0]
  /\ exhausted' = [exhausted EXCEPT ![c] = 0]
  /\ UNCHANGED <<githubVars, cacheVars>>

-----------------------------------------------------------------------------
(* GitHub.                                                                 *)

StateIn(i, col, nm) ==
  IF col[i] = NoOption THEN NoStatus
  ELSE IF nm[col[i]] = Gone THEN NoStatus ELSE nm[col[i]]

StateOf(i) == StateIn(i, column, name)

\* Callers that have not taken their answer yet see S change.
Touch(S) ==
  touched' = [c \in Callers |-> IF pc[c] = "idle" THEN {} ELSE touched[c] \cup S]

Edit ==
  /\ edits < MaxEdits /\ edits' = edits + 1
  /\ UNCHANGED <<limit, calls, cacheVars, pc, call, effects, fetchVars, mutateVars,
                 answer>>

\* Somebody moves an item to a free place, or takes it off the board.
MoveItem(i) ==
  /\ Edit
  /\ \E p \in Places \cup {0} :
       /\ p # place[i] /\ (p # 0 => \A j \in Issues : place[j] # p)
       /\ place' = [place EXCEPT ![i] = p]
  /\ Touch({i})
  /\ UNCHANGED <<column, name>>

\* Somebody renames an option, or deletes it.
EditOption(o) ==
  /\ Edit
  /\ \E n \in Names \cup {Gone} :
       /\ \A p \in Options : name[p] # n
       /\ name' = [name EXCEPT ![o] = n]
  /\ Touch({i \in Issues : column[i] = o})
  /\ UNCHANGED <<place, column>>

LimitChanges ==
  /\ limit' = ~limit
  /\ UNCHANGED <<boardVars, calls, edits, cacheVars, pc, callVars, fetchVars,
                 mutateVars, answer>>

-----------------------------------------------------------------------------
(* fetch_candidate_issues, fetch_issues_by_states,                         *)
(* fetch_issue_states_by_ids.                                              *)

\* No states, no request.
Fetch(c) ==
  /\ \E op \in Fetches, S \in StateQueries, I \in IdQueries :
       /\ (op # "states" => S = {}) /\ (op # "ids" => I = {})
       /\ Begin(c, [NoCall EXCEPT !.op = op, !.states = S, !.ids = I])
       /\ IF op = "states" /\ S = {} THEN Return(c, "ok")
          ELSE Goto(c, "probe") /\ UNCHANGED answer
  /\ UNCHANGED mutateVars

\* Is the owner an organization?  An error counts as a no.
Probe(c) ==
  /\ pc[c] = "probe"
  /\ \E yes \in {OwnerIsOrg, FALSE} : isOrg' = [isOrg EXCEPT ![c] = yes]
  /\ Goto(c, "page")
  /\ UNCHANGED <<githubVars, cacheVars, callVars, cursor, all, mutateVars, answer>>

Behind(p) == {i \in Issues : place[i] > p}

\* The next items behind a cursor.
Page(p) ==
  {i \in Behind(p) : Cardinality({j \in Behind(p) : place[j] < place[i]}) < PageSize}

\* One item of the list the fetch builds, with the state it has now.
Item(i) == [issue |-> i, state |-> StateOf(i)]

\* normalize_item and the filter of each fetch.
Wanted(c, e) ==
  /\ e.issue \in Ours
  /\ call[c].op = "states" => e.state \in call[c].states
  /\ call[c].op = "ids" => e.issue \in call[c].ids

Filtered(c, list) == [e \in Items |-> IF Wanted(c, e) THEN list[e] ELSE 0]

\* A list with the items of a page appended.
Extended(list, page) ==
  [e \in Items |-> IF e.issue \in page /\ e = Item(e.issue) THEN list[e] + 1 ELSE list[e]]

\* A page is appended; its last item is the cursor of the next, if there is one.
\* The list is filtered in the end.
ReadPage(c) ==
  /\ pc[c] = "page" /\ isOrg[c] = OwnerIsOrg
  /\ LET page == Page(cursor[c])
         list == Extended(all[c], page) IN
       IF Behind(cursor[c]) # page
       THEN /\ \E i \in page :
                 /\ \A j \in page : place[j] <= place[i]
                 /\ cursor' = [cursor EXCEPT ![c] = place[i]]
            /\ all' = [all EXCEPT ![c] = list]
            /\ UNCHANGED <<pc, answer>>
       ELSE /\ all' = [all EXCEPT ![c] = Filtered(c, list)]
            /\ Return(c, "ok") /\ cursor' = [cursor EXCEPT ![c] = 0]
  /\ UNCHANGED <<githubVars, cacheVars, callVars, isOrg, mutateVars>>

\* seeded fault: an error ends the list
PageFailsQuietly(c) ==
  /\ pc[c] = "page"
  /\ all' = [all EXCEPT ![c] = Filtered(c, @)]
  /\ Return(c, "ok")
  /\ UNCHANGED <<githubVars, cacheVars, callVars, isOrg, cursor, mutateVars>>

\* Any error, the 30 s of the client, or a page asked of a user that is none,
\* fails the fetch, and what has been read is dropped.
PageFails(c) ==
  /\ pc[c] = "page"
  /\ Return(c, "err")
  /\ isOrg' = [isOrg EXCEPT ![c] = FALSE] /\ cursor' = [cursor EXCEPT ![c] = 0]
  /\ all' = [all EXCEPT ![c] = NoItems]
  /\ UNCHANGED <<githubVars, cacheVars, callVars, mutateVars>>

-----------------------------------------------------------------------------
(* move_issue_state and add_comment (update_issue_body is like it).        *)

\* Once the project is known: the item's id, then the option that is kept.
\* The results are the new pc, answer and option.
Resolve(c, i, n) ==
  IF i \notin Addressable
  THEN Return(c, "err") /\ UNCHANGED option
  ELSE /\ IF cache[n] # NoOption THEN Goto(c, "send") ELSE Goto(c, "option")
       /\ option' = [option EXCEPT ![c] = cache[n]]
       /\ UNCHANGED answer

Move(c) ==
  /\ \E i \in Ours, n \in Names :
       /\ Begin(c, [NoCall EXCEPT !.op = "move", !.issue = i, !.name = n])
       /\ IF project THEN Resolve(c, i, n)
          ELSE Goto(c, "project") /\ UNCHANGED <<answer, option>>
  /\ UNCHANGED <<retries, exhausted>>

Comment(c) ==
  /\ \E i \in Ours :
       /\ Begin(c, [NoCall EXCEPT !.op = "comment", !.issue = i])
       /\ IF i \in Addressable THEN Goto(c, "send") /\ UNCHANGED answer
          ELSE Return(c, "err")
  /\ UNCHANGED mutateVars

\* ensure_project_id
FindProject(c) ==
  /\ pc[c] = "project"
  /\ project' = TRUE
  /\ Resolve(c, call[c].issue, call[c].name)
  /\ UNCHANGED <<githubVars, cache, callVars, fetchVars, retries, exhausted>>

\* What resolve_status_option keeps when it has found n: all options there are.
Cached(n) ==
  [m \in Names |-> IF \E o \in Options : name[o] = m
                   THEN CHOOSE o \in Options : name[o] = m ELSE NoOption]

\* resolve_status_option; an option that is not there is not remembered.
FindOption(c) ==
  /\ pc[c] = "option"
  /\ LET n == call[c].name IN
       IF \E o \in Options : name[o] = n
       THEN /\ cache' = Cached(n)
            /\ option' = [option EXCEPT ![c] = Cached(n)[n]]
            /\ Goto(c, "send") /\ UNCHANGED answer
       ELSE Return(c, "err") /\ UNCHANGED <<cache, option>>
  /\ UNCHANGED <<githubVars, project, callVars, fetchVars, retries, exhausted>>

LookupFails(c) ==
  /\ pc[c] \in {"project", "option"}
  /\ Return(c, "err")
  /\ UNCHANGED <<githubVars, cacheVars, callVars, fetchVars, mutateVars>>

\* GitHub carries the mutation out, unless its option is gone or a limit holds.
Accepted(c) ==
  /\ pc[c] = "send" /\ ~limit
  /\ call[c].op = "move" => name[option[c]] # Gone

TakeEffect(c) ==
  /\ effects' = [effects EXCEPT ![c] = @ + 1]
  /\ IF call[c].op = "move"
     THEN /\ column' = [column EXCEPT ![call[c].issue] = option[c]]
          /\ Touch({call[c].issue})
     ELSE UNCHANGED <<column, touched>>
  /\ UNCHANGED <<place, name, limit, calls, edits, cacheVars, call, fetchVars>>

NoEffect == UNCHANGED <<githubVars, cacheVars, callVars, fetchVars>>

\* What the request's answer makes of the call: it returns, with its locals, ...
Answered(c, r) ==
  /\ Return(c, r)
  /\ option' = [option EXCEPT ![c] = NoOption] /\ retries' = [retries EXCEPT ![c] = 0]
  /\ UNCHANGED exhausted

\* ... or goes on to send the same request.
Again == UNCHANGED <<pc, answer, option>>

\* The answer of a request: success, ...
SendOk(c) == Accepted(c) /\ TakeEffect(c) /\ Answered(c, "ok")

\* ... none (or an unreadable one), whether or not it was carried out, ...
SendLost(c) ==
  /\ pc[c] = "send"
  /\ \/ Accepted(c) /\ TakeEffect(c)
     \/ NoEffect
  /\ Answered(c, "err")

\* seeded fault: the status is looked at, not the errors in the answer
SendRefusedUnseen(c) == pc[c] = "send" /\ NoEffect /\ Answered(c, "ok")

\* ... errors, or a status that is not the server's fault, ...
SendRefused(c) == pc[c] = "send" /\ NoEffect /\ Answered(c, "err")

\* seeded fault: the wait gives the request its retries back
SendLimitedAfresh(c) ==
  /\ pc[c] = "send" /\ limit /\ NoEffect
  /\ retries' = [retries EXCEPT ![c] = 0]
  /\ Again /\ UNCHANGED exhausted

\* ... a failure with no request left: the end of the limit is waited for and the
\* request sent again, not counted as a retry.  What says so are the headers of
\* any answer that is no success: one that met the limit, or the answer to the
\* last request allowed, a server error for instance, which may have taken
\* effect, ...
SendLimited(c) ==
  /\ pc[c] = "send"
  /\ \/ limit /\ NoEffect /\ UNCHANGED exhausted
     \/ /\ ~limit /\ \A d \in Callers : exhausted[d] < MaxExhausted
        /\ exhausted' = [exhausted EXCEPT ![c] = @ + 1]
        /\ \/ Accepted(c) /\ TakeEffect(c)
           \/ NoEffect
  /\ Again /\ UNCHANGED retries

\* seeded fault: the retries start again when they are used up
SendServerErrorForever(c) ==
  /\ pc[c] = "send" /\ NoEffect
  /\ retries' = [retries EXCEPT ![c] = (@ + 1) % (MaxRetries + 1)]
  /\ Again /\ UNCHANGED exhausted

\* ... or a server error, which is retried a few times: carried out or not.
SendServerError(c) ==
  /\ pc[c] = "send"
  /\ \/ Accepted(c) /\ TakeEffect(c)
     \/ NoEffect
  /\ IF retries[c] < MaxRetries
     THEN /\ retries' = [retries EXCEPT ![c] = @ + 1]
          /\ Again /\ UNCHANGED exhausted
     ELSE Answered(c, "err")

\* What a caller does once its call has begun.
Step(c) ==
  \/ Probe(c) \/ ReadPage(c) \/ PageFails(c)
  \/ FindProject(c) \/ FindOption(c) \/ LookupFails(c)
  \/ SendOk(c) \/ SendLost(c) \/ SendRefused(c) \/ SendLimited(c) \/ SendServerError(c)

Next ==
  \/ \E c \in Callers : Fetch(c) \/ Move(c) \/ Comment(c) \/ Step(c) \/ Done(c)
  \/ \E i \in Issues : MoveItem(i)
  \/ \E o \in Options : EditOption(o)
  \/ LimitChanges

Spec == Init /\ [][Next]_vars

\* Every request is answered, if only by the client's timeout.
Fairness == \A c \in Callers : WF_vars(Step(c))

FairSpec == Spec /\ Fairness

-----------------------------------------------------------------------------
Calls == [op : Fetches \cup Mutations \cup {"none"}, issue : Issues \cup {0},
          name : Names \cup {NoStatus}, states : SUBSET Names, ids : SUBSET Issues]

\* Every variable keeps its type.
TypeOK ==
  /\ place \in [Issues -> Places \cup {0}] /\ column \in [Issues -> Options \cup {NoOption}]
  /\ name \in [Options -> Names \cup {Gone}]
  /\ limit \in BOOLEAN /\ calls \in 0..MaxCalls /\ edits \in 0..MaxEdits
  /\ project \in BOOLEAN /\ cache \in [Names -> Options \cup {NoOption}]
  /\ pc \in [Callers -> {"idle", "probe", "page", "project", "option", "send", "done"}]
  /\ call \in [Callers -> Calls]
  /\ isOrg \in [Callers -> BOOLEAN] /\ cursor \in [Callers -> Places \cup {0}]
  /\ all \in [Callers -> [Items -> Nat]]
  /\ option \in [Callers -> Options \cup {NoOption}]
  /\ retries \in [Callers -> 0..MaxRetries] /\ answer \in [Callers -> {"ok", "err"}]
  /\ touched \in [Callers -> SUBSET Issues] /\ effects \in [Callers -> Nat]
  /\ exhausted \in [Callers -> 0..MaxExhausted]

\* A fetch that succeeds lists each issue that stayed where it was exactly once,
\* with its state, if it is asked for, and not at all otherwise, whatever else
\* moved between the pages: an error is never taken for the end of the list.
FetchIsFaithful ==
  \A c \in Callers, e \in Items :
    /\ pc[c] = "done" /\ answer[c] = "ok" /\ call[c].op \in Fetches
    /\ e.issue \notin touched[c]
    => all[c][e] =
         IF /\ place[e.issue] # 0 /\ e = Item(e.issue) /\ Wanted(c, e)
            /\ ~(call[c].op = "states" /\ call[c].states = {})
         THEN 1 ELSE 0

\* A mutation that reports success has taken effect.
OkMeansDone ==
  \A c \in Callers :
    pc[c] = "done" /\ answer[c] = "ok" /\ call[c].op \in Mutations => effects[c] > 0

\* A mutation takes effect at most once per request: the first, the retries, and
\* those that are sent again because the one before failed and was the last that
\* was allowed.  Only these escape the retries' count; a request that meets the
\* limit itself adds none and gives no retries back.
EffectsAreBounded ==
  \A c \in Callers : effects[c] <= MaxRetries + 1 + exhausted[c]

\* The calls and what they leave on the board keep their bounds: no mutation
\* takes effect more often than its retries and the failures of last allowed
\* requests together permit (mutations.rs).
CallsInv == TypeOK /\ EffectsAreBounded

\* A call returns: its pages come to an end and so do its retries, unless the
\* rate limit, or the failure of last allowed requests, comes back for ever.
CallsReturn ==
  <>[](~limit) => \A c \in Callers : pc[c] \notin {"idle", "done"} ~> pc[c] = "done"
=============================================================================
