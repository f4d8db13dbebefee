--------------------------- MODULE TrackerProofs ---------------------------
(***************************************************************************)
(* The safety properties of Tracker, for any number of callers, issues,    *)
(* options, calls and edits, any page size and any board: one inductive    *)
(* invariant, TrackerIInv.                                                 *)
(***************************************************************************)
EXTENDS Tracker, FiniteSetTheorems, TLAPS

\* Two issues are not at one place.
PlacesAreOwn ==
  \A i, j \in Issues : place[i] = place[j] /\ place[i] # 0 => i = j

\* A caller that waits for a request asked for it.
CallFits(c) ==
  /\ pc[c] \in {"probe", "page"} =>
       call[c].op \in Fetches /\ ~(call[c].op = "states" /\ call[c].states = {})
  /\ pc[c] \in {"project", "option"} => call[c].op = "move" /\ call[c].issue \in Issues
                                        /\ call[c].name \in Names
  /\ pc[c] = "send" => call[c].op \in Mutations /\ call[c].issue \in Issues
  /\ pc[c] = "send" /\ call[c].op = "move" => option[c] \in Options

\* A mutation takes effect at most once per request, and only then: before each
\* one but the first there was a retry or a last allowed request that failed.
EffectsFollow(c) ==
  /\ effects[c] <= MaxRetries + 1 + exhausted[c]
  /\ pc[c] = "send" => effects[c] <= retries[c] + exhausted[c]
  /\ pc[c] \notin {"send", "done"} => effects[c] = 0
  /\ pc[c] # "send" /\ pc[c] # "done" => retries[c] = 0

\* Nothing is read before the first page, and nothing is touched before the call.
StartsEmpty(c) ==
  /\ pc[c] \notin {"page", "done"} => all[c] = NoItems /\ cursor[c] = 0
  /\ pc[c] = "idle" => touched[c] = {}

\* The pages read so far hold each issue that stayed where it was and is not
\* behind the cursor once, with its state, and no other that stayed.
ReadSoFar(c) ==
  pc[c] = "page" =>
    \A e \in Items : e.issue \notin touched[c] =>
      all[c][e] =
        IF /\ place[e.issue] # 0 /\ place[e.issue] <= cursor[c]
           /\ e = Item(e.issue)
        THEN 1 ELSE 0

\* What FetchIsFaithful and OkMeansDone say of one caller.
Delivered(c) ==
  \A e \in Items :
    /\ pc[c] = "done" /\ answer[c] = "ok" /\ call[c].op \in Fetches
    /\ e.issue \notin touched[c]
    => all[c][e] =
         IF /\ place[e.issue] # 0 /\ e = Item(e.issue) /\ Wanted(c, e)
            /\ ~(call[c].op = "states" /\ call[c].states = {})
         THEN 1 ELSE 0

Meant(c) ==
  pc[c] = "done" /\ answer[c] = "ok" /\ call[c].op \in Mutations => effects[c] > 0

CallerInv(c) ==
  CallFits(c) /\ EffectsFollow(c) /\ StartsEmpty(c) /\ ReadSoFar(c) /\ Delivered(c)
  /\ Meant(c)

TrackerIInv == TypeOK /\ PlacesAreOwn /\ \A c \in Callers : CallerInv(c)

-----------------------------------------------------------------------------
\* The constants have their types.
LEMMA ConstantsType ==
  /\ MaxRetries \in Nat /\ MaxCalls \in Nat /\ MaxEdits \in Nat /\ PageSize \in Nat
  /\ MaxExhausted \in Nat
  /\ Places \subseteq Nat \ {0} /\ Ours \subseteq Issues /\ IsFiniteSet(Issues)
  /\ NoCall \in Calls /\ NoItems \in [Items -> Nat] /\ NoOption \notin Options
  /\ NoOption = 0 /\ Gone \notin Names /\ OwnerIsOrg \in BOOLEAN
<1>1. NoCall \in Calls
  BY DEF NoCall, Calls
<1> QED
  BY <1>1, TrackerAssumption DEF NoItems, NoOption

\* The state an item has is one the tracker can read.
LEMMA ItemType ==
  ASSUME TypeOK
  PROVE  \A i \in Issues : Item(i) \in Items /\ Item(i).issue = i
  BY DEF TypeOK, Item, Items, StateOf, StateIn, NoOption

\* What is asked for is a call.
LEMMA CallType ==
  /\ \A op \in Fetches, S \in StateQueries, I \in IdQueries :
       [NoCall EXCEPT !.op = op, !.states = S, !.ids = I] \in Calls
  /\ \A i \in Ours, n \in Names :
       [NoCall EXCEPT !.op = "move", !.issue = i, !.name = n] \in Calls
  /\ \A i \in Ours : [NoCall EXCEPT !.op = "comment", !.issue = i] \in Calls
<1>1. StateQueries \subseteq SUBSET Names /\ IdQueries \subseteq SUBSET Ours
      /\ Ours \subseteq Issues
  BY TrackerAssumption
<1> QED
  BY <1>1 DEF NoCall, Calls, Mutations

\* An option that has one of the names is an option.
LEMMA CachedType == \A n \in Names : Cached(n) \in [Names -> Options \cup {NoOption}]
  BY DEF Cached

\* Places and cursors are counted.
LEMMA PlaceType ==
  ASSUME TypeOK
  PROVE  /\ \A i \in Issues : place[i] \in Nat
         /\ \A c \in Callers : cursor[c] \in Nat
<1>1. Places \cup {0} \subseteq Nat
  BY ConstantsType
<1>2. place \in [Issues -> Places \cup {0}] /\ cursor \in [Callers -> Places \cup {0}]
  BY DEF TypeOK
<1> QED
  BY <1>1, <1>2

\* A page appended, and what is left of a list, are lists again.
LEMMA ListType ==
  ASSUME NEW c \in Callers, NEW list \in [Items -> Nat], NEW page
  PROVE  Extended(list, page) \in [Items -> Nat] /\ Filtered(c, list) \in [Items -> Nat]
  BY DEF Extended, Filtered

-----------------------------------------------------------------------------
\* A step gives one caller a value of T, or nobody.
Moves(old, new, T) == new = old \/ \E c \in Callers, x \in T : new = [old EXCEPT ![c] = x]

\* A move keeps a type.
LEMMA MovesType ==
  ASSUME NEW T, NEW old \in [Callers -> T], NEW new, Moves(old, new, T)
  PROVE  new \in [Callers -> T]
  BY DEF Moves

Labels == {"idle", "probe", "page", "project", "option", "send", "done"}

\* How a step moves what the callers hold.
CallersMove ==
  /\ Moves(pc, pc', Labels) /\ Moves(answer, answer', {"ok", "err"})
  /\ Moves(isOrg, isOrg', BOOLEAN) /\ Moves(call, call', Calls)
  /\ Moves(cursor, cursor', Places \cup {0}) /\ Moves(all, all', [Items -> Nat])
  /\ Moves(retries, retries', 0..MaxRetries) /\ Moves(effects, effects', Nat)
  /\ Moves(exhausted, exhausted', 0..MaxExhausted)

\* Every step moves the callers so.
LEMMA CallerMoves ==
  ASSUME TypeOK, [Next]_vars
  PROVE  CallersMove
<1> USE ConstantsType
<1>1. ASSUME NEW c \in Callers, Fetch(c) \/ Move(c) \/ Comment(c)
      PROVE  CallersMove
  BY <1>1, CallType DEF CallersMove, Labels, Moves, Fetch, Move, Comment, Begin, Goto,
     Return, Resolve, fetchVars, mutateVars
<1>2. ASSUME NEW c \in Callers, Probe(c) \/ PageFails(c)
      PROVE  CallersMove
  BY <1>2 DEF CallersMove, Labels, Moves, Probe, PageFails, Goto, Return, callVars,
     mutateVars, fetchVars
<1>3. ASSUME NEW c \in Callers, ReadPage(c)
      PROVE  CallersMove
  <2>1. all[c] \in [Items -> Nat]
    BY DEF TypeOK
  <2>2. PICK list \in [Items -> Nat] : all' = [all EXCEPT ![c] = list]
    BY <1>3, <2>1, ListType DEF ReadPage
  <2>3. Moves(cursor, cursor', Places \cup {0})
    BY <1>3 DEF ReadPage, Moves, TypeOK, Page, Behind
  <2>4. Moves(pc, pc', Labels) /\ Moves(answer, answer', {"ok", "err"})
    BY <1>3 DEF ReadPage, Moves, Labels, Goto, Return
  <2> QED
    BY <1>3, <2>2, <2>3, <2>4 DEF CallersMove, Moves, ReadPage, callVars, mutateVars
<1>4. ASSUME NEW c \in Callers, FindProject(c) \/ FindOption(c) \/ LookupFails(c)
      PROVE  CallersMove
  BY <1>4 DEF CallersMove, Labels, Moves, FindProject, FindOption, LookupFails, Goto,
     Return, Resolve,
     callVars, mutateVars, fetchVars
<1>5. ASSUME NEW c \in Callers, SendOk(c) \/ SendLost(c) \/ SendRefused(c) \/ SendLimited(c)
             \/ SendServerError(c)
      PROVE  CallersMove
  <2>1. effects[c] \in Nat /\ retries[c] \in 0..MaxRetries
    BY DEF TypeOK
  <2>2. effects[c] + 1 \in Nat /\ (retries[c] < MaxRetries
        => retries[c] + 1 \in 0..MaxRetries) /\ 0 \in 0..MaxRetries
    BY <2>1
  <2>3. Moves(effects, effects', Nat)
    BY <1>5, <2>2 DEF Moves, SendOk, SendLost, SendRefused, SendLimited, SendServerError,
       TakeEffect, NoEffect, callVars
  <2>4. Moves(retries, retries', 0..MaxRetries)
    BY <1>5, <2>2 DEF Moves, SendOk, SendLost, SendRefused, SendLimited, SendServerError,
       Answered
  <2>5. Moves(pc, pc', Labels) /\ Moves(answer, answer', {"ok", "err"})
    BY <1>5 DEF Moves, Labels, SendOk, SendLost, SendRefused, SendLimited, SendServerError,
       Answered, Again, Goto, Return
  <2>6. UNCHANGED <<isOrg, call, cursor, all>>
    BY <1>5 DEF SendOk, SendLost, SendRefused, SendLimited, SendServerError, TakeEffect,
       NoEffect, callVars, fetchVars
  <2>7. Moves(exhausted, exhausted', 0..MaxExhausted)
    <3>1. CASE exhausted' = exhausted
      BY <3>1 DEF Moves
    <3>2. CASE exhausted' # exhausted
      <4>1. exhausted[c] < MaxExhausted /\ exhausted' = [exhausted EXCEPT ![c] = @ + 1]
        BY <1>5, <3>2 DEF SendOk, SendLost, SendRefused, SendLimited, SendServerError,
           Answered
      <4>2. exhausted[c] + 1 \in 0..MaxExhausted
        BY <4>1 DEF TypeOK
      <4> QED
        BY <4>1, <4>2 DEF Moves
    <3> QED
      BY <3>1, <3>2
  <2> QED
    BY <2>3, <2>4, <2>5, <2>6, <2>7 DEF CallersMove, Moves
<1>6. ASSUME NEW c \in Callers, Done(c)
      PROVE  CallersMove
  <2>1. 0 \in 0..MaxRetries /\ 0 \in 0..MaxExhausted /\ 0 \in Nat /\ 0 \in Places \cup {0} /\ FALSE \in BOOLEAN
    OBVIOUS
  <2> QED
    BY <1>6, <2>1 DEF CallersMove, Labels, Moves, Done, Goto
<1>7. CASE \/ LimitChanges \/ UNCHANGED vars \/ \E i \in Issues : MoveItem(i)
           \/ \E o \in Options : EditOption(o)
  BY <1>7 DEF CallersMove, Moves, LimitChanges, MoveItem, EditOption, Edit, vars, callVars,
     fetchVars, mutateVars
<1> QED
  BY <1>1, <1>2, <1>3, <1>4, <1>5, <1>6, <1>7 DEF Next, Step

\* The option a mutation is sent with is one, or none.
LEMMA OptionMoves ==
  ASSUME TypeOK, \A c \in Callers : CallFits(c), [Next]_vars
  PROVE  Moves(option, option', Options \cup {NoOption})
<1>1. ASSUME NEW c \in Callers, NEW i, NEW n \in Names, Resolve(c, i, n)
      PROVE  Moves(option, option', Options \cup {NoOption})
  BY <1>1 DEF Resolve, Moves, TypeOK
<1>2. ASSUME NEW c \in Callers, FindProject(c)
      PROVE  Moves(option, option', Options \cup {NoOption})
  BY <1>1, <1>2 DEF FindProject, CallFits
<1>3. ASSUME NEW c \in Callers, Move(c)
      PROVE  Moves(option, option', Options \cup {NoOption})
  BY <1>1, <1>3 DEF Move, Moves
<1>4. ASSUME NEW c \in Callers, FindOption(c)
      PROVE  Moves(option, option', Options \cup {NoOption})
  BY <1>4, CachedType DEF FindOption, CallFits, Moves
<1>5. ASSUME NEW c \in Callers,
             \/ SendOk(c) \/ SendLost(c) \/ SendRefused(c) \/ SendLimited(c)
             \/ SendServerError(c)
      PROVE  Moves(option, option', Options \cup {NoOption})
  <2>1. Again \/ Answered(c, "ok") \/ Answered(c, "err")
    BY <1>5 DEF SendOk, SendLost, SendRefused, SendLimited, SendServerError
  <2>2. option' = option \/ option' = [option EXCEPT ![c] = NoOption]
    BY <2>1 DEF Again, Answered
  <2> QED
    BY <2>2 DEF Moves
<1>6. ASSUME NEW c \in Callers, Done(c)
      PROVE  Moves(option, option', Options \cup {NoOption})
  BY <1>6 DEF Done, Moves
<1>7. ASSUME NEW c \in Callers,
             \/ Fetch(c) \/ Comment(c) \/ Probe(c) \/ ReadPage(c) \/ PageFails(c)
             \/ LookupFails(c)
      PROVE  Moves(option, option', Options \cup {NoOption})
  BY <1>7 DEF Fetch, Comment, Probe, ReadPage, PageFails, LookupFails, mutateVars, Moves
<1>8. CASE \/ LimitChanges \/ UNCHANGED vars \/ \E i \in Issues : MoveItem(i)
           \/ \E o \in Options : EditOption(o)
  BY <1>8 DEF LimitChanges, MoveItem, EditOption, Edit, vars, mutateVars, Moves
<1> QED
  BY <1>2, <1>3, <1>4, <1>5, <1>6, <1>7, <1>8 DEF Next, Step


\* How a step moves the board and the rest of the state.
LEMMA WorldType ==
  ASSUME TypeOK, \A c \in Callers : CallFits(c), [Next]_vars
  PROVE  /\ place' \in [Issues -> Places \cup {0}]
         /\ column' \in [Issues -> Options \cup {NoOption}]
         /\ name' \in [Options -> Names \cup {Gone}]
         /\ limit' \in BOOLEAN /\ calls' \in 0..MaxCalls /\ edits' \in 0..MaxEdits
         /\ project' \in BOOLEAN /\ cache' \in [Names -> Options \cup {NoOption}]
         /\ touched' \in [Callers -> SUBSET Issues]
<1> DEFINE Goal ==
         /\ place' \in [Issues -> Places \cup {0}]
         /\ column' \in [Issues -> Options \cup {NoOption}]
         /\ name' \in [Options -> Names \cup {Gone}]
         /\ limit' \in BOOLEAN /\ calls' \in 0..MaxCalls /\ edits' \in 0..MaxEdits
         /\ project' \in BOOLEAN /\ cache' \in [Names -> Options \cup {NoOption}]
         /\ touched' \in [Callers -> SUBSET Issues]
<1> USE ConstantsType
<1>1. ASSUME NEW S \in SUBSET Issues, Touch(S)
      PROVE  touched' \in [Callers -> SUBSET Issues]
  BY <1>1 DEF Touch, TypeOK
<1>2. ASSUME NEW c \in Callers, Fetch(c) \/ Move(c) \/ Comment(c)
      PROVE  Goal
  <2>1. calls' = calls + 1 /\ calls < MaxCalls
    BY <1>2 DEF Fetch, Move, Comment, Begin
  <2>2. calls' \in 0..MaxCalls
    BY <2>1 DEF TypeOK
  <2> QED
    BY <1>2, <2>2 DEF Fetch, Move, Comment, Begin, TypeOK, boardVars, cacheVars
<1>3. ASSUME NEW c \in Callers, Probe(c) \/ PageFails(c) \/ ReadPage(c) \/ LookupFails(c)
      PROVE  Goal
  BY <1>3 DEF Probe, PageFails, ReadPage, LookupFails, TypeOK, boardVars, githubVars,
     cacheVars, callVars
<1>4. ASSUME NEW c \in Callers, FindProject(c) \/ FindOption(c)
      PROVE  Goal
  <2>1. cache' \in [Names -> Options \cup {NoOption}]
    BY <1>4, CachedType DEF FindProject, FindOption, CallFits, TypeOK
  <2>2. project' \in BOOLEAN
    BY <1>4 DEF FindProject, FindOption, TypeOK
  <2> QED
    BY <1>4, <2>1, <2>2 DEF FindProject, FindOption, TypeOK, boardVars, githubVars, callVars
<1>5. ASSUME NEW c \in Callers, pc[c] = "send", TakeEffect(c)
      PROVE  Goal
  <2>1. CASE call[c].op = "move"
    <3>1. call[c].issue \in Issues /\ option[c] \in Options
      BY <1>5, <2>1 DEF CallFits
    <3>2. touched' \in [Callers -> SUBSET Issues]
      BY <1>1, <1>5, <2>1, <3>1 DEF TakeEffect
    <3>3. column' \in [Issues -> Options \cup {NoOption}]
      BY <1>5, <2>1, <3>1 DEF TakeEffect, TypeOK
    <3> QED
      BY <1>5, <3>2, <3>3 DEF TakeEffect, TypeOK, cacheVars
  <2>2. CASE call[c].op # "move"
    BY <1>5, <2>2 DEF TakeEffect, TypeOK, cacheVars
  <2> QED
    BY <2>1, <2>2
<1>6. ASSUME NEW c \in Callers, NoEffect \/ Done(c)
      PROVE  Goal
  BY <1>6 DEF NoEffect, Done, TypeOK, boardVars, githubVars, cacheVars, callVars
<1>7. ASSUME NEW i \in Issues, MoveItem(i)
      PROVE  Goal
  <2>1. touched' \in [Callers -> SUBSET Issues]
    BY <1>1, <1>7 DEF MoveItem
  <2>2. place' \in [Issues -> Places \cup {0}] /\ edits' \in 0..MaxEdits
    BY <1>7 DEF MoveItem, Edit, TypeOK
  <2> QED
    BY <1>7, <2>1, <2>2 DEF MoveItem, Edit, TypeOK, cacheVars
<1>8. ASSUME NEW o \in Options, EditOption(o)
      PROVE  Goal
  <2>1. touched' \in [Callers -> SUBSET Issues]
    BY <1>1, <1>8 DEF EditOption
  <2>2. name' \in [Options -> Names \cup {Gone}] /\ edits' \in 0..MaxEdits
    BY <1>8 DEF EditOption, Edit, TypeOK
  <2> QED
    BY <1>8, <2>1, <2>2 DEF EditOption, Edit, TypeOK, cacheVars
<1>9. CASE LimitChanges \/ UNCHANGED vars
  BY <1>9 DEF LimitChanges, vars, boardVars, githubVars, cacheVars, callVars, TypeOK
<1> QED
  <2>1. ASSUME NEW c \in Callers,
               SendOk(c) \/ SendLost(c) \/ SendRefused(c) \/ SendLimited(c)
               \/ SendServerError(c)
        PROVE  NoEffect \/ (pc[c] = "send" /\ TakeEffect(c))
    BY <2>1 DEF SendOk, SendLost, SendRefused, SendLimited, SendServerError, Accepted
  <2> QED
    BY <1>2, <1>3, <1>4, <1>5, <1>6, <1>7, <1>8, <1>9, <2>1 DEF Next, Step

\* Every step keeps the types.
LEMMA TypeStep ==
  ASSUME TypeOK, \A c \in Callers : CallFits(c), [Next]_vars
  PROVE  TypeOK'
<1>1. CallersMove /\ Moves(option, option', Options \cup {NoOption})
  BY CallerMoves, OptionMoves
<1>2. /\ pc' \in [Callers -> Labels] /\ answer' \in [Callers -> {"ok", "err"}]
      /\ isOrg' \in [Callers -> BOOLEAN] /\ call' \in [Callers -> Calls]
  BY <1>1, MovesType DEF CallersMove, TypeOK, Labels
<1>3. /\ cursor' \in [Callers -> Places \cup {0}] /\ all' \in [Callers -> [Items -> Nat]]
      /\ retries' \in [Callers -> 0..MaxRetries] /\ effects' \in [Callers -> Nat]
      /\ exhausted' \in [Callers -> 0..MaxExhausted]
      /\ option' \in [Callers -> Options \cup {NoOption}]
  BY <1>1, MovesType DEF CallersMove, TypeOK
<1> QED
  BY <1>2, <1>3, WorldType DEF TypeOK, Labels

-----------------------------------------------------------------------------
\* Two issues never come to one place.
LEMMA PlacesStep ==
  ASSUME TypeOK, PlacesAreOwn, [Next]_vars
  PROVE  PlacesAreOwn'
<1>1. ASSUME NEW i \in Issues, MoveItem(i)
      PROVE  PlacesAreOwn'
  BY <1>1 DEF MoveItem, PlacesAreOwn, TypeOK
<1>2. CASE UNCHANGED place
  BY <1>2 DEF PlacesAreOwn
<1>3. ASSUME NEW c \in Callers, Fetch(c) \/ Move(c) \/ Comment(c) \/ Done(c) \/ Step(c)
      PROVE  UNCHANGED place
  <2>1. CASE Fetch(c) \/ Move(c) \/ Comment(c) \/ Done(c)
    BY <2>1 DEF Fetch, Move, Comment, Begin, Done, boardVars, githubVars
  <2>2. CASE Probe(c) \/ ReadPage(c) \/ PageFails(c) \/ FindProject(c) \/ FindOption(c)
             \/ LookupFails(c)
    BY <2>2 DEF Probe, ReadPage, PageFails, FindProject, FindOption, LookupFails, boardVars,
       githubVars
  <2>3. CASE SendOk(c) \/ SendLost(c) \/ SendRefused(c) \/ SendLimited(c)
             \/ SendServerError(c)
    BY <2>3 DEF SendOk, SendLost, SendRefused, SendLimited, SendServerError, TakeEffect,
       NoEffect, boardVars, githubVars
  <2> QED
    BY <1>3, <2>1, <2>2, <2>3 DEF Step
<1> QED
  BY <1>1, <1>2, <1>3 DEF Next, EditOption, LimitChanges, vars, boardVars, githubVars

\* What a caller that waits has not seen change has not changed.
Seen(d) ==
  /\ touched[d] \subseteq touched'[d]
  /\ \A i \in Issues \ touched'[d] : place'[i] = place[i] /\ Item(i)' = Item(i)

\* Who waits and is told of the items that change has seen them.
LEMMA TouchShows ==
  ASSUME TypeOK, NEW S \in SUBSET Issues, Touch(S), NEW d \in Callers, pc[d] # "idle",
         \A i \in Issues \ S : place'[i] = place[i] /\ StateOf(i)' = StateOf(i)
  PROVE  Seen(d)
<1>1. touched'[d] = touched[d] \cup S
  BY DEF Touch
<1> QED
  BY <1>1 DEF Seen, Item

\* A caller that goes on waiting sees all that changes.
LEMMA BoardSeen ==
  ASSUME TypeOK, \A c \in Callers : CallFits(c), [Next]_vars,
         NEW d \in Callers, pc[d] # "idle", ~Done(d)
  PROVE  Seen(d)
<1>1. ASSUME NEW i \in Issues, MoveItem(i)
      PROVE  Seen(d)
  <2>1. \A j \in Issues \ {i} : place'[j] = place[j] /\ StateOf(j)' = StateOf(j)
    BY <1>1 DEF MoveItem, StateOf, StateIn, TypeOK
  <2> QED
    BY <1>1, <2>1, TouchShows DEF MoveItem
<1>2. ASSUME NEW o \in Options, EditOption(o)
      PROVE  Seen(d)
  <2> DEFINE S == {i \in Issues : column[i] = o}
  <2>1. \A j \in Issues \ S : place'[j] = place[j] /\ StateOf(j)' = StateOf(j)
    BY <1>2 DEF EditOption, StateOf, StateIn, TypeOK
  <2>2. Touch(S) /\ S \in SUBSET Issues
    BY <1>2 DEF EditOption
  <2> HIDE DEF S
  <2> QED
    BY <2>1, <2>2, TouchShows
<1>3. ASSUME NEW c \in Callers, pc[c] = "send", TakeEffect(c)
      PROVE  Seen(d)
  <2>1. CASE call[c].op = "move"
    <3>1. call[c].issue \in Issues /\ Touch({call[c].issue})
      BY <1>3, <2>1 DEF CallFits, TakeEffect
    <3>2. \A j \in Issues \ {call[c].issue} : place'[j] = place[j]
          /\ StateOf(j)' = StateOf(j)
      BY <1>3, <2>1, <3>1 DEF TakeEffect, StateOf, StateIn, TypeOK
    <3> QED
      BY <3>1, <3>2, TouchShows
  <2>2. CASE call[c].op # "move"
    BY <1>3, <2>2 DEF TakeEffect, Seen, Item, StateOf, StateIn
  <2> QED
    BY <2>1, <2>2
<1>4. CASE UNCHANGED <<place, column, name>> /\ touched'[d] = touched[d]
  BY <1>4 DEF Seen, Item, StateOf, StateIn
<1>5. ASSUME NEW c \in Callers, Done(c)
      PROVE  UNCHANGED <<place, column, name>> /\ touched'[d] = touched[d]
  BY <1>5 DEF Done, githubVars, boardVars, TypeOK
<1>6. ASSUME NEW c \in Callers,
             SendOk(c) \/ SendLost(c) \/ SendRefused(c) \/ SendLimited(c)
             \/ SendServerError(c)
      PROVE  NoEffect \/ (pc[c] = "send" /\ TakeEffect(c))
  BY <1>6 DEF SendOk, SendLost, SendRefused, SendLimited, SendServerError, Accepted
<1>7. ASSUME \/ NoEffect \/ LimitChanges \/ UNCHANGED vars
             \/ \E c \in Callers : Fetch(c) \/ Move(c) \/ Comment(c)
             \/ \E c \in Callers : Probe(c) \/ ReadPage(c) \/ PageFails(c)
             \/ \E c \in Callers : FindProject(c) \/ FindOption(c) \/ LookupFails(c)
      PROVE  UNCHANGED <<place, column, name>> /\ touched'[d] = touched[d]
  BY <1>7 DEF NoEffect, LimitChanges, vars, Fetch, Move, Comment, Begin, Probe, ReadPage,
     PageFails, FindProject, FindOption, LookupFails, githubVars, boardVars, callVars
<1> QED
  BY <1>1, <1>2, <1>3, <1>4, <1>5, <1>6, <1>7 DEF Next, Step

-----------------------------------------------------------------------------
\* A step is one of the board, or of one caller; the others stay as they are.
Rests(d) ==
  /\ pc'[d] = pc[d] /\ call'[d] = call[d] /\ cursor'[d] = cursor[d] /\ all'[d] = all[d]
  /\ option'[d] = option[d] /\ retries'[d] = retries[d] /\ answer'[d] = answer[d]
  /\ effects'[d] = effects[d] /\ exhausted'[d] = exhausted[d]
  /\ pc[d] = "idle" /\ touched[d] = {} => touched'[d] = {}

Acts(c) == Fetch(c) \/ Move(c) \/ Comment(c) \/ Step(c) \/ Done(c)

\* When one caller acts the others rest.
LEMMA OthersRest ==
  ASSUME TypeOK, NEW c \in Callers, Acts(c), NEW d \in Callers, d # c
  PROVE  Rests(d)
<1>1. CASE Fetch(c) \/ Move(c) \/ Comment(c)
  <2>1. PICK record : Begin(c, record)
    BY <1>1 DEF Fetch, Move, Comment
  <2>2. /\ call'[d] = call[d] /\ cursor'[d] = cursor[d] /\ all'[d] = all[d]
        /\ effects'[d] = effects[d] /\ touched' = touched
    BY <2>1 DEF Begin, TypeOK, fetchVars
  <2>3. pc'[d] = pc[d] /\ answer'[d] = answer[d]
    BY <1>1 DEF Fetch, Move, Comment, Goto, Return, Resolve, TypeOK
  <2>4. option'[d] = option[d] /\ retries'[d] = retries[d] /\ exhausted'[d] = exhausted[d]
    BY <1>1 DEF Fetch, Move, Comment, Resolve, TypeOK, mutateVars
  <2> QED
    BY <2>2, <2>3, <2>4 DEF Rests
<1>2. CASE Probe(c) \/ ReadPage(c) \/ PageFails(c)
  BY <1>2 DEF Probe, ReadPage, PageFails, Goto, Return, TypeOK, Rests, fetchVars,
     mutateVars, callVars
<1>3. CASE FindProject(c) \/ FindOption(c) \/ LookupFails(c)
  BY <1>3 DEF FindProject, FindOption, LookupFails, Resolve, Goto, Return, TypeOK, Rests,
     fetchVars, mutateVars, callVars
<1>4. CASE SendOk(c) \/ SendLost(c) \/ SendRefused(c) \/ SendLimited(c)
           \/ SendServerError(c)
  <2>1. TakeEffect(c) \/ NoEffect
    BY <1>4 DEF SendOk, SendLost, SendRefused, SendLimited, SendServerError
  <2>2. /\ call'[d] = call[d] /\ cursor'[d] = cursor[d] /\ all'[d] = all[d]
        /\ effects'[d] = effects[d] /\ (pc[d] = "idle" /\ touched[d] = {}
           => touched'[d] = {})
    BY <2>1 DEF TakeEffect, NoEffect, Touch, TypeOK, fetchVars, callVars
  <2>3. /\ pc'[d] = pc[d] /\ answer'[d] = answer[d] /\ retries'[d] = retries[d]
        /\ option'[d] = option[d] /\ exhausted'[d] = exhausted[d]
    BY <1>4 DEF SendOk, SendLost, SendRefused, SendLimited, SendServerError, Answered,
       Again, Goto, Return, TypeOK
  <2> QED
    BY <2>2, <2>3 DEF Rests
<1>5. CASE Done(c)
  BY <1>5 DEF Done, Goto, TypeOK, Rests
<1> QED
  BY <1>1, <1>2, <1>3, <1>4, <1>5 DEF Acts, Step

\* When none acts all rest.
LEMMA BoardRests ==
  ASSUME TypeOK, [Next]_vars, \A c \in Callers : ~Acts(c), NEW d \in Callers
  PROVE  Rests(d)
<1>1. \/ LimitChanges \/ UNCHANGED vars \/ \E i \in Issues : MoveItem(i)
      \/ \E o \in Options : EditOption(o)
  BY DEF Next, Acts
<1> QED
  BY <1>1 DEF LimitChanges, MoveItem, EditOption, Edit, Touch, Rests, vars, callVars,
     fetchVars, mutateVars

\* Whoever rests keeps its invariant.
LEMMA RestKeeps ==
  ASSUME TypeOK, \A c \in Callers : CallFits(c), [Next]_vars,
         NEW d \in Callers, Rests(d), CallerInv(d)
  PROVE  CallerInv(d)'
<1>1. CallFits(d)' /\ EffectsFollow(d)' /\ StartsEmpty(d)' /\ Meant(d)'
  BY ConstantsType DEF Rests, CallerInv, CallFits, EffectsFollow, StartsEmpty, Meant
<1>2. CASE pc[d] = "idle"
  BY <1>1, <1>2 DEF CallerInv, ReadSoFar, Delivered, Rests
<1>3. CASE pc[d] # "idle"
  <2>1. ~Done(d)
    BY <1>3 DEF Done, Goto, Rests, TypeOK
  <2>2. Seen(d)
    BY <1>3, <2>1, BoardSeen
  <2>3. \A e \in Items : e.issue \in Issues
    BY DEF Items
  <2>4. \A e \in Items : e.issue \notin touched'[d] =>
          /\ e.issue \notin touched[d] /\ place'[e.issue] = place[e.issue]
          /\ Item(e.issue)' = Item(e.issue)
    BY <2>2, <2>3 DEF Seen
  <2>5. ReadSoFar(d)'
    BY <2>4 DEF ReadSoFar, Rests, CallerInv
  <2>6. Delivered(d)'
    BY <2>4 DEF Delivered, Wanted, Rests, CallerInv
  <2> QED
    BY <1>1, <2>5, <2>6 DEF CallerInv
<1> QED
  BY <1>2, <1>3

-----------------------------------------------------------------------------
\* Whoever acts keeps its invariant, too: the calls ...
LEMMA FetchKeeps ==
  ASSUME TypeOK, NEW c \in Callers, CallerInv(c), Fetch(c)
  PROVE  CallerInv(c)'
<1>1. PICK op \in Fetches, S \in StateQueries, I \in IdQueries :
        /\ Begin(c, [NoCall EXCEPT !.op = op, !.states = S, !.ids = I])
        /\ IF op = "states" /\ S = {} THEN Return(c, "ok")
           ELSE Goto(c, "probe") /\ UNCHANGED answer
  BY DEF Fetch
<1>2. call'[c].op = op /\ call'[c].states = S
  BY <1>1 DEF Begin, TypeOK, NoCall
<1>3. /\ pc[c] = "idle" /\ touched' = touched /\ effects' = effects /\ cursor' = cursor
      /\ all' = all /\ retries' = retries /\ option' = option /\ exhausted' = exhausted
      /\ exhausted[c] \in Nat
  BY <1>1 DEF Fetch, Begin, fetchVars, mutateVars, TypeOK
<1>4. /\ touched[c] = {} /\ effects[c] = 0 /\ cursor[c] = 0 /\ all[c] = NoItems
      /\ retries[c] = 0 /\ MaxRetries \in Nat
  BY <1>3, ConstantsType DEF CallerInv, EffectsFollow, StartsEmpty
<1>5. CASE op = "states" /\ S = {}
  <2>1. pc'[c] = "done"
    BY <1>1, <1>5 DEF Return, Goto, TypeOK
  <2>2. Delivered(c)'
    BY <1>2, <1>3, <1>4, <1>5 DEF Delivered, NoItems
  <2> QED
    BY <1>2, <1>3, <1>4, <2>1, <2>2, <1>5 DEF CallerInv, CallFits, EffectsFollow,
       StartsEmpty, ReadSoFar, Meant, Fetches, Mutations
<1>6. CASE ~(op = "states" /\ S = {})
  <2>1. pc'[c] = "probe"
    BY <1>1, <1>6 DEF Goto, TypeOK
  <2> QED
    BY <1>2, <1>3, <1>4, <1>6, <2>1 DEF CallerInv, CallFits, EffectsFollow, StartsEmpty,
       ReadSoFar, Meant, Delivered
<1> QED
  BY <1>5, <1>6

\* What the call of a mutation, or a lookup for it, leaves its caller with.
Asked(c) ==
  /\ call'[c].op \in Mutations
  /\ call'[c].issue \in Issues /\ (call'[c].op = "move" => call'[c].name \in Names)
  /\ all' = all /\ effects' = effects /\ retries' = retries /\ touched' = touched
     /\ cursor' = cursor /\ exhausted' = exhausted /\ exhausted[c] \in Nat
  /\ effects[c] = 0 /\ retries[c] = 0 /\ all[c] = NoItems /\ cursor[c] = 0
  /\ \/ pc'[c] = "done" /\ answer'[c] = "err"
     \/ pc'[c] \in {"project", "option"} /\ call'[c].op = "move"
     \/ pc'[c] = "send" /\ (call'[c].op = "move" => option'[c] \in Options)

\* Such a call keeps the invariant.
LEMMA AskedKeeps ==
  ASSUME NEW c \in Callers, Asked(c)
  PROVE  CallerInv(c)'
  BY ConstantsType DEF Asked, CallerInv, CallFits, EffectsFollow, StartsEmpty, ReadSoFar, Delivered,
     Meant, Fetches, Mutations

\* Where Resolve leads.
LEMMA ResolveLeads ==
  ASSUME TypeOK, NEW c \in Callers, NEW i, NEW n \in Names, Resolve(c, i, n)
  PROVE  \/ pc'[c] = "done" /\ answer'[c] = "err"
         \/ pc'[c] = "option"
         \/ pc'[c] = "send" /\ option'[c] \in Options
  BY DEF Resolve, Return, Goto, TypeOK

\* A mutation begins.
LEMMA MutationsKeep ==
  ASSUME TypeOK, NEW c \in Callers, CallerInv(c), Move(c) \/ Comment(c)
  PROVE  CallerInv(c)'
<1>1. pc[c] = "idle"
  BY DEF Move, Comment, Begin
<1>2. effects[c] = 0 /\ retries[c] = 0 /\ all[c] = NoItems /\ cursor[c] = 0
  BY <1>1 DEF CallerInv, EffectsFollow, StartsEmpty
<1>3. all' = all /\ effects' = effects /\ retries' = retries /\ touched' = touched
      /\ cursor' = cursor /\ exhausted' = exhausted /\ exhausted[c] \in Nat
  <2>1. exhausted[c] \in Nat
    BY DEF TypeOK
  <2>2. CASE Move(c)
    BY <2>1, <2>2 DEF Move, Begin, fetchVars
  <2>3. CASE Comment(c)
    BY <2>1, <2>3 DEF Comment, Begin, fetchVars, mutateVars
  <2> QED
    BY <2>2, <2>3
<1>4. CASE Move(c)
  <2>1. PICK i \in Ours, n \in Names :
          /\ Begin(c, [NoCall EXCEPT !.op = "move", !.issue = i, !.name = n])
          /\ IF project THEN Resolve(c, i, n)
             ELSE Goto(c, "project") /\ UNCHANGED <<answer, option>>
    BY <1>4 DEF Move
  <2>2. call'[c].op = "move" /\ call'[c].issue \in Issues /\ call'[c].name \in Names
    BY <2>1, ConstantsType DEF Begin, TypeOK, NoCall
  <2>3. \/ pc'[c] = "done" /\ answer'[c] = "err"
        \/ pc'[c] \in {"project", "option"}
        \/ pc'[c] = "send" /\ option'[c] \in Options
    BY <2>1, ResolveLeads DEF Goto, TypeOK
  <2> QED
    BY <1>2, <1>3, <2>2, <2>3, AskedKeeps DEF Asked, Mutations
<1>5. CASE Comment(c)
  <2>1. PICK i \in Ours :
          /\ Begin(c, [NoCall EXCEPT !.op = "comment", !.issue = i])
          /\ IF i \in Addressable THEN Goto(c, "send") /\ UNCHANGED answer
             ELSE Return(c, "err")
    BY <1>5 DEF Comment
  <2>2. call'[c].op = "comment" /\ call'[c].issue \in Issues
    BY <2>1, ConstantsType DEF Begin, TypeOK, NoCall
  <2>3. \/ pc'[c] = "done" /\ answer'[c] = "err"
        \/ pc'[c] = "send"
    BY <2>1 DEF Goto, Return, TypeOK
  <2> QED
    BY <1>2, <1>3, <2>2, <2>3, AskedKeeps DEF Asked, Mutations
<1> QED
  BY <1>4, <1>5

\* ... the lookups, which leave a call as it is ...
LEMMA LookupsKeep ==
  ASSUME TypeOK, NEW c \in Callers, CallerInv(c), FindProject(c) \/ FindOption(c)
         \/ LookupFails(c)
  PROVE  CallerInv(c)'
<1>1. pc[c] \in {"project", "option"}
  BY DEF FindProject, FindOption, LookupFails
<1>2. /\ call[c].op = "move" /\ call[c].issue \in Issues /\ call[c].name \in Names
      /\ effects[c] = 0 /\ retries[c] = 0 /\ all[c] = NoItems /\ cursor[c] = 0
  BY <1>1 DEF CallerInv, CallFits, EffectsFollow, StartsEmpty
<1>3. /\ all' = all /\ effects' = effects /\ retries' = retries /\ touched' = touched
      /\ cursor' = cursor /\ call' = call /\ exhausted' = exhausted /\ exhausted[c] \in Nat
  BY DEF FindProject, FindOption, LookupFails, fetchVars, callVars, mutateVars, TypeOK
<1>4. CASE FindProject(c)
  <2>1. Resolve(c, call[c].issue, call[c].name)
    BY <1>4 DEF FindProject
  <2> QED
    BY <1>2, <1>3, <2>1, ResolveLeads, AskedKeeps DEF Asked, Mutations
<1>5. CASE FindOption(c)
  <2> DEFINE n == call[c].name
  <2>1. CASE \E o \in Options : name[o] = n
    <3>1. pc'[c] = "send" /\ option'[c] = Cached(n)[n]
      BY <1>5, <2>1 DEF FindOption, Goto, TypeOK
    <3>2. Cached(n)[n] \in Options
      BY <1>2, <2>1 DEF Cached
    <3> QED
      BY <1>2, <1>3, <3>1, <3>2, AskedKeeps DEF Asked, Mutations
  <2>2. CASE ~\E o \in Options : name[o] = n
    <3>1. pc'[c] = "done" /\ answer'[c] = "err"
      BY <1>5, <2>2 DEF FindOption, Return, Goto, TypeOK
    <3> QED
      BY <1>2, <1>3, <3>1, AskedKeeps DEF Asked, Mutations
  <2> QED
    BY <2>1, <2>2
<1>6. CASE LookupFails(c)
  <2>1. pc'[c] = "done" /\ answer'[c] = "err"
    BY <1>6 DEF LookupFails, Return, Goto, TypeOK
  <2> QED
    BY <1>2, <1>3, <2>1, AskedKeeps DEF Asked, Mutations
<1> QED
  BY <1>4, <1>5, <1>6

\* ... the probe and a failure ...
LEMMA ProbeKeeps ==
  ASSUME TypeOK, NEW c \in Callers, CallerInv(c), Probe(c) \/ PageFails(c)
  PROVE  CallerInv(c)'
<1>1. /\ pc[c] \in {"probe", "page"} /\ call' = call
      /\ effects' = effects /\ retries' = retries /\ exhausted' = exhausted
      /\ exhausted[c] \in Nat /\ MaxRetries \in Nat
  BY ConstantsType DEF Probe, PageFails, callVars, mutateVars, TypeOK
<1>2. /\ call[c].op \in Fetches /\ ~(call[c].op = "states" /\ call[c].states = {})
      /\ effects[c] = 0 /\ retries[c] = 0
  BY <1>1 DEF CallerInv, CallFits, EffectsFollow
<1>3. CASE Probe(c)
  <2>1. pc[c] = "probe" /\ pc'[c] = "page" /\ all[c] = NoItems /\ cursor[c] = 0
    BY <1>3 DEF Probe, Goto, TypeOK, CallerInv, StartsEmpty
  <2>2. all' = all /\ cursor' = cursor
    BY <1>3 DEF Probe
  <2>3. \A e \in Items : place'[e.issue] = place[e.issue] /\ place[e.issue] \in Nat
    BY <1>3, PlaceType DEF Probe, githubVars, boardVars, Items
  <2>4. ReadSoFar(c)'
    BY <2>1, <2>2, <2>3 DEF ReadSoFar, NoItems
  <2> QED
    BY <1>1, <1>2, <2>1, <2>4 DEF CallerInv, CallFits, EffectsFollow, StartsEmpty,
       Delivered, Meant
<1>4. CASE PageFails(c)
  <2>1. pc'[c] = "done" /\ answer'[c] = "err"
    BY <1>4 DEF PageFails, Return, Goto, TypeOK
  <2> QED
    BY <1>1, <1>2, <2>1 DEF CallerInv, CallFits, EffectsFollow, StartsEmpty, ReadSoFar,
       Delivered, Meant
<1> QED
  BY <1>3, <1>4

\* ... a page, which holds what is behind the cursor up to its last item ...
LEMMA PageIsPrefix ==
  ASSUME TypeOK, NEW p \in Nat, NEW i \in Page(p), NEW j \in Behind(p), place[j] <= place[i]
  PROVE  j \in Page(p)
<1> DEFINE Before(k) == {x \in Behind(p) : place[x] < place[k]}
<1>1. IsFiniteSet(Before(i)) /\ IsFiniteSet(Before(j))
  BY ConstantsType, FS_Subset DEF Behind
<1>2. place[i] \in Nat /\ place[j] \in Nat /\ \A x \in Behind(p) : place[x] \in Nat
  BY PlaceType DEF Page, Behind
<1>3. Before(j) \subseteq Before(i)
  BY <1>2
<1>4. Cardinality(Before(j)) <= Cardinality(Before(i))
  BY <1>1, <1>3, FS_Subset
<1>5. Cardinality(Before(i)) < PageSize
  BY DEF Page
<1>6. Cardinality(Before(i)) \in Nat /\ Cardinality(Before(j)) \in Nat
  BY <1>1, FS_CardinalityType
<1>7. Cardinality(Before(j)) < PageSize
  BY <1>4, <1>5, <1>6, ConstantsType
<1> QED
  BY <1>7 DEF Page

\* ... so that what has been read is what lies up to the cursor ...
LEMMA PageKeeps ==
  ASSUME TypeOK, NEW c \in Callers, CallerInv(c), ReadPage(c)
  PROVE  CallerInv(c)'
<1> DEFINE page == Page(cursor[c])
           list == Extended(all[c], page)
<1>1. /\ pc[c] = "page" /\ UNCHANGED <<place, column, name>>
      /\ effects' = effects /\ retries' = retries /\ touched' = touched /\ call' = call
      /\ exhausted' = exhausted /\ exhausted[c] \in Nat /\ MaxRetries \in Nat
  BY ConstantsType DEF ReadPage, githubVars, boardVars, callVars, mutateVars, TypeOK
<1>2. /\ call[c].op \in Fetches /\ ~(call[c].op = "states" /\ call[c].states = {})
      /\ effects[c] = 0 /\ retries[c] = 0
  BY <1>1 DEF CallerInv, CallFits, EffectsFollow
<1>3. /\ cursor[c] \in Nat /\ \A i \in Issues : place[i] \in Nat
      /\ all[c] \in [Items -> Nat] /\ \A e \in Items : e.issue \in Issues
  BY PlaceType DEF TypeOK, Items
<1>4. page \subseteq Behind(cursor[c]) /\ \A i \in page : i \in Issues
  BY DEF Page, Behind
<1>5. \A e \in Items : Item(e.issue)' = Item(e.issue) /\ place'[e.issue] = place[e.issue]
  BY <1>1 DEF Item, StateOf, StateIn
<1>6. \A e \in Items : e.issue \notin touched[c] =>
        all[c][e] = IF place[e.issue] # 0 /\ place[e.issue] <= cursor[c]
        /\ e = Item(e.issue)
                    THEN 1 ELSE 0
  BY <1>1 DEF CallerInv, ReadSoFar
<1>7. \A e \in Items : list[e] = IF e.issue \in page /\ e = Item(e.issue)
                                 THEN all[c][e] + 1 ELSE all[c][e]
  BY DEF Extended
<1>8. CASE Behind(cursor[c]) # page
  <2>1. PICK i \in page : /\ \A j \in page : place[j] <= place[i]
                          /\ cursor' = [cursor EXCEPT ![c] = place[i]]
    BY <1>8 DEF ReadPage
  <2>2. pc'[c] = "page" /\ all'[c] = list /\ cursor'[c] = place[i]
    BY <1>1, <1>8, <2>1 DEF ReadPage, TypeOK
  <2>3. \A j \in Issues : j \in page <=> cursor[c] < place[j] /\ place[j] <= place[i]
    <3>1. ASSUME NEW j \in Issues, cursor[c] < place[j], place[j] <= place[i]
          PROVE  j \in page
      <4>1. j \in Behind(cursor[c])
        BY <3>1, <1>3 DEF Behind
      <4> QED
        BY <1>3, <3>1, <4>1, PageIsPrefix
    <3>2. ASSUME NEW j \in page
          PROVE  cursor[c] < place[j] /\ place[j] <= place[i]
      BY <1>3, <1>4, <2>1 DEF Behind
    <3> QED
      BY <3>1, <3>2
  <2>4. cursor[c] < place[i] /\ place[i] \in Nat
    BY <1>3, <1>4 DEF Behind
  <2>5. \A e \in Items : e.issue \notin touched[c] =>
          list[e] = IF place[e.issue] # 0 /\ place[e.issue] <= place[i] /\ e = Item(e.issue)
                    THEN 1 ELSE 0
    <3> SUFFICES ASSUME NEW e \in Items, e.issue \notin touched[c]
                 PROVE  list[e] = IF place[e.issue] # 0 /\ place[e.issue] <= place[i]
                        /\ e = Item(e.issue)
                                  THEN 1 ELSE 0
      OBVIOUS
    <3>1. e.issue \in page <=> cursor[c] < place[e.issue] /\ place[e.issue] <= place[i]
      BY <1>3, <2>3
    <3> HIDE DEF list, page
    <3>2. place[e.issue] \in Nat
      BY <1>3
    <3> QED
      BY <1>3, <1>6, <1>7, <2>4, <3>1, <3>2
  <2> HIDE DEF list, page
  <2>6. ReadSoFar(c)'
    BY <1>1, <1>5, <2>2, <2>5 DEF ReadSoFar
  <2> QED
    BY <1>1, <1>2, <2>2, <2>6 DEF CallerInv, CallFits, EffectsFollow, StartsEmpty,
       Delivered, Meant
<1>9. CASE Behind(cursor[c]) = page
  <2>1. pc'[c] = "done" /\ all'[c] = Filtered(c, list)
    BY <1>9 DEF ReadPage, Return, Goto, TypeOK
  <2>2. \A e \in Items : e.issue \notin touched[c] =>
          list[e] = IF place[e.issue] # 0 /\ e = Item(e.issue) THEN 1 ELSE 0
    <3> SUFFICES ASSUME NEW e \in Items, e.issue \notin touched[c]
                 PROVE  list[e] = IF place[e.issue] # 0 /\ e = Item(e.issue) THEN 1 ELSE 0
      OBVIOUS
    <3>1. e.issue \in page <=> cursor[c] < place[e.issue]
      BY <1>3, <1>9 DEF Behind
    <3> HIDE DEF list, page
    <3>2. place[e.issue] \in Nat
      BY <1>3
    <3> QED
      BY <1>3, <1>6, <1>7, <3>1, <3>2
  <2>3. \A e \in Items : all'[c][e] = IF Wanted(c, e) THEN list[e] ELSE 0
    BY <2>1 DEF Filtered
  <2> HIDE DEF list, page
  <2>4. \A e \in Items : Wanted(c, e)' <=> Wanted(c, e)
    BY <1>1 DEF Wanted
  <2>5. Delivered(c)'
    BY <1>1, <1>2, <1>5, <2>2, <2>3, <2>4 DEF Delivered
  <2> QED
    BY <1>1, <1>2, <2>1, <2>5 DEF CallerInv, CallFits, EffectsFollow, StartsEmpty,
       ReadSoFar, Meant, Fetches, Mutations
<1> QED
  BY <1>8, <1>9

\* ... the answers to a mutation, and the end.
LEMMA SendsKeep ==
  ASSUME TypeOK, NEW c \in Callers, CallerInv(c),
         SendOk(c) \/ SendLost(c) \/ SendRefused(c) \/ SendLimited(c) \/ SendServerError(c)
  PROVE  CallerInv(c)'
<1>1. pc[c] = "send" /\ (NoEffect \/ TakeEffect(c))
  BY DEF SendOk, SendLost, SendRefused, SendLimited, SendServerError, Accepted
<1>2. /\ call[c].op \in Mutations /\ call[c].issue \in Issues
      /\ (call[c].op = "move" => option[c] \in Options)
      /\ effects[c] <= retries[c] + exhausted[c] /\ all[c] = NoItems /\ cursor[c] = 0
  BY <1>1 DEF CallerInv, CallFits, EffectsFollow, StartsEmpty
<1>3. all' = all /\ cursor' = cursor /\ call' = call
  BY <1>1 DEF NoEffect, TakeEffect, fetchVars, callVars
<1>4. /\ effects[c] \in Nat /\ retries[c] \in 0..MaxRetries /\ exhausted[c] \in Nat
      /\ MaxRetries \in Nat /\ effects'[c] \in {effects[c], effects[c] + 1}
  BY <1>1, ConstantsType DEF NoEffect, TakeEffect, callVars, TypeOK
<1>5. \/ /\ pc'[c] = "done" /\ exhausted' = exhausted
         /\ answer'[c] = "ok" => effects'[c] = effects[c] + 1
      \/ /\ pc'[c] = "send" /\ option' = option
         /\ \/ retries' = retries /\ exhausted' = exhausted /\ effects' = effects
            \/ retries' = retries /\ exhausted'[c] = exhausted[c] + 1
            \/ /\ retries'[c] = retries[c] + 1 /\ retries[c] < MaxRetries
               /\ exhausted' = exhausted
  <2>1. CASE SendOk(c)
    BY <2>1 DEF SendOk, TakeEffect, Answered, Return, Goto, TypeOK
  <2>2. CASE SendLost(c) \/ SendRefused(c)
    BY <2>2 DEF SendLost, SendRefused, Answered, Return, Goto, TypeOK
  <2>3. CASE SendLimited(c)
    BY <1>1, <2>3 DEF SendLimited, NoEffect, Again, callVars, TypeOK
  <2>4. CASE SendServerError(c)
    BY <1>1, <2>4 DEF SendServerError, Answered, Again, Return, Goto, TypeOK
  <2> QED
    BY <2>1, <2>2, <2>3, <2>4
<1>6. EffectsFollow(c)'
  BY <1>2, <1>4, <1>5 DEF EffectsFollow
<1>7. Meant(c)'
  BY <1>4, <1>5 DEF Meant
<1> QED
  BY <1>2, <1>3, <1>5, <1>6, <1>7
  DEF CallerInv, CallFits, StartsEmpty, ReadSoFar, Delivered, Fetches, Mutations

\* The caller has taken its answer.
LEMMA DoneKeeps ==
  ASSUME TypeOK, NEW c \in Callers, Done(c)
  PROVE  CallerInv(c)'
<1>1. /\ pc'[c] = "idle" /\ cursor'[c] = 0 /\ all'[c] = NoItems /\ retries'[c] = 0
      /\ touched'[c] = {} /\ effects'[c] = 0 /\ exhausted'[c] = 0 /\ MaxRetries \in Nat
  BY ConstantsType DEF Done, Goto, TypeOK
<1> QED
  BY <1>1 DEF CallerInv, CallFits, EffectsFollow, StartsEmpty, ReadSoFar, Delivered, Meant

-----------------------------------------------------------------------------
\* The first state has it.
LEMMA InitHolds == Init => TrackerIInv
<1> SUFFICES ASSUME Init
             PROVE  TrackerIInv
  OBVIOUS
<1>1. TypeOK
  <2>1. /\ place \in [Issues -> Places \cup {0}] /\ name \in [Options -> Names \cup {Gone}]
        /\ column \in [Issues -> Options \cup {NoOption}]
        /\ cache \in [Names -> Options \cup {NoOption}]
    BY TrackerAssumption DEF Init
  <2>2. /\ call \in [Callers -> Calls] /\ all \in [Callers -> [Items -> Nat]]
        /\ pc \in [Callers -> {"idle", "probe", "page", "project", "option", "send",
           "done"}]
        /\ answer \in [Callers -> {"ok", "err"}]
    BY ConstantsType DEF Init
  <2>3. /\ limit \in BOOLEAN /\ project \in BOOLEAN /\ calls \in 0..MaxCalls
           /\ edits \in 0..MaxEdits
    <3>1. 0 \in 0..MaxCalls /\ 0 \in 0..MaxEdits
      BY ConstantsType
    <3> QED
      BY <3>1 DEF Init
  <2>4. /\ isOrg \in [Callers -> BOOLEAN] /\ cursor \in [Callers -> Places \cup {0}]
        /\ touched \in [Callers -> SUBSET Issues] /\ effects \in [Callers -> Nat]
    BY DEF Init
  <2>5. 0 \in 0..MaxRetries /\ 0 \in 0..MaxExhausted
    BY ConstantsType
  <2>6. /\ option \in [Callers -> Options \cup {NoOption}]
        /\ retries \in [Callers -> 0..MaxRetries] /\ exhausted \in [Callers -> 0..MaxExhausted]
    BY <2>5 DEF Init
  <2> QED
    BY <2>1, <2>2, <2>3, <2>4, <2>6 DEF TypeOK
<1>2. PlacesAreOwn
  BY TrackerAssumption DEF Init, PlacesAreOwn
<1>3. \A c \in Callers : CallerInv(c)
  BY ConstantsType
  DEF Init, CallerInv, CallFits, EffectsFollow, StartsEmpty, ReadSoFar, Delivered, Meant
<1> QED
  BY <1>1, <1>2, <1>3 DEF TrackerIInv

\* Every step keeps the inductive invariant.
LEMMA StepKeeps == TrackerIInv /\ [Next]_vars => TrackerIInv'
<1> SUFFICES ASSUME TrackerIInv, [Next]_vars
             PROVE  TrackerIInv'
  OBVIOUS
<1>1. TypeOK /\ PlacesAreOwn /\ (\A c \in Callers : CallerInv(c))
      /\ \A c \in Callers : CallFits(c)
  BY DEF TrackerIInv, CallerInv
<1>2. TypeOK' /\ PlacesAreOwn'
  BY <1>1, TypeStep, PlacesStep
<1>3. ASSUME NEW c \in Callers, Acts(c)
      PROVE  CallerInv(c)'
  BY <1>1, <1>3, FetchKeeps, MutationsKeep, LookupsKeep, ProbeKeeps, PageKeeps, SendsKeep,
     DoneKeeps
  DEF Acts, Step
<1>4. ASSUME NEW d \in Callers, ~Acts(d)
      PROVE  CallerInv(d)'
  <2>1. Rests(d)
    BY <1>1, <1>4, OthersRest, BoardRests
  <2> QED
    BY <1>1, <2>1, RestKeeps
<1> QED
  BY <1>2, <1>3, <1>4 DEF TrackerIInv

\* The inductive invariant holds of every state of every run.
THEOREM TrackerIInvHolds == Spec => []TrackerIInv
  BY InitHolds, StepKeeps, PTL DEF Spec

\* The calls keep their types, and no mutation takes effect more often than its
\* retries and the failures of last allowed requests permit, which
\* graphql_mutation waits for and does not count: whatever limits, errors and
\* lost answers it meets otherwise, none lets it send a request more.
THEOREM CallsBounded == Spec => []CallsInv
<1>1. TrackerIInv => CallsInv
  BY DEF CallsInv, EffectsAreBounded, TrackerIInv, CallerInv, EffectsFollow
<1> QED
  BY <1>1, TrackerIInvHolds, PTL

\* A fetch that succeeds lists what stayed where it was exactly once, with its
\* state, and nothing else that stayed: for any page size and board, whatever
\* else moves between the pages of fetch_project_items.
THEOREM FetchFaithful == Spec => []FetchIsFaithful
<1>1. TrackerIInv => FetchIsFaithful
  BY DEF TrackerIInv, CallerInv, Delivered, FetchIsFaithful
<1> QED
  BY <1>1, TrackerIInvHolds, PTL

\* A mutation whose caller is told that it succeeded has taken effect.
THEOREM OkIsDone == Spec => []OkMeansDone
<1>1. TrackerIInv => OkMeansDone
  BY DEF TrackerIInv, CallerInv, Meant, OkMeansDone
<1> QED
  BY <1>1, TrackerIInvHolds, PTL

=============================================================================
