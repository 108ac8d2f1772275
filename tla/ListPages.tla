------------------------------ MODULE ListPages ------------------------------
(***************************************************************************)
(* A list of the console with its search box, filters and pages: traces,   *)
(* datasets, experiments, prompts, evaluators, annotation tasks, monitor   *)
(* rules. The address holds what is asked for; the box holds what has been *)
(* typed and commits it to the address when 400 ms have gone by without a  *)
(* rendering, from the address that rendering had.                         *)
(***************************************************************************)
EXTENDS AsyncResource

CONSTANTS Terms,      \* what can be searched for, without surrounding blanks
          NoTerm,     \* the empty text
          Filters,    \* status, time range, sorting, durations
          PagesOf,    \* pages of the list for a term and a filter
          MaxTyped,   \* bound: changes of the box
          MaxListed   \* bound: loads in flight when the user asks for another

Picks == Filters \cup {None}

ASSUME ListAssumption ==
    /\ NoTerm \in Terms
    /\ PagesOf \in [Terms \X Picks -> Nat]
    /\ None \notin Filters

VARIABLES
    address,  \* the search parameters: search, filter, page
    box,      \* searchInput
    timer,    \* what the timer will commit, and the address it starts from
    list,     \* the resource
    picked,   \* ghost: the filter the user has picked last
    typed     \* changes of the box so far

listVars == <<address, box, timer, list, picked, typed>>

\* A text is a term, with blanks after it or not. trim() drops the blanks.
Texts == [term : Terms, padded : BOOLEAN]
Trimmed(text) == [text EXCEPT !.padded = FALSE]
NoText == [term |-> NoTerm, padded |-> FALSE]

\* The page asks for what the address says, without the blanks.
Asked(a) == [term |-> a.search.term, filter |-> a.filter, page |-> a.page]

ListInit ==
    /\ address = [search |-> NoText, filter |-> None, page |-> 1]
    /\ box = NoText
    /\ timer = None
    /\ list = Mounted
    /\ picked = None /\ typed = 0

\* Mutant: a rendering stops the timer, and only typing starts it.
RenderDisarms(a, text) ==
    /\ address' = a
    /\ box' = IF Trimmed(a.search) # Trimmed(address.search)
              THEN Trimmed(a.search) ELSE text
    /\ timer' = IF box' = Trimmed(a.search) \/ box' = box THEN None
                ELSE [text |-> box', address |-> a]

\* Mutant: the timer keeps the address it was first started from.
RenderKeepsClosure(a, text) ==
    /\ address' = a
    /\ box' = IF Trimmed(a.search) # Trimmed(address.search)
              THEN Trimmed(a.search) ELSE text
    /\ timer' = IF box' = Trimmed(a.search) THEN None
                ELSE IF timer # None /\ timer.text = box' THEN timer
                ELSE [text |-> box', address |-> a]

\* A rendering and its effects: a search that has changed in the address goes
\* into the box; the timer is stopped and, when the box differs from the
\* address, started again with the address of this rendering.
Render(a, text) ==
    /\ address' = a
    /\ box' = IF Trimmed(a.search) # Trimmed(address.search)
              THEN Trimmed(a.search) ELSE text
    /\ timer' = IF box' = Trimmed(a.search) THEN None
                ELSE [text |-> box', address |-> a]

\* The resource loads again when what is asked for has changed.
LoadIfAsked(a) ==
    IF Asked(a) = Asked(address) THEN UNCHANGED list
    ELSE list' = Load(list, Asked(a))

\* The bound holds back the user, not the timer.
Room == Len(list.calls) < MaxListed

MountList ==
    /\ list = Mounted
    /\ list' = Load(list, Asked(address))
    /\ UNCHANGED <<address, box, timer, picked, typed>>

Type ==
    /\ list # Mounted /\ typed < MaxTyped
    /\ \E text \in Texts : text # box /\ Render(address, text)
    /\ typed' = typed + 1
    /\ UNCHANGED <<list, picked>>

\* applySearchParamPatch({search}, {resetPage}) on the address of the closure.
CommitSearch ==
    /\ timer # None
    /\ LET a == [timer.address EXCEPT !.search = timer.text, !.page = 1] IN
       /\ LoadIfAsked(a)
       /\ Render(a, box)
    /\ UNCHANGED <<picked, typed>>

PickFilter(f) ==
    /\ list # Mounted /\ Room /\ f # address.filter
    /\ LET a == [address EXCEPT !.filter = f, !.page = 1] IN
       /\ LoadIfAsked(a)
       /\ Render(a, box)
    /\ picked' = f
    /\ UNCHANGED typed

\* The buttons count from the page of the data shown, which may still be that
\* of another search or filter.
Pagination ==
    /\ list.data # None /\ ~list.failed /\ Room
    /\ \E next \in {list.data.page - 1, list.data.page + 1} \cap 1..list.data.pages :
          LET a == [address EXCEPT !.page = next] IN
          /\ LoadIfAsked(a)
          /\ Render(a, box)
    /\ UNCHANGED <<picked, typed>>

RetryList ==
    /\ list.failed /\ Room
    /\ list' = Load(list, Asked(address))
    /\ Render(address, box)
    /\ UNCHANGED <<picked, typed>>

\* The answer: a page of what was asked for, and how many there are.
Listed(i) ==
    LET key == list.calls[i].key IN
    /\ list' = Applied(Served(list, i,
                  [page |-> key.page, pages |-> PagesOf[<<key.term, key.filter>>]]), i)
    /\ Render(address, box)
    /\ UNCHANGED <<picked, typed>>

ListFailed(i) ==
    /\ list' = Failed(list, i)
    /\ Render(address, box)
    /\ UNCHANGED <<picked, typed>>

ListStep == \E i \in DOMAIN list.calls : Listed(i) \/ ListFailed(i)

ListNext ==
    \/ MountList \/ ListStep \/ RetryList
    \/ Type \/ CommitSearch
    \/ \E f \in Picks : PickFilter(f)
    \/ Pagination

ListSpec == ListInit /\ [][ListNext]_listVars

-----------------------------------------------------------------------------

\* A filter picked while a search waits in the box is not lost when the search
\* is committed: the timer starts from the address of the last rendering
\* (useDebouncedSearchInput.ts, setParams of every list).
FilterSurvivesSearch == address.filter = picked

\* What has been typed is searched for in the end, whatever renders the page in
\* between (the timer is started again by every rendering).
SearchIsCommitted == <>[](address.search.term = box.term)
=============================================================================
