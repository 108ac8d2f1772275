------------------------- MODULE ConsolePagesProofs -------------------------
(***************************************************************************)
(* Pages of the console, for any texts, filters, projects, rows and views, *)
(* any number of loads and changes in flight and any order of answers:     *)
(* a filter is never lost to a search; settings that have settled are      *)
(* those of the current project; and what shares a form's busy flag never  *)
(* overlaps.                                                               *)
(***************************************************************************)
EXTENDS ListPages, SettingsPage, DialogPages, SequenceTheorems,
        FiniteSetTheorems, TLAPS

-----------------------------------------------------------------------------
(* Lists                                                                   *)

IsAddress(a) == a = [search |-> a.search, filter |-> a.filter, page |-> a.page]

\* The timer that runs was started by the last rendering.
TimerIsFresh == timer # None => timer.address = address

ListInv == IsAddress(address) /\ TimerIsFresh /\ FilterSurvivesSearch

-----------------------------------------------------------------------------

LEMMA ListInitHolds == ListInit => ListInv
BY DEF ListInit, ListInv, IsAddress, TimerIsFresh, FilterSurvivesSearch

(* The effects of a rendering leave no timer with another address. *)
LEMMA RenderFits ==
  ASSUME NEW a, NEW text, Render(a, text), IsAddress(a), a.filter = picked'
  PROVE  ListInv'
BY DEF Render, IsAddress, ListInv, TimerIsFresh, FilterSurvivesSearch

(* An address that is patched is one still, and has the filter it had, or the *)
(* one that was picked.                                                       *)
LEMMA SearchPatched ==
  ASSUME NEW a, IsAddress(a), NEW s, NEW p
  PROVE  LET patched == [a EXCEPT !.search = s, !.page = p]
         IN  IsAddress(patched) /\ patched.filter = a.filter
<1>1. PICK x, y, z : a = [search |-> x, filter |-> y, page |-> z]
  BY DEF IsAddress
<1>2. [a EXCEPT !.search = s] = [search |-> s, filter |-> y, page |-> z]
  BY <1>1
<1>3. [[search |-> s, filter |-> y, page |-> z] EXCEPT !.page = p]
         = [search |-> s, filter |-> y, page |-> p]
  OBVIOUS
<1>4. [a EXCEPT !.search = s, !.page = p] = [[a EXCEPT !.search = s] EXCEPT !.page = p]
  OBVIOUS
<1>5. [a EXCEPT !.search = s, !.page = p] = [search |-> s, filter |-> y, page |-> p]
  BY <1>2, <1>3, <1>4
<1>. QED BY <1>1, <1>5 DEF IsAddress

LEMMA FilterPatched ==
  ASSUME NEW a, IsAddress(a), NEW f, NEW p
  PROVE  LET patched == [a EXCEPT !.filter = f, !.page = p]
         IN  IsAddress(patched) /\ patched.filter = f
<1>1. PICK x, y, z : a = [search |-> x, filter |-> y, page |-> z]
  BY DEF IsAddress
<1>2. [a EXCEPT !.filter = f] = [search |-> x, filter |-> f, page |-> z]
  BY <1>1
<1>3. [[search |-> x, filter |-> f, page |-> z] EXCEPT !.page = p]
         = [search |-> x, filter |-> f, page |-> p]
  OBVIOUS
<1>4. [a EXCEPT !.filter = f, !.page = p] = [[a EXCEPT !.filter = f] EXCEPT !.page = p]
  OBVIOUS
<1>5. [a EXCEPT !.filter = f, !.page = p] = [search |-> x, filter |-> f, page |-> p]
  BY <1>2, <1>3, <1>4
<1>. QED BY <1>5 DEF IsAddress

LEMMA PageTurned ==
  ASSUME NEW a, IsAddress(a), NEW p
  PROVE  IsAddress([a EXCEPT !.page = p]) /\ [a EXCEPT !.page = p].filter = a.filter
<1>1. PICK x, y, z : a = [search |-> x, filter |-> y, page |-> z]
  BY DEF IsAddress
<1>2. [a EXCEPT !.page = p] = [search |-> x, filter |-> y, page |-> p]
  BY <1>1
<1>. QED BY <1>1, <1>2 DEF IsAddress

LEMMA ListStepHolds == ListInv /\ [ListNext]_listVars => ListInv'
<1>. SUFFICES ASSUME ListInv, [ListNext]_listVars PROVE ListInv'
  OBVIOUS
<1>. USE DEF ListInv, FilterSurvivesSearch
<1>1. CASE UNCHANGED listVars \/ MountList
  BY <1>1 DEF listVars, MountList, IsAddress, TimerIsFresh
<1>2. CASE ListStep \/ RetryList
  BY <1>2, RenderFits DEF ListStep, Listed, ListFailed, RetryList
<1>3. CASE Type
  BY <1>3, RenderFits DEF Type
<1>4. CASE CommitSearch
  <2>. DEFINE a == [timer.address EXCEPT !.search = timer.text, !.page = 1]
  <2>1. IsAddress(timer.address) /\ timer.address.filter = picked'
    BY <1>4 DEF CommitSearch, TimerIsFresh
  <2>2. IsAddress(a) /\ a.filter = timer.address.filter
    BY <2>1, SearchPatched
  <2>3. Render(a, box)
    BY <1>4 DEF CommitSearch
  <2>. HIDE DEF a
  <2>. QED BY <2>1, <2>2, <2>3, RenderFits
<1>5. ASSUME NEW f \in Picks, PickFilter(f) PROVE ListInv'
  <2>. DEFINE a == [address EXCEPT !.filter = f, !.page = 1]
  <2>1. IsAddress(a) /\ a.filter = picked'
    BY <1>5, FilterPatched DEF PickFilter
  <2>2. Render(a, box)
    BY <1>5 DEF PickFilter
  <2>. QED BY <2>1, <2>2, RenderFits
<1>6. CASE Pagination
  <2>1. PICK next : Render([address EXCEPT !.page = next], box)
    BY <1>6 DEF Pagination
  <2>2. picked' = picked
    BY <1>6 DEF Pagination
  <2>. QED BY <2>1, <2>2, PageTurned, RenderFits
<1>. QED BY <1>1, <1>2, <1>3, <1>4, <1>5, <1>6 DEF ListNext

-----------------------------------------------------------------------------

(* The filter of the address is the one picked last, whatever searches wait in  *)
(* the box meanwhile (useDebouncedSearchInput and the setParams of every list). *)
THEOREM FilterSurvivesCorrect == ListSpec => []FilterSurvivesSearch
<1>1. ListInv => FilterSurvivesSearch
  BY DEF ListInv
<1>. QED BY ListInitHolds, ListStepHolds, <1>1, PTL DEF ListSpec

-----------------------------------------------------------------------------
(* What the loads of a page are, when one begins, is answered or ends      *)

ResourceOf(Keys, Answers) ==
    [data : Answers, loading : BOOLEAN, failed : BOOLEAN,
     calls : Seq([key : Keys, answer : Answers])]

\* The loads that reset the flag f when they end.
LoadsFor(r, f) == {i \in DOMAIN r.calls : r.calls[i].key.frees = f}

LEMMA CallTypes ==
  ASSUME NEW Keys, NEW Answers,
         NEW r \in ResourceOf(Keys, Answers), NEW i \in DOMAIN r.calls
  PROVE  /\ r.calls \in Seq([key : Keys, answer : Answers])
         /\ DOMAIN r.calls = 1..Len(r.calls) /\ Len(r.calls) \in Nat
         /\ r.calls[i].key \in Keys /\ r.calls[i].answer \in Answers
<1>1. r.calls \in Seq([key : Keys, answer : Answers])
  BY DEF ResourceOf
<1>2. DOMAIN r.calls = 1..Len(r.calls) /\ Len(r.calls) \in Nat
  BY <1>1, LenProperties
<1>3. r.calls[i] \in [key : Keys, answer : Answers]
  BY <1>1, <1>2, ElementOfSeq
<1>. QED BY <1>1, <1>2, <1>3

LEMMA LoadedCalls ==
  ASSUME NEW Keys, NEW Answers, None \in Answers,
         NEW r \in ResourceOf(Keys, Answers), NEW key \in Keys
  PROVE  /\ Load(r, key) \in ResourceOf(Keys, Answers)
         /\ Len(Load(r, key).calls) = Len(r.calls) + 1
         /\ DOMAIN Load(r, key).calls = (DOMAIN r.calls) \cup {Len(r.calls) + 1}
         /\ \A i \in DOMAIN r.calls : Load(r, key).calls[i] = r.calls[i]
         /\ Load(r, key).calls[Len(r.calls) + 1] = [key |-> key, answer |-> None]
         /\ Len(r.calls) + 1 \notin DOMAIN r.calls
<1>. DEFINE call == [key |-> key, answer |-> None]
<1>1. call \in [key : Keys, answer : Answers]
  OBVIOUS
<1>2. r.calls \in Seq([key : Keys, answer : Answers])
  BY DEF ResourceOf
<1>3. DOMAIN r.calls = 1..Len(r.calls) /\ Len(r.calls) \in Nat
  BY <1>2, LenProperties
<1>4. Load(r, key).calls = Append(r.calls, call)
  BY DEF Load, ResourceOf
<1>. HIDE DEF call
<1>5. /\ Append(r.calls, call) \in Seq([key : Keys, answer : Answers])
      /\ Len(Append(r.calls, call)) = Len(r.calls) + 1
      /\ \A i \in 1..Len(r.calls) : Append(r.calls, call)[i] = r.calls[i]
      /\ Append(r.calls, call)[Len(r.calls) + 1] = call
  BY <1>1, <1>2, AppendProperties
<1>6. DOMAIN Append(r.calls, call) = 1..(Len(r.calls) + 1)
  BY <1>5, LenProperties
<1>7. Load(r, key) \in ResourceOf(Keys, Answers)
  BY <1>4, <1>5 DEF Load, ResourceOf
<1>. QED BY <1>3, <1>4, <1>5, <1>6, <1>7 DEF call

LEMMA ServedCalls ==
  ASSUME NEW Keys, NEW Answers,
         NEW r \in ResourceOf(Keys, Answers), NEW i \in DOMAIN r.calls,
         NEW v \in Answers
  PROVE  /\ Served(r, i, v) \in ResourceOf(Keys, Answers)
         /\ Served(r, i, v).data = r.data /\ Served(r, i, v).failed = r.failed
         /\ Len(Served(r, i, v).calls) = Len(r.calls)
         /\ DOMAIN Served(r, i, v).calls = DOMAIN r.calls
         /\ \A j \in DOMAIN r.calls :
               /\ Served(r, i, v).calls[j].key = r.calls[j].key
               /\ Served(r, i, v).calls[j].answer =
                     IF j = i THEN v ELSE r.calls[j].answer
<1>. DEFINE served == [r.calls EXCEPT ![i].answer = v]
            T == [key : Keys, answer : Answers]
<1>1. r.calls \in Seq(T) /\ DOMAIN r.calls = 1..Len(r.calls) /\ Len(r.calls) \in Nat
  BY LenProperties DEF ResourceOf
<1>2. PICK c \in T : r.calls[i] = c
  <2>1. r.calls[i] \in T
    <3>. HIDE DEF T
    <3>. QED BY <1>1, ElementOfSeq
  <2>. QED BY <2>1
<1>3. PICK d \in T : d = [c EXCEPT !.answer = v]
  BY <1>2
<1>4. d.key = r.calls[i].key /\ d.answer = v
  BY <1>2, <1>3
<1>5. served = [r.calls EXCEPT ![i] = d]
  BY <1>2, <1>3
<1>6. served \in Seq(T) /\ Len(served) = Len(r.calls)
      /\ \A j \in DOMAIN r.calls : served[j] = IF j = i THEN d ELSE r.calls[j]
  <2>. HIDE DEF served
  <2>. QED BY <1>1, <1>5, ExceptSeq
<1>7. Served(r, i, v) = [r EXCEPT !.calls = served]
  BY DEF Served, ResourceOf
<1>8. DOMAIN served = DOMAIN r.calls
  BY <1>1, <1>5
<1>. HIDE DEF served
<1>9. Served(r, i, v) \in ResourceOf(Keys, Answers)
      /\ Served(r, i, v).calls = served
      /\ Served(r, i, v).data = r.data /\ Served(r, i, v).failed = r.failed
  BY <1>6, <1>7 DEF ResourceOf
<1>. QED BY <1>4, <1>6, <1>8, <1>9

LEMMA RemovedCalls ==
  ASSUME NEW S, NEW s \in Seq(S), NEW i \in 1..Len(s)
  PROVE  /\ RemoveAt(s, i) \in Seq(S)
         /\ Len(RemoveAt(s, i)) = Len(s) - 1
         /\ \A k \in 1..(Len(s) - 1) :
               RemoveAt(s, i)[k] = IF k < i THEN s[k] ELSE s[k + 1]
<1>1. Len(s) \in Nat /\ DOMAIN s = 1..Len(s)
  BY LenProperties
<1>2. \A j \in 1..Len(s) : s[j] \in S
  OBVIOUS
<1>. DEFINE before == SubSeq(s, 1, i - 1)
            after == SubSeq(s, i + 1, Len(s))
<1>3. /\ before \in Seq(S) /\ Len(before) = i - 1
      /\ \A k \in 1..(i - 1) : before[k] = s[k]
  BY <1>1, <1>2, SubSeqProperties
<1>4. /\ after \in Seq(S) /\ Len(after) = Len(s) - i
      /\ \A k \in 1..(Len(s) - i) : after[k] = s[k + i]
  <2>. DEFINE m == i + 1
              n == Len(s)
  <2>1. m \in Int /\ n \in Int /\ \A j \in m..n : s[j] \in S
    BY <1>1, <1>2
  <2>2. \A k \in 1..(Len(s) - i) : k \in 1..(n - m + 1) /\ m + k - 1 = k + i
    BY <1>1
  <2>3. (m <= n => n - m + 1 = Len(s) - i) /\ (~(m <= n) => Len(s) - i = 0)
    <3>1. \A l \in Nat : \A j \in 1..l :
             /\ (j + 1 <= l => l - (j + 1) + 1 = l - j)
             /\ (~(j + 1 <= l) => l - j = 0)
      OBVIOUS
    <3>. QED BY <1>1, <3>1
  <2>4. after = SubSeq(s, m, n)
    OBVIOUS
  <2>. HIDE DEF after, m, n
  <2>5. /\ after \in Seq(S) /\ Len(after) = IF m <= n THEN n - m + 1 ELSE 0
        /\ \A k \in 1..(n - m + 1) : after[k] = s[m + k - 1]
    BY <2>1, <2>4, SubSeqProperties
  <2>. QED BY <2>1, <2>2, <2>3, <2>5
<1>5. RemoveAt(s, i) = before \o after
  BY DEF RemoveAt
<1>. HIDE DEF before, after
<1>6. /\ before \o after \in Seq(S)
      /\ Len(before \o after) = Len(before) + Len(after)
      /\ \A k \in 1..(Len(before) + Len(after)) : (before \o after)[k] =
            IF k <= Len(before) THEN before[k] ELSE after[k - Len(before)]
  BY <1>3, <1>4, ConcatProperties
<1>. QED BY <1>1, <1>3, <1>4, <1>5, <1>6

(* A load that ends is gone from the calls, and takes no other with it. *)
LEMMA EndedCalls ==
  ASSUME NEW Keys, NEW Answers,
         NEW r \in ResourceOf(Keys, Answers), NEW i \in DOMAIN r.calls,
         NEW ended \in {Applied(r, i), Failed(r, i)}
  PROVE  /\ ended \in ResourceOf(Keys, Answers)
         /\ ended.calls = RemoveAt(r.calls, i)
         /\ Len(ended.calls) = Len(r.calls) - 1
         /\ \A k \in DOMAIN ended.calls :
               ended.calls[k] = IF k < i THEN r.calls[k] ELSE r.calls[k + 1]
         /\ DOMAIN ended.calls = 1..(Len(r.calls) - 1)
<1>1. /\ r.calls \in Seq([key : Keys, answer : Answers])
      /\ DOMAIN r.calls = 1..Len(r.calls) /\ Len(r.calls) \in Nat
      /\ r.calls[i].answer \in Answers
  BY CallTypes
<1>2. /\ RemoveAt(r.calls, i) \in Seq([key : Keys, answer : Answers])
      /\ Len(RemoveAt(r.calls, i)) = Len(r.calls) - 1
      /\ \A k \in 1..(Len(r.calls) - 1) : RemoveAt(r.calls, i)[k] =
            IF k < i THEN r.calls[k] ELSE r.calls[k + 1]
  <2>. DEFINE S == [key : Keys, answer : Answers]
              s == r.calls
  <2>1. s \in Seq(S) /\ i \in 1..Len(s)
    BY <1>1
  <2>. HIDE DEF S, s
  <2>2. /\ RemoveAt(s, i) \in Seq(S)
        /\ Len(RemoveAt(s, i)) = Len(s) - 1
        /\ \A k \in 1..(Len(s) - 1) : RemoveAt(s, i)[k] =
              IF k < i THEN s[k] ELSE s[k + 1]
    BY <2>1, RemovedCalls
  <2>. QED BY <2>2 DEF S, s
<1>3. DOMAIN RemoveAt(r.calls, i) = 1..(Len(r.calls) - 1)
  BY <1>2, LenProperties
<1>4. ended \in ResourceOf(Keys, Answers) /\ ended.calls = RemoveAt(r.calls, i)
  BY <1>1, <1>2 DEF Applied, Failed, ResourceOf
<1>. QED BY <1>2, <1>3, <1>4

(* The calls for a flag: a new one is one more, a served one stays.        *)
LEMMA LoadsForLoad ==
  ASSUME NEW Keys, NEW Answers, None \in Answers,
         NEW r \in ResourceOf(Keys, Answers), NEW key \in Keys, NEW f
  PROVE  LoadsFor(Load(r, key), f) =
            IF key.frees = f THEN LoadsFor(r, f) \cup {Len(r.calls) + 1}
                             ELSE LoadsFor(r, f)
<1>1. /\ DOMAIN Load(r, key).calls = (DOMAIN r.calls) \cup {Len(r.calls) + 1}
      /\ \A i \in DOMAIN r.calls : Load(r, key).calls[i] = r.calls[i]
      /\ Load(r, key).calls[Len(r.calls) + 1] = [key |-> key, answer |-> None]
      /\ Len(r.calls) + 1 \notin DOMAIN r.calls
  BY LoadedCalls
<1>. QED BY <1>1 DEF LoadsFor

LEMMA LoadsForServed ==
  ASSUME NEW Keys, NEW Answers,
         NEW r \in ResourceOf(Keys, Answers), NEW i \in DOMAIN r.calls,
         NEW v \in Answers, NEW f
  PROVE  LoadsFor(Served(r, i, v), f) = LoadsFor(r, f)
<1>1. /\ DOMAIN Served(r, i, v).calls = DOMAIN r.calls
      /\ \A j \in DOMAIN r.calls :
            Served(r, i, v).calls[j].key = r.calls[j].key
  BY ServedCalls
<1>. QED BY <1>1 DEF LoadsFor

(* None are left when there were none but the one that has ended.          *)
LEMMA LoadsForGone ==
  ASSUME NEW Keys, NEW Answers,
         NEW r \in ResourceOf(Keys, Answers), NEW i \in DOMAIN r.calls,
         NEW ended \in {Applied(r, i), Failed(r, i)}, NEW f,
         LoadsFor(r, f) \subseteq {i}
  PROVE  LoadsFor(ended, f) = {}
<1>1. /\ DOMAIN r.calls = 1..Len(r.calls) /\ Len(r.calls) \in Nat
      /\ DOMAIN ended.calls = 1..(Len(r.calls) - 1)
      /\ \A k \in DOMAIN ended.calls :
            ended.calls[k] = IF k < i THEN r.calls[k] ELSE r.calls[k + 1]
  BY EndedCalls, CallTypes
<1>. SUFFICES ASSUME NEW k \in LoadsFor(ended, f) PROVE FALSE
  OBVIOUS
<1>2. k \in 1..(Len(r.calls) - 1) /\ ended.calls[k].key.frees = f
  BY <1>1 DEF LoadsFor
<1>3. CASE k < i
  <2>1. k \in DOMAIN r.calls /\ k # i /\ ended.calls[k] = r.calls[k]
    BY <1>1, <1>2, <1>3
  <2>. QED BY <1>2, <2>1 DEF LoadsFor
<1>4. CASE ~(k < i)
  <2>1. k + 1 \in DOMAIN r.calls /\ k + 1 # i /\ ended.calls[k] = r.calls[k + 1]
    BY <1>1, <1>2, <1>4
  <2>. QED BY <1>2, <2>1 DEF LoadsFor
<1>. QED BY <1>3, <1>4

(* The others stay, each at its own or the place before it.                *)
LEMMA LoadsForStays ==
  ASSUME NEW Keys, NEW Answers,
         NEW r \in ResourceOf(Keys, Answers), NEW i \in DOMAIN r.calls,
         NEW ended \in {Applied(r, i), Failed(r, i)}, NEW f,
         NEW j \in LoadsFor(r, f), j # i
  PROVE  \E k \in LoadsFor(ended, f) :
            LoadsFor(r, f) = {j} => LoadsFor(ended, f) = {k}
<1>1. /\ DOMAIN r.calls = 1..Len(r.calls) /\ Len(r.calls) \in Nat
      /\ DOMAIN ended.calls = 1..(Len(r.calls) - 1)
      /\ \A k \in DOMAIN ended.calls :
            ended.calls[k] = IF k < i THEN r.calls[k] ELSE r.calls[k + 1]
  BY EndedCalls, CallTypes
<1>2. j \in DOMAIN r.calls /\ r.calls[j].key.frees = f
  BY DEF LoadsFor
<1>3. PICK k \in DOMAIN ended.calls : k = IF j < i THEN j ELSE j - 1
  BY <1>1, <1>2
<1>4. k \in LoadsFor(ended, f)
  <2>1. ended.calls[k] = r.calls[j]
    BY <1>1, <1>2, <1>3, SMTT(30)
  <2>. QED BY <1>2, <2>1 DEF LoadsFor
<1>5. ASSUME LoadsFor(r, f) = {j}, NEW l \in LoadsFor(ended, f)
      PROVE  l = k
  <2>1. l \in 1..(Len(r.calls) - 1) /\ ended.calls[l].key.frees = f
    BY <1>1 DEF LoadsFor
  <2>2. PICK m \in DOMAIN r.calls :
           m = (IF l < i THEN l ELSE l + 1) /\ ended.calls[l] = r.calls[m]
    BY <1>1, <2>1, SMTT(30)
  <2>3. m \in LoadsFor(r, f)
    BY <2>1, <2>2 DEF LoadsFor
  <2>4. m = j
    BY <1>5, <2>3
  <2>. QED BY <1>1, <1>2, <1>3, <2>1, <2>2, <2>4
<1>. QED BY <1>4, <1>5

-----------------------------------------------------------------------------
(* Settings                                                                *)

SettingsKeys == [project : Workspaces, frees : Slots \cup {None}]
SettingsAnswers ==
    [project : Workspaces, revision : Nat, projects : SUBSET Workspaces] \cup {None}

SettingsTypes ==
    /\ settings \in ResourceOf(SettingsKeys, SettingsAnswers)
    /\ chosen \in Workspaces
    /\ \A c \in posts : c.handler \in DOMAIN Handlers
    /\ DOMAIN busy = Slots
    /\ member \subseteq Workspaces
    /\ revision \in [Workspaces -> Nat]
    /\ inStep \in BOOLEAN

\* A flag that is on is going to be reset: by the answer of a change, or by the
\* end of the load that followed one.
BusyIsSupported ==
    \A s \in Slots : busy[s] # None =>
       /\ s # None
       /\ \/ \E c \in posts : Handlers[c.handler].slot = s
          \/ LoadsFor(settings, s) # {}

UpToDate(answer) ==
    chosen \in member => answer.project = chosen /\ answer.revision = revision[chosen]

\* Loads that follow one another: at most one is in flight, for the current
\* project; what it brings, and what is shown, is what the server has.
StepInv ==
    inStep =>
       /\ Len(settings.calls) <= 1
       /\ \A i \in DOMAIN settings.calls :
             /\ settings.calls[i].key.project = chosen
             /\ settings.calls[i].answer # None => UpToDate(settings.calls[i].answer)
       /\ settings # Mounted /\ Quiet(settings) /\ ~settings.failed
             => UpToDate(settings.data)

SettingsInv == SettingsTypes /\ BusyIsSupported /\ StepInv

-----------------------------------------------------------------------------

LEMMA NothingMounted ==
  ASSUME NEW Keys, NEW Answers, None \in Answers
  PROVE  /\ Mounted \in ResourceOf(Keys, Answers)
         /\ Len(Mounted.calls) = 0 /\ DOMAIN Mounted.calls = {}
         /\ \A f : LoadsFor(Mounted, f) = {}
BY DEF Mounted, ResourceOf, LoadsFor

LEMMA SettingsInitHolds == SettingsInit => SettingsInv
<1>. SUFFICES ASSUME SettingsInit PROVE SettingsInv
  OBVIOUS
<1>1. None \in SettingsAnswers
  BY DEF SettingsAnswers
<1>2. /\ settings \in ResourceOf(SettingsKeys, SettingsAnswers)
      /\ Len(settings.calls) = 0 /\ DOMAIN settings.calls = {}
  BY <1>1, NothingMounted DEF SettingsInit
<1>3. SettingsTypes
  BY <1>2, SettingsAssumption DEF SettingsInit, SettingsTypes
<1>4. BusyIsSupported /\ StepInv
  BY <1>2 DEF SettingsInit, BusyIsSupported, StepInv
<1>. QED BY <1>3, <1>4 DEF SettingsInv

(* A load that begins: it keeps the flags that loads are there for, and when  *)
(* nothing was in flight it is the only one.                                  *)
LEMMA ReloadBegins ==
  ASSUME SettingsTypes, NEW p \in Workspaces, NEW f \in Slots \cup {None},
         Reload(p, f)
  PROVE  /\ settings' \in ResourceOf(SettingsKeys, SettingsAnswers)
         /\ inStep' \in BOOLEAN
         /\ \A s : LoadsFor(settings, s) \subseteq LoadsFor(settings', s)
         /\ LoadsFor(settings', f) # {}
         /\ chosen' = p => StepInv'
<1>. DEFINE key == [project |-> p, frees |-> f]
<1>1. key \in SettingsKeys /\ None \in SettingsAnswers
  BY DEF SettingsKeys, SettingsAnswers
<1>2. settings \in ResourceOf(SettingsKeys, SettingsAnswers) /\ inStep \in BOOLEAN
  BY DEF SettingsTypes
<1>3. settings' = Load(settings, key) /\ inStep' = (inStep /\ Quiet(settings))
  BY DEF Reload
<1>4. key.project = p /\ key.frees = f
  OBVIOUS
<1>. HIDE DEF key
<1>5. /\ settings' \in ResourceOf(SettingsKeys, SettingsAnswers)
      /\ Len(settings'.calls) = Len(settings.calls) + 1
      /\ DOMAIN settings'.calls = (DOMAIN settings.calls) \cup {Len(settings.calls) + 1}
      /\ settings'.calls[Len(settings.calls) + 1] = [key |-> key, answer |-> None]
  BY <1>1, <1>2, <1>3, LoadedCalls
<1>6. \A s : LoadsFor(settings', s) =
             IF key.frees = s THEN LoadsFor(settings, s) \cup {Len(settings.calls) + 1}
                              ELSE LoadsFor(settings, s)
  BY <1>1, <1>2, <1>3, LoadsForLoad
<1>7. ASSUME inStep', chosen' = p PROVE StepInv'
  <2>1. Len(settings.calls) = 0 /\ DOMAIN settings.calls = {}
    <3>1. settings.calls = <<>>
      BY <1>3, <1>7, Zenon DEF Quiet
    <3>. QED BY <3>1
  <2>2. Len(settings'.calls) = 1 /\ DOMAIN settings'.calls = {1}
    BY <1>5, <2>1
  <2>3. settings'.calls[1].key = key /\ settings'.calls[1].answer = None
    BY <1>5, <2>1
  <2>4. ~Quiet(settings')
    BY <2>2 DEF Quiet
  <2>. QED BY <1>4, <1>7, <2>2, <2>3, <2>4 DEF StepInv
<1>8. chosen' = p => StepInv'
  BY <1>7 DEF StepInv
<1>. QED BY <1>2, <1>3, <1>4, <1>5, <1>6, <1>8

(* A load that ends, answered or failed, and the flag it resets.           *)
LEMMA LoadEndFrees ==
  ASSUME SettingsTypes, BusyIsSupported, NEW i \in DOMAIN settings.calls,
         NEW ended \in {Applied(settings, i), Failed(settings, i)},
         NEW after,
         \A s : LoadsFor(ended, s) \subseteq LoadsFor(after, s),
         settings' = after, busy' = Free(settings.calls[i].key.frees),
         UNCHANGED posts
  PROVE  DOMAIN busy' = Slots /\ BusyIsSupported'
<1>. DEFINE g == settings.calls[i].key.frees
<1>1. settings \in ResourceOf(SettingsKeys, SettingsAnswers) /\ DOMAIN busy = Slots
  BY DEF SettingsTypes
<1>2. busy' = IF g = None THEN busy ELSE [busy EXCEPT ![g] = None]
  BY DEF Free
<1>3. DOMAIN busy' = Slots
  BY <1>1, <1>2
<1>4. ASSUME NEW s \in Slots, busy'[s] # None
      PROVE  /\ s # None
             /\ \/ \E c \in posts' : Handlers[c.handler].slot = s
                \/ LoadsFor(settings', s) # {}
  <2>1. busy[s] # None
    BY <1>1, <1>2, <1>4
  <2>2. g # s
    BY <1>1, <1>2, <1>4, <2>1 DEF BusyIsSupported
  <2>3. CASE \E c \in posts : Handlers[c.handler].slot = s
    BY <2>1, <2>3 DEF BusyIsSupported
  <2>4. CASE LoadsFor(settings, s) # {}
    <3>1. PICK j \in LoadsFor(settings, s) : TRUE
      BY <2>4
    <3>2. j # i
      BY <2>2, <3>1 DEF LoadsFor
    <3>3. LoadsFor(ended, s) # {}
      BY <1>1, <3>1, <3>2, LoadsForStays
    <3>. QED BY <2>1, <3>3 DEF BusyIsSupported
  <2>. QED BY <2>1, <2>3, <2>4 DEF BusyIsSupported
<1>. QED BY <1>3, <1>4 DEF BusyIsSupported

LEMMA LoadSettingsHolds ==
  ASSUME SettingsInv, NEW i \in Waiting(settings), LoadSettings(i)
  PROVE  SettingsInv'
<1>. USE DEF SettingsInv
<1>1. i \in DOMAIN settings.calls /\ settings \in ResourceOf(SettingsKeys, SettingsAnswers)
  BY DEF Waiting, SettingsTypes
<1>. DEFINE asked == settings.calls[i].key.project
<1>2. PICK p \in IF asked \in member THEN {asked} ELSE member :
         settings' = Served(settings, i,
            [project |-> p, revision |-> revision[p], projects |-> member])
  BY DEF LoadSettings
<1>3. UNCHANGED <<chosen, posts, busy, member, revision, inStep>>
  BY DEF LoadSettings
<1>. DEFINE v == [project |-> p, revision |-> revision[p], projects |-> member]
<1>4. p \in member /\ p \in Workspaces
  BY <1>2 DEF SettingsTypes
<1>5. v \in SettingsAnswers
  BY <1>4 DEF SettingsAnswers, SettingsTypes
<1>6. v.project = p /\ v.revision = revision[p]
  OBVIOUS
<1>7. settings' = Served(settings, i, v)
  BY <1>2
<1>. HIDE DEF v
<1>8. /\ settings' \in ResourceOf(SettingsKeys, SettingsAnswers)
      /\ settings'.data = settings.data /\ settings'.failed = settings.failed
      /\ Len(settings'.calls) = Len(settings.calls)
      /\ DOMAIN settings'.calls = DOMAIN settings.calls
      /\ \A j \in DOMAIN settings.calls :
            /\ settings'.calls[j].key = settings.calls[j].key
            /\ settings'.calls[j].answer =
                  IF j = i THEN v ELSE settings.calls[j].answer
  BY <1>1, <1>5, <1>7, ServedCalls
<1>9. \A s : LoadsFor(settings', s) = LoadsFor(settings, s)
  BY <1>1, <1>5, <1>7, LoadsForServed
<1>10. SettingsTypes'
  BY <1>3, <1>8 DEF SettingsTypes
<1>11. BusyIsSupported'
  BY <1>3, <1>9 DEF BusyIsSupported
<1>12. ASSUME inStep' PROVE StepInv'
  <2>1. asked = chosen
    BY <1>1, <1>3, <1>12 DEF StepInv
  <2>2. chosen \in member => p = chosen
    BY <1>2, <2>1
  <2>3. UpToDate(v)
    BY <1>6, <2>2 DEF UpToDate
  <2>4. \A answer : UpToDate(answer)' <=> UpToDate(answer)
    BY <1>3 DEF UpToDate
  <2>5. ~Quiet(settings')
    BY <1>1, <1>8 DEF Quiet
  <2>. QED BY <1>3, <1>8, <1>12, <2>3, <2>4, <2>5 DEF StepInv
<1>. QED BY <1>10, <1>11, <1>12 DEF StepInv

LEMMA SettingsFailedHolds ==
  ASSUME SettingsInv, NEW i \in Waiting(settings), SettingsFailed(i)
  PROVE  SettingsInv'
<1>. USE DEF SettingsInv
<1>1. i \in DOMAIN settings.calls /\ settings \in ResourceOf(SettingsKeys, SettingsAnswers)
  BY DEF Waiting, SettingsTypes
<1>2. /\ settings' = Failed(settings, i)
      /\ UNCHANGED <<chosen, posts, member, revision, inStep>>
  BY DEF SettingsFailed
<1>3. /\ settings' \in ResourceOf(SettingsKeys, SettingsAnswers)
      /\ Len(settings'.calls) = Len(settings.calls) - 1
      /\ DOMAIN settings'.calls = 1..(Len(settings.calls) - 1)
  BY <1>1, <1>2, EndedCalls
<1>4. DOMAIN busy' = Slots /\ BusyIsSupported'
  BY <1>1, <1>2, LoadEndFrees DEF SettingsFailed
<1>5. SettingsTypes'
  BY <1>2, <1>3, <1>4 DEF SettingsTypes
<1>6. settings'.failed = TRUE
  BY <1>1, <1>2 DEF Failed, ResourceOf
<1>7. ASSUME inStep' PROVE StepInv'
  <2>1. Len(settings.calls) <= 1 /\ Len(settings.calls) \in Nat
    BY <1>1, <1>2, <1>7, CallTypes DEF StepInv
  <2>2. Len(settings'.calls) <= 1 /\ DOMAIN settings'.calls = {}
    BY <1>3, <2>1
  <2>. QED BY <1>6, <2>2 DEF StepInv
<1>. QED BY <1>4, <1>5, <1>7 DEF StepInv

LEMMA SettingsLoadedHolds ==
  ASSUME SettingsInv, NEW i \in Answered(settings), SettingsLoaded(i)
  PROVE  SettingsInv'
<1>. USE DEF SettingsInv
<1>. DEFINE answer == settings.calls[i].answer
            after == Applied(settings, i)
            key == [project |-> chosen', frees |-> None]
<1>1. /\ i \in DOMAIN settings.calls /\ answer # None
      /\ settings \in ResourceOf(SettingsKeys, SettingsAnswers)
  BY DEF Answered, SettingsTypes
<1>2. answer \in SettingsAnswers /\ Len(settings.calls) \in Nat
  BY <1>1, CallTypes
<1>3. answer.project \in Workspaces
  BY <1>1, <1>2 DEF SettingsAnswers
<1>4. /\ busy' = Free(settings.calls[i].key.frees)
      /\ UNCHANGED <<posts, member, revision>>
  BY DEF SettingsLoaded
<1>5. /\ after \in ResourceOf(SettingsKeys, SettingsAnswers)
      /\ Len(after.calls) = Len(settings.calls) - 1
      /\ DOMAIN after.calls = 1..(Len(settings.calls) - 1)
  BY <1>1, EndedCalls
<1>6. after.data = answer
  BY <1>1 DEF Applied, ResourceOf
<1>7. ASSUME inStep
      PROVE  Len(after.calls) = 0 /\ DOMAIN after.calls = {} /\ UpToDate(answer)
  <2>1. Len(settings.calls) <= 1
    BY <1>7 DEF StepInv
  <2>2. UpToDate(answer)
    BY <1>1, <1>7 DEF StepInv
  <2>3. i \in 1..Len(settings.calls)
    BY <1>1, <1>2, CallTypes
  <2>4. \A l \in Nat : \A j \in 1..l : l <= 1 => l - 1 = 0
    OBVIOUS
  <2>5. Len(settings.calls) - 1 = 0
    <3>. HIDE DEF after, answer
    <3>. QED BY <1>2, <2>1, <2>3, <2>4
  <2>6. Len(after.calls) = 0
    BY <1>5, <2>5, Zenon
  <2>7. DOMAIN after.calls = {}
    <3>1. DOMAIN after.calls = 1..0
      BY <1>5, <2>5, Zenon
    <3>. QED BY <3>1
  <2>. QED BY <2>2, <2>6, <2>7
<1>8. CASE settings' = after /\ UNCHANGED <<chosen, inStep>>
  <2>1. DOMAIN busy' = Slots /\ BusyIsSupported'
    <3>. HIDE DEF after
    <3>1. after \in {Applied(settings, i), Failed(settings, i)}
      BY DEF after
    <3>. QED BY <1>1, <1>4, <1>8, <3>1, LoadEndFrees
  <2>2. SettingsTypes'
    BY <1>4, <1>5, <1>8, <2>1 DEF SettingsTypes
  <2>3. ASSUME inStep' PROVE StepInv'
    <3>1. inStep
      BY <1>8, <2>3
    <3>2. \A a : UpToDate(a)' <=> UpToDate(a)
      BY <1>4, <1>8 DEF UpToDate
    <3>3. PICK v : v = answer
      OBVIOUS
    <3>4. settings'.data = v /\ UpToDate(v)'
      BY <1>6, <1>7, <1>8, <3>1, <3>2, <3>3
    <3>5. UpToDate(settings.data)'
      BY <3>4 DEF UpToDate
    <3>6. Len(settings'.calls) = 0 /\ DOMAIN settings'.calls = {}
      BY <1>7, <1>8, <3>1
    <3>. QED BY <3>5, <3>6 DEF StepInv
  <2>. QED BY <2>1, <2>2, <2>3 DEF StepInv
<1>9. CASE /\ chosen' = answer.project /\ settings' = Load(after, key)
           /\ inStep' = (inStep /\ Quiet(after))
  <2>1. key \in SettingsKeys /\ None \in SettingsAnswers /\ key.project = chosen'
    BY <1>3, <1>9 DEF SettingsKeys, SettingsAnswers
  <2>2. settings' = Load(after, key)
    BY <1>9
  <2>. HIDE DEF key, after
  <2>3. /\ settings' \in ResourceOf(SettingsKeys, SettingsAnswers)
        /\ Len(settings'.calls) = Len(after.calls) + 1
        /\ DOMAIN settings'.calls = (DOMAIN after.calls) \cup {Len(after.calls) + 1}
        /\ settings'.calls[Len(after.calls) + 1] = [key |-> key, answer |-> None]
    BY <1>5, <2>1, <2>2, LoadedCalls
  <2>4. \A s : LoadsFor(after, s) \subseteq LoadsFor(settings', s)
    <3>1. \A s : LoadsFor(Load(after, key), s) =
                    IF key.frees = s THEN LoadsFor(after, s) \cup {Len(after.calls) + 1}
                                     ELSE LoadsFor(after, s)
      BY <1>5, <2>1, LoadsForLoad
    <3>. QED BY <2>2, <3>1
  <2>5. DOMAIN busy' = Slots /\ BusyIsSupported'
    <3>1. after \in {Applied(settings, i), Failed(settings, i)}
      BY DEF after
    <3>. QED BY <1>1, <1>4, <2>4, <3>1, LoadEndFrees
  <2>6. inStep' \in BOOLEAN
    BY <1>9 DEF SettingsTypes
  <2>7. SettingsTypes'
    BY <1>3, <1>4, <1>9, <2>3, <2>5, <2>6 DEF SettingsTypes
  <2>8. ASSUME inStep' PROVE StepInv'
    <3>1. Len(after.calls) = 0 /\ DOMAIN after.calls = {}
      BY <1>7, <1>9, <2>8
    <3>2. /\ Len(settings'.calls) = 1 /\ DOMAIN settings'.calls = {1}
          /\ settings'.calls[1].key = key /\ settings'.calls[1].answer = None
      BY <2>3, <3>1
    <3>3. ~Quiet(settings')
      BY <3>2 DEF Quiet
    <3>. QED BY <2>1, <2>8, <3>2, <3>3 DEF StepInv
  <2>. QED BY <2>5, <2>7, <2>8 DEF StepInv
<1>. QED BY <1>8, <1>9 DEF SettingsLoaded

(* What begins a load and touches no change and no flag.                   *)
LEMMA ReloadHolds ==
  ASSUME SettingsInv, NEW p \in Workspaces, Reload(p, None), chosen' = p,
         UNCHANGED <<posts, busy, member, revision>>
  PROVE  SettingsInv'
<1>. USE DEF SettingsInv
<1>1. /\ settings' \in ResourceOf(SettingsKeys, SettingsAnswers)
      /\ inStep' \in BOOLEAN /\ StepInv'
      /\ \A s : LoadsFor(settings, s) \subseteq LoadsFor(settings', s)
  BY ReloadBegins
<1>2. SettingsTypes'
  BY <1>1 DEF SettingsTypes
<1>3. BusyIsSupported'
  BY <1>1 DEF BusyIsSupported
<1>. QED BY <1>1, <1>2, <1>3

LEMMA NothingLoadedHolds ==
  ASSUME SettingsTypes, StepInv, BusyIsSupported',
         \A c \in posts' : c.handler \in DOMAIN Handlers, DOMAIN busy' = Slots,
         UNCHANGED <<settings, chosen, member, revision, inStep>>
  PROVE  SettingsInv'
<1>1. SettingsTypes'
  BY DEF SettingsTypes
<1>2. StepInv'
  BY DEF StepInv, UpToDate, Quiet
<1>. QED BY <1>1, <1>2 DEF SettingsInv

LEMMA HandlerSlots ==
  /\ \A h \in DOMAIN Handlers : Handlers[h].slot \in Slots \cup {None}
  /\ Handlers["TestModel"].slot = "testing"
  /\ Handlers["CreateProject"].slot = None
  /\ ModelButtons \subseteq DOMAIN Handlers
<1>1. DOMAIN Handlers =
        {"CreateProject", "CreateApiKey", "DeleteApiKey", "SaveModel", "DeleteModel",
         "TestModel", "SetDefaultModel", "AddMember", "UpdateMemberRole", "RemoveMember"}
  BY DEF Handlers
<1>. QED BY <1>1, SettingsAssumption DEF Handlers, Slots

LEMMA PostHolds ==
  ASSUME SettingsInv, NEW handler \in DOMAIN Handlers, NEW row, Post(handler, row)
  PROVE  SettingsInv'
<1>. USE DEF SettingsInv
<1>. DEFINE slot == Handlers[handler].slot
<1>1. PICK n \in 1..MaxPosts :
         posts' = posts \cup {[id |-> n, handler |-> handler, row |-> row,
                               project |-> chosen]}
  BY DEF Post
<1>2. PICK c : c.handler = handler /\ posts' = posts \cup {c}
  BY <1>1
<1>3. /\ busy' = IF slot = None THEN busy ELSE [busy EXCEPT ![slot] = row]
      /\ UNCHANGED <<settings, chosen, member, revision, inStep>>
  BY DEF Post
<1>4. DOMAIN busy = Slots /\ \A d \in posts : d.handler \in DOMAIN Handlers
  BY DEF SettingsTypes
<1>. HIDE DEF slot
<1>5. DOMAIN busy' = Slots /\ \A d \in posts' : d.handler \in DOMAIN Handlers
  BY <1>2, <1>3, <1>4
<1>6. Handlers[c.handler].slot = slot
  BY <1>2 DEF slot
<1>7. BusyIsSupported'
  <2>1. SUFFICES ASSUME NEW s \in Slots, busy'[s] # None
                 PROVE  /\ s # None
                        /\ \/ \E d \in posts' : Handlers[d.handler].slot = s
                           \/ LoadsFor(settings', s) # {}
    BY DEF BusyIsSupported
  <2>2. CASE s = slot /\ slot # None
    BY <1>2, <1>6, <2>2
  <2>3. CASE s # slot \/ slot = None
    BY <1>2, <1>3, <1>4, <2>1, <2>3 DEF BusyIsSupported
  <2>. QED BY <2>2, <2>3
<1>. QED BY <1>3, <1>5, <1>7, NothingLoadedHolds

(* A change that ends with its flag reset: no other change and no load needed  *)
(* that flag, or it was reset for them too.                                    *)
LEMMA PostFreed ==
  ASSUME SettingsTypes, BusyIsSupported, NEW c \in posts, posts' = posts \ {c},
         busy' = Free(Handlers[c.handler].slot), UNCHANGED settings
  PROVE  DOMAIN busy' = Slots /\ BusyIsSupported'
<1>. DEFINE slot == Handlers[c.handler].slot
<1>1. busy' = IF slot = None THEN busy ELSE [busy EXCEPT ![slot] = None]
  BY DEF Free
<1>2. DOMAIN busy = Slots
  BY DEF SettingsTypes
<1>3. DOMAIN busy' = Slots
  BY <1>1, <1>2
<1>4. ASSUME NEW s \in Slots, busy'[s] # None
      PROVE  /\ s # None
             /\ \/ \E d \in posts' : Handlers[d.handler].slot = s
                \/ LoadsFor(settings', s) # {}
  <2>1. busy[s] # None /\ (s # slot \/ slot = None)
    BY <1>1, <1>2, <1>4
  <2>2. s # None /\ s # slot
    BY <2>1 DEF BusyIsSupported
  <2>. QED BY <2>1, <2>2 DEF BusyIsSupported
<1>. QED BY <1>3, <1>4 DEF BusyIsSupported

LEMMA ChangeCounted ==
  ASSUME SettingsTypes, NEW p
  PROVE  Bumped(p) \in [Workspaces -> Nat]
<1>1. revision \in [Workspaces -> Nat]
  BY DEF SettingsTypes
<1>2. CASE p \in Workspaces
  BY <1>1, <1>2 DEF Bumped
<1>3. CASE p \notin Workspaces
  BY <1>1, <1>3 DEF Bumped
<1>. QED BY <1>2, <1>3

LEMMA PostEndsHolds == SettingsInv /\ PostEnds => SettingsInv'
<1>. SUFFICES ASSUME SettingsInv, PostEnds PROVE SettingsInv'
  OBVIOUS
<1>. USE DEF SettingsInv
<1>1. PICK c \in posts :
         /\ posts' = posts \ {c}
         /\ \/ PostRefused(c) \/ PostAnswerLost(c) \/ ChangeDone(c)
            \/ TestDone(c) \/ ProjectCreatedDone(c)
  BY DEF PostEnds
<1>2. /\ \A d \in posts' : d.handler \in DOMAIN Handlers
      /\ c.handler \in DOMAIN Handlers
  BY <1>1 DEF SettingsTypes
<1>. DEFINE slot == Handlers[c.handler].slot
<1>3. slot \in Slots \cup {None}
  BY <1>2, HandlerSlots
<1>4. CASE PostRefused(c)
  <2>1. /\ busy' = Free(slot)
        /\ UNCHANGED <<settings, chosen, member, revision, inStep>>
    BY <1>4 DEF PostRefused, PostFailed
  <2>2. DOMAIN busy' = Slots /\ BusyIsSupported'
    BY <1>1, <2>1, PostFreed
  <2>. QED BY <1>2, <2>1, <2>2, NothingLoadedHolds
<1>5. CASE TestDone(c)
  <2>1. /\ busy' = Free(slot)
        /\ UNCHANGED <<settings, chosen, member, revision, inStep>>
    BY <1>5, HandlerSlots DEF TestDone
  <2>2. DOMAIN busy' = Slots /\ BusyIsSupported'
    BY <1>1, <2>1, PostFreed
  <2>. QED BY <1>2, <2>1, <2>2, NothingLoadedHolds
<1>6. CASE PostAnswerLost(c)
  <2>1. /\ busy' = Free(slot) /\ inStep' = FALSE /\ revision' = Bumped(c.project)
        /\ UNCHANGED <<settings, chosen, member>>
    BY <1>6 DEF PostAnswerLost, PostFailed
  <2>2. DOMAIN busy' = Slots /\ BusyIsSupported'
    BY <1>1, <2>1, PostFreed
  <2>3. revision' \in [Workspaces -> Nat]
    BY <2>1, ChangeCounted
  <2>4. SettingsTypes'
    BY <1>2, <2>1, <2>2, <2>3 DEF SettingsTypes
  <2>. QED BY <2>1, <2>2, <2>4 DEF StepInv
<1>7. CASE ChangeDone(c)
  <2>1. /\ Reload(chosen, slot) /\ revision' = Bumped(c.project)
        /\ UNCHANGED <<chosen, busy, member>>
    BY <1>7 DEF ChangeDone
  <2>2. chosen \in Workspaces
    BY DEF SettingsTypes
  <2>3. /\ settings' \in ResourceOf(SettingsKeys, SettingsAnswers)
        /\ inStep' \in BOOLEAN /\ StepInv'
        /\ \A s : LoadsFor(settings, s) \subseteq LoadsFor(settings', s)
        /\ LoadsFor(settings', slot) # {}
    <3>. HIDE DEF slot
    <3>. QED BY <1>3, <2>1, <2>2, ReloadBegins
  <2>4. revision' \in [Workspaces -> Nat]
    BY <2>1, ChangeCounted
  <2>5. SettingsTypes'
    BY <1>2, <2>1, <2>3, <2>4 DEF SettingsTypes
  <2>6. BusyIsSupported'
    BY <1>1, <2>1, <2>3 DEF BusyIsSupported
  <2>. QED BY <2>3, <2>5, <2>6
<1>8. CASE ProjectCreatedDone(c)
  <2>1. PICK p \in Workspaces \ member :
           /\ member' = member \cup {p}
           /\ chosen' = p
           /\ settings' = Load(Load(settings, [project |-> chosen, frees |-> None]),
                               [project |-> p, frees |-> None])
    BY <1>8 DEF ProjectCreatedDone
  <2>2. inStep' = FALSE /\ UNCHANGED <<busy, revision>> /\ slot = None
    BY <1>8, HandlerSlots DEF ProjectCreatedDone
  <2>. DEFINE first == [project |-> chosen, frees |-> None]
              second == [project |-> p, frees |-> None]
              between == Load(settings, first)
  <2>3. first \in SettingsKeys /\ second \in SettingsKeys /\ None \in SettingsAnswers
        /\ settings \in ResourceOf(SettingsKeys, SettingsAnswers)
    BY DEF SettingsKeys, SettingsAnswers, SettingsTypes
  <2>4. settings' = Load(between, second)
    BY <2>1
  <2>. HIDE DEF first, second
  <2>5. /\ between \in ResourceOf(SettingsKeys, SettingsAnswers)
        /\ \A s : LoadsFor(settings, s) \subseteq LoadsFor(between, s)
    <3>1. between \in ResourceOf(SettingsKeys, SettingsAnswers)
      BY <2>3, LoadedCalls
    <3>2. \A s : LoadsFor(between, s) =
                    IF first.frees = s THEN LoadsFor(settings, s) \cup {Len(settings.calls) + 1}
                                       ELSE LoadsFor(settings, s)
      BY <2>3, LoadsForLoad
    <3>. QED BY <3>1, <3>2
  <2>. HIDE DEF between
  <2>6. /\ settings' \in ResourceOf(SettingsKeys, SettingsAnswers)
        /\ \A s : LoadsFor(between, s) \subseteq LoadsFor(settings', s)
    <3>1. Load(between, second) \in ResourceOf(SettingsKeys, SettingsAnswers)
      BY <2>3, <2>5, LoadedCalls
    <3>2. \A s : LoadsFor(Load(between, second), s) =
                    IF second.frees = s THEN LoadsFor(between, s) \cup {Len(between.calls) + 1}
                                        ELSE LoadsFor(between, s)
      BY <2>3, <2>5, LoadsForLoad
    <3>. QED BY <2>4, <3>1, <3>2
  <2>7. SettingsTypes'
    BY <1>2, <2>1, <2>2, <2>6 DEF SettingsTypes
  <2>8. BusyIsSupported'
    BY <1>1, <2>2, <2>5, <2>6 DEF BusyIsSupported
  <2>. QED BY <2>2, <2>7, <2>8 DEF StepInv
<1>. QED BY <1>1, <1>4, <1>5, <1>6, <1>7, <1>8

LEMMA DialogsHold ==
  ASSUME SettingsInv,
         \/ UNCHANGED settingsVars
         \/ OpenProjectDialog \/ OpenMemberDialog \/ OpenKeyDialog
         \/ HandleOpenModel \/ CloseDialog
  PROVE  SettingsInv'
<1>1. UNCHANGED <<settings, chosen, posts, busy, member, revision, inStep>>
  BY DEF settingsVars, OpenProjectDialog, OpenMemberDialog, OpenKeyDialog,
         HandleOpenModel, CloseDialog, OpenDialog
<1>. QED BY <1>1, NothingLoadedHolds DEF SettingsInv, SettingsTypes, BusyIsSupported

LEMMA HandlersHold ==
  ASSUME SettingsInv,
         \/ HandleCreateProject \/ HandleCreateApiKey
         \/ HandleSaveModel \/ HandleAddMember
         \/ \E row \in Rows : RowHandler(row)
  PROVE  SettingsInv'
<1>1. /\ {"CreateProject", "CreateApiKey", "DeleteApiKey", "SaveModel", "AddMember",
          "UpdateMemberRole", "RemoveMember"} \subseteq DOMAIN Handlers
      /\ ModelButtons \subseteq DOMAIN Handlers
  BY HandlerSlots DEF Handlers
<1>2. PICK handler, row : handler \in DOMAIN Handlers /\ Post(handler, row)
  BY <1>1 DEF HandleCreateProject, HandleCreateApiKey, HandleSaveModel,
     HandleAddMember, RowHandler, HandleDeleteApiKey, HandleModelButton,
     HandleUpdateMemberRole, HandleRemoveMember
<1>. QED BY <1>2, PostHolds

LEMMA SettingsStepHolds == SettingsInv /\ [SettingsNext]_settingsVars => SettingsInv'
<1>. SUFFICES ASSUME SettingsInv, [SettingsNext]_settingsVars PROVE SettingsInv'
  OBVIOUS
<1>1. chosen \in Workspaces /\ member \subseteq Workspaces
  BY DEF SettingsInv, SettingsTypes
<1>2. CASE MountSettings \/ RetrySettings
  BY <1>1, <1>2, ReloadHolds DEF MountSettings, RetrySettings
<1>3. ASSUME NEW p \in member, ChooseWorkspace(p) PROVE SettingsInv'
  BY <1>1, <1>3, ReloadHolds DEF ChooseWorkspace
<1>4. CASE LoadStep
  BY <1>4, LoadSettingsHolds, SettingsFailedHolds, SettingsLoadedHolds DEF LoadStep
<1>. QED BY <1>2, <1>3, <1>4, DialogsHold, HandlersHold, PostEndsHolds DEF SettingsNext

(* When nothing is in flight no row stays disabled, and unless a load was       *)
(* overtaken or an answer lost the page shows the current project as the server *)
(* has it, whatever projects, rows and changes there are (SettingsPage.tsx).    *)
THEOREM SettingsSettle == SettingsSpec => []SettledSettings
<1>1. SettingsInv => SettledSettings
  <2>. SUFFICES ASSUME SettingsInv, settings # Mounted, Quiet(settings), posts = {}
                PROVE  /\ \A s \in Slots : busy[s] = None
                       /\ inStep /\ ~settings.failed /\ chosen \in member =>
                             /\ settings.data.project = chosen
                             /\ settings.data.revision = revision[chosen]
    BY DEF SettledSettings
  <2>1. \A s : LoadsFor(settings, s) = {}
    BY DEF Quiet, LoadsFor
  <2>2. \A s \in Slots : busy[s] = None
    BY <2>1 DEF SettingsInv, BusyIsSupported
  <2>. QED BY <2>2 DEF SettingsInv, StepInv, UpToDate
<1>. QED BY SettingsInitHolds, SettingsStepHolds, <1>1, PTL DEF SettingsSpec

-----------------------------------------------------------------------------
(* Buttons and dialogs                                                     *)

Frees == {None} \cup
         UNION {{HandlersOf[s][h].sets : h \in DOMAIN HandlersOf[s]} : s \in Screens}
PageKeys == [view : Views, frees : Frees, leaves : BOOLEAN]
PageAnswers == Views \cup {None}

DialogPageTypes ==
    /\ screen \in Screens /\ view \in Views
    /\ items \in ResourceOf(PageKeys, PageAnswers)
    /\ DOMAIN flag = DOMAIN FlagsOf[screen]
    /\ DOMAIN saves \subseteq DOMAIN Page
    /\ \A h \in DOMAIN saves : saves[h] \in Nat \ {0}

\* The handlers in flight that set the flag f.
Savers(f) == {h \in BagToSet(saves) : Page[h].sets = f}

FormFlag(f) == f \in DOMAIN flag /\ FlagsOf[screen][f] = "form"

\* A form's flag is off and nothing needs it, or it is on for one handler in
\* flight, or for the one load that followed.
Turn(f) ==
    \/ flag[f] = None /\ Savers(f) = {} /\ LoadsFor(items, f) = {}
    \/ /\ flag[f] = Form /\ LoadsFor(items, f) = {}
       /\ \E h : Savers(f) = {h} /\ saves[h] = 1
    \/ /\ flag[f] = Form /\ Savers(f) = {}
       /\ \E i : LoadsFor(items, f) = {i}

DialogPageInv == DialogPageTypes /\ \A f : FormFlag(f) => Turn(f)

-----------------------------------------------------------------------------

LEMMA FormFlagNamed == ASSUME DialogPageTypes, NEW f, FormFlag(f) PROVE f # None
BY DialogAssumption DEF DialogPageTypes, FormFlag

LEMMA DialogPagesInitHolds == DialogPagesInit => DialogPageInv
<1>. SUFFICES ASSUME DialogPagesInit PROVE DialogPageInv
  OBVIOUS
<1>1. /\ items \in ResourceOf(PageKeys, PageAnswers)
      /\ \A f : LoadsFor(items, f) = {}
  BY NothingMounted DEF DialogPagesInit, PageAnswers
<1>2. DOMAIN saves = {} /\ \A f : Savers(f) = {}
  BY DEF DialogPagesInit, EmptyBag, SetToBag, BagToSet, Savers
<1>. QED BY <1>1, <1>2
         DEF DialogPagesInit, DialogPageInv, DialogPageTypes, FormFlag, Turn

(* A load of the page begins, for a flag or for none.                      *)
LEMMA PageLoadBegins ==
  ASSUME DialogPageTypes, view' \in Views, NEW g \in Frees, NEW leaves \in BOOLEAN,
         LoadFor(g, leaves)
  PROVE  /\ items' \in ResourceOf(PageKeys, PageAnswers)
         /\ \A f : LoadsFor(items', f) =
                      IF g = f THEN LoadsFor(items, f) \cup {Len(items.calls) + 1}
                               ELSE LoadsFor(items, f)
<1>. DEFINE key == [view |-> view', frees |-> g, leaves |-> leaves]
<1>1. /\ key \in PageKeys /\ key.frees = g /\ None \in PageAnswers
      /\ items \in ResourceOf(PageKeys, PageAnswers)
  BY DEF PageKeys, PageAnswers, DialogPageTypes
<1>2. items' = Load(items, key)
  BY DEF LoadFor
<1>. HIDE DEF key
<1>3. Load(items, key) \in ResourceOf(PageKeys, PageAnswers)
  BY <1>1, LoadedCalls
<1>4. \A f : LoadsFor(Load(items, key), f) =
                IF key.frees = f THEN LoadsFor(items, f) \cup {Len(items.calls) + 1}
                                 ELSE LoadsFor(items, f)
  BY <1>1, LoadsForLoad
<1>. QED BY <1>1, <1>2, <1>3, <1>4

LEMMA BrowsingHolds ==
  ASSUME DialogPageInv, MountItems \/ Browse \/ RetryItems
  PROVE  DialogPageInv'
<1>. USE DEF DialogPageInv
<1>1. /\ UNCHANGED <<screen, saves, flag>> /\ view' \in Views
      /\ LoadFor(None, FALSE)
  BY DEF MountItems, Browse, RetryItems, DialogPageTypes
<1>2. None \in Frees
  BY DEF Frees
<1>3. /\ items' \in ResourceOf(PageKeys, PageAnswers)
      /\ \A f : f # None => LoadsFor(items', f) = LoadsFor(items, f)
  BY <1>1, <1>2, PageLoadBegins
<1>4. DialogPageTypes'
  BY <1>1, <1>3 DEF DialogPageTypes, Page
<1>5. ASSUME NEW f, FormFlag(f)' PROVE Turn(f)'
  <2>1. FormFlag(f) /\ f # None
    BY <1>1, <1>5, FormFlagNamed DEF FormFlag
  <2>2. Savers(f)' = Savers(f)
    BY <1>1 DEF Savers, Page
  <2>. QED BY <1>1, <1>3, <2>1, <2>2 DEF Turn
<1>. QED BY <1>4, <1>5

LEMMA ServeItemsHolds ==
  ASSUME DialogPageInv, NEW i \in Waiting(items), ServeItems(i)
  PROVE  DialogPageInv'
<1>. USE DEF DialogPageInv
<1>1. i \in DOMAIN items.calls /\ items \in ResourceOf(PageKeys, PageAnswers)
  BY DEF Waiting, DialogPageTypes
<1>. DEFINE v == items.calls[i].key.view
<1>2. v \in PageAnswers
  <2>1. items.calls[i].key \in PageKeys
    BY <1>1, CallTypes
  <2>. QED BY <2>1 DEF PageKeys, PageAnswers
<1>3. items' = Served(items, i, v) /\ UNCHANGED <<screen, view, saves, flag, popup>>
  BY DEF ServeItems
<1>. HIDE DEF v
<1>4. items' \in ResourceOf(PageKeys, PageAnswers)
  BY <1>1, <1>2, <1>3, ServedCalls
<1>5. \A f : LoadsFor(items', f) = LoadsFor(items, f)
  BY <1>1, <1>2, <1>3, LoadsForServed
<1>6. DialogPageTypes'
  BY <1>3, <1>4 DEF DialogPageTypes, Page
<1>7. ASSUME NEW f, FormFlag(f)' PROVE Turn(f)'
  <2>1. FormFlag(f)
    BY <1>3, <1>7 DEF FormFlag
  <2>2. Savers(f)' = Savers(f)
    BY <1>3 DEF Savers, Page
  <2>. QED BY <1>3, <1>5, <2>1, <2>2 DEF Turn
<1>. QED BY <1>6, <1>7

(* A load ends: its flag is off then, and every other turn is what it was. *)
LEMMA ItemsEndHolds ==
  ASSUME DialogPageInv, NEW i \in DOMAIN items.calls,
         NEW ended \in {Applied(items, i), Failed(items, i)}, ItemsEnd(i, ended)
  PROVE  DialogPageInv'
<1>. USE DEF DialogPageInv
<1>. DEFINE key == items.calls[i].key
<1>1. items \in ResourceOf(PageKeys, PageAnswers) /\ DOMAIN flag = DOMAIN FlagsOf[screen]
  BY DEF DialogPageTypes
<1>2. CASE key.leaves
  <2>1. LeavePage
    BY <1>2 DEF ItemsEnd
  <2>2. /\ items' \in ResourceOf(PageKeys, PageAnswers)
        /\ \A f : LoadsFor(items', f) = {}
    BY <2>1, NothingMounted DEF LeavePage, PageAnswers
  <2>3. DOMAIN saves' = {} /\ \A f : Savers(f)' = {}
    BY <2>1 DEF LeavePage, EmptyBag, SetToBag, BagToSet, Savers
  <2>4. /\ UNCHANGED <<screen, view>> /\ DOMAIN flag' = DOMAIN flag
        /\ \A f \in DOMAIN flag : flag'[f] = None
    BY <2>1 DEF LeavePage
  <2>. QED BY <2>2, <2>3, <2>4 DEF DialogPageTypes, FormFlag, Turn
<1>3. CASE ~key.leaves
  <2>1. /\ items' = ended /\ flag' = Reset(key.frees)
        /\ UNCHANGED <<screen, view, saves, popup>>
    BY <1>3 DEF ItemsEnd
  <2>2. DOMAIN flag' = DOMAIN flag
    BY <2>1 DEF Reset
  <2>3. items' \in ResourceOf(PageKeys, PageAnswers)
    BY <1>1, <2>1, EndedCalls
  <2>4. DialogPageTypes'
    BY <2>1, <2>2, <2>3 DEF DialogPageTypes, Page
  <2>5. ASSUME NEW f, FormFlag(f)' PROVE Turn(f)'
    <3>1. FormFlag(f) /\ f # None /\ f \in DOMAIN flag /\ Turn(f)
      BY <2>1, <2>2, <2>5, FormFlagNamed DEF FormFlag
    <3>2. Savers(f)' = Savers(f)
      BY <2>1 DEF Savers, Page
    <3>3. CASE key.frees = f
      <4>1. i \in LoadsFor(items, f)
        BY <3>3 DEF LoadsFor
      <4>2. Savers(f) = {} /\ LoadsFor(items, f) = {i}
        BY <3>1, <4>1 DEF Turn
      <4>3. LoadsFor(ended, f) = {}
        BY <1>1, <4>2, LoadsForGone
      <4>4. flag'[f] = None
        BY <2>1, <3>1, <3>3 DEF Reset
      <4>. QED BY <2>1, <3>2, <4>2, <4>3, <4>4 DEF Turn
    <3>4. CASE key.frees # f
      <4>1. i \notin LoadsFor(items, f)
        BY <3>4 DEF LoadsFor
      <4>2. flag'[f] = flag[f]
        BY <2>1, <3>1, <3>4 DEF Reset
      <4>3. LoadsFor(items, f) = {} => LoadsFor(ended, f) = {}
        BY <1>1, LoadsForGone
      <4>4. ASSUME NEW j, LoadsFor(items, f) = {j} PROVE \E k : LoadsFor(ended, f) = {k}
        <5>1. j \in LoadsFor(items, f) /\ j # i
          BY <4>1, <4>4
        <5>2. \E k \in LoadsFor(ended, f) :
                 LoadsFor(items, f) = {j} => LoadsFor(ended, f) = {k}
          <6>. HIDE DEF key
          <6>. QED BY <1>1, <5>1, LoadsForStays
        <5>. QED BY <4>4, <5>2
      <4>. QED BY <2>1, <3>1, <3>2, <4>2, <4>3, <4>4 DEF Turn
    <3>. QED BY <3>3, <3>4
  <2>. QED BY <2>4, <2>5
<1>. QED BY <1>2, <1>3

LEMMA BoxesHold ==
  ASSUME DialogPageInv, OpenBox \/ CloseBox \/ UNCHANGED dialogPageVars
  PROVE  DialogPageInv'
<1>1. UNCHANGED <<screen, view, items, saves, flag>>
  BY DEF OpenBox, CloseBox, dialogPageVars
<1>2. DialogPageTypes'
  BY <1>1 DEF DialogPageInv, DialogPageTypes, Page
<1>3. ASSUME NEW f, FormFlag(f)' PROVE Turn(f)'
  <2>1. FormFlag(f) /\ Savers(f)' = Savers(f)
    BY <1>1, <1>3 DEF FormFlag, Savers, Page
  <2>. QED BY <1>1, <2>1 DEF DialogPageInv, Turn
<1>. QED BY <1>2, <1>3 DEF DialogPageInv

(* A change begins: one more of its handler is in flight.                  *)
LEMMA SaveBegun ==
  ASSUME \A g \in DOMAIN saves : saves[g] \in Nat \ {0}, NEW h,
         saves' = saves (+) SetToBag({h})
  PROVE  /\ DOMAIN saves' = (DOMAIN saves) \cup {h}
         /\ \A g \in DOMAIN saves' : saves'[g] \in Nat \ {0}
         /\ \A g \in DOMAIN saves : g # h => saves'[g] = saves[g]
         /\ h \notin DOMAIN saves => saves'[h] = 1
<1>1. saves' = [g \in (DOMAIN saves) \cup {h} |->
                   (IF g \in DOMAIN saves THEN saves[g] ELSE 0)
                   + (IF g \in {h} THEN 1 ELSE 0)]
  BY DEF (+), SetToBag
<1>2. DOMAIN saves' = (DOMAIN saves) \cup {h}
  BY <1>1
<1>3. ASSUME NEW g \in DOMAIN saves, g # h PROVE saves'[g] = saves[g]
  <2>1. saves'[g] = saves[g] + 0
    BY <1>1, <1>3
  <2>. QED BY <2>1
<1>4. saves'[h] = (IF h \in DOMAIN saves THEN saves[h] ELSE 0) + 1
  BY <1>1
<1>5. h \notin DOMAIN saves => saves'[h] = 1
  BY <1>4
<1>6. saves'[h] \in Nat \ {0}
  BY <1>4
<1>. QED BY <1>2, <1>3, <1>5, <1>6

(* One ends: the last of its handler leaves none.                          *)
LEMMA SaveEnded ==
  ASSUME \A g \in DOMAIN saves : saves[g] \in Nat \ {0}, NEW h \in DOMAIN saves,
         saves' = saves (-) SetToBag({h})
  PROVE  /\ DOMAIN saves' \subseteq DOMAIN saves
         /\ \A g \in DOMAIN saves' : saves'[g] \in Nat \ {0}
         /\ \A g \in DOMAIN saves : g # h => g \in DOMAIN saves' /\ saves'[g] = saves[g]
         /\ saves[h] = 1 => h \notin DOMAIN saves'
<1>. DEFINE less == [g \in DOMAIN saves |-> IF g \in {h} THEN saves[g] - 1 ELSE saves[g]]
<1>1. saves' = [g \in {d \in DOMAIN less : less[d] > 0} |-> less[g]]
  BY DEF (-), SetToBag
<1>2. DOMAIN less = DOMAIN saves
  OBVIOUS
<1>3. \A g \in DOMAIN saves : less[g] = IF g = h THEN saves[g] - 1 ELSE saves[g]
  OBVIOUS
<1>. HIDE DEF less
<1>4. \A g : g \in DOMAIN saves' <=> g \in DOMAIN less /\ less[g] > 0
  BY <1>1
<1>5. \A g \in DOMAIN saves' : saves'[g] = less[g]
  BY <1>1
<1>6. \A g \in DOMAIN saves : less[g] \in Nat
  BY <1>3
<1>7. saves[h] = 1 => less[h] = 0
  BY <1>3
<1>. QED BY <1>2, <1>3, <1>4, <1>5, <1>6, <1>7

LEMMA ClickHolds ==
  ASSUME DialogPageInv, NEW h \in DOMAIN Page, Click(h)
  PROVE  DialogPageInv'
<1>. USE DEF DialogPageInv
<1>. DEFINE g == Page[h].sets
<1>1. PICK item \in Items :
         /\ Enabled(h, item)
         /\ flag' = IF g = None THEN flag
                    ELSE [flag EXCEPT ![g] = IF FlagKind(h) = "form" THEN Form ELSE item]
  BY DEF Click
<1>2. saves' = saves (+) SetToBag({h}) /\ UNCHANGED <<screen, view, items, popup>>
  BY DEF Click
<1>3. /\ DOMAIN saves' = (DOMAIN saves) \cup {h}
      /\ \A d \in DOMAIN saves' : saves'[d] \in Nat \ {0}
      /\ \A d \in DOMAIN saves : d # h => saves'[d] = saves[d]
      /\ h \notin DOMAIN saves => saves'[h] = 1
  BY <1>2, SaveBegun DEF DialogPageTypes
<1>4. DOMAIN flag' = DOMAIN flag
  BY <1>1
<1>5. DialogPageTypes'
  BY <1>2, <1>3, <1>4 DEF DialogPageTypes, Page
<1>6. ASSUME NEW f, FormFlag(f)' PROVE Turn(f)'
  <2>1. FormFlag(f) /\ f # None /\ f \in DOMAIN flag /\ FlagsOf[screen][f] = "form" /\ Turn(f)
    BY <1>2, <1>4, <1>6, FormFlagNamed DEF FormFlag
  <2>2. LoadsFor(items, f)' = LoadsFor(items, f)
    BY <1>2 DEF LoadsFor
  <2>3. Savers(f)' = {d \in DOMAIN saves' : Page[d].sets = f}
    BY <1>2 DEF Savers, BagToSet, Page
  <2>4. CASE g = f
    <3>1. FlagKind(h) = "form"
      BY <2>1, <2>4 DEF FlagKind
    <3>2. flag[f] # Form
      BY <1>1, <2>4, <3>1 DEF Enabled, Busy
    <3>3. Savers(f) = {} /\ LoadsFor(items, f) = {}
      BY <2>1, <3>2 DEF Turn
    <3>4. h \notin DOMAIN saves
      BY <2>4, <3>3 DEF Savers, BagToSet
    <3>5. Savers(f)' = {h}
      BY <1>3, <2>3, <2>4, <3>3 DEF Savers, BagToSet
    <3>6. flag'[f] = Form
      BY <1>1, <2>1, <2>4, <3>1
    <3>. QED BY <1>3, <2>2, <3>3, <3>4, <3>5, <3>6 DEF Turn
  <2>5. CASE g # f
    <3>1. Savers(f)' = Savers(f)
      BY <1>3, <2>3, <2>5 DEF Savers, BagToSet
    <3>2. flag'[f] = flag[f]
      BY <1>1, <2>1, <2>5
    <3>3. \A d \in Savers(f) : saves'[d] = saves[d]
      BY <1>3, <2>5 DEF Savers, BagToSet
    <3>. QED BY <2>1, <2>2, <3>1, <3>2, <3>3 DEF Turn
  <2>. QED BY <2>4, <2>5
<1>. QED BY <1>5, <1>6

LEMMA SaveEndsHolds ==
  ASSUME DialogPageInv, SaveEnds
  PROVE  DialogPageInv'
<1>. USE DEF DialogPageInv
<1>1. PICK h \in BagToSet(saves) :
         /\ saves' = saves (-) SetToBag({h})
         /\ SaveFails(h) \/ SaveDone(h)
  BY DEF SaveEnds
<1>2. UNCHANGED <<screen, view>> /\ h \in DOMAIN saves
  BY DEF SaveEnds, BagToSet
<1>. DEFINE g == Page[h].sets
            leaves == Page[h].then = "leave"
<1>3. /\ DOMAIN saves' \subseteq DOMAIN saves
      /\ \A d \in DOMAIN saves' : saves'[d] \in Nat \ {0}
      /\ \A d \in DOMAIN saves : d # h => d \in DOMAIN saves' /\ saves'[d] = saves[d]
      /\ saves[h] = 1 => h \notin DOMAIN saves'
  BY <1>1, <1>2, SaveEnded DEF DialogPageTypes
<1>4. g \in Frees
  BY <1>2 DEF DialogPageTypes, Page, Frees
<1>5. \/ flag' = Reset(g) /\ UNCHANGED items
      \/ LoadFor(g, leaves) /\ UNCHANGED flag
  BY <1>1 DEF SaveFails, SaveDone
<1>. HIDE DEF leaves
<1>6. /\ items' \in ResourceOf(PageKeys, PageAnswers)
      /\ DOMAIN flag' = DOMAIN flag
      /\ \A f : f # g => LoadsFor(items', f) = LoadsFor(items, f)
      /\ \A f \in DOMAIN flag : f # g => flag'[f] = flag[f]
      /\ \/ /\ UNCHANGED items
            /\ g \in DOMAIN flag /\ g # None => flag'[g] = None
         \/ UNCHANGED flag /\ \E i : LoadsFor(items', g) = LoadsFor(items, g) \cup {i}
  <2>1. CASE flag' = Reset(g) /\ UNCHANGED items
    BY <2>1 DEF Reset, DialogPageTypes
  <2>2. CASE LoadFor(g, leaves) /\ UNCHANGED flag
    <3>1. leaves \in BOOLEAN /\ view' \in Views
      BY <1>2 DEF leaves, DialogPageTypes
    <3>2. /\ items' \in ResourceOf(PageKeys, PageAnswers)
          /\ \A f : LoadsFor(items', f) =
                       IF g = f THEN LoadsFor(items, f) \cup {Len(items.calls) + 1}
                                ELSE LoadsFor(items, f)
      <4>. HIDE DEF g
      <4>. QED BY <1>4, <2>2, <3>1, PageLoadBegins
    <3>. QED BY <2>2, <3>2
  <2>. QED BY <1>5, <2>1, <2>2
<1>7. DialogPageTypes'
  BY <1>2, <1>3, <1>6 DEF DialogPageTypes, Page
<1>8. ASSUME NEW f, FormFlag(f)' PROVE Turn(f)'
  <2>1. FormFlag(f) /\ f # None /\ f \in DOMAIN flag /\ Turn(f)
    BY <1>2, <1>6, <1>8, FormFlagNamed DEF FormFlag
  <2>2. Savers(f)' = {d \in DOMAIN saves' : Page[d].sets = f}
    BY <1>2 DEF Savers, BagToSet, Page
  <2>3. CASE g = f
    <3>1. h \in Savers(f)
      BY <1>2, <2>3 DEF Savers, BagToSet
    <3>2. /\ flag[f] = Form /\ LoadsFor(items, f) = {}
          /\ Savers(f) = {h} /\ saves[h] = 1
      BY <2>1, <3>1 DEF Turn
    <3>3. Savers(f)' = {}
      BY <1>3, <2>2, <3>2 DEF Savers, BagToSet
    <3>. QED BY <1>6, <2>1, <2>3, <3>2, <3>3 DEF Turn
  <2>4. CASE g # f
    <3>1. Savers(f)' = Savers(f)
      BY <1>3, <2>2, <2>4 DEF Savers, BagToSet
    <3>2. \A d \in Savers(f) : saves'[d] = saves[d]
      BY <1>3, <2>4 DEF Savers, BagToSet
    <3>. QED BY <1>6, <2>1, <2>4, <3>1, <3>2 DEF Turn
  <2>. QED BY <2>3, <2>4
<1>. QED BY <1>7, <1>8

LEMMA DialogPagesStepHolds ==
  DialogPageInv /\ [DialogPagesNext]_dialogPageVars => DialogPageInv'
<1>. SUFFICES ASSUME DialogPageInv, [DialogPagesNext]_dialogPageVars
              PROVE  DialogPageInv'
  OBVIOUS
<1>1. CASE ItemStep
  <2>1. ASSUME NEW i \in Waiting(items), ServeItems(i) PROVE DialogPageInv'
    BY <2>1, ServeItemsHolds
  <2>2. ASSUME NEW i \in Waiting(items), ItemsEnd(i, Failed(items, i)) PROVE DialogPageInv'
    BY <2>2, ItemsEndHolds DEF Waiting
  <2>3. ASSUME NEW i \in Answered(items), ItemsEnd(i, Applied(items, i)) PROVE DialogPageInv'
    BY <2>3, ItemsEndHolds DEF Answered
  <2>. QED BY <1>1, <2>1, <2>2, <2>3 DEF ItemStep
<1>. QED BY <1>1, BrowsingHolds, BoxesHold, ClickHolds, SaveEndsHolds DEF DialogPagesNext

-----------------------------------------------------------------------------

LEMMA EmptyCardinality ==
  ASSUME NEW b, NEW S, S = {}
  PROVE  BagCardinality([h \in S |-> b[h]]) = 0
<1>. DEFINE f == [h \in S |-> b[h]]
            Sums(sum) == sum = [T \in SUBSET DOMAIN f |->
                            LET elt == CHOOSE e \in T : TRUE
                            IN  IF T = {} THEN 0 ELSE f[elt] + sum[T \ {elt}]]
            total == CHOOSE sum : Sums(sum)
            zero == [T \in SUBSET DOMAIN f |-> 0]
<1>1. BagCardinality(f) = total[DOMAIN f] /\ DOMAIN f = {}
  BY DEF BagCardinality
<1>2. Sums(zero)
  BY <1>1
<1>3. Sums(total)
  <2>. HIDE DEF Sums, zero
  <2>. QED BY <1>2, Zenon
<1>. HIDE DEF total
<1>. QED BY <1>1, <1>3

LEMMA SingleCardinality ==
  ASSUME NEW b, NEW S, NEW h, S = {h}, b[h] = 1
  PROVE  BagCardinality([x \in S |-> b[x]]) = 1
<1>. DEFINE f == [x \in S |-> b[x]]
            Sums(sum) == sum = [T \in SUBSET DOMAIN f |->
                            LET elt == CHOOSE e \in T : TRUE
                            IN  IF T = {} THEN 0 ELSE f[elt] + sum[T \ {elt}]]
            total == CHOOSE sum : Sums(sum)
            counts == [T \in SUBSET DOMAIN f |-> IF T = {} THEN 0 ELSE 1]
<1>1. DOMAIN f = {h} /\ f[h] = 1
  OBVIOUS
<1>2. BagCardinality(f) = total[DOMAIN f]
  BY DEF BagCardinality
<1>3. \A T \in SUBSET DOMAIN f : T = {} \/ T = {h}
  BY <1>1
<1>. HIDE DEF f
<1>4. Sums(counts)
  BY <1>1, <1>3
<1>5. Sums(total)
  <2>. HIDE DEF Sums, counts
  <2>. QED BY <1>4, Zenon
<1>. HIDE DEF total
<1>6. \A T \in SUBSET DOMAIN f :
         total[T] = IF T = {} THEN 0
                    ELSE f[CHOOSE e \in T : TRUE] + total[T \ {CHOOSE e \in T : TRUE}]
  BY <1>5
<1>7. total[{}] = 0
  BY <1>6
<1>8. total[{h}] = f[h] + total[{}]
  <2>1. (CHOOSE e \in {h} : TRUE) = h
    OBVIOUS
  <2>2. {h} \in SUBSET DOMAIN f /\ {h} # {} /\ {h} \ {h} = {}
    BY <1>1
  <2>3. total[{h}] = f[CHOOSE e \in {h} : TRUE] + total[{h} \ {CHOOSE e \in {h} : TRUE}]
    BY <1>6, <2>2
  <2>. QED BY <2>1, <2>2, <2>3
<1>9. total[DOMAIN f] = total[{h}]
  BY <1>1
<1>10. total[{h}] = 1
  BY <1>1, <1>7, <1>8
<1>. QED BY <1>2, <1>9, <1>10 DEF f

(* Handlers that share the flag of a form never overlap, and the flag is on as *)
(* long as one of them is underway: for any pages, rows, views and number of   *)
(* changes and loads in flight (the finally of every handler).                 *)
THEOREM FormsTakeTurns == DialogPagesSpec => []SavesTakeTurns
<1>1. DialogPageInv => SavesTakeTurns
  <2>. SUFFICES ASSUME DialogPageInv, NEW f \in DOMAIN flag, FlagsOf[screen][f] = "form"
                PROVE  /\ Underway(f) <= 1
                       /\ flag[f] = Form <=> Underway(f) = 1
    BY DEF SavesTakeTurns
  <2>1. Turn(f)
    BY DEF DialogPageInv, FormFlag
  <2>. DEFINE saved == BagCardinality([h \in Savers(f) |-> saves[h]])
              loaded == Cardinality(LoadsFor(items, f))
  <2>2. Underway(f) = saved + loaded
    BY DEF Underway, Savers, LoadsFor
  <2>3. LoadsFor(items, f) = {} => loaded = 0
    BY FS_EmptySet
  <2>4. (\E i : LoadsFor(items, f) = {i}) => loaded = 1
    BY FS_Singleton
  <2>5. Savers(f) = {} => saved = 0
    BY EmptyCardinality
  <2>6. ASSUME NEW h, Savers(f) = {h}, saves[h] = 1 PROVE saved = 1
    BY <2>6, SingleCardinality
  <2>. HIDE DEF saved, loaded
  <2>. QED BY <2>1, <2>2, <2>3, <2>4, <2>5, <2>6, DialogAssumption DEF Turn
<1>. QED BY DialogPagesInitHolds, DialogPagesStepHolds, <1>1, PTL DEF DialogPagesSpec
=============================================================================
