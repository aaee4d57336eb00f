---------------------------- MODULE SearchProofs ----------------------------
(***************************************************************************)
(* For any texts and any number of inputs and changes: results never go    *)
(* back to an older search's, and what is on screen when everything has    *)
(* come to rest is current.                                                *)
(***************************************************************************)
EXTENDS Search, SequenceTheorems, TLAPS

-----------------------------------------------------------------------------
(* The invariant.                                                          *)

Texts    == Queries \cup {None}
Searches == [id : Nat, query : Texts, options : Nat, version : Nat, byUser : BOOLEAN]
Threads  == [search : Searches, stage : {"waiting", "checking", "posting", "done"}]
Posts    == [kind : Changes \cup {"results"}, search : Searches]

EditType ==
    /\ text \in Texts /\ editTimer \in BOOLEAN
    /\ window \in {"open", "closing", "closed"}
    /\ inputs \in Nat /\ changes \in Nat

CoordinatorType ==
    /\ pendingQuery \in Texts /\ options \in Nat /\ debounceTimer \in BOOLEAN
    /\ searching_ \in BOOLEAN /\ byUser \in BOOLEAN
    /\ current \in Nat /\ started \in Nat
    /\ workers \subseteq Threads

ResultsType ==
    /\ version \in Nat /\ unreported \subseteq Changes
    /\ liveRefreshTimer \in BOOLEAN /\ preserve \in BOOLEAN
    /\ shown \in Searches /\ selected \in BOOLEAN

TypeOK == EditType /\ CoordinatorType /\ ResultsType /\ events \in Seq(Posts)

Posted == {events[i] : i \in 1..Len(events)}

\* Searches are numbered in the order they start in, and only the newest one
\* is not cancelled.
IdInv ==
    /\ current \in {0, started}
    /\ \A w \in workers : w.search.id \in 1..started
    /\ \A e \in Posted : e.kind = "results" => e.search.id \in 1..started
    /\ shown.id \in 0..started

\* Nothing is shown for no text, and a text is asked for when its timer fires.
TextInv ==
    /\ text = None => shown = NoResults
    /\ ~editTimer => pendingQuery = text

\* The text in the box has been searched for.
Asked == Open /\ ~editTimer /\ ~debounceTimer /\ text # None

RefreshComing == unreported # {} \/ liveRefreshTimer \/ \E e \in Posted : e.kind # "results"

\* If it is the newest one, a search is of the text in the box, and what it
\* has read is current or will be read again.
Fits(search)  == search.id = current => search.query = text /\ search.options = options
Fresh(search) == search.id = current => search.version = version \/ RefreshComing

\* The newest search is being run, its results are on their way, or they are
\* on screen.
UnderWay ==
    \/ \E w \in workers : w.search.id = current /\ w.stage # "done"
    \/ \E e \in Posted : e.kind = "results" /\ e.search.id = current
    \/ shown.id = current

AllFit ==
    /\ \A w \in workers : Fits(w.search)
    /\ \A e \in Posted : e.kind = "results" => Fits(e.search)
    /\ Fits(shown)

AllFresh ==
    /\ \A w \in workers : w.stage # "waiting" => Fresh(w.search)
    /\ \A e \in Posted : e.kind = "results" => Fresh(e.search)
    /\ Fresh(shown)

AskedInv == Asked => current # 0 /\ UnderWay /\ AllFit /\ AllFresh

IInv == TypeOK /\ IdInv /\ TextInv /\ AskedInv

-----------------------------------------------------------------------------
(* What is posted, and what the GUI thread takes.                          *)

LEMMA NoResultsType == NoResults \in Searches /\ NoResults.id = 0
  BY DEF NoResults, Searches, Texts

LEMMA PostedMore ==
    ASSUME events \in Seq(Posts), NEW e \in Posts, events' = Append(events, e)
    PROVE  events' \in Seq(Posts) /\ Posted' = Posted \cup {e}
<1>1. /\ Len(events) \in Nat /\ Len(events') = Len(events) + 1
      /\ \A i \in 1..Len(events) : events'[i] = events[i]
      /\ events'[Len(events) + 1] = e /\ events' \in Seq(Posts)
  BY AppendProperties
<1>2. Posted' \subseteq Posted \cup {e}
  <2> SUFFICES ASSUME NEW i \in 1..Len(events'), i # Len(events) + 1 PROVE events'[i] \in Posted
    BY <1>1 DEF Posted
  <2>1. i \in 1..Len(events)
    BY <1>1
  <2> QED
    BY <1>1, <2>1 DEF Posted
<1>3. Posted \cup {e} \subseteq Posted'
  <2>1. Len(events) + 1 \in 1..Len(events') /\ 1..Len(events) \subseteq 1..Len(events')
    BY <1>1
  <2> QED
    BY <1>1, <2>1 DEF Posted
<1> QED
  BY <1>1, <1>2, <1>3

LEMMA PostedLess ==
    ASSUME events \in Seq(Posts), events # <<>>, events' = Tail(events)
    PROVE  /\ events' \in Seq(Posts) /\ Head(events) \in Posts
           /\ Posted = Posted' \cup {Head(events)}
<1>1. /\ Len(events) \in Nat \ {0} /\ Len(events') = Len(events) - 1
      /\ \A i \in 1..Len(events') : events'[i] = events[i + 1]
      /\ Head(events) = events[1] /\ events' \in Seq(Posts) /\ Head(events) \in Posts
  BY HeadTailProperties, EmptySeq
<1>2. Posted \subseteq Posted' \cup {Head(events)}
  <2> SUFFICES ASSUME NEW i \in 1..Len(events), i # 1 PROVE events[i] \in Posted'
    BY <1>1 DEF Posted
  <2>1. i - 1 \in 1..Len(events') /\ (i - 1) + 1 = i
    BY <1>1
  <2>2. events'[i - 1] = events[i]
    BY <1>1, <2>1
  <2> QED
    BY <2>1, <2>2 DEF Posted
<1>3. Posted' \subseteq Posted
  <2> SUFFICES ASSUME NEW i \in 1..Len(events') PROVE events'[i] \in Posted
    BY DEF Posted
  <2>1. i + 1 \in 1..Len(events)
    BY <1>1
  <2> QED
    BY <1>1, <2>1 DEF Posted
<1>4. Head(events) \in Posted
  <2>1. 1 \in 1..Len(events)
    BY <1>1
  <2> QED
    BY <1>1, <2>1 DEF Posted
<1> QED
  BY <1>1, <1>2, <1>3, <1>4

\* The three kinds of call.
LEMMA Events ==
    ASSUME TypeOK, HandleEvent
    PROVE  /\ Open /\ UNCHANGED notEvents
           /\ events' \in Seq(Posts) /\ Head(events) \in Posts
           /\ Posted = Posted' \cup {Head(events)}
           /\ \/ /\ Head(events).kind = "results"
                 /\ Deliver(Head(events).search) /\ KeepQuery /\ UNCHANGED liveRefreshTimer
              \/ /\ Head(events).kind = "changed"
                 /\ RefreshVisibleResults /\ UNCHANGED <<searching_, results, liveRefreshTimer>>
              \/ /\ Head(events).kind = "live" /\ liveRefreshTimer' = TRUE
                 /\ KeepQuery /\ UNCHANGED <<searching_, preserve, results>>
<1>1. /\ events' \in Seq(Posts) /\ Head(events) \in Posts
      /\ Posted = Posted' \cup {Head(events)}
  BY PostedLess DEF TypeOK, HandleEvent
<1>2. Head(events).kind \in {"results", "changed", "live"}
  BY <1>1 DEF Posts, Changes
<1>3. CASE Head(events).kind = "results"
  BY <1>1, <1>3 DEF HandleEvent
<1>4. CASE Head(events).kind = "changed"
  BY <1>1, <1>4 DEF HandleEvent
<1>5. CASE Head(events).kind = "live"
  BY <1>1, <1>5 DEF HandleEvent
<1> QED
  BY <1>2, <1>3, <1>4, <1>5

-----------------------------------------------------------------------------
(* Types.                                                                  *)

LEMMA TypeInit == Init => TypeOK
<1> SUFFICES ASSUME Init PROVE TypeOK
  OBVIOUS
<1>1. EditType /\ CoordinatorType
  BY DEF Init, EditType, CoordinatorType, Texts
<1>2. ResultsType
  BY NoResultsType DEF Init, ResultsType
<1>3. events \in Seq(Posts)
  BY EmptySeq DEF Init
<1> QED
  BY <1>1, <1>2, <1>3 DEF TypeOK

LEMMA QueryType ==
    ASSUME CoordinatorType,
           KeepQuery \/ (\E query \in Texts : \E user \in BOOLEAN : SetQuery(query, user))
    PROVE  pendingQuery' \in Texts /\ debounceTimer' \in BOOLEAN /\ byUser' \in BOOLEAN
  BY DEF CoordinatorType, KeepQuery, SetQuery

LEMMA TypeStep == TypeOK /\ [Next]_vars => TypeOK'
<1> SUFFICES ASSUME TypeOK, [Next]_vars PROVE TypeOK'
  OBVIOUS
<1> USE DEF edit, coordinator, store, results, counters, notUser, notCoordinator, notEvents,
            notWorkers, notStore
<1>0. EditType /\ CoordinatorType /\ ResultsType /\ events \in Seq(Posts)
  BY DEF TypeOK
<1>1. CASE UNCHANGED vars
  BY <1>0, <1>1 DEF vars, TypeOK, EditType, CoordinatorType, ResultsType
<1>2. ASSUME NEW new \in Queries \cup {None}, TextChanged(new) PROVE TypeOK'
  <2>1. EditType'
    BY <1>0, <1>2 DEF TextChanged, EditType, Texts
  <2>3. KeepQuery \/ SetQuery(None, TRUE)
    BY <1>2 DEF TextChanged
  <2>4. CoordinatorType'
    BY <1>0, <1>2, <2>3, QueryType DEF TextChanged, CoordinatorType, Texts
  <2>2. ResultsType'
    BY <1>0, <1>2, NoResultsType DEF TextChanged, ResultsType
  <2> QED
    BY <1>0, <1>2, <2>1, <2>2, <2>4 DEF TextChanged, TypeOK
<1>3. CASE EditTimeout
  BY <1>0, <1>3 DEF EditTimeout, SetQuery, TypeOK, EditType, CoordinatorType, ResultsType
<1>4. CASE ToggleOption
  <2>1. KeepQuery \/ SetQuery(text, TRUE)
    BY <1>4 DEF ToggleOption
  <2>3. pendingQuery' \in Texts /\ debounceTimer' \in BOOLEAN /\ byUser' \in BOOLEAN
    BY <1>0, <2>1, QueryType DEF EditType
  <2>4. options' \in Nat
    BY <1>0, <1>4 DEF ToggleOption, CoordinatorType
  <2>2. CoordinatorType'
    BY <1>0, <1>4, <2>3, <2>4 DEF ToggleOption, CoordinatorType
  <2> QED
    BY <1>0, <1>4, <2>2 DEF ToggleOption, TypeOK, EditType, ResultsType
<1>5. CASE SelectRow
  BY <1>0, <1>5 DEF SelectRow, KeepQuery, TypeOK, EditType, CoordinatorType, ResultsType
<1>6. CASE StartSearch
  <2>1. NewSearch \in Threads
    BY <1>0 DEF NewSearch, Threads, Searches, CoordinatorType
  <2>3. workers' \subseteq Threads
    BY <1>0, <1>6, <2>1 DEF StartSearch, CoordinatorType, Unfinished
  <2>4. searching_' \in BOOLEAN /\ debounceTimer' \in BOOLEAN
    BY <1>6 DEF StartSearch
  <2>5. current' \in Nat /\ started' \in Nat
    BY <1>0, <1>6 DEF StartSearch, CoordinatorType
  <2>2. CoordinatorType'
    BY <1>0, <1>6, <2>3, <2>4, <2>5 DEF StartSearch, CoordinatorType
  <2> QED
    BY <1>0, <1>6, <2>2 DEF StartSearch, TypeOK, EditType, ResultsType
<1>7. CASE HandleEvent
  <2>1. events' \in Seq(Posts) /\ Head(events).search \in Searches /\ UNCHANGED notEvents
    BY <1>7, Events DEF Posts
  <2>2. shown' \in {shown, Head(events).search} /\ selected' \in BOOLEAN /\ preserve' \in BOOLEAN
    BY <1>0, <1>7, Events DEF Deliver, RefreshVisibleResults, KeepQuery, ResultsType
  <2>3. liveRefreshTimer' \in BOOLEAN
    BY <1>0, <1>7, Events DEF ResultsType
  <2>4. ResultsType'
    BY <1>0, <2>1, <2>2, <2>3 DEF ResultsType
  <2>5. CoordinatorType'
    BY <1>0, <1>7, <2>1, Events
       DEF Deliver, RefreshVisibleResults, SetQuery, KeepQuery, CoordinatorType, EditType
  <2> QED
    BY <1>0, <2>1, <2>4, <2>5 DEF TypeOK, EditType
<1>8. CASE LiveRefreshTimeout
  BY <1>0, <1>8 DEF LiveRefreshTimeout, RefreshVisibleResults, SetQuery, KeepQuery, TypeOK,
                    EditType, CoordinatorType, ResultsType
<1>9. CASE Close \/ JoinWorkers
  <2>1. window' \in {"closing", "closed"} /\ workers' \subseteq Threads /\ current' \in Nat
    BY <1>0, <1>9 DEF Close, JoinWorkers, CoordinatorType
  <2>3. searching_' \in BOOLEAN
    BY <1>0, <1>9 DEF Close, JoinWorkers, CoordinatorType
  <2>2. UNCHANGED <<edit, pendingQuery, options, debounceTimer, store, events, liveRefreshTimer,
                    preserve, results, counters, byUser>>
    BY <1>9 DEF Close, JoinWorkers
  <2> QED
    BY <1>0, <2>1, <2>2, <2>3 DEF TypeOK, EditType, CoordinatorType, ResultsType
<1>10. ASSUME NEW w \in workers, Worker(w) PROVE TypeOK'
  <2>1. w \in Threads /\ version \in Nat
    BY <1>0 DEF CoordinatorType, ResultsType
  <2>2. CASE ReadPool(w)
    <3>1. [w EXCEPT !.stage = "checking", !.search.version = version] \in Threads
      BY <2>1 DEF Threads, Searches
    <3> QED
      BY <1>0, <2>2, <3>1 DEF ReadPool, Become, TypeOK, EditType, CoordinatorType, ResultsType
  <2>3. CASE CheckToken(w)
    <3>1. \A stage \in {"posting", "done"} : [w EXCEPT !.stage = stage] \in Threads
      BY <2>1 DEF Threads
    <3>2. workers' \subseteq Threads
      BY <1>0, <2>3, <3>1 DEF CheckToken, Become, CoordinatorType
    <3> QED
      BY <1>0, <2>3, <3>2 DEF CheckToken, TypeOK, EditType, CoordinatorType, ResultsType
  <2>4. CASE PostResults(w)
    <3>1. [w EXCEPT !.stage = "done"] \in Threads /\ [kind |-> "results", search |-> w.search] \in Posts
      BY <2>1 DEF Threads, Posts
    <3>2. events' \in Seq(Posts)
      BY <1>0, <2>4, <3>1, PostedMore DEF PostResults
    <3> QED
      BY <1>0, <2>4, <3>1, <3>2 DEF PostResults, Become, TypeOK, EditType, CoordinatorType, ResultsType
  <2> QED
    BY <1>10, <2>2, <2>3, <2>4 DEF Worker
<1>11. ASSUME NEW kind \in Changes, ChangeIndex(kind) PROVE TypeOK'
  BY <1>0, <1>11 DEF ChangeIndex, TypeOK, EditType, CoordinatorType, ResultsType
<1>12. ASSUME NEW kind \in Changes, ReportChange(kind) PROVE TypeOK'
  <2>1. events' \in Seq(Posts)
    BY <1>0, <1>12, NoResultsType, PostedMore DEF ReportChange, Posts
  <2> QED
    BY <1>0, <1>12, <2>1 DEF ReportChange, TypeOK, EditType, CoordinatorType, ResultsType
<1> QED
  BY <1>1, <1>2, <1>3, <1>4, <1>5, <1>6, <1>7, <1>8, <1>9, <1>10, <1>11, <1>12
     DEF Next, User, Gui, Closed, TypeOK

-----------------------------------------------------------------------------
(* Searches are numbered.                                                  *)

LEMMA IdInit == Init => IdInv
<1>1. Init => Posted = {}
  BY DEF Init, Posted
<1> QED
  BY <1>1, NoResultsType DEF Init, IdInv

\* A step by which only searches that there are go anywhere.
LEMMA IdAside ==
    ASSUME TypeOK, IdInv, UNCHANGED started, current' \in {0, current}, shown' = shown \/ shown' = NoResults,
           \A w \in workers' : \E v \in workers : w.search.id = v.search.id,
           \A e \in Posted' : e.kind = "results" => e \in Posted \/ \E v \in workers : e.search = v.search
    PROVE  IdInv'
  BY NoResultsType DEF IdInv, TypeOK, CoordinatorType

LEMMA IdStep == TypeOK /\ IdInv /\ [Next]_vars => IdInv'
<1> SUFFICES ASSUME TypeOK, IdInv, [Next]_vars PROVE IdInv'
  OBVIOUS
<1> USE DEF edit, coordinator, store, results, counters, notUser, notCoordinator, notEvents,
            notWorkers, notStore
<1>0. EditType /\ CoordinatorType /\ ResultsType /\ events \in Seq(Posts)
  BY DEF TypeOK
<1>1. CASE UNCHANGED vars \/ EditTimeout \/ ToggleOption \/ SelectRow \/ LiveRefreshTimeout \/ Close
           \/ JoinWorkers \/ (\E new \in Queries \cup {None} : TextChanged(new))
           \/ (\E kind \in Changes : ChangeIndex(kind))
  <2>1. /\ UNCHANGED <<started, events>> /\ workers' \subseteq workers
        /\ current' \in {0, current} /\ (shown' = shown \/ shown' = NoResults)
    BY <1>1 DEF vars, EditTimeout, ToggleOption, SelectRow, LiveRefreshTimeout, Close, JoinWorkers,
                TextChanged, ChangeIndex
  <2> QED
    BY <2>1, IdAside DEF Posted
<1>2. CASE StartSearch
  <2>1. workers' \subseteq workers \cup {NewSearch} /\ UNCHANGED <<events, shown>>
    BY <1>2 DEF StartSearch, Unfinished
  <2>2. /\ NewSearch.search.id = started + 1 /\ started \in Nat
        /\ \/ current' = 0 /\ started' = started /\ workers' \subseteq workers
           \/ current' = started + 1 /\ started' = started + 1
    BY <1>0, <1>2 DEF StartSearch, NewSearch, CoordinatorType, Unfinished
  <2> QED
    BY <2>1, <2>2 DEF IdInv, Posted
<1>3. CASE HandleEvent
  <2>1. UNCHANGED <<workers, current, started>> /\ Posted = Posted' \cup {Head(events)}
    BY <1>3, Events
  <2>2. shown' = shown \/ (Head(events).kind = "results" /\ shown' = Head(events).search)
    BY <1>3, Events DEF Deliver
  <2> QED
    BY <1>0, <2>1, <2>2 DEF IdInv, CoordinatorType
<1>4. ASSUME NEW w \in workers, Worker(w) PROVE IdInv'
  <2>1. w \in Threads
    BY <1>0 DEF CoordinatorType
  <2>2. UNCHANGED <<current, started, shown>>
    BY <1>4 DEF Worker, ReadPool, CheckToken, PostResults
  <2>3. \E v : workers' = (workers \ {w}) \cup {v} /\ v.search.id = w.search.id
    <3>1. CASE ReadPool(w)
      <4> DEFINE v == [w EXCEPT !.stage = "checking", !.search.version = version]
      <4>1. v.search.id = w.search.id
        BY <2>1 DEF Threads, Searches
      <4>2. workers' = (workers \ {w}) \cup {v}
        BY <3>1 DEF ReadPool, Become
      <4> HIDE DEF v
      <4> QED
        BY <4>1, <4>2
    <3>2. CASE CheckToken(w) \/ PostResults(w)
      <4>1. PICK stage : workers' = (workers \ {w}) \cup {[w EXCEPT !.stage = stage]}
        BY <3>2 DEF CheckToken, PostResults, Become
      <4>2. [w EXCEPT !.stage = stage].search.id = w.search.id
        BY <2>1 DEF Threads
      <4> QED
        BY <4>1, <4>2
    <3> QED
      BY <1>4, <3>1, <3>2 DEF Worker
  <2>4. \A e \in Posted' : e \in Posted \/ e.search = w.search
    <3>1. CASE events' = events
      BY <3>1 DEF Posted
    <3>2. CASE events' = Append(events, [kind |-> "results", search |-> w.search])
      <4>1. [kind |-> "results", search |-> w.search] \in Posts
        BY <2>1 DEF Threads, Posts
      <4> QED
        BY <1>0, <3>2, <4>1, PostedMore
    <3> QED
      BY <1>4, <3>1, <3>2 DEF Worker, ReadPool, CheckToken, PostResults
  <2> QED
    BY <2>2, <2>3, <2>4, IdAside
<1>5. ASSUME NEW kind \in Changes, ReportChange(kind) PROVE IdInv'
  <2>1. Posted' = Posted \cup {[kind |-> kind, search |-> NoResults]}
    BY <1>0, <1>5, NoResultsType, PostedMore DEF ReportChange, Posts
  <2>2. UNCHANGED <<current, started, shown, workers>> /\ kind # "results"
    BY <1>5 DEF ReportChange, Changes
  <2> QED
    BY <2>1, <2>2, IdAside
<1> QED
  BY <1>1, <1>2, <1>3, <1>4, <1>5 DEF Next, User, Gui, Closed

-----------------------------------------------------------------------------
(* The text in the box is asked for.                                       *)

LEMMA TextInit == Init => TextInv
  BY DEF Init, TextInv

LEMMA TextStep == TypeOK /\ TextInv /\ [Next]_vars => TextInv'
<1> SUFFICES ASSUME TypeOK, TextInv, [Next]_vars PROVE TextInv'
  OBVIOUS
<1> USE DEF edit, coordinator, store, results, counters, notUser, notCoordinator, notEvents,
            notWorkers, notStore, SetQuery, KeepQuery
<1>1. CASE UNCHANGED vars \/ SelectRow \/ StartSearch \/ Close \/ JoinWorkers
           \/ (\E w \in workers : Worker(w))
           \/ (\E kind \in Changes : ChangeIndex(kind) \/ ReportChange(kind))
  <2>1. UNCHANGED <<text, editTimer, pendingQuery>> /\ UNCHANGED shown
    BY <1>1 DEF vars, SelectRow, StartSearch, Close, JoinWorkers, Worker, ReadPool, CheckToken,
                PostResults, ChangeIndex, ReportChange
  <2> QED
    BY <2>1 DEF TextInv
<1>2. ASSUME NEW new \in Queries \cup {None}, TextChanged(new) PROVE TextInv'
  BY <1>2 DEF TextChanged, TextInv
<1>3. CASE EditTimeout \/ ToggleOption
  BY <1>3 DEF EditTimeout, ToggleOption, TextInv
<1>4. CASE HandleEvent
  <2>1. UNCHANGED <<text, editTimer>>
    BY <1>4, Events
  <2>2. (text = None => shown' = shown) /\ pendingQuery' \in {pendingQuery, text}
    BY <1>4, Events DEF Deliver, RefreshVisibleResults
  <2> QED
    BY <2>1, <2>2 DEF TextInv
<1>5. CASE LiveRefreshTimeout
  BY <1>5 DEF LiveRefreshTimeout, RefreshVisibleResults, TextInv
<1> QED
  BY <1>1, <1>2, <1>3, <1>4, <1>5 DEF Next, User, Gui, Closed

-----------------------------------------------------------------------------
(* It is searched for, and what is found is shown and kept up to date.     *)

LEMMA AskedInit == Init => AskedInv
  BY DEF Init, AskedInv, Asked

\* What is posted may go, unless it is the results of the newest search, and
\* what is not results may come: nothing else has changed, or a refresh comes.
LEMMA AskedAside ==
    ASSUME AskedInv, Asked' => Asked, UNCHANGED <<text, options, current, workers, shown>>,
           RefreshComing' \/ (UNCHANGED version /\ ~RefreshComing),
           \A e \in Posted' : e.kind = "results" => e \in Posted,
           \A e \in Posted : e.kind = "results" /\ e.search.id = current => e \in Posted'
    PROVE  AskedInv'
<1> SUFFICES ASSUME Asked' PROVE (current # 0 /\ UnderWay /\ AllFit /\ AllFresh)'
  BY DEF AskedInv
<1>1. current # 0 /\ UnderWay /\ AllFit /\ AllFresh
  BY DEF AskedInv
<1>2. \A search : (Fits(search) => Fits(search)') /\ (Fresh(search) => Fresh(search)')
  BY DEF Fits, Fresh
<1>3. UnderWay'
  BY <1>1 DEF UnderWay
<1>4. AllFit'
  BY <1>1, <1>2 DEF AllFit
<1>5. AllFresh'
  BY <1>1, <1>2 DEF AllFresh
<1> QED
  BY <1>1, <1>3, <1>4, <1>5

LEMMA AskedStep == TypeOK /\ IdInv /\ TextInv /\ AskedInv /\ [Next]_vars => AskedInv'
<1> SUFFICES ASSUME TypeOK, IdInv, TextInv, AskedInv, [Next]_vars PROVE AskedInv'
  OBVIOUS
<1> USE DEF edit, coordinator, store, results, counters, notUser, notCoordinator, notEvents,
            notWorkers, notStore
<1>0. EditType /\ CoordinatorType /\ ResultsType /\ events \in Seq(Posts)
  BY DEF TypeOK
<1>1. CASE UNCHANGED vars \/ SelectRow
  <2>1. /\ UNCHANGED <<edit, options, debounceTimer, current, workers, store, events, liveRefreshTimer,
                       shown, window>>
    BY <1>1 DEF vars, SelectRow, KeepQuery
  <2> QED
    BY <2>1, AskedAside DEF Asked, Open, Posted, RefreshComing
<1>2. CASE EditTimeout \/ (\E new \in Queries \cup {None} : TextChanged(new)) \/ Close \/ JoinWorkers
  BY <1>2 DEF EditTimeout, TextChanged, Close, JoinWorkers, SetQuery, AskedInv, Asked, Open
<1>3. CASE ToggleOption \/ LiveRefreshTimeout
  BY <1>3 DEF ToggleOption, LiveRefreshTimeout, RefreshVisibleResults, SetQuery, AskedInv, Asked
<1>4. CASE StartSearch
  <2> SUFFICES ASSUME Asked' PROVE (current # 0 /\ UnderWay /\ AllFit /\ AllFresh)'
    BY DEF AskedInv
  <2>1. /\ UNCHANGED <<text, options, editTimer, events, shown, version>>
        /\ text # None /\ ~editTimer /\ pendingQuery = text
    BY <1>4 DEF StartSearch, Asked, TextInv
  <2>2. /\ current' = started + 1 /\ started \in Nat
        /\ workers' = Unfinished \cup {NewSearch} /\ Unfinished \subseteq workers
    BY <1>0, <1>4, <2>1 DEF StartSearch, Unfinished, CoordinatorType
  <2>3. /\ NewSearch.search.id = current' /\ NewSearch.stage = "waiting"
        /\ NewSearch.search.query = text /\ NewSearch.search.options = options
    BY <2>1, <2>2 DEF NewSearch
  <2>4. /\ \A w \in Unfinished : w.search.id # current'
        /\ \A e \in Posted : e.kind = "results" => e.search.id # current'
        /\ shown.id # current'
    BY <2>2 DEF IdInv
  <2>5. UnderWay'
    BY <2>2, <2>3 DEF UnderWay
  <2>6. AllFit'
    BY <2>1, <2>2, <2>3, <2>4 DEF AllFit, Fits, Posted
  <2>7. AllFresh'
    BY <2>1, <2>2, <2>3, <2>4 DEF AllFresh, Fresh, Posted
  <2> QED
    BY <2>2, <2>5, <2>6, <2>7
<1>5. CASE HandleEvent
  <2> DEFINE e == Head(events)
  <2>1. /\ UNCHANGED <<text, editTimer, options, current, workers, version, unreported, window>>
        /\ Posted = Posted' \cup {e}
    BY <1>5, Events
  <2>2. CASE e.kind = "results" /\ e.search.id # current
    <3>1. UNCHANGED <<shown, debounceTimer, liveRefreshTimer>>
      BY <1>5, <2>2, Events DEF Deliver, KeepQuery
    <3> QED
      BY <2>1, <2>2, <3>1, AskedAside DEF Asked, Open, RefreshComing
  <2>3. CASE e.kind = "results" /\ e.search.id = current
    <3> SUFFICES ASSUME Asked' PROVE (current # 0 /\ UnderWay /\ AllFit /\ AllFresh)'
      BY DEF AskedInv
    <3>1. UNCHANGED <<debounceTimer, liveRefreshTimer>>
      BY <1>5, <2>3, Events DEF KeepQuery
    <3>2. Asked /\ text # None
      BY <2>1, <3>1 DEF Asked, Open
    <3>3. shown' = e.search
      BY <1>5, <2>3, <3>2, Events DEF Deliver
    <3>4. current # 0 /\ UnderWay /\ AllFit /\ AllFresh
      BY <3>2 DEF AskedInv
    <3>5. RefreshComing' = RefreshComing
      BY <2>1, <2>3, <3>1 DEF RefreshComing
    <3>6. \A search : (Fits(search) => Fits(search)') /\ (Fresh(search) => Fresh(search)')
      BY <2>1, <3>5 DEF Fits, Fresh
    <3>7. UnderWay'
      BY <2>1, <2>3, <3>3 DEF UnderWay
    <3>8. AllFit'
      BY <2>1, <2>3, <3>3, <3>4, <3>6 DEF AllFit
    <3>9. AllFresh'
      BY <2>1, <2>3, <3>3, <3>4, <3>6 DEF AllFresh
    <3> QED
      BY <2>1, <3>4, <3>7, <3>8, <3>9
  <2>4. CASE e.kind = "changed"
    <3>1. text # None => debounceTimer' = TRUE
      BY <1>5, <2>4, Events DEF RefreshVisibleResults, SetQuery
    <3> QED
      BY <2>1, <3>1 DEF AskedInv, Asked
  <2>5. CASE e.kind = "live"
    <3>1. liveRefreshTimer' = TRUE /\ UNCHANGED <<shown, debounceTimer>>
      BY <1>5, <2>5, Events DEF KeepQuery
    <3> QED
      BY <2>1, <2>5, <3>1, AskedAside DEF Asked, Open, RefreshComing
  <2> QED
    BY <1>5, <2>2, <2>3, <2>4, <2>5, Events
<1>6. ASSUME NEW w \in workers, Worker(w) PROVE AskedInv'
  <2> SUFFICES ASSUME Asked' PROVE (current # 0 /\ UnderWay /\ AllFit /\ AllFresh)'
    BY DEF AskedInv
  <2>1. /\ UNCHANGED <<text, options, current, shown, version, unreported, liveRefreshTimer, editTimer,
                       debounceTimer, window>>
    BY <1>6 DEF Worker, ReadPool, CheckToken, PostResults
  <2>2. current # 0 /\ UnderWay /\ AllFit /\ AllFresh /\ w \in Threads
    BY <1>0, <2>1 DEF AskedInv, Asked, Open, CoordinatorType
  <2>3. CASE ~PostResults(w)
    <3>1. \E v : /\ workers' = (workers \ {w}) \cup {v}
                 /\ v.search.id = w.search.id /\ v.search.query = w.search.query
                 /\ v.search.options = w.search.options
                 /\ v.search.version = version \/ (w.stage # "waiting" /\ v.search.version = w.search.version)
                 /\ v.search.id = current => v.stage # "done"
      <4>1. CASE ReadPool(w)
        <5> DEFINE v == [w EXCEPT !.stage = "checking", !.search.version = version]
        <5>1. /\ v.search.id = w.search.id /\ v.search.query = w.search.query
              /\ v.search.options = w.search.options /\ v.search.version = version
              /\ v.stage = "checking"
          BY <2>2 DEF Threads, Searches
        <5>2. workers' = (workers \ {w}) \cup {v}
          BY <4>1 DEF ReadPool, Become
        <5> HIDE DEF v
        <5> QED
          BY <5>1, <5>2
      <4>2. CASE CheckToken(w)
        <5> DEFINE stage == IF w.search.id = current THEN "posting" ELSE "done"
                   v == [w EXCEPT !.stage = stage]
        <5>1. v.search = w.search /\ v.stage = stage /\ w.stage = "checking"
          BY <2>2, <4>2 DEF Threads, CheckToken
        <5>2. workers' = (workers \ {w}) \cup {v}
          BY <4>2 DEF CheckToken, Become
        <5> HIDE DEF v
        <5> QED
          BY <5>1, <5>2
      <4> QED
        BY <1>6, <2>3, <4>1, <4>2 DEF Worker
    <3>2. PICK v : /\ workers' = (workers \ {w}) \cup {v}
                   /\ v.search.id = w.search.id /\ v.search.query = w.search.query
                   /\ v.search.options = w.search.options
                   /\ v.search.version = version \/ (w.stage # "waiting" /\ v.search.version = w.search.version)
                   /\ v.search.id = current => v.stage # "done"
      BY <3>1
    <3>3. Posted' = Posted /\ RefreshComing' = RefreshComing
      BY <1>6, <2>1, <2>3 DEF Worker, ReadPool, CheckToken, Posted, RefreshComing
    <3>4. \A search : (Fits(search) => Fits(search)') /\ (Fresh(search) => Fresh(search)')
      BY <2>1, <3>3 DEF Fits, Fresh
    <3>5. UnderWay'
      BY <2>1, <2>2, <3>2, <3>3 DEF UnderWay
    <3>6. Fits(v.search) /\ Fresh(v.search)
      BY <2>2, <3>2 DEF AllFit, AllFresh, Fits, Fresh
    <3>7. AllFit'
      BY <2>1, <2>2, <3>2, <3>3, <3>4, <3>6 DEF AllFit
    <3>8. AllFresh'
      BY <2>1, <2>2, <3>2, <3>3, <3>4, <3>6 DEF AllFresh
    <3> QED
      BY <2>1, <2>2, <3>5, <3>7, <3>8
  <2>4. CASE PostResults(w)
    <3> DEFINE v == [w EXCEPT !.stage = "done"]
               e == [kind |-> "results", search |-> w.search]
    <3>1. v.search = w.search /\ w.stage = "posting" /\ workers' = (workers \ {w}) \cup {v}
      BY <2>2, <2>4 DEF Threads, PostResults, Become
    <3>2. e \in Posts /\ e.kind = "results" /\ e.search = w.search
      BY <2>2 DEF Threads, Posts
    <3>3. Posted' = Posted \cup {e}
      BY <1>0, <2>4, <3>2, PostedMore DEF PostResults
    <3> HIDE DEF v, e
    <3>4. RefreshComing' = RefreshComing
      BY <2>1, <3>2, <3>3 DEF RefreshComing
    <3>5. \A search : (Fits(search) => Fits(search)') /\ (Fresh(search) => Fresh(search)')
      BY <2>1, <3>4 DEF Fits, Fresh
    <3>6. UnderWay'
      BY <2>1, <2>2, <3>1, <3>2, <3>3 DEF UnderWay
    <3>7. Fits(w.search) /\ Fresh(w.search)
      BY <2>2, <3>1 DEF AllFit, AllFresh
    <3>8. AllFit'
      BY <2>1, <2>2, <3>1, <3>2, <3>3, <3>5, <3>7 DEF AllFit
    <3>9. AllFresh'
      BY <2>1, <2>2, <3>1, <3>2, <3>3, <3>5, <3>7 DEF AllFresh
    <3> QED
      BY <2>1, <2>2, <3>6, <3>8, <3>9
  <2> QED
    BY <2>3, <2>4
<1>7. ASSUME NEW kind \in Changes, ChangeIndex(kind) PROVE AskedInv'
  <2>1. unreported' # {} /\ UNCHANGED <<edit, options, debounceTimer, current, workers, events, shown, window>>
    BY <1>7 DEF ChangeIndex
  <2> QED
    BY <2>1, AskedAside DEF Asked, Open, Posted, RefreshComing
<1>8. ASSUME NEW kind \in Changes, ReportChange(kind) PROVE AskedInv'
  <2> DEFINE e == [kind |-> kind, search |-> NoResults]
  <2>1. Posted' = Posted \cup {e} /\ e.kind # "results"
    BY <1>0, <1>8, NoResultsType, PostedMore DEF ReportChange, Posts, Changes
  <2>2. UNCHANGED <<edit, options, debounceTimer, current, workers, shown, window>>
    BY <1>8 DEF ReportChange
  <2>3. RefreshComing'
    BY <2>1 DEF RefreshComing
  <2> HIDE DEF e
  <2> QED
    BY <2>1, <2>2, <2>3, AskedAside DEF Asked, Open
<1> QED
  BY <1>1, <1>2, <1>3, <1>4, <1>5, <1>6, <1>7, <1>8 DEF Next, User, Gui, Closed

-----------------------------------------------------------------------------
\* The invariant holds throughout.
THEOREM Invariance == Spec => []IInv
<1>1. Init => IInv
  BY TypeInit, IdInit, TextInit, AskedInit DEF IInv
<1>2. IInv /\ [Next]_vars => IInv'
  BY TypeStep, IdStep, TextStep, AskedStep DEF IInv
<1> QED
  BY <1>1, <1>2, PTL DEF Spec

\* When the timers, the search threads and the posted calls of
\* SearchCoordinator and MainWindow have come to rest, the rows on screen are
\* those of the text, under the options, over the index as it is.
THEOREM SettledIsCurrentHolds == Spec => []SettledIsCurrent
<1>1. IInv => SettledIsCurrent
  <2> SUFFICES ASSUME IInv, Open, Settled, text # None
               PROVE  shown.query = text /\ shown.options = options /\ shown.version = version
    BY DEF SettledIsCurrent, IInv, TextInv
  <2>1. UnderWay /\ AllFit /\ AllFresh
    BY DEF IInv, AskedInv, Asked, Settled
  <2>2. Posted = {}
    BY DEF Settled, Posted
  <2>3. shown.id = current /\ ~RefreshComing
    BY <2>1, <2>2 DEF UnderWay, Settled, RefreshComing
  <2> QED
    BY <2>1, <2>3 DEF AllFit, AllFresh, Fits, Fresh
<1> QED
  BY <1>1, Invariance, PTL

\* "a search superseded while its results were in flight never replaces the
\* newer one's" (SearchCoordinator::StartSearch).
THEOREM NeverBackToOlderHolds == Spec => NeverBackToOlder
<1>1. IInv /\ [Next]_vars => [shown'.id >= shown.id \/ shown' = NoResults]_vars
  <2> SUFFICES ASSUME IInv, [Next]_vars, shown' # NoResults PROVE shown'.id >= shown.id
    OBVIOUS
  <2> USE DEF edit, coordinator, store, results, counters, notUser, notCoordinator, notEvents,
              notWorkers, notStore
  <2>1. current \in {0, started} /\ started \in Nat /\ shown.id \in 0..started
    BY DEF IInv, IdInv, TypeOK, CoordinatorType
  <2>2. CASE shown' = shown
    BY <2>1, <2>2
  <2>3. CASE shown' # shown
    <3>1. HandleEvent
      BY <2>3 DEF Next, User, Gui, Closed, vars, EditTimeout, ToggleOption, SelectRow, StartSearch,
             LiveRefreshTimeout, Close, JoinWorkers, TextChanged, Worker, ReadPool, CheckToken,
             PostResults, ChangeIndex, ReportChange
    <3>2. /\ Head(events).kind = "results" /\ Head(events) \in Posted
          /\ shown' = Head(events).search /\ Head(events).search.id = current
      BY <2>3, <3>1, Events DEF IInv, Deliver
    <3>3. current \in 1..started
      BY <3>2 DEF IInv, IdInv
    <3> QED
      BY <2>1, <3>2, <3>3
  <2> QED
    BY <2>2, <2>3
<1> QED
  BY <1>1, Invariance, PTL DEF Spec, NeverBackToOlder
=============================================================================
