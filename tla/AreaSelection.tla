----------------------------- MODULE AreaSelection -----------------------------
(***************************************************************************)
(* The cascading area field of area-kit in a browser: the hook that loads   *)
(* its layers, the component around it, the host that owns its value and    *)
(* the server that answers its queries, in any order and any time later.    *)
(*                                                                          *)
(* React applies dispatched actions in order and shows the result at the    *)
(* next render; handlers read the state of the last render (stateRef) and   *)
(* generations and requests from refs that are always up to date.  An       *)
(* aborted call may still be answered: the client is the host's.            *)
(***************************************************************************)
EXTENDS AreaQuery

CONSTANTS
    None,
    Library,            \* the snapshots: dataset -> code -> row
    HostValues,         \* values the host sets of its own accord
    SearchFinds,        \* codes the one keyword of the model finds
    SwitchesDataset,    \* whether the host may set a value of a dataset not shown
    DisablesOnChange,   \* whether it may answer onChange by disabling the field
    Bounds              \* bounds of a behaviour: the target levels the host asks for, moves of
                        \* user, host and failure, and aborted calls that may be answered still

Editions == DOMAIN Library

ASSUME AreaSelectionConstants ==
    /\ None \notin Editions /\ HostValues \subseteq [dataset : Editions, codes : Seq(STRING)]
    /\ None \notin HostValues
    /\ \A d, e \in Editions : IsTree(Library[d]) /\ SameLevels(Library[d], Library[e])
    /\ {SwitchesDataset, DisablesOnChange} \subseteq BOOLEAN
    /\ Bounds \subseteq [targets : SUBSET (1..5), moves : Nat, stragglers : Nat]

VARIABLES
    edition,    \* the dataset of queries that name none
    hostProps,  \* the props the host passes, and the status it was told last
    hook,       \* the reducer's state, generationRef and the calls in flight
    view,       \* the state of the last render (stateRef.current)
    rendered,   \* the props of the last render (valueRef, valueKeyRef)
    effect,     \* the effect the last render left to run
    microtask,  \* reconcileControlledValue, queued
    panel,      \* the search panel of the component
    budget      \* of the bounds

fieldVars == <<edition, hostProps, hook, view, rendered, effect, microtask, panel, budget>>

-----------------------------------------------------------------------------
(* The reducer.                                                             *)

Layer(parent) ==
    [parent |-> parent, items |-> {}, phase |-> "unloaded", request |-> 0, next |-> NoCursor]

LayersFor(path) == <<Layer(Root)>> \o [i \in DOMAIN path |-> Layer(path[i].code)]

InitialState(props) ==
    [generation |-> 0, dataset |-> None, path |-> <<>>, layers |-> LayersFor(<<>>),
     status |-> None, disabled |-> props.disabled, target |-> props.target,
     value |-> props.value]

\* Mutation: the node chosen before on the same level stays.
PathWithBoth(path, node) ==
    Append(SubSeq(path, 1, Cardinality({i \in DOMAIN path : path[i].level <= node.level})),
           node)

\* The levels of a path go up, so that the filter keeps a beginning of it.
PathWith(path, node) ==
    Append(SubSeq(path, 1, Cardinality({i \in DOMAIN path : path[i].level < node.level})),
           node)

\* Layers above the chosen node stay as they are, loading or not, if their parent does.
LayersAfterChoose(state, path, node) ==
    LET parentAt(i) == IF i = 1 \/ i - 1 >= Len(path) THEN Root ELSE path[i - 1].code
        retained(i) == IF i \in DOMAIN state.layers /\ state.layers[i].parent = parentAt(i)
                       THEN state.layers[i] ELSE Layer(parentAt(i))
    IN Append([i \in 1..node.level |-> retained(i)], Layer(node.code))

\* Mutation: a value the host takes away leaves its path.
DispatchPropsOnly(state, props) ==
    [state EXCEPT !.generation = @ + 1, !.status = None,
                  !.disabled = props.disabled, !.target = props.target, !.value = props.value]

DispatchProps(state, props) ==
    LET emptied == props.value = None /\ state.value # None IN
    [state EXCEPT !.generation = @ + 1, !.status = None,
                  !.disabled = props.disabled, !.target = props.target, !.value = props.value,
                  !.path = IF emptied THEN <<>> ELSE @,
                  !.layers = IF emptied THEN LayersFor(<<>>) ELSE @]

DispatchChoose(state, node) ==
    LET path == PathWith(state.path, node) IN
    [state EXCEPT !.generation = @ + 1, !.path = path, !.status = None,
                  !.layers = LayersAfterChoose(state, path, node)]

DispatchClear(state) ==
    [state EXCEPT !.generation = @ + 1, !.path = <<>>, !.layers = LayersFor(<<>>),
                  !.status = None]

DispatchLifecycle(state, generation) ==
    IF generation = state.generation + 1 THEN [state EXCEPT !.generation = generation]
    ELSE state

DispatchDataset(state, generation, dataset) ==
    IF generation = state.generation THEN [state EXCEPT !.dataset = dataset] ELSE state

DispatchHydrate(state, generation, path) ==
    IF generation = state.generation
    THEN [state EXCEPT !.path = path, !.layers = LayersFor(path), !.status = None]
    ELSE state

\* For each of some layers, the request it now loads by.
DispatchStart(state, generation, requests) ==
    IF generation = state.generation
    THEN [state EXCEPT !.layers =
            [i \in DOMAIN @ |-> IF i \in DOMAIN requests
                               THEN [@[i] EXCEPT !.phase = "loading", !.request = requests[i]]
                               ELSE @[i]]]
    ELSE state

\* The last request of a layer.
Awaited(state, generation, i, request) ==
    /\ generation = state.generation /\ i \in DOMAIN state.layers
    /\ state.layers[i].request = request

\* And for the parent the layer still has.
DispatchLoaded(state, generation, i, request, parent, page) ==
    LET others == {n \in state.layers[i].items : \A p \in page.items : p.code # n.code} IN
    IF Awaited(state, generation, i, request) /\ state.layers[i].parent = parent
    THEN [state EXCEPT !.layers[i].items = page.items \cup others,
                       !.layers[i].phase = "loaded", !.layers[i].next = page.next]
    ELSE state

DispatchFailed(state, generation, i, request) ==
    IF Awaited(state, generation, i, request)
    THEN [state EXCEPT !.layers[i].phase = "error"] ELSE state

DispatchStatus(state, generation, result) ==
    IF generation = state.generation THEN [state EXCEPT !.status = result] ELSE state

-----------------------------------------------------------------------------
(* The calls of the hook.  told is what onStatus last passed to the host.   *)

\* Request numbers are only compared with those in use: any other one is as new as
\* the next of the counter.
Requests(h) ==
    {h.state.layers[i].request : i \in DOMAIN h.state.layers}
        \cup {c.request : c \in h.calls}

\* The n-th number that is not in use.
FreshRequests(h, n) ==
    CHOOSE r \in (1..Cardinality(Requests(h)) + n) \ Requests(h) :
        Cardinality((1..r) \ Requests(h)) = n

FreshRequest(h) == FreshRequests(h, 1)

\* What a call asks for, besides the dataset it is about.
NewCall(kind, generation, request, dataset, asks) ==
    [kind |-> kind, generation |-> generation, request |-> request, dataset |-> dataset,
     asks |-> asks, aborted |-> FALSE]

Abort(calls, gone) ==
    {IF c \in gone THEN [c EXCEPT !.aborted = TRUE] ELSE c : c \in calls}

\* A search that is aborted finds nothing, as one that is answered too late.
AbortAll(h) == [h EXCEPT !.calls = Abort(@, {c \in @ : c.kind # "search"})]

NextGeneration(h) == AbortAll([h EXCEPT !.generation = @ + 1])

\* loadLayer, for each of some layers.
Load(h, parents, dataset, cursor) ==
    LET levels == DOMAIN parents
        requests == [i \in levels |-> FreshRequests(h, Cardinality({j \in levels : j <= i}))]
        call(i) == NewCall("layer", h.generation, requests[i], dataset,
                        [level |-> i, parent |-> parents[i], cursor |-> cursor])
    IN [h EXCEPT !.state = DispatchStart(@, h.generation, requests),
                 !.calls = Abort(@, {c \in @ : c.kind = "layer" /\ c.asks.level \in levels})
                             \cup {call(i) : i \in levels}]

LoadLayer(h, level, parent, dataset, cursor) ==
    Load(h, [i \in {level} |-> parent], dataset, cursor)

\* The parents of the layers along a path.
Parents(path) == [i \in 1..(Len(path) + 1) |-> IF i = 1 THEN Root ELSE path[i - 1].code]

CodesOf(path) == [i \in DOMAIN path |-> path[i].code]

Validate(h, dataset, path) ==
    [h EXCEPT !.calls = Abort(@, {c \in @ : c.kind = "validate"})
        \cup {NewCall("validate", h.generation, 0, dataset,
                   [codes |-> CodesOf(path), target |-> h.state.target])}]

HydrateValue(h, dataset, value) ==
    LET request == FreshRequest(h) IN
    [h EXCEPT !.state = DispatchStart(@, h.generation, [i \in {1} |-> request]),
              !.calls = Abort(@, {c \in @ : c.kind \in {"path", "hit"}})
                \cup {NewCall("path", h.generation, request, dataset,
                           [code |-> Last(value.codes)])}]

Bootstrap(h, value) ==
    LET request == FreshRequest(h) IN
    [h EXCEPT !.state = DispatchStart(@, h.generation, [i \in {1} |-> request]),
              !.calls = Abort(@, {c \in @ : c.kind = "dataset"})
                \cup {NewCall("dataset", h.generation, request,
                           IF value = None THEN None ELSE value.dataset, [value |-> value])}]

\* failRoot: the given path, and an error in the place of the provinces.
FailRoot(h, path) ==
    LET request == FreshRequest(h)
        hydrated == DispatchHydrate(h.state, h.generation, path)
        started == DispatchStart(hydrated, h.generation, [i \in {1} |-> request])
    IN [h EXCEPT !.told = None, !.state = DispatchFailed(started, h.generation, 1, request)]

-----------------------------------------------------------------------------
(* Init, the host and React.                                                *)

NoPanel == [hits |-> {}, search |-> 0]

FieldInit ==
    \E bounds \in Bounds, value \in HostValues \cup {None} : \E target \in bounds.targets :
        LET props == [value |-> value, disabled |-> FALSE, target |-> target] IN
        /\ edition \in Editions
        /\ hostProps = props /\ rendered = props
        /\ hook = [state |-> InitialState(props), generation |-> 0, calls |-> {}, told |-> None]
        /\ view = InitialState(props)
        /\ effect = "mount" /\ microtask = None /\ panel = NoPanel
        /\ budget = bounds

Moves == budget.moves > 0 /\ budget' = [budget EXCEPT !.moves = @ - 1]

\* An aborted call is rejected with AbortError, which changes nothing, or it is a
\* straggler and is answered some time later.
Becomes(h) ==
    \E stragglers \in SUBSET {c \in h.calls : c.aborted} :
        /\ Cardinality(stragglers) <= budget.stragglers
        /\ hook' = [h EXCEPT !.calls = {c \in @ : ~ c.aborted} \cup stragglers]

\* The user and the host act on what is shown: the microtasks have run, and every
\* dispatch and every prop is rendered and its effect has run.
UpToDate == microtask = None /\ rendered = hostProps /\ effect = "none" /\ view = hook.state

Activate(dataset) ==
    /\ Moves /\ edition # dataset /\ edition' = dataset
    /\ UNCHANGED <<hostProps, hook, view, rendered, effect, microtask, panel>>

\* A page or a verdict is shown at once, unless something before it is not: a click
\* between its arrival and its render does what a click before its arrival does.
RenderedAtOnce == view' = IF view = hook.state THEN hook'.state ELSE view

\* searchContext of the component: what a search was made under.
SearchContext(state, props) == <<props.value, state.dataset, state.target, state.disabled>>

\* Effects of a render run before the next render.  A search whose context is gone is
\* closed.
Render ==
    /\ effect = "none"
    /\ view # hook.state \/ rendered # hostProps
    /\ view' = hook.state /\ rendered' = hostProps
    /\ effect' = IF rendered = hostProps THEN "none" ELSE "changed"
    /\ panel' = IF SearchContext(view', hostProps) = SearchContext(view, rendered)
                THEN panel ELSE NoPanel
    /\ UNCHANGED <<edition, hostProps, hook, microtask, budget>>

\* Mutation: the host keeps the status of the props before.
EffectKeepsStatus(props, changed) ==
    LET h == IF changed THEN [NextGeneration(hook) EXCEPT !.state = DispatchProps(@, props)]
             ELSE hook
    IN IF props.disabled THEN h ELSE Bootstrap(h, props.value)

\* The effect of the hook: a change of its props begins a new generation.
EffectOf(props, changed) ==
    LET h == IF changed THEN [NextGeneration(hook) EXCEPT
                                !.state = DispatchProps(@, props), !.told = None]
             ELSE hook
    IN IF props.disabled THEN h ELSE Bootstrap(h, props.value)

RunEffect ==
    /\ effect # "none" /\ effect' = "none"
    /\ Becomes(EffectOf(rendered, effect = "changed"))
    /\ UNCHANGED <<edition, hostProps, view, rendered, microtask, panel, budget>>

\* The host changes its props in an event of the user, whose render and effects React
\* flushes at its end.
HostChanges(props) ==
    /\ Moves /\ UpToDate /\ props # hostProps
    /\ ~ SwitchesDataset /\ props.value \notin {hostProps.value, None}
          => props.value.dataset = view.dataset
    /\ hostProps' = props /\ rendered' = props
    /\ Becomes(EffectOf(props, TRUE))
    /\ panel' = IF SearchContext(view, props) = SearchContext(view, rendered)
                THEN panel ELSE NoPanel
    /\ UNCHANGED <<edition, view, effect, microtask>>

\* What the host does with a value it is offered.
Replies == {"adopt", "decline"} \cup IF DisablesOnChange THEN {"disable"} ELSE {}

OnChange(value) ==
    \E reply \in Replies :
        hostProps' = [hostProps EXCEPT !.value = IF reply = "adopt" THEN value ELSE @,
                             !.disabled = @ \/ reply = "disable"]

AsValue(dataset, path) == [dataset |-> dataset, codes |-> CodesOf(path)]

Reconciliation(h) == [generation |-> h.generation, value |-> rendered.value]

\* reconcileControlledValue: shows the value the host holds, unless something newer
\* has begun or the host has answered.
RunMicrotask ==
    /\ microtask # None /\ microtask' = None
    /\ LET stale == microtask.generation # hook.generation \/ microtask.value # rendered.value
           next == NextGeneration(hook)
           h == [next EXCEPT !.state = DispatchLifecycle(@, next.generation), !.told = None]
       IN Becomes(IF stale THEN hook
                  ELSE IF view.dataset = None THEN Bootstrap(h, rendered.value)
                  ELSE IF rendered.value = None
                  THEN LoadLayer([h EXCEPT !.state = DispatchHydrate(@, h.generation, <<>>)],
                                 1, Root, view.dataset, NoCursor)
                  ELSE HydrateValue(h, view.dataset, rendered.value))
    /\ UNCHANGED <<edition, hostProps, view, rendered, effect, panel, budget>>

-----------------------------------------------------------------------------
(* The user.  Controls show the last render.                                *)

SelectedAt(level) == {n \in ToSet(view.path) : n.level = level}

\* The select of a level: not while it loads, and not below a region that is off.
Choose(level, node) ==
    /\ Moves /\ UpToDate /\ ~ view.disabled /\ view.dataset # None
    /\ level \in DOMAIN view.layers /\ level <= view.target
    /\ view.layers[level].phase # "loading"
    /\ node \in view.layers[level].items \ SelectedAt(level) /\ node.navigable
    /\ \A n \in SelectedAt(level) : n.navigable
    /\ LET path == PathWith(view.path, node)
           chosen == [NextGeneration(hook) EXCEPT !.state = DispatchChoose(@, node),
                                                  !.told = None]
       IN /\ Becomes(LoadLayer(Validate(chosen, view.dataset, path),
                               node.level + 1, node.code, view.dataset, NoCursor))
          /\ OnChange(AsValue(view.dataset, path))
          /\ microtask' = Reconciliation(chosen)
    /\ UNCHANGED <<edition, view, rendered, effect, panel>>

Clear ==
    /\ Moves /\ UpToDate /\ ~ view.disabled /\ view.path # <<>>
    /\ LET h == [NextGeneration(hook) EXCEPT !.state = DispatchClear(@), !.told = None] IN
       /\ Becomes(h) /\ microtask' = Reconciliation(h)
    /\ OnChange(None)
    /\ UNCHANGED <<edition, view, rendered, effect, panel>>

LoadMore(level) ==
    /\ Moves /\ UpToDate /\ ~ view.disabled /\ view.dataset # None
    /\ level \in DOMAIN view.layers /\ level <= view.target
    /\ LET current == view.layers[level] IN
       /\ current.phase # "loading" /\ current.next # NoCursor
       /\ Becomes(LoadLayer(hook, level, current.parent, view.dataset, current.next))
    /\ UNCHANGED <<edition, hostProps, view, rendered, effect, microtask, panel>>

RetryLayer(level) ==
    /\ Moves /\ UpToDate /\ ~ view.disabled
    /\ level \in DOMAIN view.layers /\ level <= view.target
    /\ LET current == view.layers[level] IN
       /\ current.phase = "error"
       /\ Becomes(IF view.dataset = None THEN Bootstrap(hook, rendered.value)
                  ELSE IF level = 1 /\ rendered.value # None
                  THEN HydrateValue(hook, view.dataset, rendered.value)
                  ELSE LoadLayer(hook, level, current.parent, view.dataset, current.next))
    /\ UNCHANGED <<edition, hostProps, view, rendered, effect, microtask, panel>>

Search ==
    /\ Moves /\ UpToDate /\ ~ view.disabled /\ view.dataset # None
    /\ LET request == FreshRequest(hook) IN
       /\ panel' = [panel EXCEPT !.search = request]
       /\ Becomes([hook EXCEPT !.calls =
            Abort(@, {c \in @ : c.kind = "search"})
              \cup {NewCall("search", hook.generation, request, view.dataset,
                         [context |-> SearchContext(view, rendered)])}])
    /\ UNCHANGED <<edition, hostProps, view, rendered, effect, microtask>>

CloseSearch ==
    /\ panel # NoPanel /\ panel' = NoPanel
    /\ UNCHANGED <<edition, hostProps, hook, view, rendered, effect, microtask, budget>>

\* A hit of a search made under another context only says so.
PickHit(hit) ==
    /\ Moves /\ UpToDate /\ ~ view.disabled /\ hit \in panel.hits
    /\ panel' = NoPanel
    /\ IF hit.context = SearchContext(view, rendered) /\ view.dataset # None
       THEN LET h == NextGeneration(hook) IN
            Becomes([h EXCEPT !.state = DispatchClear(@), !.told = None,
                              !.calls = @ \cup {NewCall("hit", h.generation, 0, view.dataset,
                                                     [code |-> hit.code, back |-> view.path])}])
       ELSE UNCHANGED hook
    /\ UNCHANGED <<edition, hostProps, view, rendered, effect, microtask>>

-----------------------------------------------------------------------------
(* Answers.                                                                 *)

Current(call) == call.generation = hook.generation

Finished(call) == [hook EXCEPT !.calls = @ \ {call}]

\* Whatever ends a call of an older generation changes nothing but the calls.
Ignore(call) ==
    /\ ~ Current(call) /\ call.kind # "search"
    /\ Becomes(Finished(call))
    /\ UNCHANGED <<edition, hostProps, view, rendered, effect, microtask, panel, budget>>

AnswerDataset(call) ==
    /\ call.kind = "dataset" /\ Current(call)
    /\ LET dataset == IF call.dataset = None THEN edition ELSE call.dataset
           h == [Finished(call) EXCEPT
                   !.state = DispatchDataset(@, call.generation, dataset)]
       IN Becomes(IF call.asks.value = None THEN LoadLayer(h, 1, Root, dataset, NoCursor)
                  ELSE HydrateValue(h, dataset, call.asks.value))
    /\ UNCHANGED <<edition, hostProps, view, rendered, effect, microtask, panel, budget>>

Known(call) == call.asks.code \in DOMAIN Library[call.dataset]

NodesTo(dataset, code) ==
    LET codes == PathTo(Library[dataset], code) IN
    [i \in DOMAIN codes |-> Summary(Library[dataset], codes[i])]

\* The path found, its verdict asked for and every layer along it loading.
Hydrated(h, dataset, path) ==
    Load(Validate([h EXCEPT !.state = DispatchHydrate(@, h.generation, path)], dataset, path),
         Parents(path), dataset, NoCursor)

AnswerPath(call) ==
    /\ call.kind = "path" /\ Current(call)
    /\ Becomes(IF Known(call)
               THEN Hydrated(Finished(call), call.dataset,
                             NodesTo(call.dataset, call.asks.code))
               ELSE FailRoot(Finished(call), <<>>))
    /\ UNCHANGED <<edition, hostProps, view, rendered, effect, microtask, panel, budget>>

\* The rest of selectSearchHit.
AnswerHit(call) ==
    /\ call.kind = "hit" /\ Current(call) /\ Known(call)
    /\ LET path == NodesTo(call.dataset, call.asks.code)
           h == Hydrated([Finished(call) EXCEPT !.told = None], call.dataset, path)
       IN /\ Becomes(h)
          /\ OnChange(AsValue(call.dataset, path))
          /\ microtask' = Reconciliation(h)
    /\ UNCHANGED <<edition, view, rendered, effect, panel, budget>>

PageQueried(call) == [parent |-> call.asks.parent]

AnswerLayer(call) ==
    /\ call.kind = "layer" /\ Current(call)
    /\ LET table == Library[call.dataset]
           asks == call.asks
           served == /\ asks.parent \in DOMAIN table \cup {Root}
                     /\ CursorFits(asks.cursor, call.dataset, PageQueried(call))
           page == PageOf(table, call.dataset, PageQueried(call),
                          ChildrenOf(table, asks.parent), asks.cursor)
       IN Becomes([Finished(call) EXCEPT !.state =
                     IF served
                     THEN DispatchLoaded(@, call.generation, asks.level, call.request,
                                         asks.parent, page)
                     ELSE DispatchFailed(@, call.generation, asks.level, call.request)])
    /\ RenderedAtOnce
    /\ UNCHANGED <<edition, hostProps, rendered, effect, microtask, panel, budget>>

AnswerValidate(call) ==
    /\ call.kind = "validate" /\ Current(call)
    /\ LET reason == Verdict(Library[call.dataset], call.asks.codes, call.asks.target)
           result == [dataset |-> call.dataset, codes |-> call.asks.codes,
                      target |-> call.asks.target,
                      reason |-> reason, accepted |-> reason \in Accepting]
       IN Becomes([Finished(call) EXCEPT !.told = result,
                     !.state = DispatchStatus(@, call.generation, result)])
    /\ RenderedAtOnce
    /\ UNCHANGED <<edition, hostProps, rendered, effect, microtask, panel, budget>>

\* A search of an older generation or one that was replaced finds nothing.
AnswerSearch(call) ==
    /\ call.kind = "search"
    /\ Becomes(Finished(call))
    /\ panel' = IF panel.search # call.request THEN panel
                ELSE [search |-> 0,
                      hits |-> IF call.asks.context # SearchContext(view, rendered)
                               THEN panel.hits
                               ELSE IF ~ Current(call) THEN {}
                               ELSE {[code |-> c, context |-> call.asks.context] :
                                     c \in SearchFinds \cap DOMAIN Library[call.dataset]}]
    /\ RenderedAtOnce
    /\ UNCHANGED <<edition, hostProps, rendered, effect, microtask, budget>>

\* An error of the transport or of the server.  A search only shows it.
FailField(call) ==
    /\ Moves /\ Current(call) /\ call.kind # "search"
    /\ Becomes(IF call.kind = "hit" THEN FailRoot(Finished(call), call.asks.back)
               ELSE IF call.kind = "layer"
               THEN [Finished(call) EXCEPT !.state =
                        DispatchFailed(@, call.generation, call.asks.level, call.request)]
               ELSE FailRoot(Finished(call), <<>>))
    /\ UNCHANGED <<edition, hostProps, view, rendered, effect, microtask, panel>>

AnswerField(call) ==
    \/ Ignore(call) \/ AnswerDataset(call) \/ AnswerPath(call) \/ AnswerHit(call)
    \/ AnswerLayer(call) \/ AnswerValidate(call) \/ AnswerSearch(call)

-----------------------------------------------------------------------------
HostProps ==
    [value : HostValues \cup {None}, disabled : BOOLEAN, target : budget.targets]

User ==
    \/ \E i \in DOMAIN view.layers : \E n \in view.layers[i].items : Choose(i, n)
    \/ Clear \/ Search \/ CloseSearch
    \/ \E i \in DOMAIN view.layers : LoadMore(i) \/ RetryLayer(i)
    \/ \E hit \in panel.hits : PickHit(hit)

FieldNext ==
    \/ \E d \in Editions : Activate(d)
    \/ \E props \in HostProps : HostChanges(props)
    \/ Render \/ RunEffect \/ RunMicrotask
    \/ User
    \/ \E c \in hook.calls : AnswerField(c) \/ FailField(c)

FieldSpec == FieldInit /\ [][FieldNext]_fieldVars

-----------------------------------------------------------------------------
(* Properties.                                                              *)

\* The reducer numbers its generations as the hook does, so that no dispatch of the
\* current one is lost; its layers hang below the path it shows, and what a layer
\* offers are regions below its parent, whichever page was answered last.
LayersFollowPath ==
    LET state == hook.state IN
    /\ state.generation = hook.generation
    /\ Len(state.layers) = Len(state.path) + 1
    /\ \A i \in DOMAIN state.path :
        /\ state.path[i].level = i
        /\ state.path[i].parent = state.layers[i].parent
        /\ state.path[i].code = state.layers[i + 1].parent
    /\ \A i \in DOMAIN state.layers : \A n \in state.layers[i].items :
        n.level = i /\ n.parent = state.layers[i].parent

\* Nothing of the host waits to be rendered or reconciled.
Still == rendered = hostProps /\ effect = "none" /\ microtask = None

AtRest == Still /\ view = hook.state /\ hook.calls = {} /\ ~ hostProps.disabled

\* When every call has been answered the field shows the value the host holds, or an
\* error at its root, and nothing in it goes on loading.
ShowsHostValue == AtRest =>
    /\ \A i \in DOMAIN view.layers : view.layers[i].phase # "loading"
    /\ \/ view.layers[1].phase = "error"
       \/ IF hostProps.value = None THEN view.path = <<>>
          ELSE view.path # <<>> /\ Last(view.path).code = Last(hostProps.value.codes)

\* README: only submit a value when accepted is true.  The status the host was told
\* last is about the value it holds: the server accepts that value too.
AcceptedIsSelectable == Still /\ hook.told # None /\ hook.told.accepted =>
    /\ hostProps.value # None
    /\ Verdict(Library[hostProps.value.dataset], hostProps.value.codes, hostProps.target)
          \in Accepting

\* What a field that has come to rest tells its user and its host.
FieldInv == ShowsHostValue /\ AcceptedIsSelectable
=============================================================================
