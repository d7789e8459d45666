------------------------------ MODULE ApiQuery -------------------------------
(***************************************************************************)
(* The dashboard's data hook (dashboard/src/hooks/useApiQuery.ts).  A view *)
(* renders with some deps; React runs the hook's effect after the render,  *)
(* cleaning up the one before it.  An effect fetches once and then polls,  *)
(* so several requests of several effects may be unanswered at a time, and *)
(* they settle in any order, each with data or an error.                   *)
(***************************************************************************)
EXTENDS Naturals

CONSTANTS
    Deps,        \* values of deps: a time range, a trace id
    Polling,     \* whether the call site gives pollMs
    MaxEffects,  \* bound: effects run
    MaxPolls     \* bound: polls of one effect

ASSUME ApiQueryAssumption ==
    Polling \in BOOLEAN /\ MaxEffects \in Nat \ {0} /\ MaxPolls \in Nat

NoEffect == 0

VARIABLES
    deps,      \* deps of the last render
    enabled,   \* enabled of the last render
    dirty,     \* the last render changed deps, retryToken or enabled
    mounted,
    effects,   \* effects run so far; the last one is this effect
    live,      \* the effect whose cancelled is still false, if any
    closure,   \* deps its fetchFn was rendered with
    polls,     \* polls made by the last effect
    requests,  \* run() calls waiting for fetchFn
    hasData,   \* hasData.current
    state      \* what the view is given: status, and whose data it is

hookVars == <<deps, enabled, dirty, mounted, effects, live, closure, polls, requests,
          hasData, state>>

viewVars   == <<deps, enabled, dirty, mounted>>
effectVars == <<effects, live, closure, polls>>

Loading == [status |-> "loading"]
Error   == [status |-> "error"]
Success(d) == [status |-> "success", data |-> d]

States == {Loading, Error} \cup {Success(d) : d \in Deps}

Request == [effect : 1..MaxEffects, deps : Deps, nth : 0..MaxPolls]

\* The first request of an effect is run(false), the others are run(true).
IsPoll(r) == r.nth > 0

HookInit ==
    /\ deps \in Deps /\ enabled \in BOOLEAN
    /\ dirty = TRUE /\ mounted = TRUE
    /\ effects = 0 /\ live = NoEffect /\ polls = 0 /\ closure = deps
    /\ requests = {} /\ hasData = FALSE
    /\ state = Loading

-----------------------------------------------------------------------------
(* the view *)

\* The user picks another range or trace, which may leave nothing to fetch.
Rerender ==
    /\ mounted
    /\ \E d \in Deps, e \in BOOLEAN :
         /\ <<d, e>> # <<deps, enabled>>
         /\ deps' = d /\ enabled' = e
    /\ dirty' = TRUE
    /\ UNCHANGED <<mounted, requests, hasData, state>> /\ UNCHANGED effectVars

Refetch ==
    /\ mounted /\ ~dirty
    /\ dirty' = TRUE
    /\ UNCHANGED <<deps, enabled, mounted, requests, hasData, state>>
    /\ UNCHANGED effectVars

Unmount ==
    /\ mounted
    /\ mounted' = FALSE
    /\ live' = NoEffect
    /\ UNCHANGED <<deps, enabled, dirty, effects, closure, polls, requests, hasData, state>>

-----------------------------------------------------------------------------
(* the effect *)

\* An effect that keeps the ref of the one before it.
RunEffectKeepsRef ==
    /\ mounted /\ dirty /\ enabled
    /\ effects < MaxEffects
    /\ dirty' = FALSE
    /\ effects' = effects + 1
    /\ live' = effects + 1
    /\ closure' = deps
    /\ polls' = 0
    /\ state' = Loading
    /\ requests' = requests \cup {[effect |-> effects + 1, deps |-> deps, nth |-> 0]}
    /\ UNCHANGED <<deps, enabled, mounted, hasData>>

\* Cleanup of the last effect, then the new one: it forgets what it had and
\* fetches.
RunEffect ==
    /\ mounted /\ dirty /\ enabled
    /\ effects < MaxEffects
    /\ dirty' = FALSE
    /\ effects' = effects + 1
    /\ live' = effects + 1
    /\ closure' = deps
    /\ polls' = 0
    /\ hasData' = FALSE
    /\ state' = Loading
    /\ requests' = requests \cup {[effect |-> effects + 1, deps |-> deps, nth |-> 0]}
    /\ UNCHANGED <<deps, enabled, mounted>>

\* With enabled false only the cleanup happens.
RunEffectDisabled ==
    /\ mounted /\ dirty /\ ~enabled
    /\ dirty' = FALSE
    /\ live' = NoEffect
    /\ UNCHANGED <<deps, enabled, mounted, effects, closure, polls, requests, hasData, state>>

Poll ==
    /\ Polling /\ live # NoEffect
    /\ polls < MaxPolls
    /\ polls' = polls + 1
    /\ requests' = requests \cup
         {[effect |-> live, deps |-> closure, nth |-> polls + 1]}
    /\ UNCHANGED <<effects, live, closure, hasData, state>>
    /\ UNCHANGED viewVars

\* A run that does not look at cancelled.
SucceedsAnyway(r) ==
    /\ r \in requests
    /\ requests' = requests \ {r}
    /\ hasData' = TRUE /\ state' = Success(r.deps)
    /\ UNCHANGED viewVars /\ UNCHANGED effectVars

\* fetchFn answers: a cancelled run drops the data.
Succeeds(r) ==
    /\ r \in requests
    /\ requests' = requests \ {r}
    /\ IF r.effect = live
       THEN hasData' = TRUE /\ state' = Success(r.deps)
       ELSE UNCHANGED <<hasData, state>>
    /\ UNCHANGED viewVars /\ UNCHANGED effectVars

\* A poll whose failure is shown like any other.
FailsLoudly(r) ==
    /\ r \in requests
    /\ requests' = requests \ {r}
    /\ state' = IF r.effect = live THEN Error ELSE state
    /\ UNCHANGED hasData
    /\ UNCHANGED viewVars /\ UNCHANGED effectVars

\* A failure that is shown only when there is no data, whoever fetched.
FailsQuietly(r) ==
    /\ r \in requests
    /\ requests' = requests \ {r}
    /\ state' = IF r.effect = live /\ ~IsPoll(r) /\ hasData THEN Error ELSE state
    /\ UNCHANGED hasData
    /\ UNCHANGED viewVars /\ UNCHANGED effectVars

\* fetchFn throws: a poll keeps known-good data on the screen.
Fails(r) ==
    /\ r \in requests
    /\ requests' = requests \ {r}
    /\ state' = IF r.effect = live /\ ~(IsPoll(r) /\ hasData) THEN Error ELSE state
    /\ UNCHANGED hasData
    /\ UNCHANGED viewVars /\ UNCHANGED effectVars

-----------------------------------------------------------------------------

Settle == \E r \in requests : Succeeds(r) \/ Fails(r)

HookNext ==
    \/ Rerender \/ Refetch \/ Unmount
    \/ RunEffect \/ RunEffectDisabled \/ Poll
    \/ Settle

HookSpec == HookInit /\ [][HookNext]_hookVars

\* React runs the effects of what it rendered, and every fetch settles.
Fairness == WF_hookVars(RunEffect \/ RunEffectDisabled) /\ WF_hookVars(Settle)

HookFairSpec == HookSpec /\ Fairness

-----------------------------------------------------------------------------
(* Properties *)

HookTypeOK ==
    /\ deps \in Deps /\ closure \in Deps
    /\ enabled \in BOOLEAN /\ dirty \in BOOLEAN /\ mounted \in BOOLEAN
    /\ effects \in 0..MaxEffects
    /\ live \in {NoEffect, effects}
    /\ polls \in 0..MaxPolls
    /\ requests \subseteq Request
    /\ hasData \in BOOLEAN
    /\ state \in States

\* Once the effect of a render has run, the view never shows data that was
\* fetched for another range or trace, however late those answers come
\* (useApiQuery.ts:45-47, 52, 69).
ShowsCurrentDeps ==
    (~dirty /\ enabled /\ state.status = "success") => state.data = deps

\* The ref that decides whether a poll's failure is hidden agrees with the
\* screen: it is never set while nothing has been shown for this effect
\* (useApiQuery.ts:40, 46, 53, 57).
RefMatchesScreen == (live # NoEffect /\ hasData) => state # Loading

\* The view shows what it should, and so does what that rests on: the requests
\* of the last effect were made with its closure, the closure is the rendered
\* deps whenever the effect of the render has run, and shown data are known to
\* the ref (useApiQuery.ts:38-69).
HookInv ==
    /\ HookTypeOK
    /\ \A r \in requests : r.effect <= effects
    /\ \A r \in requests : r.effect = effects => r.deps = closure
    /\ (~dirty /\ enabled) => closure = deps
    /\ ShowsCurrentDeps
    /\ RefMatchesScreen
    /\ state.status = "success" /\ live # NoEffect => hasData

\* Good data gives way to an error only through the first request of its own
\* effect, answered after a poll was; never through a poll, and never through
\* a request of an earlier effect (useApiQuery.ts:18-22, 57).
PollKeepsGoodData ==
    [][(state.status = "success" /\ state'.status = "error") =>
         \E r \in requests \ requests' : r.effect = live /\ ~IsPoll(r)]_hookVars

\* A mounted view with something to fetch does not stay loading, unless it is
\* rendered again first.
LeavesLoading ==
    (mounted /\ live # NoEffect /\ state = Loading)
        ~> (state # Loading \/ dirty \/ ~mounted)

=============================================================================
