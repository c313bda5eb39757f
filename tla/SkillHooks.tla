------------------------------ MODULE SkillHooks ------------------------------
(***************************************************************************)
(* The skill registry and the per-session skill manager (skill/registry.go, *)
(* skill/manager.go), with its dispatcher bound to the hook manager         *)
(* (hook/manager.go): callers register, activate, use, deactivate and clear *)
(* skills concurrently while the hooks are started and stopped.  The        *)
(* manager changes its table under a lock and dispatches afterwards.        *)
(*                                                                         *)
(* One session is modelled: sessions share nothing but the registry.  An    *)
(* event is <<kind, skill>>.                                                *)
(***************************************************************************)
EXTENDS Integers, Sequences, FiniteSets, SequencesExt, FiniteSetsExt

CONSTANTS
    Caller,     \* goroutines that use the skill manager
    Skill,      \* skill names
    Async,      \* the asynchronous hooks, a sequence in order of registration
    ChanCap,    \* the buffer of an asynchronous hook's channel
    NoSkill,    \* a caller not in the middle of an operation on a skill
    MaxOps      \* bound: operations the callers start together

ASSUME HooksAssumption ==
    /\ IsFiniteSet(Caller) /\ IsFiniteSet(Skill)
    /\ ChanCap \in Nat /\ MaxOps \in Nat
    /\ Async \in Seq(Range(Async))
    /\ \A i, j \in 1..Len(Async) : Async[i] = Async[j] => i = j

Hooks == Range(Async)
Kinds == {"activate", "deactivate", "load"}
Event == Kinds \X Skill

VARIABLES
    registered,  \* InMemoryRegistry.skills
    active,      \* InMemoryManager.activations of the session
    op,          \* where each caller is: "idle", "found", "loading", "notify"
    skill,       \* the skill its operation is about
    todo,        \* the events it has still to dispatch
    next,        \* the hook Dispatch is at: 0 for the synchronous one
    ended,       \* callers whose context is done during their call
    cut,         \* a Dispatch has been cut short
    ops,         \* operations started
    audit,       \* how often the synchronous hook has seen each event
    channel,     \* the number of events in the channel of each asynchronous hook
    running,     \* hooks whose consumer goroutine runs
    admin,       \* the goroutine that calls Start, then Stop
    index,       \* the hook it is at
    stopErrs     \* hooks whose Stop returned an error

managerVars == <<registered, active>>
callVars == <<op, skill, todo, next>>
adminVars == <<running, admin, index, stopErrs>>
ctxVars == <<ended, cut>>
vars == <<managerVars, callVars, ctxVars, ops, audit, channel, adminVars>>

\* The skills found at startup are registered (service.go:208).
Init ==
    /\ registered = Skill
    /\ active = <<>>
    /\ op = [c \in Caller |-> "idle"]
    /\ skill = [c \in Caller |-> NoSkill]
    /\ todo = [c \in Caller |-> <<>>] /\ next = [c \in Caller |-> 0]
    /\ ended = {} /\ cut = FALSE /\ ops = 0
    /\ audit = [e \in Event |-> 0]
    /\ channel = [h \in Hooks |-> 0]
    /\ running = {} /\ admin = "down" /\ index = 1 /\ stopErrs = {}

-----------------------------------------------------------------------------
(***************************************************************************)
(* InMemoryRegistry.                                                       *)
(***************************************************************************)

\* A name that is taken, or a definition the validator refuses, changes nothing.
Register(s) == s \notin registered /\ registered' = registered \cup {s}

Unregister(s) == s \in registered /\ registered' = registered \ {s}

ChangeRegistry ==
    /\ ops < MaxOps /\ ops' = ops + 1
    /\ \E s \in Skill : Register(s) \/ Unregister(s)
    /\ UNCHANGED <<active, callVars, ctxVars, audit, channel, adminVars>>

-----------------------------------------------------------------------------
(***************************************************************************)
(* InMemoryManager.                                                        *)
(***************************************************************************)

\* A call begins: the caller picks the skill.
Begin(c) == op[c] = "idle" /\ ops < MaxOps /\ ops' = ops + 1

\* The calls that dispatch: their events wait until the lock is released.
Notify(c, events) ==
    /\ op' = [op EXCEPT ![c] = IF events = <<>> THEN "idle" ELSE "notify"]
    /\ skill' = [skill EXCEPT ![c] = NoSkill]
    /\ todo' = [todo EXCEPT ![c] = events]
    /\ next' = [next EXCEPT ![c] = 0]

Return(c) == Notify(c, <<>>)

\* Activate looks the definition up first; the skill may be unregistered, or
\* activated by another caller, before it takes the manager's lock.
ActivateFinds(c) ==
    /\ Begin(c)
    /\ \E s \in registered :
          /\ skill' = [skill EXCEPT ![c] = s]
          /\ op' = [op EXCEPT ![c] = "found"]
    /\ UNCHANGED <<managerVars, todo, next>>

\* Mutant: the look for a duplicate was made before the lock was taken.
Duplicate_Never(s) == FALSE

Duplicate(s) == s \in Range(active)

ActivateStores(c) ==
    /\ op[c] = "found"
    /\ IF Duplicate(skill[c])
       THEN Return(c) /\ UNCHANGED active
       ELSE /\ active' = Append(active, skill[c])
            /\ Notify(c, <<<<"activate", skill[c]>>>>)
    /\ UNCHANGED <<registered, ops>>

Deactivate(c) ==
    /\ Begin(c)
    /\ \E s \in Range(active) :
          /\ active' = RemoveFirst(active, s)
          /\ Notify(c, <<<<"deactivate", s>>>>)
    /\ UNCHANGED registered

\* The whole list is taken out at once, and one event sent for each entry.
ClearSession(c) ==
    /\ Begin(c)
    /\ active # <<>>
    /\ active' = <<>>
    /\ Notify(c, [i \in 1..Len(active) |-> <<"deactivate", active[i]>>])
    /\ UNCHANGED registered

\* LoadResource finds the activation, reads the file without the lock, and tells
\* about it even if the skill has been deactivated meanwhile.
LoadFinds(c) ==
    /\ Begin(c)
    /\ \E s \in Range(active) :
          /\ skill' = [skill EXCEPT ![c] = s]
          /\ op' = [op EXCEPT ![c] = "loading"]
    /\ UNCHANGED <<managerVars, todo, next>>

LoadReads(c) ==
    /\ op[c] = "loading"
    /\ Return(c) \/ Notify(c, <<<<"load", skill[c]>>>>)
    /\ UNCHANGED <<managerVars, ops>>

\* The calls and what follows in those that have let go of the lock.
Call(c) ==
    /\ ActivateFinds(c) \/ Deactivate(c) \/ ClearSession(c) \/ LoadFinds(c)
    /\ UNCHANGED <<ctxVars, audit, channel, adminVars>>

Continue(c) ==
    /\ ActivateStores(c) \/ LoadReads(c)
    /\ UNCHANGED <<ctxVars, audit, channel, adminVars>>

-----------------------------------------------------------------------------
(***************************************************************************)
(* Manager.Dispatch: the synchronous hook first, whose filter accepts      *)
(* activations and deactivations, then the asynchronous ones, which accept *)
(* everything.  The context is looked at before each hook.                 *)
(***************************************************************************)

Accepts(kind) == kind # "load"

\* To the next hook, or to the next event when this one is through.
Advance(c) ==
    IF next[c] < Len(Async)
    THEN next' = [next EXCEPT ![c] = @ + 1] /\ UNCHANGED <<op, skill, todo>>
    ELSE Notify(c, Tail(todo[c]))

\* Mutant: the send to a full channel waits for its consumer.
SendOrDrop_Waits(h) ==
    /\ channel[h] < ChanCap
    /\ channel' = [channel EXCEPT ![h] = @ + 1]

\* A full channel: the event is dropped.
SendOrDrop(h) == channel' = [channel EXCEPT ![h] = IF @ < ChanCap THEN @ + 1 ELSE @]

Observe(e) == audit' = IF Accepts(e[1]) THEN [audit EXCEPT ![e] = @ + 1] ELSE audit

CallHook(c) ==
    /\ c \notin ended
    /\ IF next[c] = 0
       THEN Observe(Head(todo[c])) /\ UNCHANGED channel
       ELSE SendOrDrop(Async[next[c]]) /\ UNCHANGED audit
    /\ Advance(c)
    /\ UNCHANGED ctxVars

\* The context is done: the other hooks are not told of this event, nor any of
\* the events that follow.
CutShort(c) ==
    /\ c \in ended
    /\ Return(c)
    /\ cut' = TRUE /\ ended' = ended \ {c}
    /\ UNCHANGED <<audit, channel>>

Dispatch(c) ==
    /\ op[c] = "notify"
    /\ CallHook(c) \/ CutShort(c)
    /\ UNCHANGED <<managerVars, ops, adminVars>>

CallerEnds(c) ==
    /\ op[c] = "notify" /\ c \notin ended
    /\ ended' = ended \cup {c}
    /\ UNCHANGED <<managerVars, callVars, cut, ops, audit, channel, adminVars>>

\* The goroutine of an asynchronous hook takes an event.
Consume(h) ==
    /\ h \in running /\ channel[h] > 0
    /\ channel' = [channel EXCEPT ![h] = @ - 1]
    /\ UNCHANGED <<managerVars, callVars, ctxVars, ops, audit, adminVars>>

-----------------------------------------------------------------------------
(***************************************************************************)
(* Manager.Start and Manager.Stop, called one after the other.             *)
(***************************************************************************)

StartBegins == admin = "down" /\ admin' = "starting" /\ UNCHANGED <<running, index, stopErrs>>

StartHook ==
    /\ admin = "starting" /\ index <= Len(Async)
    /\ running' = running \cup {Async[index]}
    /\ index' = index + 1
    /\ UNCHANGED <<admin, stopErrs>>

\* Mutant: the rollback begins one hook too low.
RollbackFrom_OffByOne == IF index > 1 THEN index - 2 ELSE 0

RollbackFrom == index - 1

\* A hook that fails to start: the ones before it are stopped in reverse order.
StartFails ==
    /\ admin = "starting" /\ index <= Len(Async)
    /\ admin' = "rollback"
    /\ index' = RollbackFrom
    /\ UNCHANGED <<running, stopErrs>>

StopHook(h) ==
    \/ running' = running \ {h} /\ UNCHANGED stopErrs
    \/ stopErrs' = stopErrs \cup {h} /\ UNCHANGED running

RollbackHook ==
    /\ admin = "rollback" /\ index > 0
    /\ StopHook(Async[index])
    /\ index' = index - 1
    /\ UNCHANGED admin

StartReturns ==
    /\ \/ admin = "starting" /\ index > Len(Async) /\ admin' = "up"
       \/ admin = "rollback" /\ index = 0 /\ admin' = "failed"
    /\ UNCHANGED <<running, index, stopErrs>>

StopBegins == admin = "up" /\ admin' = "stopping" /\ index' = 1 /\ UNCHANGED <<running, stopErrs>>

\* An error is kept, and the next hook stopped all the same.
StopNext ==
    /\ admin = "stopping" /\ index <= Len(Async)
    /\ StopHook(Async[index])
    /\ index' = index + 1
    /\ UNCHANGED admin

StopReturns ==
    /\ admin = "stopping" /\ index > Len(Async)
    /\ admin' = "stopped"
    /\ UNCHANGED <<running, index, stopErrs>>

Administer ==
    /\ \/ StartBegins \/ StartHook \/ StartFails \/ RollbackHook \/ StartReturns
       \/ StopBegins \/ StopNext \/ StopReturns
    /\ UNCHANGED <<managerVars, callVars, ctxVars, ops, audit, channel>>

Next ==
    \/ ChangeRegistry \/ Administer
    \/ \E c \in Caller : Call(c) \/ Continue(c) \/ Dispatch(c) \/ CallerEnds(c)
    \/ \E h \in Hooks : Consume(h)

\* A call that has begun runs on; hooks are not obliged to be started or to
\* consume.
Fairness == \A c \in Caller : WF_vars(Continue(c)) /\ WF_vars(Dispatch(c))

Spec == Init /\ [][Next]_vars /\ Fairness

-----------------------------------------------------------------------------
(***************************************************************************)
(* Properties.                                                             *)
(***************************************************************************)

\* The events each caller has still to tell the synchronous hook of.
Untold == [c \in Caller |-> IF next[c] = 0 THEN todo[c] ELSE Tail(todo[c])]

\* Where e stands in these lists.
Places(lists, e) == UNION {{c} \X {i \in DOMAIN lists[c] : lists[c][i] = e} : c \in Caller}

Told(e) == audit[e] + Cardinality(Places(Untold, e))

\* skill/manager.go:90-132, 151-162: although events are dispatched outside the
\* lock and may arrive in another order than the changes they tell of, none is
\* lost or sent twice: whoever counts them knows, once the calls have returned,
\* which skills are active, and no skill is active twice in a session.  So long as
\* no caller's context has ended during a Dispatch (hook/manager.go:74-94), which
\* then drops the event.
EventsBalance ==
    ~cut => \A s \in Skill :
        Told(<<"activate", s>>) - Told(<<"deactivate", s>>)
            = (IF s \in Range(active) THEN 1 ELSE 0)

\* Inductive parts of EventsBalance.  A list without an element twice.
Once(seq) == \A i, j \in DOMAIN seq : seq[i] = seq[j] => i = j

\* A caller between its step under the lock and its return knows its skill, and
\* has events to dispatch exactly while it notifies.
Calling ==
    /\ active \in Seq(Skill) /\ Once(active) /\ registered \subseteq Skill
    /\ op \in [Caller -> {"idle", "found", "loading", "notify"}]
    /\ skill \in [Caller -> Skill \cup {NoSkill}]
    /\ next \in [Caller -> 0..Len(Async)]
    /\ todo \in [Caller -> Seq(Event)]
    /\ \A c \in Caller : /\ op[c] \in {"found", "loading"} => skill[c] \in Skill
                         /\ (op[c] = "notify") <=> (todo[c] # <<>>)
                         /\ todo[c] = <<>> => next[c] = 0
                         /\ Once(todo[c])

Counted ==
    /\ audit \in [Event -> Nat]
    /\ \A e \in Event : IsFiniteSet(Places(Untold, e))

BalanceInv == Calling /\ Counted /\ EventsBalance

\* hook/manager.go:110-145: when Start has failed, or Stop has returned, the only
\* hooks that may still run are those whose own Stop reported an error.
LifecycleAccounted == admin \in {"failed", "stopped"} => running \subseteq stopErrs

\* hook/manager.go:61-63: an agent or a skill call is never held up by a hook
\* whose channel is full or whose consumer is not running.
OpsReturn == \A c \in Caller : op[c] # "idle" ~> op[c] = "idle"
==============================================================================
