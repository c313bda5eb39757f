---------------------------- MODULE SkillHooksProofs ----------------------------
(***************************************************************************)
(* For every list of hooks, and for errors of any of them: a start that    *)
(* fails and a stop leave no hook running that did not refuse to stop.     *)
(* For any number of callers and skills: the synchronous hook is told of   *)
(* every change of the active skills exactly once.                         *)
(***************************************************************************)
EXTENDS SkillHooks, FiniteSetTheorems, SequenceTheorems, TLAPS

--------------------------------------------------------------------------------
(* Start and Stop.                                                             *)

\* The hooks at the positions i..j of the list.
Between(i, j) == {Async[k] : k \in i..j}

\* Start runs from the first hook up, the rollback from the one that failed down,
\* Stop from the first up: what runs is what has been started and not stopped.
Lifecycle ==
    /\ admin \in {"down", "starting", "rollback", "failed", "up", "stopping", "stopped"}
    /\ index \in 0..(Len(Async) + 1)
    /\ running \subseteq Hooks /\ stopErrs \subseteq Hooks
    /\ admin \in {"down", "starting"} =>
           index > 0 /\ running \subseteq Between(1, index - 1)
    /\ admin = "down" => index = 1
    /\ admin = "rollback" =>
           index <= Len(Async) /\ running \subseteq Between(1, index) \cup stopErrs
    /\ admin = "stopping" =>
           index > 0 /\ running \subseteq Between(index, Len(Async)) \cup stopErrs
    /\ admin \in {"failed", "stopped"} => running \subseteq stopErrs

\* The list and its parts.
LEMMA Positions ==
  /\ Len(Async) \in Nat
  /\ \A k \in 1..Len(Async) : Async[k] \in Hooks
  /\ \A i, j \in Int : \A h \in Between(i, j) : h = Async[i] \/ h \in Between(i + 1, j)
  /\ \A i, j \in Int : \A h \in Between(i, j) : h = Async[j] \/ h \in Between(i, j - 1)
  /\ Hooks \subseteq Between(1, Len(Async))
<1>1. Async \in Seq(Range(Async))
  BY HooksAssumption
<1>2. Len(Async) \in Nat /\ DOMAIN Async = 1..Len(Async)
  BY <1>1
<1>3. Hooks = Between(1, Len(Async))
  BY <1>2 DEF Hooks, Range, Between
<1> QED  BY <1>2, <1>3 DEF Between

\* A hook that stops is no longer running; one that does not has an error.
LEMMA StopLeaves ==
  ASSUME Lifecycle, NEW i \in 1..Len(Async), StopHook(Async[i])
  PROVE  /\ running' \subseteq running /\ stopErrs \subseteq stopErrs'
         /\ stopErrs' \subseteq Hooks
         /\ Async[i] \in running' => Async[i] \in stopErrs'
BY Positions DEF Lifecycle, StopHook

\* Every step of Start and Stop keeps the lifecycle.
LEMMA AdministerKeeps ==
  ASSUME Lifecycle, Administer
  PROVE  Lifecycle'
<1> USE Positions
<1>1. CASE StartBegins \/ StopBegins
  BY <1>1 DEF Lifecycle, StartBegins, StopBegins
<1>2. CASE StartHook
  <2>1. /\ admin = "starting" /\ admin' = "starting" /\ stopErrs' = stopErrs
        /\ index \in 1..Len(Async) /\ index' = index + 1
        /\ running' = running \cup {Async[index]}
    BY <1>2 DEF Lifecycle, StartHook
  <2>2. running' \subseteq Between(1, index)
    BY <2>1 DEF Lifecycle, Between
  <2> QED  BY <2>1, <2>2 DEF Lifecycle
<1>3. CASE StartFails
  BY <1>3 DEF Lifecycle, StartFails, RollbackFrom
<1>4. CASE RollbackHook
  <2>1. /\ admin = "rollback" /\ admin' = "rollback"
        /\ index \in 1..Len(Async) /\ index' = index - 1 /\ StopHook(Async[index])
    BY <1>4 DEF Lifecycle, RollbackHook
  <2>2. running' \subseteq Between(1, index - 1) \cup stopErrs'
    BY <2>1, StopLeaves DEF Lifecycle
  <2> QED  BY <2>1, <2>2, StopLeaves DEF Lifecycle
<1>5. CASE StartReturns
  BY <1>5 DEF Lifecycle, StartReturns, Between
<1>6. CASE StopNext
  <2>1. /\ admin = "stopping" /\ admin' = "stopping"
        /\ index \in 1..Len(Async) /\ index' = index + 1 /\ StopHook(Async[index])
    BY <1>6 DEF Lifecycle, StopNext
  <2>2. running' \subseteq Between(index + 1, Len(Async)) \cup stopErrs'
    BY <2>1, StopLeaves DEF Lifecycle
  <2> QED  BY <2>1, <2>2, StopLeaves DEF Lifecycle
<1>7. CASE StopReturns
  BY <1>7 DEF Lifecycle, StopReturns, Between
<1> QED  BY <1>1, <1>2, <1>3, <1>4, <1>5, <1>6, <1>7 DEF Administer

\* hook/manager.go:110-145, for any number of hooks.
THEOREM HooksStop == Spec => []LifecycleAccounted
<1>1. Init => Lifecycle
  BY Positions DEF Init, Lifecycle
<1>2. ASSUME Lifecycle, [Next]_vars
      PROVE  Lifecycle'
  <2>1. CASE UNCHANGED vars
    BY <1>2, <2>1 DEF vars, adminVars, Lifecycle
  <2>2. ASSUME NEW c \in Caller, Call(c) \/ Continue(c) \/ Dispatch(c) \/ CallerEnds(c)
        PROVE  UNCHANGED adminVars
    BY <2>2 DEF Call, Continue, Dispatch, CallerEnds
  <2>3. ASSUME ChangeRegistry \/ \E h \in Hooks : Consume(h)
        PROVE  UNCHANGED adminVars
    BY <2>3 DEF ChangeRegistry, Consume
  <2>4. CASE UNCHANGED adminVars
    BY <1>2, <2>4 DEF adminVars, Lifecycle
  <2> QED  BY <1>2, <2>1, <2>2, <2>3, <2>4, AdministerKeeps DEF Next
<1>3. Lifecycle => LifecycleAccounted
  BY DEF Lifecycle, LifecycleAccounted
<1> QED  BY <1>1, <1>2, <1>3, PTL DEF Spec

--------------------------------------------------------------------------------
(* The active skills and the events that tell of them.                         *)

\* How often e is in a list without repetitions.
Has(seq, e) == IF \E i \in DOMAIN seq : seq[i] = e THEN 1 ELSE 0

\* A list without its first element: what Dispatch has still to do.
LEMMA TailOnce ==
  ASSUME NEW S, NEW q \in Seq(S), Once(q), q # <<>>
  PROVE  /\ Tail(q) \in Seq(S) /\ Once(Tail(q)) /\ Head(q) \in S
         /\ \A e : Has(q, e) = Has(Tail(q), e) + (IF e = Head(q) THEN 1 ELSE 0)
<1>1. /\ Len(q) \in Nat /\ Len(q) > 0 /\ DOMAIN q = 1..Len(q)
      /\ Head(q) = q[1] /\ \A i \in 1..Len(q) : q[i] \in S
  BY ElementOfSeq, LenProperties, EmptySeq, HeadTailProperties
<1>2. /\ Tail(q) \in Seq(S) /\ Len(Tail(q)) = Len(q) - 1
      /\ DOMAIN Tail(q) = 1..(Len(q) - 1)
      /\ \A i \in 1..(Len(q) - 1) : Tail(q)[i] = q[i + 1]
  BY <1>1, HeadTailProperties, LenProperties
<1>3. Once(Tail(q))
  BY <1>1, <1>2 DEF Once
<1>4. ASSUME NEW e
      PROVE  Has(q, e) = Has(Tail(q), e) + (IF e = Head(q) THEN 1 ELSE 0)
  <2>1. CASE e = Head(q)
    <3>1. \A i \in DOMAIN Tail(q) : Tail(q)[i] # e
      BY <1>1, <1>2, <2>1 DEF Once
    <3>2. 1 \in DOMAIN q /\ q[1] = e
      BY <1>1, <2>1
    <3>3. Has(q, e) = 1 /\ Has(Tail(q), e) = 0
      BY <3>1, <3>2 DEF Has
    <3> QED  BY <2>1, <3>3
  <2>2. CASE e # Head(q)
    <3>1. ASSUME NEW i \in DOMAIN q, q[i] = e
          PROVE  i - 1 \in DOMAIN Tail(q) /\ Tail(q)[i - 1] = e
      BY <1>1, <1>2, <2>2, <3>1
    <3>2. ASSUME NEW i \in DOMAIN Tail(q), Tail(q)[i] = e
          PROVE  i + 1 \in DOMAIN q /\ q[i + 1] = e
      BY <1>1, <1>2, <3>2
    <3>3. Has(q, e) = Has(Tail(q), e) /\ Has(q, e) \in Nat
      BY <3>1, <3>2 DEF Has
    <3> QED  BY <2>2, <3>3
  <2> QED  BY <2>1, <2>2
<1> QED  BY <1>1, <1>2, <1>3, <1>4

\* What each caller has still to tell of is its list, or the list's tail: no event
\* is in it twice.
LEMMA UntoldIs ==
  ASSUME NEW lists \in [Caller -> Seq(Event)], NEW at \in [Caller -> 0..Len(Async)],
         \A c \in Caller : Once(lists[c]) /\ (lists[c] = <<>> => at[c] = 0)
  PROVE  LET u == [c \in Caller |-> IF at[c] = 0 THEN lists[c] ELSE Tail(lists[c])]
         IN u \in [Caller -> Seq(Event)] /\ \A c \in Caller : Once(u[c])
<1>1. ASSUME NEW c \in Caller
      PROVE  LET t == IF at[c] = 0 THEN lists[c] ELSE Tail(lists[c])
             IN t \in Seq(Event) /\ Once(t)
  <2>1. CASE at[c] = 0
    BY <2>1
  <2>2. CASE at[c] # 0
    BY <2>2, TailOnce
  <2> QED  BY <2>1, <2>2
<1> QED  BY <1>1

\* When the list of c becomes v[c], the places of e change as that list says.
LEMMA PlacesChange ==
  ASSUME NEW u \in [Caller -> Seq(Event)], NEW v \in [Caller -> Seq(Event)],
         NEW c \in Caller, \A d \in Caller \ {c} : v[d] = u[d],
         Once(u[c]), Once(v[c]), NEW e, IsFiniteSet(Places(u, e))
  PROVE  /\ IsFiniteSet(Places(v, e))
         /\ Cardinality(Places(u, e)) \in Nat /\ Cardinality(Places(v, e)) \in Nat
         /\ Cardinality(Places(v, e)) + Has(u[c], e)
               = Cardinality(Places(u, e)) + Has(v[c], e)
<1> DEFINE rest == {p \in Places(u, e) : p[1] # c}
<1>1. rest = {p \in Places(v, e) : p[1] # c}
  BY DEF Places
<1>2. IsFiniteSet(rest) /\ Cardinality(rest) \in Nat
  <2>1. rest \in SUBSET Places(u, e)
    OBVIOUS
  <2> QED  BY <2>1, FS_Subset, FS_CardinalityType
<1>3. ASSUME NEW w \in [Caller -> Seq(Event)], Once(w[c]),
             rest = {p \in Places(w, e) : p[1] # c}
      PROVE  /\ IsFiniteSet(Places(w, e))
             /\ Cardinality(Places(w, e)) = Cardinality(rest) + Has(w[c], e)
  <2> DEFINE own == {i \in DOMAIN w[c] : w[c][i] = e}
  <2>1. Places(w, e) = rest \cup ({c} \X own)
    <3>1. Places(w, e) = {p \in Places(w, e) : p[1] # c} \cup ({c} \X own)
      BY DEF Places
    <3> HIDE DEF own
    <3> QED  BY <1>3, <3>1
  <2>2. CASE own = {}
    <3>1. Places(w, e) = rest /\ Has(w[c], e) = 0
      BY <2>1, <2>2 DEF Has
    <3> QED  BY <1>2, <3>1
  <2>3. ASSUME NEW i \in own
        PROVE  /\ IsFiniteSet(Places(w, e))
               /\ Cardinality(Places(w, e)) = Cardinality(rest) + Has(w[c], e)
    <3>1. own = {i}
      BY <1>3, <2>3 DEF Once
    <3>2. Places(w, e) = rest \cup {<<c, i>>} /\ Has(w[c], e) = 1
      BY <2>1, <2>3, <3>1 DEF Has
    <3>3. <<c, i>> \notin rest
      OBVIOUS
    <3> HIDE DEF rest
    <3>4. /\ IsFiniteSet(rest \cup {<<c, i>>})
          /\ Cardinality(rest \cup {<<c, i>>}) = Cardinality(rest) + 1
      BY <1>2, <3>3, FS_AddElement
    <3> QED  BY <3>2, <3>4
  <2> QED  BY <2>2, <2>3
<1>4. \A p : Has(u[c], p) \in Nat /\ Has(v[c], p) \in Nat
  BY DEF Has
<1>5. /\ IsFiniteSet(Places(u, e)) /\ IsFiniteSet(Places(v, e))
      /\ Cardinality(Places(u, e)) = Cardinality(rest) + Has(u[c], e)
      /\ Cardinality(Places(v, e)) = Cardinality(rest) + Has(v[c], e)
  <2>1. rest = {p \in Places(u, e) : p[1] # c}
    OBVIOUS
  <2> HIDE DEF rest
  <2> QED  BY <1>1, <1>3, <2>1
<1> HIDE DEF rest
<1> QED  BY <1>2, <1>4, <1>5

\* Lists of no and of one element, and one element more.
LEMMA FewElements ==
  ASSUME NEW S
  PROVE  /\ <<>> \in Seq(S) /\ Once(<<>>) /\ \A e : Has(<<>>, e) = 0
         /\ \A x \in S : /\ <<x>> \in Seq(S) /\ Once(<<x>>) /\ <<x>> # <<>>
                         /\ \A e : Has(<<x>>, e) = IF e = x THEN 1 ELSE 0
         /\ \A q \in Seq(S), x \in S :
               Once(q) /\ Has(q, x) = 0
                  => /\ Append(q, x) \in Seq(S) /\ Once(Append(q, x))
                     /\ \A e : Has(Append(q, x), e) = Has(q, e) + IF e = x THEN 1 ELSE 0
<1>1. <<>> \in Seq(S) /\ Once(<<>>) /\ \A e : Has(<<>>, e) = 0
  BY EmptySeq DEF Once, Has
<1>2. ASSUME NEW x \in S
      PROVE  /\ <<x>> \in Seq(S) /\ Once(<<x>>) /\ <<x>> # <<>>
             /\ \A e : Has(<<x>>, e) = IF e = x THEN 1 ELSE 0
  BY DEF Once, Has
<1>3. ASSUME NEW q \in Seq(S), NEW x \in S, Once(q), Has(q, x) = 0
      PROVE  /\ Append(q, x) \in Seq(S) /\ Once(Append(q, x))
             /\ \A e : Has(Append(q, x), e) = Has(q, e) + IF e = x THEN 1 ELSE 0
  <2>1. /\ Len(q) \in Nat /\ DOMAIN q = 1..Len(q) /\ \A i \in 1..Len(q) : q[i] # x
    BY <1>3, LenProperties DEF Has
  <2>2. /\ Append(q, x) \in Seq(S) /\ DOMAIN Append(q, x) = 1..(Len(q) + 1)
        /\ \A i \in 1..Len(q) : Append(q, x)[i] = q[i]
        /\ Append(q, x)[Len(q) + 1] = x
    BY <2>1, AppendProperties, LenProperties
  <2>3. Once(Append(q, x))
    BY <1>3, <2>1, <2>2 DEF Once
  <2>4. ASSUME NEW e
        PROVE  Has(Append(q, x), e) = Has(q, e) + IF e = x THEN 1 ELSE 0
    <3>1. (\E i \in DOMAIN Append(q, x) : Append(q, x)[i] = e)
             <=> (\E i \in DOMAIN q : q[i] = e) \/ e = x
      BY <2>1, <2>2
    <3> QED  BY <2>1, <3>1 DEF Has
  <2> QED  BY <2>2, <2>3, <2>4
<1> QED  BY <1>1, <1>2, <1>3

\* RemoveFirst takes the only s out of a list.
LEMMA Removed ==
  ASSUME NEW S, NEW q \in Seq(S), Once(q), NEW x, Has(q, x) = 1
  PROVE  /\ RemoveFirst(q, x) \in Seq(S) /\ Once(RemoveFirst(q, x))
         /\ \A e : Has(RemoveFirst(q, x), e) = Has(q, e) - IF e = x THEN 1 ELSE 0
<1>1. /\ Len(q) \in Nat /\ DOMAIN q = 1..Len(q) /\ \A j \in 1..Len(q) : q[j] \in S
      /\ \A j, k \in 1..Len(q) : q[j] = q[k] => j = k
  BY ElementOfSeq, LenProperties DEF Once
<1>2. PICK i \in 1..Len(q) : q[i] = x
  BY <1>1 DEF Has
<1> DEFINE a == SubSeq(q, 1, i - 1)
           b == SubSeq(q, i + 1, Len(q))
           rest == a \o b
<1>3. RemoveFirst(q, x) = rest
  <2>1. {k \in 1..Len(q) : q[k] = x} = {i}
    BY <1>1, <1>2
  <2>2. Min({i}) = i
    BY <1>1 DEF Min
  <2>3. SelectInSeq(q, LAMBDA v : v = x) = i
    BY <2>1, <2>2 DEF SelectInSeq
  <2> QED  BY <1>2, <2>3 DEF RemoveFirst, RemoveAt
<1>4. /\ a \in Seq(S) /\ Len(a) = i - 1
      /\ \A j \in 1 .. i - 1 : a[j] = q[j]
  <2>1. \A j \in 1 .. i - 1 : q[j] \in S
    BY <1>1
  <2>2. /\ a \in Seq(S) /\ Len(a) = IF 1 <= i - 1 THEN (i - 1) - 1 + 1 ELSE 0
        /\ \A j \in 1 .. (i - 1) - 1 + 1 : a[j] = q[1 + j - 1]
    BY <1>1, <2>1, SubSeqProperties
  <2> HIDE DEF a
  <2> QED  BY <1>1, <2>2
<1>5. /\ b \in Seq(S) /\ Len(b) = Len(q) - i
      /\ \A j \in 1 .. Len(q) - i : b[j] = q[i + j]
  <2>1. \A j \in i + 1 .. Len(q) : q[j] \in S
    BY <1>1
  <2>2. /\ b \in Seq(S)
        /\ Len(b) = IF i + 1 <= Len(q) THEN Len(q) - (i + 1) + 1 ELSE 0
        /\ \A j \in 1 .. Len(q) - (i + 1) + 1 : b[j] = q[i + 1 + j - 1]
    BY <1>1, <2>1, SubSeqProperties
  <2> HIDE DEF a, b
  <2> HIDE DEF rest
  <2>0. Len(q) \in Nat /\ i \in 1..Len(q)
    BY <1>1
  <2>3. Len(b) = Len(q) - i
    BY <2>0, <2>2
  <2>4. \A j \in 1 .. Len(q) - i : b[j] = q[i + j]
    BY <2>0, <2>2
  <2> QED  BY <2>2, <2>3, <2>4
<1> HIDE DEF a, b
<1>6. /\ rest \in Seq(S) /\ Len(rest) = Len(q) - 1 /\ DOMAIN rest = 1..(Len(q) - 1)
      /\ \A j \in 1 .. Len(q) - 1 : rest[j] = IF j < i THEN q[j] ELSE q[j + 1]
  <2>1. /\ rest \in Seq(S) /\ Len(rest) = Len(a) + Len(b)
        /\ \A j \in 1 .. Len(a) + Len(b) :
              rest[j] = IF j <= Len(a) THEN a[j] ELSE b[j - Len(a)]
    <3>1. a \in Seq(S) /\ b \in Seq(S)
      BY <1>4, <1>5
    <3> QED  BY <3>1, ConcatProperties
  <2>2. DOMAIN rest = 1..Len(rest)
    BY <2>1, LenProperties
  <2> HIDE DEF rest
  <2>3. Len(a) + Len(b) = Len(q) - 1
    BY <1>1, <1>4, <1>5
  <2>4. \A j \in 1 .. Len(q) - 1 : rest[j] = IF j <= i - 1 THEN a[j] ELSE b[j - (i - 1)]
    BY <1>4, <2>1, <2>3
  <2> QED  BY <1>1, <1>4, <1>5, <2>1, <2>2, <2>3, <2>4
<1> HIDE DEF rest
<1>7. Once(rest)
  BY <1>1, <1>6 DEF Once
<1>8. ASSUME NEW e
      PROVE  Has(rest, e) = Has(q, e) - IF e = x THEN 1 ELSE 0
  <2>1. CASE e = x
    <3>1. \A j \in DOMAIN rest : rest[j] # e
      BY <1>1, <1>2, <1>6, <2>1
    <3>2. Has(rest, e) = 0
      BY <3>1 DEF Has
    <3> QED  BY <2>1, <3>2
  <2>2. CASE e # x
    <3>1. ASSUME NEW j \in DOMAIN q, q[j] = e
          PROVE  \E k \in DOMAIN rest : rest[k] = e
      <4>1. CASE j < i
        BY <1>1, <1>6, <3>1, <4>1
      <4>2. CASE j > i
        <5>1. j - 1 \in DOMAIN rest /\ rest[j - 1] = e
          BY <1>1, <1>6, <3>1, <4>2
        <5> QED  BY <5>1
      <4> QED  BY <1>1, <1>2, <2>2, <3>1, <4>1, <4>2
    <3>2. ASSUME NEW j \in DOMAIN rest, rest[j] = e
          PROVE  \E k \in DOMAIN q : q[k] = e
      BY <1>1, <1>6, <3>2
    <3>3. Has(q, e) = Has(rest, e) /\ Has(q, e) \in Nat
      BY <3>1, <3>2 DEF Has
    <3> QED  BY <2>2, <3>3
  <2> QED  BY <2>1, <2>2
<1> QED  BY <1>3, <1>6, <1>7, <1>8

\* The manager's list and the events of a caller change together: no count
\* changes but as the new list says.
LEMMA BalanceKept ==
  ASSUME Calling, Calling', Counted, EventsBalance, cut => cut',
         audit' \in [Event -> Nat], NEW c \in Caller,
         \A d \in Caller \ {c} : Untold'[d] = Untold[d],
         ~cut' => \A s \in Skill : \A a, d \in Event :
             a = <<"activate", s>> /\ d = <<"deactivate", s>> =>
               (audit'[a] + Has(Untold'[c], a)) - (audit'[d] + Has(Untold'[c], d))
                 - ((audit[a] + Has(Untold[c], a)) - (audit[d] + Has(Untold[c], d)))
               = Has(active', s) - Has(active, s)
  PROVE  Counted' /\ EventsBalance'
<1>1. ASSUME NEW e \in Event
      PROVE  /\ IsFiniteSet(Places(Untold', e))
             /\ Cardinality(Places(Untold, e)) \in Nat
             /\ Cardinality(Places(Untold', e)) \in Nat
             /\ Cardinality(Places(Untold', e)) + Has(Untold[c], e)
                   = Cardinality(Places(Untold, e)) + Has(Untold'[c], e)
  <2>1. Untold \in [Caller -> Seq(Event)] /\ Once(Untold[c])
    BY UntoldIs DEF Calling, Untold
  <2>2. Untold' \in [Caller -> Seq(Event)] /\ Once(Untold'[c])
    BY UntoldIs DEF Calling, Untold
  <2>3. IsFiniteSet(Places(Untold, e))
    BY DEF Counted
  <2> QED  BY <2>1, <2>2, <2>3, PlacesChange
<1>2. Counted'
  BY <1>1 DEF Counted
<1>3. ASSUME ~cut', NEW s \in Skill
      PROVE  Told(<<"activate", s>>)' - Told(<<"deactivate", s>>)' = Has(active', s)
  <2> DEFINE a == <<"activate", s>>
             d == <<"deactivate", s>>
  <2>1. a \in Event /\ d \in Event
    BY DEF Event, Kinds
  <2> HIDE DEF a, d
  <2>2. Told(a) - Told(d) = Has(active, s)
    BY <1>3 DEF EventsBalance, Has, Range, a, d
  <2>3. /\ audit[a] \in Nat /\ audit[d] \in Nat /\ audit'[a] \in Nat /\ audit'[d] \in Nat
        /\ \A q, e : Has(q, e) \in Nat
    BY <2>1 DEF Counted, Has
  <2>4. (audit'[a] + Has(Untold'[c], a)) - (audit'[d] + Has(Untold'[c], d))
           - ((audit[a] + Has(Untold[c], a)) - (audit[d] + Has(Untold[c], d)))
         = Has(active', s) - Has(active, s)
    BY <1>3, <2>1 DEF a, d
  <2>5. (audit'[a] + Cardinality(Places(Untold', a)))
           - (audit'[d] + Cardinality(Places(Untold', d))) = Has(active', s)
    BY <1>1, <2>1, <2>2, <2>3, <2>4 DEF Told
  <2> QED  BY <2>5 DEF Told, a, d
<1>4. EventsBalance'
  <2>1. \A s : Has(active', s) = IF s \in Range(active') THEN 1 ELSE 0
    BY DEF Has, Range
  <2>2. ASSUME ~cut', NEW s \in Skill
        PROVE  Told(<<"activate", s>>)' - Told(<<"deactivate", s>>)'
                 = IF s \in Range(active') THEN 1 ELSE 0
    BY <1>3, <2>1, <2>2
  <2> QED  BY <2>2 DEF EventsBalance
<1> QED  BY <1>2, <1>4

\* A step that touches neither the active skills nor the events keeps everything.
LEMMA Untouched ==
  ASSUME Calling, Counted, EventsBalance, registered' \subseteq Skill,
         UNCHANGED <<active, callVars, cut, audit>>
  PROVE  Calling' /\ Counted' /\ EventsBalance'
<1>1. Untold' = Untold
  BY DEF Untold, callVars
<1>2. Calling'
  BY DEF Calling, callVars
<1>3. Counted' /\ EventsBalance'
  BY <1>1 DEF Counted, EventsBalance, Told
<1> QED  BY <1>2, <1>3

\* Activate and LoadResource have found their skill.
LEMMA Finds ==
  ASSUME Calling, Counted, EventsBalance, NEW c \in Caller,
         op[c] = "idle", NEW s \in Skill, NEW place \in {"found", "loading"},
         skill' = [skill EXCEPT ![c] = s], op' = [op EXCEPT ![c] = place],
         UNCHANGED <<managerVars, todo, next, cut, audit>>
  PROVE  Calling' /\ Counted' /\ EventsBalance'
<1>1. Untold' = Untold
  BY DEF Untold
<1>2. Calling'
  BY DEF Calling, managerVars
<1>3. Counted' /\ EventsBalance'
  BY <1>1 DEF Counted, EventsBalance, Told, managerVars
<1> QED  BY <1>2, <1>3

\* Notify: the caller's events are new, those of the others as they were.
LEMMA NotifyIs ==
  ASSUME Calling, NEW c \in Caller, NEW list \in Seq(Event), Once(list),
         Notify(c, list), active' \in Seq(Skill), Once(active'), registered' = registered
  PROVE  /\ Calling' /\ Untold'[c] = list
         /\ \A d \in Caller \ {c} : Untold'[d] = Untold[d]
<1>1. /\ op' = [op EXCEPT ![c] = IF list = <<>> THEN "idle" ELSE "notify"]
      /\ skill' = [skill EXCEPT ![c] = NoSkill]
      /\ todo' = [todo EXCEPT ![c] = list]
      /\ next' = [next EXCEPT ![c] = 0]
  BY DEF Notify
<1>2. Calling'
  <2>1. /\ op' \in [Caller -> {"idle", "found", "loading", "notify"}]
        /\ skill' \in [Caller -> Skill \cup {NoSkill}]
        /\ todo' \in [Caller -> Seq(Event)]
    BY <1>1 DEF Calling
  <2>2. next' \in [Caller -> 0..Len(Async)]
    BY <1>1, Positions DEF Calling
  <2>3. ASSUME NEW d \in Caller
        PROVE  /\ op'[d] \in {"found", "loading"} => skill'[d] \in Skill
               /\ (op'[d] = "notify") <=> (todo'[d] # <<>>)
               /\ todo'[d] = <<>> => next'[d] = 0
               /\ Once(todo'[d])
    <3>1. CASE d = c
      BY <1>1, <3>1 DEF Calling
    <3>2. CASE d # c
      <4>1. /\ op'[d] = op[d] /\ skill'[d] = skill[d]
            /\ todo'[d] = todo[d] /\ next'[d] = next[d]
        BY <1>1, <3>2 DEF Calling
      <4> QED  BY <4>1 DEF Calling
    <3> QED  BY <3>1, <3>2
  <2> QED  BY <2>1, <2>2, <2>3 DEF Calling
<1>3. Untold'[c] = list
  BY <1>1 DEF Untold, Calling
<1>4. \A d \in Caller \ {c} : Untold'[d] = Untold[d]
  BY <1>1 DEF Untold, Calling
<1> QED  BY <1>2, <1>3, <1>4

\* A caller that notifies nobody has nothing to tell.
LEMMA NothingUntold ==
  ASSUME Calling, NEW c \in Caller, op[c] # "notify"
  PROVE  \A e : Has(Untold[c], e) = 0
<1>1. Untold[c] = <<>>
  BY DEF Calling, Untold
<1> QED  BY <1>1, FewElements

\* Activate: the new skill and its event come together.
LEMMA ActivateBalances ==
  ASSUME Calling, Counted, EventsBalance, NEW c \in Caller, ActivateStores(c),
         UNCHANGED <<cut, audit>>
  PROVE  Calling' /\ Counted' /\ EventsBalance'
<1>1. /\ op[c] = "found" /\ skill[c] \in Skill /\ UNCHANGED registered
      /\ \A e : Has(Untold[c], e) = 0
  BY NothingUntold DEF ActivateStores, Calling
<1>2. audit' \in [Event -> Nat]
  BY DEF Counted
<1>3. CASE Duplicate(skill[c])
  <2>1. Notify(c, <<>>) /\ active' = active
    BY <1>3 DEF ActivateStores, Return
  <2>2. /\ Calling' /\ Untold'[c] = <<>>
        /\ \A d \in Caller \ {c} : Untold'[d] = Untold[d]
    BY <1>1, <2>1, FewElements, NotifyIs DEF Calling
  <2>3. \A e : Has(Untold'[c], e) = 0
    BY <2>2, FewElements
  <2>4. Counted' /\ EventsBalance'
    <3>1. ASSUME NEW a \in Event, NEW d \in Event, NEW s \in Skill
          PROVE  (audit'[a] + Has(Untold'[c], a)) - (audit'[d] + Has(Untold'[c], d))
                   - ((audit[a] + Has(Untold[c], a)) - (audit[d] + Has(Untold[c], d)))
                 = Has(active', s) - Has(active, s)
      <4>1. /\ audit[a] \in Nat /\ audit[d] \in Nat /\ audit' = audit
            /\ Has(active, s) \in Nat
        BY DEF Counted, Has
      <4> QED  BY <1>1, <2>1, <2>3, <4>1
    <3> QED  BY <1>2, <2>2, <3>1, BalanceKept
  <2> QED  BY <2>2, <2>4
<1>4. CASE ~Duplicate(skill[c])
  <2> DEFINE x == skill[c]
  <2>1. active' = Append(active, x) /\ Notify(c, <<<<"activate", x>>>>)
    BY <1>4 DEF ActivateStores
  <2>2. Has(active, x) = 0
    BY <1>4 DEF Duplicate, Has, Range
  <2>3. <<"activate", x>> \in Event
    BY <1>1 DEF Event, Kinds
  <2>4. /\ active' \in Seq(Skill) /\ Once(active')
        /\ \A s : Has(active', s) = Has(active, s) + IF s = x THEN 1 ELSE 0
    BY <1>1, <2>1, <2>2, FewElements DEF Calling
  <2>5. /\ Calling' /\ Untold'[c] = <<<<"activate", x>>>>
        /\ \A d \in Caller \ {c} : Untold'[d] = Untold[d]
    BY <1>1, <2>1, <2>3, <2>4, FewElements, NotifyIs
  <2>6. \A e : Has(Untold'[c], e) = IF e = <<"activate", x>> THEN 1 ELSE 0
    <3>1. \A e : Has(<<<<"activate", x>>>>, e) = IF e = <<"activate", x>> THEN 1 ELSE 0
      BY <2>3, FewElements
    <3> QED  BY <2>5, <3>1
  <2> HIDE DEF x
  <2>7. ASSUME NEW s \in Skill, NEW a \in Event, NEW d \in Event,
               a = <<"activate", s>>, d = <<"deactivate", s>>
        PROVE  (audit'[a] + Has(Untold'[c], a)) - (audit'[d] + Has(Untold'[c], d))
                 - ((audit[a] + Has(Untold[c], a)) - (audit[d] + Has(Untold[c], d)))
               = Has(active', s) - Has(active, s)
    <3>1. /\ Has(Untold'[c], a) = IF s = x THEN 1 ELSE 0
          /\ Has(Untold'[c], d) = 0
      BY <2>6, <2>7
    <3>2. /\ audit[a] \in Nat /\ audit[d] \in Nat /\ audit' = audit
          /\ Has(active, s) \in Nat
      BY DEF Counted, Has
    <3> QED  BY <1>1, <2>4, <3>1, <3>2
  <2> QED  BY <1>2, <2>5, <2>7, BalanceKept
<1> QED  BY <1>3, <1>4

\* Deactivate and ClearSession: as many events as skills taken out.
LEMMA DeactivationBalances ==
  ASSUME Calling, Counted, EventsBalance, NEW c \in Caller, op[c] = "idle",
         UNCHANGED <<cut, audit, registered>>,
         active' \in Seq(Skill), Once(active'),
         NEW list \in Seq(Event), Once(list), Notify(c, list),
         \A s \in Skill : /\ Has(list, <<"activate", s>>) = 0
                          /\ Has(list, <<"deactivate", s>>) = Has(active, s) - Has(active', s)
  PROVE  Calling' /\ Counted' /\ EventsBalance'
<1>1. /\ Calling' /\ Untold'[c] = list
      /\ \A d \in Caller \ {c} : Untold'[d] = Untold[d]
  BY NotifyIs
<1>2. \A e : Has(Untold[c], e) = 0
  BY NothingUntold
<1>3. ASSUME NEW s \in Skill, NEW a \in Event, NEW d \in Event,
             a = <<"activate", s>>, d = <<"deactivate", s>>
      PROVE  (audit'[a] + Has(Untold'[c], a)) - (audit'[d] + Has(Untold'[c], d))
               - ((audit[a] + Has(Untold[c], a)) - (audit[d] + Has(Untold[c], d)))
             = Has(active', s) - Has(active, s)
  <2>1. /\ audit[a] \in Nat /\ audit[d] \in Nat /\ audit' = audit
        /\ Has(active, s) \in Nat /\ Has(active', s) \in Nat
    BY DEF Counted, Has
  <2>2. Has(Untold'[c], a) = 0 /\ Has(Untold'[c], d) = Has(active, s) - Has(active', s)
    BY <1>1, <1>3
  <2> QED  BY <1>2, <2>1, <2>2
<1>4. audit' \in [Event -> Nat]
  BY DEF Counted
<1> QED  BY <1>1, <1>3, <1>4, BalanceKept

\* One skill is taken out, and one event sent.
LEMMA DeactivateBalances ==
  ASSUME Calling, Counted, EventsBalance, NEW c \in Caller, Deactivate(c),
         UNCHANGED <<cut, audit>>
  PROVE  Calling' /\ Counted' /\ EventsBalance'
<1>1. PICK x \in Range(active) :
           active' = RemoveFirst(active, x) /\ Notify(c, <<<<"deactivate", x>>>>)
  BY DEF Deactivate
<1>2. /\ op[c] = "idle" /\ UNCHANGED registered
  BY DEF Deactivate, Begin
<1>3. x \in Skill /\ Has(active, x) = 1
  BY ElementOfSeq, LenProperties DEF Calling, Range, Has
<1>4. /\ active' \in Seq(Skill) /\ Once(active')
      /\ \A s : Has(active', s) = Has(active, s) - IF s = x THEN 1 ELSE 0
  BY <1>1, <1>3, Removed DEF Calling
<1>5. /\ <<<<"deactivate", x>>>> \in Seq(Event) /\ Once(<<<<"deactivate", x>>>>)
      /\ \A e : Has(<<<<"deactivate", x>>>>, e) = IF e = <<"deactivate", x>> THEN 1 ELSE 0
  <2>1. <<"deactivate", x>> \in Event
    BY <1>3 DEF Event, Kinds
  <2> QED  BY <2>1, FewElements
<1>6. ASSUME NEW s \in Skill
      PROVE  /\ Has(<<<<"deactivate", x>>>>, <<"activate", s>>) = 0
             /\ Has(<<<<"deactivate", x>>>>, <<"deactivate", s>>)
                  = Has(active, s) - Has(active', s)
  <2>1. Has(active, s) \in Nat
    BY DEF Has
  <2>2. /\ Has(<<<<"deactivate", x>>>>, <<"activate", s>>) = 0
        /\ Has(<<<<"deactivate", x>>>>, <<"deactivate", s>>) = IF s = x THEN 1 ELSE 0
    BY <1>5
  <2> QED  BY <1>4, <2>1, <2>2
<1> QED  BY <1>1, <1>2, <1>4, <1>5, <1>6, DeactivationBalances

\* All skills are taken out, and an event sent for each.
LEMMA ClearBalances ==
  ASSUME Calling, Counted, EventsBalance, NEW c \in Caller, ClearSession(c),
         UNCHANGED <<cut, audit>>
  PROVE  Calling' /\ Counted' /\ EventsBalance'
<1> DEFINE list == [i \in 1..Len(active) |-> <<"deactivate", active[i]>>]
<1>1. /\ op[c] = "idle" /\ UNCHANGED registered /\ active' = <<>> /\ Notify(c, list)
  BY DEF ClearSession, Begin
<1>2. /\ Len(active) \in Nat /\ DOMAIN active = 1..Len(active)
      /\ \A i \in 1..Len(active) : active[i] \in Skill
      /\ \A i, j \in 1..Len(active) : active[i] = active[j] => i = j
  BY ElementOfSeq, LenProperties DEF Calling, Once
<1>3. list \in Seq(Event) /\ DOMAIN list = 1..Len(active) /\ Once(list)
  <2>1. \A i \in 1..Len(active) : <<"deactivate", active[i]>> \in Event
    BY <1>2 DEF Event, Kinds
  <2>2. list \in Seq(Event)
    BY <1>2, <2>1, IsASeq
  <2>3. Once(list)
    BY <1>2 DEF Once
  <2> QED  BY <2>2, <2>3
<1>4. active' \in Seq(Skill) /\ Once(active') /\ \A s : Has(active', s) = 0
  BY <1>1, FewElements
<1>5. ASSUME NEW s \in Skill
      PROVE  /\ Has(list, <<"activate", s>>) = 0
             /\ Has(list, <<"deactivate", s>>) = Has(active, s) - Has(active', s)
  <2>1. \A i \in 1..Len(active) :
          /\ list[i] # <<"activate", s>>
          /\ list[i] = <<"deactivate", s>> <=> active[i] = s
    OBVIOUS
  <2> HIDE DEF list
  <2>2. Has(list, <<"activate", s>>) = 0
    BY <1>3, <2>1 DEF Has
  <2>3. Has(list, <<"deactivate", s>>) = Has(active, s) /\ Has(active, s) \in Nat
    BY <1>2, <1>3, <2>1 DEF Has
  <2> QED  BY <1>4, <2>2, <2>3
<1> HIDE DEF list
<1> QED  BY <1>1, <1>3, <1>4, <1>5, DeactivationBalances

\* LoadResource changes no skill and sends an event the synchronous hook is not
\* told of.
LEMMA LoadBalances ==
  ASSUME Calling, Counted, EventsBalance, NEW c \in Caller, LoadReads(c),
         UNCHANGED <<cut, audit>>
  PROVE  Calling' /\ Counted' /\ EventsBalance'
<1>1. PICK list \in {<<>>, <<<<"load", skill[c]>>>>} : Notify(c, list)
  BY DEF LoadReads, Return
<1>2. op[c] = "loading" /\ skill[c] \in Skill /\ UNCHANGED <<active, registered>>
  BY DEF LoadReads, Calling, managerVars
<1>3. /\ list \in Seq(Event) /\ Once(list)
      /\ \A e : e # <<"load", skill[c]>> => Has(list, e) = 0
  <2>1. <<"load", skill[c]>> \in Event
    BY <1>2 DEF Event, Kinds
  <2>2. CASE list = <<>>
    BY <2>2, FewElements
  <2>3. CASE list = <<<<"load", skill[c]>>>>
    <3>1. /\ <<<<"load", skill[c]>>>> \in Seq(Event) /\ Once(<<<<"load", skill[c]>>>>)
          /\ \A e : Has(<<<<"load", skill[c]>>>>, e)
                     = IF e = <<"load", skill[c]>> THEN 1 ELSE 0
      BY <2>1, FewElements
    <3> QED  BY <2>3, <3>1
  <2> QED  BY <2>2, <2>3
<1>4. /\ Calling' /\ Untold'[c] = list
      /\ \A d \in Caller \ {c} : Untold'[d] = Untold[d]
  BY <1>1, <1>2, <1>3, NotifyIs DEF Calling
<1>5. \A e : Has(Untold[c], e) = 0
  BY <1>2, NothingUntold
<1>6. ASSUME NEW s \in Skill, NEW a \in Event, NEW d \in Event,
             a = <<"activate", s>>, d = <<"deactivate", s>>
      PROVE  (audit'[a] + Has(Untold'[c], a)) - (audit'[d] + Has(Untold'[c], d))
               - ((audit[a] + Has(Untold[c], a)) - (audit[d] + Has(Untold[c], d)))
             = Has(active', s) - Has(active, s)
  <2>1. /\ audit[a] \in Nat /\ audit[d] \in Nat /\ audit' = audit
        /\ Has(active, s) \in Nat /\ active' = active
    BY <1>2 DEF Counted, Has
  <2>2. Has(Untold'[c], a) = 0 /\ Has(Untold'[c], d) = 0
    BY <1>3, <1>4, <1>6
  <2> QED  BY <1>5, <2>1, <2>2
<1>7. audit' \in [Event -> Nat]
  BY DEF Counted
<1> QED  BY <1>4, <1>6, <1>7, BalanceKept

\* Dispatch: what the synchronous hook is told of is no longer to be told.  Once
\* a call was cut short nothing is counted.
LEMMA DispatchBalances ==
  ASSUME Calling, Counted, EventsBalance, NEW c \in Caller, Dispatch(c)
  PROVE  Calling' /\ Counted' /\ EventsBalance'
<1> DEFINE head == Head(todo[c])
           rest == Tail(todo[c])
<1>1. /\ op[c] = "notify" /\ todo[c] \in Seq(Event) /\ Once(todo[c]) /\ todo[c] # <<>>
      /\ next[c] \in 0..Len(Async) /\ UNCHANGED managerVars
      /\ Len(Async) \in Nat
  BY Positions DEF Dispatch, Calling
<1>2. /\ rest \in Seq(Event) /\ Once(rest) /\ head \in Event
      /\ \A e : Has(todo[c], e) = Has(rest, e) + (IF e = head THEN 1 ELSE 0)
  BY <1>1, TailOnce
<1> HIDE DEF head, rest
<1>3. active' = active /\ registered' = registered
      /\ active' \in Seq(Skill) /\ Once(active')
  BY <1>1 DEF managerVars, Calling
<1>4. CASE CutShort(c)
  <2>1. Notify(c, <<>>) /\ cut' = TRUE /\ audit' = audit
    BY <1>4 DEF CutShort, Return
  <2>2. /\ Calling' /\ \A d \in Caller \ {c} : Untold'[d] = Untold[d]
    BY <1>3, <2>1, FewElements, NotifyIs
  <2>3. audit' \in [Event -> Nat]
    BY <2>1 DEF Counted
  <2> QED  BY <2>1, <2>2, <2>3, BalanceKept
<1>5. CASE CallHook(c)
  <2>1. UNCHANGED cut /\ Advance(c)
    BY <1>5 DEF CallHook, ctxVars
  <2>2. /\ Calling' /\ Untold'[c] = rest
        /\ \A d \in Caller \ {c} : Untold'[d] = Untold[d]
    <3>1. CASE next[c] < Len(Async)
      <4>1. next' = [next EXCEPT ![c] = next[c] + 1] /\ UNCHANGED <<op, skill, todo>>
        BY <2>1, <3>1 DEF Advance
      <4>2. next' \in [Caller -> 0..Len(Async)]
        BY <1>1, <3>1, <4>1 DEF Calling
      <4>3. Calling'
        BY <1>1, <1>3, <4>1, <4>2 DEF Calling
      <4>4. next'[c] # 0 /\ \A d \in Caller \ {c} : next'[d] = next[d]
        BY <1>1, <4>1 DEF Calling
      <4> QED  BY <4>1, <4>3, <4>4 DEF Untold, rest
    <3>2. CASE ~(next[c] < Len(Async))
      <4>1. Notify(c, rest)
        BY <2>1, <3>2 DEF Advance, rest
      <4> QED  BY <1>2, <1>3, <4>1, NotifyIs
    <3> QED  BY <3>1, <3>2
  <2>3. CASE next[c] = 0
    <3>1. Untold[c] = todo[c]
      BY <2>3 DEF Untold
    <3>2. audit' = IF Accepts(head[1]) THEN [audit EXCEPT ![head] = audit[head] + 1] ELSE audit
      BY <1>5, <2>3 DEF CallHook, Observe, head
    <3>3. audit' \in [Event -> Nat]
      BY <1>2, <3>2 DEF Counted
    <3>4. ASSUME NEW s \in Skill, NEW e \in Event, e[1] # "load"
          PROVE  audit'[e] + Has(Untold'[c], e) = audit[e] + Has(Untold[c], e)
      <4>1. audit[e] \in Nat /\ Has(rest, e) \in Nat
        BY DEF Counted, Has
      <4>2. audit'[e] = audit[e] + IF e = head THEN 1 ELSE 0
        BY <1>2, <3>2, <3>4, <4>1 DEF Counted, Accepts
      <4>3. Has(Untold[c], e) = Has(rest, e) + (IF e = head THEN 1 ELSE 0)
        BY <1>2, <3>1
      <4> QED  BY <2>2, <4>1, <4>2, <4>3
    <3>5. ASSUME NEW s \in Skill, NEW a \in Event, NEW d \in Event,
                 a = <<"activate", s>>, d = <<"deactivate", s>>
          PROVE  (audit'[a] + Has(Untold'[c], a)) - (audit'[d] + Has(Untold'[c], d))
                   - ((audit[a] + Has(Untold[c], a)) - (audit[d] + Has(Untold[c], d)))
                 = Has(active', s) - Has(active, s)
      <4>1. /\ audit'[a] + Has(Untold'[c], a) = audit[a] + Has(Untold[c], a)
            /\ audit'[d] + Has(Untold'[c], d) = audit[d] + Has(Untold[c], d)
        BY <3>4, <3>5
      <4>2. /\ audit[a] \in Nat /\ audit[d] \in Nat
            /\ \A q, e : Has(q, e) \in Nat
        BY DEF Counted, Has
      <4> QED  BY <1>3, <4>1, <4>2
    <3> QED  BY <2>1, <2>2, <3>3, <3>5, BalanceKept
  <2>4. CASE next[c] # 0
    <3>1. Untold[c] = rest /\ audit' = audit
      BY <1>5, <2>4 DEF Untold, CallHook, rest
    <3>2. audit' \in [Event -> Nat]
      BY <3>1 DEF Counted
    <3>3. ASSUME NEW s \in Skill, NEW a \in Event, NEW d \in Event
          PROVE  (audit'[a] + Has(Untold'[c], a)) - (audit'[d] + Has(Untold'[c], d))
                   - ((audit[a] + Has(Untold[c], a)) - (audit[d] + Has(Untold[c], d)))
                 = Has(active', s) - Has(active, s)
      <4>1. /\ audit[a] \in Nat /\ audit[d] \in Nat
            /\ \A q, e : Has(q, e) \in Nat
        BY DEF Counted, Has
      <4> QED  BY <1>3, <2>2, <3>1, <4>1
    <3> QED  BY <2>1, <2>2, <3>2, <3>3, BalanceKept
  <2> QED  BY <2>3, <2>4
<1> QED  BY <1>4, <1>5 DEF Dispatch

\* Every step keeps the balance.
LEMMA BalanceInvKept ==
  ASSUME BalanceInv, [Next]_vars
  PROVE  BalanceInv'
<1> USE DEF BalanceInv
<1>1. CASE UNCHANGED vars
  BY <1>1, Untouched DEF vars, managerVars, ctxVars, Calling
<1>2. CASE ChangeRegistry
  BY <1>2, Untouched DEF ChangeRegistry, Register, Unregister, ctxVars, Calling
<1>3. CASE Administer
  BY <1>3, Untouched DEF Administer, managerVars, ctxVars, Calling
<1>4. ASSUME NEW c \in Caller, Call(c)
      PROVE  BalanceInv'
  <2>1. UNCHANGED <<cut, audit>>
    BY <1>4 DEF Call, ctxVars
  <2>2. CASE ActivateFinds(c)
    <3>1. PICK s \in registered : /\ skill' = [skill EXCEPT ![c] = s]
                                  /\ op' = [op EXCEPT ![c] = "found"]
      BY <2>2 DEF ActivateFinds
    <3>2. op[c] = "idle" /\ s \in Skill /\ UNCHANGED <<managerVars, todo, next>>
      BY <2>2 DEF ActivateFinds, Begin, Calling
    <3> QED  BY <2>1, <3>1, <3>2, Finds
  <2>3. CASE LoadFinds(c)
    <3>1. PICK s \in Range(active) : /\ skill' = [skill EXCEPT ![c] = s]
                                     /\ op' = [op EXCEPT ![c] = "loading"]
      BY <2>3 DEF LoadFinds
    <3>2. op[c] = "idle" /\ UNCHANGED <<managerVars, todo, next>>
      BY <2>3 DEF LoadFinds, Begin
    <3>3. s \in Skill
      BY ElementOfSeq, LenProperties DEF Calling, Range
    <3> QED  BY <2>1, <3>1, <3>2, <3>3, Finds
  <2> QED  BY <1>4, <2>1, <2>2, <2>3, DeactivateBalances, ClearBalances DEF Call
<1>5. ASSUME NEW c \in Caller, Continue(c)
      PROVE  BalanceInv'
  <2>1. UNCHANGED <<cut, audit>>
    BY <1>5 DEF Continue, ctxVars
  <2> QED  BY <1>5, <2>1, ActivateBalances, LoadBalances DEF Continue
<1>6. ASSUME NEW c \in Caller, Dispatch(c)
      PROVE  BalanceInv'
  BY <1>6, DispatchBalances
<1>7. ASSUME NEW c \in Caller, CallerEnds(c)
      PROVE  BalanceInv'
  BY <1>7, Untouched DEF CallerEnds, managerVars, Calling
<1>8. ASSUME NEW h \in Hooks, Consume(h)
      PROVE  BalanceInv'
  BY <1>8, Untouched DEF Consume, managerVars, ctxVars, Calling
<1> QED  BY <1>1, <1>2, <1>3, <1>4, <1>5, <1>6, <1>7, <1>8 DEF Next

\* skill/manager.go:90-132, 151-162, for any number of callers and skills: the
\* events the hooks are told of agree with the active skills.
THEOREM EventsAgree == Spec => []EventsBalance
<1>1. Init => BalanceInv
  <2> SUFFICES ASSUME Init PROVE BalanceInv
    OBVIOUS
  <2>1. Calling
    BY FewElements, Positions DEF Init, Calling
  <2>2. \A e : Places(Untold, e) = {}
    BY DEF Init, Places, Untold
  <2>3. IsFiniteSet({}) /\ Cardinality({}) = 0
    BY FS_EmptySet
  <2>4. Counted
    BY <2>2, <2>3 DEF Init, Counted
  <2>5. ASSUME NEW s \in Skill
        PROVE  Told(<<"activate", s>>) - Told(<<"deactivate", s>>) = 0
    <3>1. <<"activate", s>> \in Event /\ <<"deactivate", s>> \in Event
      BY DEF Event, Kinds
    <3>2. audit[<<"activate", s>>] = 0 /\ audit[<<"deactivate", s>>] = 0
      BY <3>1 DEF Init
    <3>3. Told(<<"activate", s>>) = 0 /\ Told(<<"deactivate", s>>) = 0
      BY <2>2, <2>3, <3>2 DEF Told
    <3> QED  BY <3>3
  <2>6. Range(active) = {}
    BY DEF Init, Range
  <2>7. EventsBalance
    BY <2>5, <2>6 DEF EventsBalance
  <2> QED  BY <2>1, <2>4, <2>7 DEF BalanceInv
<1>2. BalanceInv => EventsBalance
  BY DEF BalanceInv
<1> QED  BY <1>1, <1>2, BalanceInvKept, PTL DEF Spec
================================================================================
