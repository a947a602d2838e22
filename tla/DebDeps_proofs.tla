--------------------------- MODULE DebDeps_proofs ---------------------------
(***************************************************************************)
(* Proofs about DebDeps.  The argument for ReturnsTheNeeded is the one for *)
(* every graph search: what has been found is needed, and what a found     *)
(* package depends on has been found too or is still to be looked at by    *)
(* its call, which is then on the stack.                                   *)
(***************************************************************************)
EXTENDS DebDeps, FiniteSets, SequenceTheorems, FiniteSetTheorems, TLAPS

OnStack(p) == \E i \in 1..Len(stack) : stack[i] = p

\* Each package that has something to look at is found and has its call.
CallsPending == \A p \in Pkg : todo[p] # {} => p \in dependencies /\ OnStack(p)

CallsFound == \A i \in 1..Len(stack) : stack[i] \in dependencies

FoundIsNeeded == root \in dependencies /\ dependencies \subseteq Needed(root)

NothingForgotten ==
    \A p \in dependencies : todo[p] \subseteq deps[p]
                            /\ deps[p] \subseteq dependencies \cup todo[p]

Ended ==
    /\ outcome = "returned" => Len(stack) = 1 /\ todo[stack[1]] = {}
    /\ outcome = "incomplete" => Needed(root) \cap Absent # {}

DepsInv ==
    /\ DepsTypeOK /\ CacheIsNeverUsed
    /\ CallsPending /\ CallsFound /\ FoundIsNeeded /\ NothingForgotten /\ Ended

\* A package needs what the packages it needs depend on.
LEMMA NeededIsClosed ==
    ASSUME DepsTypeOK, NEW p \in Pkg, NEW q \in Needed(p) \cap Pkg, NEW r \in deps[q]
    PROVE  r \in Needed(p)
<1>1. r \in Pkg \cup Absent BY DEF DepsTypeOK
<1>2. SUFFICES ASSUME NEW S \in SUBSET (Pkg \cup Absent), p \in S, Closed(S)
               PROVE  r \in S
  BY <1>1 DEF Needed
<1>3. q \in S BY <1>2 DEF Needed
<1> QED BY <1>2, <1>3 DEF Closed

\* A closed set with the package and nothing unneeded is what it needs.
LEMMA NeededIsLeast ==
    ASSUME NEW p \in Pkg, NEW S \in SUBSET (Pkg \cup Absent),
           p \in S, Closed(S), S \subseteq Needed(p)
    PROVE  S = Needed(p)
BY DEF Needed

LEMMA NeededUnchanged ==
    ASSUME UNCHANGED <<deps, root>> PROVE Needed(root)' = Needed(root)
BY DEF Needed, Closed

\* The call that is running is on the stack, for a package that was found.
LEMMA TopOfStack ==
    ASSUME DepsTypeOK
    PROVE  Len(stack) \in 1..Len(stack) /\ Len(stack) \in Nat /\ Top \in Pkg
BY DEF DepsTypeOK, Top

LEMMA DepsInitial == Init => DepsInv
<1> SUFFICES ASSUME Init PROVE DepsInv OBVIOUS
<1> USE DepsAssumption DEF Init
<1>1. DepsTypeOK BY DEF DepsTypeOK
<1>2. Len(stack) = 1 /\ stack[1] = root OBVIOUS
<1>3. CacheIsNeverUsed /\ CallsPending /\ CallsFound
  BY <1>2 DEF CacheIsNeverUsed, CallsPending, CallsFound, OnStack
<1>4. FoundIsNeeded BY DEF FoundIsNeeded, Needed
<1>5. NothingForgotten /\ Ended BY DEF NothingForgotten, Ended
<1> QED BY <1>1, <1>3, <1>4, <1>5 DEF DepsInv

LEMMA DepsStep == DepsInv /\ [Next]_vars => DepsInv'
<1> SUFFICES ASSUME DepsInv, [Next]_vars PROVE DepsInv' OBVIOUS
<1> USE DepsAssumption
<1>0. DepsTypeOK BY DEF DepsInv
<1>t. Top \in Pkg /\ Len(stack) \in Nat /\ Len(stack) >= 1 BY <1>0, TopOfStack
<1>d. Top \in dependencies
  <2>1. Len(stack) \in 1..Len(stack) BY <1>0, TopOfStack
  <2> QED BY <2>1 DEF DepsInv, CallsFound, Top
<1>1. ASSUME NEW p \in Pkg \cup Absent, Incomplete(p) PROVE DepsInv'
  <2> USE <1>1 DEF Incomplete
  <2>1. p \in deps[Top] BY <1>d DEF DepsInv, NothingForgotten
  <2>2. Top \in Needed(root) BY <1>d DEF DepsInv, FoundIsNeeded
  <2>3. p \in Needed(root) \cap Absent
    BY <1>0, <1>t, <2>1, <2>2, NeededIsClosed DEF DepsTypeOK
  <2>4. Needed(root)' = Needed(root) BY NeededUnchanged
  <2>5. DepsTypeOK' BY <1>0 DEF DepsTypeOK
  <2>6. (CacheIsNeverUsed /\ CallsPending /\ CallsFound /\ NothingForgotten)'
    BY DEF DepsInv, CacheIsNeverUsed, CallsPending, CallsFound, NothingForgotten, OnStack
  <2>7. FoundIsNeeded' BY <2>4 DEF DepsInv, FoundIsNeeded
  <2>8. Ended' BY <2>3, <2>4 DEF Ended
  <2> QED BY <2>5, <2>6, <2>7, <2>8 DEF DepsInv
<1>2. ASSUME NEW p \in Pkg \cup Absent, Seen(p) PROVE DepsInv'
  <2> USE <1>2 DEF Seen
  <2>1. todo' = [q \in Pkg |-> IF q = Top THEN todo[q] \ {p} ELSE todo[q]]
    BY <1>0, <1>t DEF DepsTypeOK
  <2>2. DepsTypeOK'
    <3>1. \A q \in Pkg : todo[q] \in SUBSET (Pkg \cup Absent) BY <1>0 DEF DepsTypeOK
    <3>2. todo' \in [Pkg -> SUBSET (Pkg \cup Absent)] BY <2>1, <3>1
    <3> QED BY <1>0, <3>2 DEF DepsTypeOK
  <2>3. (CacheIsNeverUsed /\ CallsFound)' BY DEF DepsInv, CacheIsNeverUsed, CallsFound
  <2>4. CallsPending' BY <2>1 DEF DepsInv, CallsPending, OnStack
  <2>5. FoundIsNeeded' BY NeededUnchanged DEF DepsInv, FoundIsNeeded
  <2>6. NothingForgotten' BY <1>0, <2>1 DEF DepsInv, NothingForgotten, DepsTypeOK
  <2>7. Ended' BY DEF Ended
  <2> QED BY <2>2, <2>3, <2>4, <2>5, <2>6, <2>7 DEF DepsInv
<1>3. ASSUME NEW p \in Pkg \cup Absent, Unseen(p) PROVE DepsInv'
  <2> USE <1>3 DEF Unseen
  <2>1. Cached(p) = {} BY DEF DepsInv, CacheIsNeverUsed, Cached
  <2>2. p \in Pkg /\ p # Top BY <1>d
  <2>3. /\ dependencies' = dependencies \cup {p}
        /\ stack' = Append(stack, p)
        /\ todo' = [q \in Pkg |-> CASE q = Top -> todo[q] \ {p}
                                    [] q = p   -> deps[p]
                                    [] OTHER   -> todo[q]]
    BY <2>1
  <2>4. /\ todo' \in [Pkg -> SUBSET (Pkg \cup Absent)]
        /\ todo'[Top] = todo[Top] \ {p} /\ todo'[p] = deps[p]
        /\ \A q \in Pkg \ {Top, p} : todo'[q] = todo[q]
    BY <1>0, <1>t, <2>2, <2>3 DEF DepsTypeOK
  <2>5. /\ stack' \in Seq(Pkg) /\ stack' # <<>>
        /\ Len(stack') = Len(stack) + 1 /\ stack'[Len(stack) + 1] = p
        /\ \A i \in 1..Len(stack) : stack'[i] = stack[i]
    BY <1>0, <1>t, <2>2, <2>3 DEF DepsTypeOK
  <2>6. DepsTypeOK' BY <1>0, <2>2, <2>3, <2>4, <2>5 DEF DepsTypeOK
  <2>7. CacheIsNeverUsed' BY <2>3 DEF DepsInv, CacheIsNeverUsed
  <2>8. CallsPending'
    <3>1. SUFFICES ASSUME NEW q \in Pkg, todo'[q] # {}
                   PROVE  q \in dependencies' /\ OnStack(q)'
      BY DEF CallsPending
    <3>2. CASE q = p BY <1>t, <2>3, <2>5, <3>2 DEF OnStack
    <3>3. CASE q # p
      <4>1. todo[q] # {} BY <2>4, <3>1, <3>3
      <4>2. q \in dependencies /\ OnStack(q) BY <4>1 DEF DepsInv, CallsPending
      <4> QED BY <1>t, <2>3, <2>5, <4>2 DEF OnStack
    <3> QED BY <3>2, <3>3
  <2>9. CallsFound' BY <1>t, <2>3, <2>5 DEF DepsInv, CallsFound
  <2>10. FoundIsNeeded'
    <3>1. p \in deps[Top] BY <1>d DEF DepsInv, NothingForgotten
    <3>2. Top \in Needed(root) BY <1>d DEF DepsInv, FoundIsNeeded
    <3>3. p \in Needed(root) BY <1>0, <1>t, <3>1, <3>2, NeededIsClosed DEF DepsTypeOK
    <3> QED BY <2>3, <3>3, NeededUnchanged DEF DepsInv, FoundIsNeeded
  <2>11. NothingForgotten'
    <3>1. SUFFICES ASSUME NEW q \in dependencies'
                   PROVE  todo'[q] \subseteq deps[q]
                          /\ deps[q] \subseteq dependencies' \cup todo'[q]
      BY DEF NothingForgotten
    <3>2. CASE q = p BY <2>4, <3>2
    <3>3. CASE q # p
      <4>1. q \in dependencies /\ q \in Pkg BY <1>0, <2>3, <3>1, <3>3 DEF DepsTypeOK
      <4>2. todo[q] \subseteq deps[q] /\ deps[q] \subseteq dependencies \cup todo[q]
        BY <4>1 DEF DepsInv, NothingForgotten
      <4> QED BY <2>3, <2>4, <3>3, <4>1, <4>2
    <3> QED BY <3>2, <3>3
  <2>12. Ended' BY DEF Ended
  <2> QED BY <2>6, <2>7, <2>8, <2>9, <2>10, <2>11, <2>12 DEF DepsInv
<1>4. CASE Return
  <2> USE <1>4 DEF Return
  <2>1. CASE Len(stack) = 1
    <3>1. UNCHANGED <<deps, root, dependencies, cache, stack, todo>> /\ outcome' = "returned"
      BY <2>1
    <3>2. todo[stack[1]] = {} BY <2>1 DEF Top
    <3>3. DepsTypeOK' BY <1>0, <3>1 DEF DepsTypeOK
    <3>4. (CacheIsNeverUsed /\ CallsPending /\ CallsFound /\ NothingForgotten)'
      BY <3>1 DEF DepsInv, CacheIsNeverUsed, CallsPending, CallsFound, NothingForgotten, OnStack
    <3>5. FoundIsNeeded' BY <3>1, NeededUnchanged DEF DepsInv, FoundIsNeeded
    <3>6. Ended' BY <2>1, <3>1, <3>2 DEF Ended
    <3> QED BY <3>3, <3>4, <3>5, <3>6 DEF DepsInv
  <2>2. CASE Len(stack) # 1
    <3>1. /\ cache' = cache \cup {<<Top, dependencies \cup {Top}>>}
          /\ stack' = SubSeq(stack, 1, Len(stack) - 1)
          /\ UNCHANGED <<deps, root, dependencies, todo, outcome>>
      BY <2>2
    <3>2. /\ stack' \in Seq(Pkg) /\ stack' # <<>> /\ Len(stack') = Len(stack) - 1
          /\ \A i \in 1..(Len(stack) - 1) : stack'[i] = stack[i]
      <4>1. stack \in Seq(Pkg) BY <1>0 DEF DepsTypeOK
      <4>2. PICK n \in Int : n = Len(stack) - 1 BY <1>t
      <4>3. n >= 1 /\ n + 1 = Len(stack) BY <1>t, <2>2, <4>2
      <4>4. \A i \in 1..n : stack[i] \in Pkg BY <4>1, <4>3
      <4>5. /\ SubSeq(stack, 1, n) \in Seq(Pkg) /\ Len(SubSeq(stack, 1, n)) = n
            /\ \A i \in 1..n : SubSeq(stack, 1, n)[i] = stack[i]
        BY <4>3, <4>4, SubSeqProperties
      <4>6. stack' = SubSeq(stack, 1, n) BY <3>1, <4>2
      <4>7. stack' # <<>> BY <4>3, <4>5, <4>6
      <4> QED BY <4>2, <4>5, <4>6, <4>7
    <3>3. DepsTypeOK' BY <1>0, <1>t, <3>1, <3>2 DEF DepsTypeOK
    <3>4. CacheIsNeverUsed' BY <1>d, <3>1 DEF DepsInv, CacheIsNeverUsed
    <3>5. CallsPending'
      <4>1. SUFFICES ASSUME NEW q \in Pkg, todo[q] # {}
                     PROVE  q \in dependencies /\ OnStack(q)'
        BY <3>1 DEF CallsPending
      <4>2. q \in dependencies BY <4>1 DEF DepsInv, CallsPending
      <4>3. PICK i \in 1..Len(stack) : stack[i] = q
        BY <4>1 DEF DepsInv, CallsPending, OnStack
      <4>4. i # Len(stack) BY <4>1, <4>3 DEF Top
      <4>5. i \in 1..Len(stack') /\ stack'[i] = q BY <1>t, <3>2, <4>3, <4>4
      <4> QED BY <4>2, <4>5 DEF OnStack
    <3>6. CallsFound' BY <1>t, <3>1, <3>2 DEF DepsInv, CallsFound
    <3>7. FoundIsNeeded' BY <3>1, NeededUnchanged DEF DepsInv, FoundIsNeeded
    <3>8. NothingForgotten' BY <3>1 DEF DepsInv, NothingForgotten
    <3>9. Ended' BY <3>1 DEF Ended
    <3> QED BY <3>3, <3>4, <3>5, <3>6, <3>7, <3>8, <3>9 DEF DepsInv
  <2> QED BY <2>1, <2>2
<1>5. CASE UNCHANGED vars
  <2> USE <1>5 DEF vars
  <2>1. DepsTypeOK' BY <1>0 DEF DepsTypeOK
  <2>2. Needed(root)' = Needed(root) BY NeededUnchanged
  <2>3. (CacheIsNeverUsed /\ CallsPending /\ CallsFound /\ NothingForgotten)'
    BY DEF DepsInv, CacheIsNeverUsed, CallsPending, CallsFound, NothingForgotten, OnStack
  <2>4. (FoundIsNeeded /\ Ended)' BY <2>2 DEF DepsInv, FoundIsNeeded, Ended
  <2> QED BY <2>1, <2>3, <2>4 DEF DepsInv
<1> QED BY <1>1, <1>2, <1>3, <1>4, <1>5 DEF Next, Visit

LEMMA DepsInvariant == Spec => []DepsInv
BY DepsInitial, DepsStep, PTL DEF Spec

\* The variables keep their types for any set of packages.
THEOREM DepsTypeCorrect == Spec => []DepsTypeOK
<1>1. DepsInv => DepsTypeOK BY DEF DepsInv
<1> QED BY <1>1, DepsInvariant, PTL

\* No cached set is ever used by transitive_dependencies.
THEOREM CacheUnused == Spec => []CacheIsNeverUsed
<1>1. DepsInv => CacheIsNeverUsed BY DEF DepsInv
<1> QED BY <1>1, DepsInvariant, PTL

\* What transitive_dependencies returns is what the package needs, for every
\* package list and every order in which the sets are iterated.
THEOREM NeededReturned == Spec => []ReturnsTheNeeded
<1>1. DepsInv => ReturnsTheNeeded
  <2> SUFFICES ASSUME DepsInv, outcome = "returned" PROVE dependencies = Needed(root)
    BY DEF ReturnsTheNeeded
  <2>1. Len(stack) = 1 /\ todo[stack[1]] = {} BY DEF DepsInv, Ended
  <2>2. \A p \in Pkg : todo[p] = {}
    <3>1. SUFFICES ASSUME NEW p \in Pkg, todo[p] # {} PROVE FALSE OBVIOUS
    <3>2. PICK i \in 1..Len(stack) : stack[i] = p
      BY <3>1 DEF DepsInv, CallsPending, OnStack
    <3> QED BY <2>1, <3>1, <3>2
  <2>3. dependencies \subseteq Pkg /\ root \in Pkg BY DEF DepsInv, DepsTypeOK
  <2>4. Closed(dependencies) BY <2>2, <2>3 DEF DepsInv, NothingForgotten, Closed
  <2>5. root \in dependencies /\ dependencies \subseteq Needed(root)
    BY DEF DepsInv, FoundIsNeeded
  <2> QED BY <2>3, <2>4, <2>5, NeededIsLeast
<1> QED BY <1>1, DepsInvariant, PTL

\* The exception is raised only when a package that is needed is not listed.
THEOREM AbsentRaises == Spec => []RaisesForAbsent
<1>1. DepsInv => RaisesForAbsent BY DEF DepsInv, Ended, RaisesForAbsent
<1> QED BY <1>1, DepsInvariant, PTL

-----------------------------------------------------------------------------
(***************************************************************************)
(* Why the recursion ends (Terminates, but for the fairness): what is left *)
(* to look at are pairs of a package and one that it depends on, and each  *)
(* turn of a loop takes one of them.  A call that begins adds none, since  *)
(* its package is found only once; it counts for less than the pair.       *)
(***************************************************************************)
Left == {e \in Pkg \X (Pkg \cup Absent) :
            e[2] \in IF e[1] \in dependencies THEN todo[e[1]] ELSE deps[e[1]]}

Work == 2 * Cardinality(Left) + Len(stack)

LEMMA LeftIsFinite ==
    ASSUME IsFiniteSet(Pkg), IsFiniteSet(Absent)
    PROVE  IsFiniteSet(Left) /\ Cardinality(Left) \in Nat
<1>1. IsFiniteSet(Pkg \X (Pkg \cup Absent)) BY FS_Union, FS_Product
<1>2. Left \in SUBSET (Pkg \X (Pkg \cup Absent)) BY DEF Left
<1>3. IsFiniteSet(Left) BY <1>1, <1>2, FS_Subset
<1> QED BY <1>3, FS_CardinalityType

\* A turn of the loop, whether or not it makes a call, takes its pair.
LEMMA VisitTakesOne ==
    ASSUME DepsInv, NEW p \in Pkg, Seen(p) \/ Unseen(p)
    PROVE  <<Top, p>> \in Left /\ Left' = Left \ {<<Top, p>>}
<1> DEFINE e == <<Top, p>>
<1>0. DepsTypeOK /\ Top \in Pkg /\ Len(stack) \in 1..Len(stack) BY TopOfStack DEF DepsInv
<1>1. Top \in dependencies BY <1>0 DEF DepsInv, CallsFound, Top
<1>2. p \in todo[Top] BY DEF Seen, Unseen
<1>3. e \in Left BY <1>0, <1>1, <1>2 DEF Left
<1>4. deps' = deps BY DEF Seen, Unseen
<1>5. CASE Seen(p)
  <2>1. dependencies' = dependencies /\ todo' = [todo EXCEPT ![Top] = @ \ {p}] BY <1>5 DEF Seen
  <2>2. \A q \in Pkg : todo'[q] = IF q = Top THEN todo[q] \ {p} ELSE todo[q]
    BY <1>0, <2>1 DEF DepsTypeOK
  <2>3. \A f \in Pkg \X (Pkg \cup Absent) : f \in Left' <=> f \in Left /\ f # e
    BY <1>1, <1>4, <2>1, <2>2 DEF Left
  <2> QED BY <1>3, <2>3 DEF Left
<1>6. CASE Unseen(p)
  <2>1. Cached(p) = {} BY <1>6 DEF DepsInv, CacheIsNeverUsed, Cached, Unseen
  <2>2. p \notin dependencies /\ p # Top BY <1>1, <1>6 DEF Unseen
  <2>3. dependencies' = dependencies \cup {p} BY <1>6, <2>1 DEF Unseen
  <2>4. \A q \in Pkg : todo'[q] = CASE q = Top -> todo[q] \ {p}
                                    [] q = p   -> deps[p]
                                    [] OTHER   -> todo[q]
    BY <1>6, <2>1 DEF Unseen
  <2>5. \A f \in Pkg \X (Pkg \cup Absent) : f \in Left' <=> f \in Left /\ f # e
    <3> SUFFICES ASSUME NEW q \in Pkg, NEW r \in Pkg \cup Absent
                 PROVE  <<q, r>> \in Left' <=> <<q, r>> \in Left /\ <<q, r>> # e
      OBVIOUS
    <3>1. CASE q = Top
      <4>1. todo'[Top] = todo[Top] \ {p} /\ Top \in dependencies' BY <1>0, <1>1, <2>2, <2>3, <2>4
      <4> QED BY <1>1, <1>4, <3>1, <4>1 DEF Left
    <3>2. CASE q = p BY <1>4, <2>2, <2>3, <2>4, <3>2 DEF Left
    <3>3. CASE q # Top /\ q # p BY <1>4, <2>3, <2>4, <3>3 DEF Left
    <3> QED BY <3>1, <3>2, <3>3
  <2> QED BY <1>3, <2>5 DEF Left
<1> QED BY <1>3, <1>5, <1>6

LEMMA WorkShrinks ==
    ASSUME IsFiniteSet(Pkg), IsFiniteSet(Absent), DepsInv, Next, outcome' = "running"
    PROVE  Work' < Work
<1>0. DepsTypeOK /\ Len(stack) \in Nat /\ Len(stack) >= 1 BY TopOfStack DEF DepsInv
<1>1. IsFiniteSet(Left) /\ Cardinality(Left) \in Nat BY LeftIsFinite
<1>2. ASSUME NEW p \in Pkg \cup Absent, Visit(p) PROVE Work' < Work
  <2>1. p \in Pkg /\ (Seen(p) \/ Unseen(p)) BY <1>2 DEF Visit, Incomplete, Seen, Unseen
  <2>2. <<Top, p>> \in Left /\ Left' = Left \ {<<Top, p>>} BY <2>1, VisitTakesOne
  <2>3. Cardinality(Left') = Cardinality(Left) - 1 BY <1>1, <2>2, FS_RemoveElement
  <2>4. stack' = stack \/ stack' = Append(stack, p) BY <2>1 DEF Seen, Unseen
  <2>5. Len(stack') = Len(stack) \/ Len(stack') = Len(stack) + 1
    BY <1>0, <2>1, <2>4 DEF DepsTypeOK
  <2> QED BY <1>0, <1>1, <2>3, <2>5 DEF Work
<1>3. CASE Return
  <2>1. /\ Len(stack) # 1 /\ stack' = SubSeq(stack, 1, Len(stack) - 1)
        /\ UNCHANGED <<deps, dependencies, todo>>
    BY <1>3 DEF Return
  <2>2. Left' = Left BY <2>1 DEF Left
  <2>3. Len(stack') = Len(stack) - 1
    <3>1. PICK n \in Int : n = Len(stack) - 1 BY <1>0
    <3>2. \A i \in 1..n : stack[i] \in Pkg BY <1>0, <3>1 DEF DepsTypeOK
    <3>3. n >= 1 BY <1>0, <2>1, <3>1
    <3>4. Len(SubSeq(stack, 1, n)) = n BY <3>2, <3>3, SubSeqProperties
    <3> QED BY <2>1, <3>1, <3>4
  <2> QED BY <1>0, <1>1, <2>2, <2>3 DEF Work
<1> QED BY <1>2, <1>3 DEF Next

\* The recursion ends after a number of steps that the package lists bound, however
\* the dependencies go round: each step of it ends it or leaves less to do.
THEOREM RecursionRunsOut ==
    ASSUME IsFiniteSet(Pkg), IsFiniteSet(Absent)
    PROVE  Spec => [](Work \in Nat) /\ [][outcome' = "running" => Work' < Work]_vars
<1>1. DepsInv => Work \in Nat
  <2> SUFFICES ASSUME DepsInv PROVE Work \in Nat OBVIOUS
  <2>1. Len(stack) \in Nat BY TopOfStack DEF DepsInv
  <2> QED BY <2>1, LeftIsFinite DEF Work
<1>2. DepsInv /\ [Next]_vars => [outcome' = "running" => Work' < Work]_vars BY WorkShrinks
<1> QED BY <1>1, <1>2, DepsInvariant, PTL DEF Spec
=============================================================================
