------------------------ MODULE ChooseBuilder_proofs ------------------------
(***************************************************************************)
(* Proofs about ChooseBuilder, for any kernels and any set of Dockerfiles. *)
(***************************************************************************)
EXTENDS ChooseBuilder, TLAPS

USE ChooseAssumption

\* Of the number in the configuration, major and minor version can be told, with one
\* digit or with two.
LEMMA ConfigIsRead ==
  ASSUME NEW g \in (1..99) \X (0..99) \X (0..99)
  PROVE  FromConfig(ConfigGccVersion(g)) = <<g[1], g[2]>>
<1> DEFINE a == g[1]
           b == g[2]
           c == g[3]
<1>1. a \in 1..99 /\ b \in 0..99 /\ c \in 0..99
  OBVIOUS
<1>2. ConfigGccVersion(g) = 10000 * a + 100 * b + c
  BY DEF ConfigGccVersion
<1> HIDE DEF a, b, c
<1>3. (10000 * a + 100 * b + c) \div 10000 = a
  BY <1>1
<1>4. (10000 * a + 100 * b + c) \div 100 = 100 * a + b
  BY <1>1
<1>5. (100 * a + b) % 100 = b
  BY <1>1
<1>6. FromConfig(ConfigGccVersion(g)) = <<a, b>>
  BY <1>2, <1>3, <1>4, <1>5 DEF FromConfig
<1> QED
  BY <1>6 DEF a, b

LEMMA GccIsRead ==
  ASSUME NEW k \in Kernel
  PROVE  /\ GccOf(k) \in Nat \X Nat
         /\ k.form # "nowhere" => GccOf(k) = <<k.gcc[1], k.gcc[2]>>
<1>1. k.gcc \in (1..99) \X (0..99) \X (0..99) /\ k.form \in Form
  OBVIOUS
<1>2. CASE k.form = "config"
  BY <1>1, <1>2, ConfigIsRead DEF GccOf
<1>3. CASE k.form # "config"
  BY <1>1, <1>3 DEF GccOf, Form
<1> QED
  BY <1>2, <1>3

LEMMA ChooseTypeInit == Init => ChooseTypeOK
  BY DEF Init, ChooseTypeOK

LEMMA ChooseTypeNext == ChooseTypeOK /\ [Next]_vars => ChooseTypeOK'
<1> SUFFICES ASSUME ChooseTypeOK, [Next]_vars PROVE ChooseTypeOK'
  OBVIOUS
<1>1. CASE ByTag
  BY <1>1 DEF ByTag, ChooseTypeOK
<1>2. CASE ByGcc
  BY <1>2, GccIsRead DEF ByGcc, ChooseTypeOK
<1>3. CASE End
  BY <1>3 DEF End, ChooseTypeOK
<1>4. CASE \E f \in Dockerfile : Scan(f)
  BY <1>4 DEF Scan, ChooseTypeOK
<1>5. CASE UNCHANGED vars
  BY <1>5 DEF vars, ChooseTypeOK
<1> QED
  BY <1>1, <1>2, <1>3, <1>4, <1>5 DEF Next

\* Every variable has its type.
THEOREM ChooseTypeCorrect == Spec => []ChooseTypeOK
  BY ChooseTypeInit, ChooseTypeNext, PTL DEF Spec

(***************************************************************************)
(* The loop.  It has passed the older ones of our images; of those it      *)
(* passed all but the last are older than the kernel's gcc.                *)
(***************************************************************************)
Passed == Ours \ left

LoopInv ==
    /\ left \subseteq Ours
    /\ wanted = GccOf(kernel)
    /\ \A f \in Passed : /\ last # None
                         /\ f # last => Older(f.ver, wanted)
                         /\ ~Older(last.ver, f.ver)
                         /\ \A g \in left : ~Older(g.ver, f.ver)
    /\ last # None => last \in Passed /\ (pc = "scan" <=> Older(last.ver, wanted))
    /\ pc = "end" => last # None

ChooseInv ==
    /\ pc = "tag" => last = None
    /\ pc \in {"scan", "end"} => LoopInv
    /\ ClosestGccChosen
    /\ RaisesOnlyWithoutImages

LEMMA ChooseInit == Init => ChooseInv
  BY DEF Init, ChooseInv, ClosestGccChosen, RaisesOnlyWithoutImages

LEMMA ScanKeeps ==
  ASSUME ChooseTypeOK, ChooseInv, NEW f \in Dockerfile, Scan(f), None \notin Dockerfile
  PROVE  ChooseInv'
<1>1. /\ pc = "scan" /\ f \in left /\ LoopInv
      /\ left' = left \ {f} /\ last' = f /\ UNCHANGED <<kernel, distro, wanted>>
      /\ pc' = IF Older(f.ver, wanted) THEN "scan" ELSE "end"
      /\ \A g \in left : ~Older(g.ver, f.ver)
  BY DEF Scan, ChooseInv
<1>2. Ours' = Ours /\ f \in Ours /\ Passed' = Passed \cup {f}
  BY <1>1 DEF Ours, LoopInv, Passed
<1>3. \A g \in Passed : Older(g.ver, wanted) /\ ~Older(f.ver, g.ver)
  BY <1>1 DEF LoopInv
<1>4. f.ver \in Nat \X Nat /\ ~Older(f.ver, f.ver)
  BY DEF Older
<1>5. LoopInv'
  BY <1>1, <1>2, <1>3, <1>4 DEF LoopInv, Older, GccOf
<1> QED
  BY <1>1, <1>5 DEF ChooseInv, ClosestGccChosen, RaisesOnlyWithoutImages

LEMMA EndChooses ==
  ASSUME ChooseTypeOK, ChooseInv, End, None \notin Dockerfile
  PROVE  ChooseInv'
<1>1. /\ LoopInv /\ UNCHANGED <<kernel, distro, last>>
      /\ pc = "end" \/ (pc = "scan" /\ left = {})
      /\ pc' = IF last = None THEN "raised" ELSE "returned"
  BY DEF End, ChooseInv
<1>2. Ours' = Ours
  BY <1>1 DEF Ours
<1>3. CASE last = None
  <2>1. Ours = {}
    BY <1>1, <1>3 DEF LoopInv, Passed
  <2> QED
    BY <1>1, <1>2, <1>3, <2>1 DEF ChooseInv, ClosestGccChosen, RaisesOnlyWithoutImages
<1>4. CASE last # None /\ kernel.form # "nowhere"
  <2>1. wanted = <<kernel.gcc[1], kernel.gcc[2]>>
    BY <1>1, <1>4, GccIsRead DEF LoopInv, ChooseTypeOK
  <2>2. last \in Passed /\ Passed \subseteq Ours
    BY <1>1, <1>4 DEF LoopInv, Passed
  <2>3. Best(last)
    <3>1. CASE pc = "end"
      <4>1. last \in NotOlder
        BY <1>1, <2>1, <2>2, <3>1 DEF LoopInv, NotOlder
      <4>2. ASSUME NEW g \in NotOlder PROVE ~Older(g.ver, last.ver)
        <5>1. CASE g \in left
          BY <1>1, <2>2, <5>1 DEF LoopInv
        <5>2. CASE g \notin left
          <6>1. g \in Passed /\ ~Older(g.ver, wanted)
            BY <2>1, <5>2 DEF NotOlder, Passed
          <6>2. g = last /\ g.ver \in Nat \X Nat
            BY <1>1, <6>1 DEF LoopInv, Passed, Ours
          <6> QED
            BY <6>2 DEF Older
        <5> QED
          BY <5>1, <5>2
      <4> QED
        BY <4>1, <4>2 DEF Best
    <3>2. CASE pc = "scan" /\ left = {}
      <4>1. Passed = Ours
        BY <3>2 DEF Passed
      <4>2. \A g \in Ours : Older(g.ver, wanted) /\ ~Older(last.ver, g.ver)
        BY <1>1, <1>4, <3>2, <4>1 DEF LoopInv
      <4> QED
        BY <2>1, <4>2 DEF Best, NotOlder
    <3> QED
      BY <1>1, <3>1, <3>2
  <2>4. Best(last)' /\ last' \in Ours'
    BY <1>1, <1>2, <2>2, <2>3 DEF Best, NotOlder
  <2> QED
    BY <1>1, <1>4, <2>4 DEF ChooseInv, ClosestGccChosen, RaisesOnlyWithoutImages
<1>5. CASE last # None /\ kernel.form = "nowhere"
  BY <1>1, <1>5 DEF ChooseInv, ClosestGccChosen, RaisesOnlyWithoutImages
<1> QED
  BY <1>3, <1>4, <1>5

LEMMA ChooseNext ==
  ASSUME ChooseTypeOK, ChooseInv, [Next]_vars, None \notin Dockerfile
  PROVE  ChooseInv'
<1>1. CASE ByTag
  BY <1>1 DEF ByTag, ChooseInv, ClosestGccChosen, RaisesOnlyWithoutImages
<1>2. CASE ByGcc
  BY <1>2 DEF ByGcc, ChooseInv, LoopInv, Passed, Ours, GccOf, ClosestGccChosen, RaisesOnlyWithoutImages
<1>3. CASE End
  BY <1>3, EndChooses
<1>4. CASE \E f \in Dockerfile : Scan(f)
  BY <1>4, ScanKeeps
<1>5. CASE UNCHANGED vars
  BY <1>5 DEF vars, ChooseInv, LoopInv, Passed, Ours, Best, NotOlder, GccOf,
              ClosestGccChosen, RaisesOnlyWithoutImages
<1> QED
  BY <1>1, <1>2, <1>3, <1>4, <1>5 DEF Next

\* Of whatever Dockerfiles there are for the distribution, the one with the closest
\* gcc is taken, and the choice fails only if there is none.
THEOREM ChoosesClosest ==
  ASSUME None \notin Dockerfile
  PROVE  Spec => [](ClosestGccChosen /\ RaisesOnlyWithoutImages)
<1>1. ChooseTypeOK /\ ChooseInv /\ [Next]_vars => ChooseInv'
  BY ChooseNext
<1>2. ChooseInv => ClosestGccChosen /\ RaisesOnlyWithoutImages
  BY DEF ChooseInv
<1> QED
  BY <1>1, <1>2, ChooseInit, ChooseTypeCorrect, PTL DEF Spec

\* An exception means that there is no image for the distribution at all, for any
\* compiler and any kernel: beyond both ends of the list there is one to take.
THEOREM RaisesForNoImages ==
  ASSUME None \notin Dockerfile
  PROVE  Spec => []RaisesOnlyWithoutImages
  BY ChoosesClosest, PTL
=============================================================================
