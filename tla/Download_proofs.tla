--------------------------- MODULE Download_proofs ---------------------------
(***************************************************************************)
(* Proofs about Download, for any number of files, sources, threads and    *)
(* attempts, any bodies, and any number of crashes and runs.               *)
(***************************************************************************)
EXTENDS Download, TLAPS

USE DownloadAssumption

-----------------------------------------------------------------------------
(***************************************************************************)
(* Type correctness.                                                       *)
(***************************************************************************)

LEMMA TypeInit == Init => TypeOK
<1> SUFFICES ASSUME Init PROVE TypeOK
  OBVIOUS
<1>1. NoBody \in [ver : Version \cup {None}, left : Nat]
  BY DEF NoBody
<1>2. \A f \in File : pc[f] = "queued"
  BY DEF Init
<1>3. stream \in [File -> [ver : Version \cup {None}, left : Nat]]
  BY <1>1 DEF Init
<1>4. /\ final \in [File -> Content \cup {None}]
      /\ part \in [File -> Content \cup {None}]
      /\ healthy \in BOOLEAN
  BY DEF Init
<1>5. /\ pc \in [File -> {"queued", "exists", "request", "copy", "move",
                          "done", "raised"}]
      /\ source \in [File -> Nat \ {0}]
      /\ tries \in [File -> 0..Retries]
  BY DEF Init
<1> QED
  BY <1>2, <1>3, <1>4, <1>5 DEF TypeOK

\* The source a task is at serves one of the versions.
LEMMA OfferedType ==
  ASSUME TypeOK, NEW f \in File, pc[f] = "request"
  PROVE  /\ source[f] \in 1..Len(Serves[f])
         /\ Offered(f) \in Version
         /\ BodyLen[Offered(f)] \in Nat \ {0}
  BY DEF TypeOK, Offered

LEMMA TypeNext == TypeOK /\ [Next]_vars => TypeOK'
<1> SUFFICES ASSUME TypeOK, [Next]_vars PROVE TypeOK'
  OBVIOUS
<1>1. ASSUME NEW f \in File, Worker(f) PROVE TypeOK'
  <2>1. CASE Start(f)
    BY <2>1 DEF Start, Goto, TypeOK, disk
  <2>2. CASE SourcesExhausted(f)
    BY <2>2 DEF SourcesExhausted, Goto, TypeOK, disk
  <2>3. CASE NotNecessary(f)
    BY <2>3 DEF NotNecessary, NextSource, Goto, TypeOK, disk
  <2>4. CASE Necessary(f)
    BY <2>4 DEF Necessary, Goto, TypeOK, disk
  <2>5. CASE PartialContent(f)
    <3>1. part[f] # None
      BY <2>5 DEF PartialContent, Opened, Empty
    <3>2. BodyLen[Offered(f)] - Opened(f).len \in Nat
      BY <2>5, <3>1, OfferedType DEF PartialContent, Attempt, Opened, TypeOK, Content
    <3> QED
      BY <2>5, <3>1, <3>2, OfferedType DEF PartialContent, Attempt, Goto, TypeOK, disk
  <2>6. CASE RangeNotSatisfiable(f)
    <3>1. part[f] # None
      BY <2>6 DEF RangeNotSatisfiable, Opened, Empty
    <3> QED
      BY <2>6, <3>1 DEF RangeNotSatisfiable, Attempt, Goto, TypeOK, disk
  <2>7. CASE WholeBody(f)
    <3>1. /\ Empty \in Content
          /\ Empty # None
      BY DEF Empty, Content
    <3>2. part' \in [File -> Content \cup {None}] /\ part'[f] = Empty
      BY <2>7, <3>1 DEF WholeBody, TypeOK
    <3>3. /\ [ver |-> Offered(f), left |-> BodyLen[Offered(f)]]
               \in [ver : Version \cup {None}, left : Nat]
          /\ source[f] <= Len(Serves[f])
      BY <2>7, OfferedType DEF WholeBody, Attempt
    <3>4. /\ stream' \in [File -> [ver : Version \cup {None}, left : Nat]]
          /\ stream'[f].ver \in Version
      BY <2>7, <3>3, OfferedType DEF WholeBody, Attempt, TypeOK
    <3>5. /\ \A g \in File \ {f} : /\ part'[g] = part[g] /\ pc'[g] = pc[g]
                                   /\ stream'[g] = stream[g]
          /\ pc'[f] = "copy"
          /\ pc' \in [File -> {"queued", "exists", "request", "copy", "move",
                               "done", "raised"}]
      BY <2>7 DEF WholeBody, Goto, TypeOK
    <3> QED
      BY <2>7, <3>1, <3>2, <3>3, <3>4, <3>5 DEF WholeBody, TypeOK
  <2>8. CASE OtherStatus(f)
    BY <2>8 DEF OtherStatus, Attempt, Opened, Empty, Content, TypeOK
  <2>9. CASE RequestFails(f)
    <3>1. part' \in [File -> Content \cup {None}]
      BY <2>9 DEF RequestFails, Opened, Empty, Content, TypeOK
    <3>2. part'[f] # None /\ \A g \in File \ {f} : part'[g] = part[g]
      BY <2>9 DEF RequestFails, Opened, Empty, Content, TypeOK
    <3> QED
      BY <2>9, <3>1, <3>2 DEF RequestFails, Attempt, NextSource, Goto, TypeOK
  <2>10. CASE AttemptsExhausted(f)
    BY <2>10 DEF AttemptsExhausted, NextSource, Goto, TypeOK, disk
  <2>11. CASE CopyBlock(f)
    <3> DEFINE grown == [len |-> part[f].len + 1,
                         of  |-> part[f].of \cup {stream[f].ver}]
               rest  == [ver |-> stream[f].ver, left |-> stream[f].left - 1]
    <3>1. grown \in Content /\ grown # None
      BY <2>11 DEF CopyBlock, Content, TypeOK
    <3>2. rest \in [ver : Version \cup {None}, left : Nat] /\ rest.ver \in Version
      BY <2>11 DEF CopyBlock, TypeOK
    <3>3. part' = [part EXCEPT ![f] = grown]
      BY <2>11 DEF CopyBlock
    <3>4. stream' = [stream EXCEPT ![f] = rest]
      BY <2>11 DEF CopyBlock
    <3> HIDE DEF grown, rest
    <3>5. /\ part' \in [File -> Content \cup {None}]
          /\ \A g \in File : part[g] # None => part'[g] # None
      BY <3>1, <3>3 DEF TypeOK
    <3>6. /\ stream' \in [File -> [ver : Version \cup {None}, left : Nat]]
          /\ \A g \in File : stream[g].ver \in Version => stream'[g].ver \in Version
      BY <3>2, <3>4 DEF TypeOK
    <3> QED
      BY <2>11, <3>5, <3>6 DEF CopyBlock, TypeOK
  <2>12. CASE CopyReturns(f)
    BY <2>12 DEF CopyReturns, NoBody, Goto, TypeOK, disk
  <2>13. CASE CopyRaises(f)
    BY <2>13 DEF CopyRaises, NoBody, Goto, TypeOK, disk
  <2>14. CASE Move(f)
    BY <2>14 DEF Move, NextSource, Goto, TypeOK
  <2> QED
    BY <1>1, <2>1, <2>2, <2>3, <2>4, <2>5, <2>6, <2>7, <2>8, <2>9, <2>10,
       <2>11, <2>12, <2>13, <2>14 DEF Worker
<1>2. CASE NewRun
  BY <1>2 DEF NewRun, NoBody, TypeOK, disk
<1>3. CASE Heal
  BY <1>3 DEF Heal, TypeOK, disk
<1>4. CASE UNCHANGED vars
  BY <1>4 DEF vars, TypeOK
<1> QED
  BY <1>1, <1>2, <1>3, <1>4 DEF Next

\* Every variable keeps its type; what is copied or moved exists.
THEOREM TypeCorrect == Spec => []TypeOK
  BY TypeInit, TypeNext, PTL DEF Spec

-----------------------------------------------------------------------------
(***************************************************************************)
(* A published file never changes.  A task works on a file only while the  *)
(* file is not there: the test for its name stays true because no other    *)
(* task has that name.                                                     *)
(***************************************************************************)

AtWork(f) == pc[f] \in {"request", "copy", "move"}

FreeWhileAtWork == \A f \in File : AtWork(f) => final[f] = None

LEMMA FreeInit == Init => FreeWhileAtWork
  BY DEF Init, FreeWhileAtWork, AtWork

LEMMA FreeNext == TypeOK /\ FreeWhileAtWork /\ [Next]_vars => FreeWhileAtWork'
<1> SUFFICES ASSUME TypeOK, FreeWhileAtWork, [Next]_vars PROVE FreeWhileAtWork'
  OBVIOUS
<1>1. ASSUME NEW f \in File, Move(f) PROVE FreeWhileAtWork'
  BY <1>1 DEF Move, NextSource, Goto, FreeWhileAtWork, AtWork, TypeOK
<1>2. ASSUME NEW f \in File, Necessary(f) PROVE FreeWhileAtWork'
  BY <1>2 DEF Necessary, Goto, FreeWhileAtWork, AtWork, TypeOK, disk
<1>3. ASSUME NEW f \in File,
             \/ PartialContent(f) \/ RangeNotSatisfiable(f) \/ WholeBody(f)
             \/ OtherStatus(f) \/ RequestFails(f) \/ AttemptsExhausted(f)
      PROVE  FreeWhileAtWork'
  BY <1>3 DEF PartialContent, RangeNotSatisfiable, WholeBody, OtherStatus,
     RequestFails, AttemptsExhausted, Attempt, NextSource, Goto,
     FreeWhileAtWork, AtWork, TypeOK, disk
<1>4. ASSUME NEW f \in File,
             \/ Start(f) \/ SourcesExhausted(f) \/ NotNecessary(f)
             \/ CopyBlock(f) \/ CopyReturns(f) \/ CopyRaises(f)
      PROVE  FreeWhileAtWork'
  BY <1>4 DEF Start, SourcesExhausted, NotNecessary, CopyBlock, CopyReturns,
     CopyRaises, NextSource, Goto, FreeWhileAtWork, AtWork, TypeOK, disk
<1>5. CASE NewRun
  BY <1>5 DEF NewRun, FreeWhileAtWork, AtWork
<1>6. CASE Heal
  BY <1>6 DEF Heal, FreeWhileAtWork, AtWork, disk
<1>7. CASE UNCHANGED vars
  BY <1>7 DEF vars, FreeWhileAtWork, AtWork
<1> QED
  BY <1>1, <1>2, <1>3, <1>4, <1>5, <1>6, <1>7 DEF Next, Worker

\* Only the rename of a task changes what is published.
LEMMA OnlyMovePublishes ==
  ASSUME [Next]_vars
  PROVE  UNCHANGED final \/ \E f \in File : Move(f)
<1>1. ASSUME NEW f \in File, Worker(f), ~Move(f) PROVE UNCHANGED final
  BY <1>1 DEF Worker, Start, SourcesExhausted, NotNecessary, Necessary,
     PartialContent, RangeNotSatisfiable, WholeBody, OtherStatus, RequestFails,
     AttemptsExhausted, CopyBlock, CopyReturns, CopyRaises, disk
<1> QED
  BY <1>1 DEF Next, NewRun, Heal, vars, disk

\* With any mirrors and any HTTP library, no later source, run or crash
\* replaces or removes a published file.
THEOREM PublishedStays == Spec => PublishedForGood
<1>1. TypeOK /\ FreeWhileAtWork /\ [Next]_vars
        => [\A f \in File : final[f] # None => final'[f] = final[f]]_final
  BY OnlyMovePublishes DEF Move, FreeWhileAtWork, AtWork, TypeOK
<1> QED
  BY <1>1, TypeInit, TypeNext, FreeInit, FreeNext, PTL DEF Spec, PublishedForGood

-----------------------------------------------------------------------------
(***************************************************************************)
(* With sources that agree and a library that reports an early close, what *)
(* is published is complete.  The .part file is a prefix of the body that  *)
(* all sources of the file serve: between runs, and while it is copied     *)
(* exactly what the stream still owes is missing from it.                  *)
(***************************************************************************)

SourcesAgree ==
    \A f \in File : \A i, j \in 1..Len(Serves[f]) : Serves[f][i] = Serves[f][j]

TheVersion(f) == Serves[f][1]

PrefixOf(c, v) ==
    /\ c.len <= BodyLen[v]
    /\ c.of \subseteq {v}
    /\ c.len > 0 => v \in c.of

PartInv(f) ==
    /\ part[f] # None => Serves[f] # <<>> /\ PrefixOf(part[f], TheVersion(f))
    /\ pc[f] = "copy" => /\ stream[f].ver = TheVersion(f)
                         /\ part[f].len + stream[f].left = BodyLen[TheVersion(f)]
    /\ pc[f] = "move" => part[f].len = BodyLen[TheVersion(f)]
    /\ final[f] # None => Serves[f] # <<>> /\ final[f] = Body(TheVersion(f))

CompleteInv == \A f \in File : PartInv(f)

LEMMA CompleteInit == Init => CompleteInv
  BY DEF Init, CompleteInv, PartInv

\* Under agreement, the version on offer is the version of the file.
LEMMA OfferedIsTheVersion ==
  ASSUME TypeOK, SourcesAgree, NEW f \in File, pc[f] = "request"
  PROVE  /\ Serves[f] # <<>>
         /\ Offered(f) = TheVersion(f)
         /\ TheVersion(f) \in Version
         /\ BodyLen[TheVersion(f)] \in Nat \ {0}
<1>1. source[f] \in 1..Len(Serves[f]) /\ Serves[f] \in Seq(Version)
  BY OfferedType
<1>2. 1 \in 1..Len(Serves[f])
  BY <1>1
<1> QED
  BY <1>1, <1>2, OfferedType DEF SourcesAgree, TheVersion, Offered

\* A task leaves the files of the others alone.
LEMMA OthersKeep ==
  ASSUME TypeOK, CompleteInv, NEW f \in File, Worker(f), NEW g \in File, g # f
  PROVE  PartInv(g)'
<1>1. /\ part'[g] = part[g] /\ final'[g] = final[g]
      /\ pc'[g] = pc[g] /\ stream'[g] = stream[g]
  BY DEF Worker, Start, SourcesExhausted, NotNecessary, Necessary,
     PartialContent, RangeNotSatisfiable, WholeBody, OtherStatus, RequestFails,
     AttemptsExhausted, CopyBlock, CopyReturns, CopyRaises, Move, NextSource,
     Goto, disk, TypeOK
<1> QED
  BY <1>1 DEF CompleteInv, PartInv, TheVersion, PrefixOf

LEMMA CompleteNext ==
  ASSUME SourcesAgree, ~ShortReads
  PROVE  TypeOK /\ CompleteInv /\ [Next]_vars => CompleteInv'
<1> SUFFICES ASSUME TypeOK, CompleteInv, [Next]_vars PROVE CompleteInv'
  OBVIOUS
<1>1. ASSUME NEW f \in File, Worker(f) PROVE PartInv(f)'
  <2> USE DEF PartInv, CompleteInv, PrefixOf
  <2>1. CASE \/ Start(f) \/ SourcesExhausted(f) \/ NotNecessary(f) \/ Necessary(f)
            \/ AttemptsExhausted(f)
    BY <2>1 DEF Start, SourcesExhausted, NotNecessary, Necessary,
       AttemptsExhausted, NextSource, Goto, disk, TypeOK
  <2>2. CASE PartialContent(f)
    <3>1. part[f] # None /\ part[f].len < BodyLen[TheVersion(f)]
      BY <2>2, OfferedIsTheVersion DEF PartialContent, Attempt, Opened, Empty
    <3>2. part[f].len \in Nat
      BY <3>1 DEF TypeOK, Content
    <3>3. stream'[f].ver = TheVersion(f)
          /\ stream'[f].left = BodyLen[TheVersion(f)] - part[f].len
      BY <2>2, <3>1, OfferedIsTheVersion DEF PartialContent, Attempt, Opened, TypeOK
    <3>4. pc'[f] = "copy" /\ part' = part /\ final' = final /\ pc[f] = "request"
      BY <2>2 DEF PartialContent, Attempt, Goto, disk, TypeOK
    <3>5. part[f].len + (BodyLen[TheVersion(f)] - part[f].len) = BodyLen[TheVersion(f)]
      BY <3>2, <3>4, OfferedIsTheVersion
    <3> QED
      BY <3>1, <3>3, <3>4, <3>5 DEF TheVersion
  <2>3. CASE RangeNotSatisfiable(f)
    <3>1. part[f] # None /\ part[f].len >= BodyLen[TheVersion(f)]
      BY <2>3, OfferedIsTheVersion DEF RangeNotSatisfiable, Attempt, Opened, Empty
    <3>2. part[f].len \in Nat
      BY <3>1 DEF TypeOK, Content
    <3> QED
      BY <2>3, <3>1, <3>2, OfferedIsTheVersion
      DEF RangeNotSatisfiable, Attempt, Goto, disk, TypeOK
  <2>4. CASE WholeBody(f)
    <3>1. part'[f] = Empty /\ stream'[f].ver = TheVersion(f)
          /\ stream'[f].left = BodyLen[TheVersion(f)]
      BY <2>4, OfferedIsTheVersion DEF WholeBody, Attempt, TypeOK
    <3> QED
      BY <2>4, <3>1, OfferedIsTheVersion DEF WholeBody, Attempt, Goto, Empty, TypeOK
  <2>5. CASE OtherStatus(f) \/ RequestFails(f)
    <3>1. part'[f] = Opened(f) /\ final' = final /\ pc[f] = "request"
      BY <2>5 DEF OtherStatus, RequestFails, Attempt, TypeOK
    <3>2. PrefixOf(Opened(f), TheVersion(f))
      BY <3>1, OfferedIsTheVersion DEF Opened, Empty
    <3>3. pc'[f] \in {"request", "exists"}
      BY <2>5, <3>1 DEF OtherStatus, RequestFails, NextSource, Goto, TypeOK
    <3> QED
      BY <3>1, <3>2, <3>3, OfferedIsTheVersion
  <2>6. CASE CopyBlock(f)
    <3>1. /\ part'[f].len = part[f].len + 1
          /\ part'[f].of = part[f].of \cup {TheVersion(f)}
          /\ stream'[f].ver = TheVersion(f)
          /\ stream'[f].left = stream[f].left - 1
          /\ part[f] # None
      BY <2>6 DEF CopyBlock, TypeOK
    <3>2. /\ part[f].len \in Nat /\ stream[f].left \in Nat \ {0}
          /\ BodyLen[TheVersion(f)] \in Nat
      BY <2>6, <3>1 DEF CopyBlock, TypeOK, Content
    <3> QED
      BY <2>6, <3>1, <3>2 DEF CopyBlock, TypeOK
  <2>7. CASE CopyReturns(f)
    <3>1. stream[f].left = 0 /\ part[f] # None /\ part[f].len \in Nat
      BY <2>7 DEF CopyReturns, TypeOK, Content
    <3> QED
      BY <2>7, <3>1 DEF CopyReturns, Goto, disk, TypeOK
  <2>8. CASE CopyRaises(f)
    BY <2>8 DEF CopyRaises, Goto, disk, TypeOK
  <2>9. CASE Move(f)
    <3>1. /\ part[f] # None /\ part[f].len = BodyLen[TheVersion(f)]
          /\ source[f] \in 1..Len(Serves[f]) /\ Serves[f] \in Seq(Version)
      BY <2>9 DEF Move, TypeOK
    <3>2. TheVersion(f) \in Version /\ BodyLen[TheVersion(f)] \in Nat \ {0}
      BY <3>1 DEF TheVersion
    <3>3. part[f] \in [len : Nat, of : SUBSET Version]
      BY <3>1 DEF TypeOK, Content
    <3>4. part[f].of = {TheVersion(f)}
      BY <3>1, <3>2
    <3>5. part[f] = Body(TheVersion(f))
      BY <3>1, <3>3, <3>4 DEF Body
    <3> QED
      BY <2>9, <3>1, <3>5 DEF Move, NextSource, Goto, TypeOK
  <2> QED
    BY <1>1, <2>1, <2>2, <2>3, <2>4, <2>5, <2>6, <2>7, <2>8, <2>9 DEF Worker
<1>2. ASSUME NEW f \in File, Worker(f) PROVE CompleteInv'
  BY <1>1, <1>2, OthersKeep DEF CompleteInv
<1>3. CASE NewRun
  BY <1>3 DEF NewRun, disk, CompleteInv, PartInv, PrefixOf
<1>4. CASE Heal
  BY <1>4 DEF Heal, disk, CompleteInv, PartInv, PrefixOf
<1>5. CASE UNCHANGED vars
  BY <1>5 DEF vars, CompleteInv, PartInv, PrefixOf
<1> QED
  BY <1>2, <1>3, <1>4, <1>5 DEF Next

LEMMA CompleteImplies == TypeOK /\ CompleteInv => PublishedComplete
<1> SUFFICES ASSUME TypeOK, CompleteInv, NEW f \in File, final[f] # None
             PROVE  \E i \in 1..Len(Serves[f]) : final[f] = Body(Serves[f][i])
  BY DEF PublishedComplete
<1>1. Serves[f] # <<>> /\ final[f] = Body(TheVersion(f))
  BY DEF CompleteInv, PartInv
<1>2. Serves[f] \in Seq(Version)
  OBVIOUS
<1>3. 1 \in 1..Len(Serves[f])
  BY <1>1, <1>2
<1> QED
  BY <1>1, <1>3 DEF TheVersion

\* Sources that agree and no silent short reads: only complete bodies are
\* published, over all resumes, retries, sources, crashes and runs.
THEOREM PublishedAreComplete ==
  ASSUME SourcesAgree, ~ShortReads
  PROVE  Spec => []PublishedComplete
<1>1. TypeOK /\ CompleteInv /\ [Next]_vars => CompleteInv'
  BY CompleteNext
<1> QED
  BY <1>1, TypeInit, TypeNext, CompleteInit, CompleteImplies, PTL DEF Spec

\* Under the same assumptions the directory implements the file store: its
\* readers see each name go from nothing to a complete body, once.
THEOREM ImplementsFileStore ==
  ASSUME SourcesAgree, ~ShortReads
  PROVE  Spec => StoreSpec
<1>1. Init => Store!Init
  BY DEF Init, Store!Init
<1>2. TypeOK /\ FreeWhileAtWork /\ CompleteInv /\ CompleteInv' /\ TypeOK' /\ [Next]_vars
        => [Store!Next]_final
  <2> SUFFICES ASSUME TypeOK, TypeOK', FreeWhileAtWork, CompleteInv, CompleteInv',
                      NEW f \in File, Move(f)
               PROVE  Store!Publish(f)
    BY OnlyMovePublishes DEF Store!Next
  <2>1. final[f] = None /\ final' = [final EXCEPT ![f] = part[f]] /\ part[f] # None
    BY DEF Move, FreeWhileAtWork, AtWork, TypeOK
  <2>2. final'[f] # None
    BY <2>1 DEF TypeOK
  <2>3. PublishedComplete'
    BY CompleteImplies, PTL
  <2>4. \E i \in 1..Len(Serves[f]) : part[f] = Body(Serves[f][i])
    BY <2>1, <2>2, <2>3 DEF PublishedComplete, TypeOK
  <2> QED
    BY <2>1, <2>4 DEF Store!Publish
<1>3. TypeOK /\ CompleteInv /\ [Next]_vars => CompleteInv'
  BY CompleteNext
<1> QED
  BY <1>1, <1>2, <1>3, TypeInit, TypeNext, FreeInit, FreeNext, CompleteInit, PTL
  DEF Spec, StoreSpec, Store!Spec

-----------------------------------------------------------------------------
(***************************************************************************)
(* What holds when mirrors disagree and short reads pass unnoticed: all    *)
(* that is in a file came from its own sources, and a resume never goes    *)
(* beyond the body that its source serves.                                 *)
(***************************************************************************)

FromSources(c, f) ==
    /\ c.of \subseteq {Serves[f][i] : i \in 1..Len(Serves[f])}
    /\ \E i \in 1..Len(Serves[f]) : c.len <= BodyLen[Serves[f][i]]

SourcedInv(f) ==
    /\ part[f] # None => FromSources(part[f], f)
    /\ pc[f] = "copy" => /\ stream[f].ver = Offered(f)
                         /\ part[f].len + stream[f].left = BodyLen[Offered(f)]
    /\ final[f] # None => FromSources(final[f], f)

AllSourced == \A f \in File : SourcedInv(f)

LEMMA SourcedInit == Init => AllSourced
  BY DEF Init, AllSourced, SourcedInv

\* A task leaves the files of the others alone.
LEMMA OthersSourced ==
  ASSUME TypeOK, AllSourced, NEW f \in File, Worker(f), NEW g \in File, g # f
  PROVE  SourcedInv(g)'
<1>1. /\ part'[g] = part[g] /\ final'[g] = final[g] /\ source'[g] = source[g]
      /\ pc'[g] = pc[g] /\ stream'[g] = stream[g]
  BY DEF Worker, Start, SourcesExhausted, NotNecessary, Necessary,
     PartialContent, RangeNotSatisfiable, WholeBody, OtherStatus, RequestFails,
     AttemptsExhausted, CopyBlock, CopyReturns, CopyRaises, Move, NextSource,
     Goto, disk, TypeOK
<1> QED
  BY <1>1 DEF AllSourced, SourcedInv, Offered, FromSources

LEMMA SourcedNext == TypeOK /\ AllSourced /\ [Next]_vars => AllSourced'
<1> SUFFICES ASSUME TypeOK, AllSourced, [Next]_vars PROVE AllSourced'
  OBVIOUS
<1>1. ASSUME NEW f \in File, Worker(f) PROVE SourcedInv(f)'
  <2>0. SourcedInv(f)
    BY DEF AllSourced
  <2>1. CASE \/ Start(f) \/ SourcesExhausted(f) \/ NotNecessary(f) \/ Necessary(f)
            \/ AttemptsExhausted(f) \/ RangeNotSatisfiable(f) \/ CopyReturns(f) \/ CopyRaises(f)
    <3>1. part' = part /\ final' = final /\ pc'[f] # "copy"
      BY <2>1 DEF Start, SourcesExhausted, NotNecessary, Necessary, AttemptsExhausted,
         RangeNotSatisfiable, CopyReturns, CopyRaises, NextSource, Goto, disk, TypeOK
    <3> QED
      BY <2>0, <3>1 DEF SourcedInv, FromSources
  <2>2. CASE PartialContent(f)
    <3>1. part[f] # None /\ pc[f] = "request"
      BY <2>2 DEF PartialContent, Attempt, Opened, Empty
    <3>2. part[f].len \in Nat /\ BodyLen[Offered(f)] \in Nat
      BY <3>1, OfferedType DEF TypeOK, Content
    <3>3. /\ stream'[f] = [ver |-> Offered(f), left |-> BodyLen[Offered(f)] - part[f].len]
          /\ part' = part /\ final' = final /\ source' = source
      BY <2>2, <3>1 DEF PartialContent, Opened, disk, TypeOK
    <3>4. part[f].len + (BodyLen[Offered(f)] - part[f].len) = BodyLen[Offered(f)]
      BY <3>2
    <3> QED
      BY <2>0, <3>3, <3>4 DEF SourcedInv, FromSources, Offered
  <2>3. CASE WholeBody(f)
    <3>1. /\ part'[f] = Empty /\ final' = final /\ source' = source
          /\ stream'[f] = [ver |-> Offered(f), left |-> BodyLen[Offered(f)]]
      BY <2>3 DEF WholeBody, TypeOK
    <3>2. source[f] \in 1..Len(Serves[f]) /\ BodyLen[Offered(f)] \in Nat
      BY <2>3, OfferedType DEF WholeBody, Attempt
    <3>3. FromSources(Empty, f)
      BY <3>2 DEF FromSources, Empty, Offered
    <3> QED
      BY <2>0, <3>1, <3>2, <3>3 DEF SourcedInv, FromSources, Offered, Empty
  <2>4. CASE OtherStatus(f) \/ RequestFails(f)
    <3>1. part'[f] = Opened(f) /\ final' = final /\ pc'[f] # "copy" /\ pc[f] = "request"
      BY <2>4 DEF OtherStatus, RequestFails, Attempt, NextSource, Goto, TypeOK
    <3>2. source[f] \in 1..Len(Serves[f]) /\ BodyLen[Offered(f)] \in Nat
      BY <3>1, OfferedType
    <3>3. FromSources(Opened(f), f)
      BY <2>0, <3>2 DEF SourcedInv, FromSources, Opened, Empty, Offered
    <3> QED
      BY <2>0, <3>1, <3>3 DEF SourcedInv, FromSources
  <2>5. CASE CopyBlock(f)
    <3>1. /\ part'[f].len = part[f].len + 1
          /\ part'[f].of = part[f].of \cup {Offered(f)}
          /\ stream'[f].ver = Offered(f) /\ stream'[f].left = stream[f].left - 1
          /\ source' = source /\ final' = final
      BY <2>0, <2>5 DEF CopyBlock, SourcedInv, TypeOK
    <3>2. /\ part[f] # None /\ part[f].len \in Nat /\ stream[f].left \in Nat \ {0}
          /\ source[f] \in 1..Len(Serves[f])
      BY <2>5 DEF CopyBlock, TypeOK, Content
    <3>3. part'[f].len + stream'[f].left = BodyLen[Offered(f)]
      <4>1. part[f].len + stream[f].left = BodyLen[Offered(f)]
        BY <2>0, <2>5 DEF CopyBlock, SourcedInv
      <4>2. (part[f].len + 1) + (stream[f].left - 1) = part[f].len + stream[f].left
        BY <3>2
      <4> QED
        BY <3>1, <4>1, <4>2
    <3>4. stream'[f].left \in Nat /\ part'[f].len \in Nat
      BY <3>1, <3>2
    <3>5. part'[f].len <= BodyLen[Serves[f][source[f]]]
      BY <3>3, <3>4 DEF Offered
    <3>6. FromSources(part[f], f)
      BY <2>0, <3>2 DEF SourcedInv
    <3>7. FromSources(part'[f], f)
      BY <3>1, <3>2, <3>5, <3>6 DEF FromSources, Offered
    <3> QED
      BY <2>0, <3>1, <3>3, <3>7 DEF SourcedInv, FromSources, Offered
  <2>6. CASE Move(f)
    <3>1. /\ final'[f] = part[f] /\ part'[f] = None /\ pc'[f] # "copy" /\ part[f] # None
      BY <2>6 DEF Move, NextSource, Goto, TypeOK
    <3> QED
      BY <2>0, <3>1 DEF SourcedInv, FromSources
  <2> QED
    BY <1>1, <2>1, <2>2, <2>3, <2>4, <2>5, <2>6 DEF Worker
<1>2. ASSUME NEW f \in File, Worker(f) PROVE AllSourced'
  BY <1>1, <1>2, OthersSourced DEF AllSourced
<1>3. CASE NewRun
  <2> SUFFICES ASSUME NEW f \in File PROVE SourcedInv(f)'
    BY DEF AllSourced
  <2>1. part' = part /\ final' = final /\ pc'[f] # "copy"
    BY <1>3 DEF NewRun, disk
  <2> QED
    BY <2>1 DEF AllSourced, SourcedInv, FromSources
<1>4. CASE Heal \/ UNCHANGED vars
  BY <1>4 DEF Heal, vars, disk, AllSourced, SourcedInv, FromSources, Offered
<1> QED
  BY <1>2, <1>3, <1>4 DEF Next

\* With any mirrors and any HTTP library, a published file has nothing that is not
\* from its own sources, and is not longer than the longest body they serve.
THEOREM PublishedAreSourced == Spec => []PublishedFromSources
<1>1. AllSourced => PublishedFromSources
  BY DEF AllSourced, SourcedInv, FromSources, PublishedFromSources
<1> QED
  BY <1>1, TypeInit, TypeNext, SourcedInit, SourcedNext, PTL DEF Spec

-----------------------------------------------------------------------------
(***************************************************************************)
(* Files that are not published.  The only ways out of a task are the end  *)
(* of its sources and an error of a stream, which leaves its .part file.   *)
(***************************************************************************)
LEMMA ExplainedInit == Init => UnpublishedExplained
  BY DEF Init, UnpublishedExplained, Settled

LEMMA ExplainedNext ==
  ASSUME TypeOK, UnpublishedExplained, [Next]_vars
  PROVE  UnpublishedExplained'
<1> USE DEF UnpublishedExplained, Settled, TypeOK, disk
<1>1. ASSUME NEW f \in File, SourcesExhausted(f) PROVE UnpublishedExplained'
  BY <1>1 DEF SourcesExhausted, Goto
<1>2. ASSUME NEW f \in File, CopyRaises(f) PROVE UnpublishedExplained'
  BY <1>2 DEF CopyRaises, Goto
<1>3. ASSUME NEW f \in File, Worker(f), ~SourcesExhausted(f), ~CopyRaises(f)
      PROVE  UnpublishedExplained'
  <2>1. ~Settled(f)'
    BY <1>3 DEF Worker, Start, NotNecessary, Necessary, PartialContent, RangeNotSatisfiable,
       WholeBody, OtherStatus, RequestFails, AttemptsExhausted, CopyBlock, CopyReturns, Move,
       Attempt, NextSource, Goto
  <2>2. \A g \in File \ {f} : /\ pc'[g] = pc[g] /\ final'[g] = final[g]
                              /\ part'[g] = part[g] /\ source'[g] = source[g]
    BY <1>3 DEF Worker, Start, NotNecessary, Necessary, PartialContent, RangeNotSatisfiable,
       WholeBody, OtherStatus, RequestFails, AttemptsExhausted, CopyBlock, CopyReturns, Move,
       NextSource, Goto
  <2> QED
    BY <2>1, <2>2
<1>4. CASE NewRun
  BY <1>4 DEF NewRun
<1>5. CASE Heal \/ UNCHANGED vars
  BY <1>5 DEF Heal, vars
<1> QED
  BY <1>1, <1>2, <1>3, <1>4, <1>5 DEF Next

\* Whatever the mirrors do, a task that ended without its file has been through all
\* of its sources, or an error of a stream ended it and its .part file is there.
THEOREM UnpublishedAreExplained == Spec => []UnpublishedExplained
<1>1. TypeOK /\ UnpublishedExplained /\ [Next]_vars => UnpublishedExplained'
  BY ExplainedNext
<1> QED
  BY <1>1, TypeInit, TypeNext, ExplainedInit, PTL DEF Spec

(***************************************************************************)
(* A task that a run takes up when the network is healthy stays with its   *)
(* first source until the file is there: no request fails, no stream ends  *)
(* early, and the first attempt is left.                                   *)
(***************************************************************************)
TakenUp(f) == healthy /\ pc[f] = "queued" /\ Serves[f] # <<>>

OnItsWay(f) ==
    /\ healthy /\ Serves[f] # <<>>
    /\ \/ final[f] # None
       \/ pc[f] = "queued"
       \/ /\ pc[f] \in {"exists", "request", "copy", "move"}
          /\ source[f] <= Len(Serves[f])
          /\ pc[f] = "request" => tries[f] > 0

QueuedAtFirst == \A f \in File : pc[f] = "queued" => source[f] = 1

LEMMA QueuedNext == TypeOK /\ QueuedAtFirst /\ [Next]_vars => QueuedAtFirst'
<1> SUFFICES ASSUME TypeOK, QueuedAtFirst, [Next]_vars PROVE QueuedAtFirst'
  OBVIOUS
<1> USE DEF QueuedAtFirst, TypeOK, disk
<1>1. ASSUME NEW f \in File, Worker(f) PROVE QueuedAtFirst'
  <2>1. /\ pc'[f] # "queued"
        /\ \A g \in File \ {f} : pc'[g] = pc[g] /\ source'[g] = source[g]
    BY <1>1 DEF Worker, Start, SourcesExhausted, NotNecessary, Necessary, PartialContent,
       RangeNotSatisfiable, WholeBody, OtherStatus, RequestFails, AttemptsExhausted, CopyBlock,
       CopyReturns, CopyRaises, Move, Attempt, NextSource, Goto
  <2> QED
    BY <2>1
<1>2. CASE NewRun
  BY <1>2 DEF NewRun
<1>3. CASE Heal \/ UNCHANGED vars
  BY <1>3 DEF Heal, vars
<1> QED
  BY <1>1, <1>2, <1>3 DEF Next

LEMMA StaysOnItsWay ==
  ASSUME TypeOK, QueuedAtFirst, FreeWhileAtWork, NEW f \in File, OnItsWay(f), [Next]_vars
  PROVE  OnItsWay(f)'
<1> USE DEF OnItsWay, TypeOK, disk
<1>1. Serves[f] # <<>> => Len(Serves[f]) >= 1
  BY DEF File
<1>2. ASSUME NEW g \in File, Worker(g), g # f PROVE OnItsWay(f)'
  <2>1. /\ pc'[f] = pc[f] /\ final'[f] = final[f] /\ source'[f] = source[f]
        /\ tries'[f] = tries[f] /\ healthy' = healthy
    BY <1>2 DEF Worker, Start, SourcesExhausted, NotNecessary, Necessary, PartialContent,
       RangeNotSatisfiable, WholeBody, OtherStatus, RequestFails, AttemptsExhausted, CopyBlock,
       CopyReturns, CopyRaises, Move, NextSource, Goto
  <2> QED
    BY <2>1
<1>3. CASE Move(f)
  <2>1. final'[f] = part[f] /\ part[f] # None /\ healthy' = healthy
    BY <1>3 DEF Move
  <2> QED
    BY <2>1
<1>4. CASE Start(f) \/ Necessary(f)
  <2>1. healthy' = healthy /\ final' = final /\ source' = source
    BY <1>4 DEF Start, Necessary
  <2>2. CASE Start(f)
    <3>1. pc'[f] = "exists" /\ source[f] = 1 /\ 1 <= Len(Serves[f])
      BY <1>1, <2>2 DEF Start, Goto, QueuedAtFirst
    <3> QED
      BY <2>1, <3>1
  <2>3. CASE Necessary(f)
    <3>1. pc'[f] = "request" /\ source[f] <= Len(Serves[f]) /\ tries'[f] = Retries
      BY <2>3 DEF Necessary, Goto
    <3> QED
      BY <2>1, <3>1
  <2> QED
    BY <1>4, <2>2, <2>3
<1>5. CASE SourcesExhausted(f) \/ NotNecessary(f)
  <2>1. UNCHANGED <<final, healthy>> /\ pc[f] = "exists"
    BY <1>5 DEF SourcesExhausted, NotNecessary
  <2>2. final[f] # None
    BY <1>5, <2>1 DEF SourcesExhausted, NotNecessary
  <2> QED
    BY <2>1, <2>2
<1>6. CASE \/ PartialContent(f) \/ RangeNotSatisfiable(f) \/ WholeBody(f)
           \/ CopyBlock(f) \/ CopyReturns(f)
  <2>1. /\ UNCHANGED <<final, source, healthy>>
        /\ pc[f] \in {"request", "copy"} /\ pc'[f] \in {"copy", "move"}
    BY <1>6 DEF PartialContent, RangeNotSatisfiable, WholeBody, CopyBlock, CopyReturns, Attempt, Goto
  <2> QED
    BY <2>1
<1>7. CASE OtherStatus(f) \/ RequestFails(f) \/ AttemptsExhausted(f) \/ CopyRaises(f)
  BY <1>7 DEF OtherStatus, RequestFails, AttemptsExhausted, CopyRaises, FreeWhileAtWork, AtWork
<1>8. CASE NewRun
  BY <1>8 DEF NewRun
<1>9. CASE Heal \/ UNCHANGED vars
  BY <1>9 DEF Heal, vars
<1> QED
  BY <1>2, <1>3, <1>4, <1>5, <1>6, <1>7, <1>8, <1>9 DEF Next, Worker

\* What HealthyRunPublishes promises, but for the end of the task: a file with a
\* source whose task was taken up on a healthy network is there whenever its task,
\* or that of any later run, has ended, whatever was left in the directory.
THEOREM HealthyNeverGivesUp ==
  ASSUME NEW f \in File
  PROVE  Spec => [](TakenUp(f) => [](Settled(f) => final[f] # None))
<1>1. TypeOK /\ QueuedAtFirst /\ FreeWhileAtWork /\ OnItsWay(f) /\ [Next]_vars => OnItsWay(f)'
  BY StaysOnItsWay
<1>2. TakenUp(f) => OnItsWay(f)
  BY DEF TakenUp, OnItsWay
<1>3. OnItsWay(f) => (Settled(f) => final[f] # None)
  BY DEF OnItsWay, Settled
<1>4. Init => QueuedAtFirst
  BY DEF Init, QueuedAtFirst
<1> QED
  BY <1>1, <1>2, <1>3, <1>4, TypeInit, TypeNext, QueuedNext, FreeInit, FreeNext, PTL DEF Spec
=============================================================================
