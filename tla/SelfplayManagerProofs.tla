----------------------- MODULE SelfplayManagerProofs -----------------------
(***************************************************************************)
(* For any numbers of game threads, nets, games and places in a queue: a   *)
(* net is managed, loaded and writable as long as a game thread holds it,  *)
(* the manager's assertions hold, and nets of no use are retired.          *)
(***************************************************************************)
EXTENDS SelfplayManager, FiniteSetTheorems, SequenceTheorems, TLAPS

\* Where a game thread is says which nets it holds.
GameInv ==
  \A g \in Games :
    /\ gt[g].eval = NoModel <=> gt[g].pc \in {"loop", "acquire", "done"}
    /\ gt[g].old # NoModel <=> gt[g].pc = "switch"
    /\ gt[g].pc = "switch" => gt[g].eval # gt[g].old /\ gt[g].bots = gt[g].old
    /\ gt[g].pc = "play" => gt[g].bots = gt[g].eval
    /\ gt[g].pc \in {"play", "switch", "set", "enqueue", "push"} => gt[g].game \in Nat
    /\ Holds(g) \subseteq modelDatas

\* Where its writing loop is says in what phase a net is, and its count how
\* many threads hold it; nets are loaded in the order of their numbers.
Fitting(d) ==
  /\ d.loop = "none" <=> d.phase = "unloaded"
  /\ d.loop \in {"deleted", "done"} <=> d.phase = "deleted"
  /\ d.loop \in {"ended", "deleted", "done"} => d.readOnly
  /\ d.phase = "unloaded" => ~d.readOnly
  /\ d.loop = "write" => d.game \in Nat
ModelInv ==
  \A m \in Models :
    /\ Fitting(md[m])
    /\ m \in modelDatas <=> md[m].phase = "loaded" /\ ~md[m].readOnly
    /\ md[m].phase # "unloaded" => \A k \in Models : k < m => md[k].phase # "unloaded"
CountInv == \A m \in Models : md[m].acquireCount = Cardinality(Holders(m))

Active(data) == {m \in Models : data[m].loop \in {"pop", "write", "ended", "deleted"}}
ActiveInv == numDataWriteLoopsActive = Cardinality(Active(md))

\* There is a last net until the manager is destroyed, and it is kept.
Last(S, m) == m \in S /\ \A k \in S : k <= m
LastInv ==
  /\ modelDatas # {} => \E m \in modelDatas : Last(modelDatas, m)
  /\ \A m, l \in modelDatas : Last(modelDatas, l) /\ m # l => md[m].acquireCount # 0

MainInv ==
  /\ main \in {"joining", "stopping"} <=> modelDatas # {}
  /\ main \in {"deleting", "done"} => loading = "done"
  /\ main # "joining" => \A g \in Games : gt[g].pc = "done"

IInv == TypeOK /\ GameInv /\ ModelInv /\ CountInv /\ ActiveInv /\ LastInv /\ MainInv

Datas ==
  [phase : {"unloaded", "loaded", "deleted"}, acquireCount : Int, queue : Seq(Nat),
   readOnly : BOOLEAN, loop : {"none", "pop", "write", "ended", "deleted", "done"},
   game : Nat \cup {NoGame}]
Threads ==
  [pc : {"loop", "acquire", "start", "play", "switch", "set", "enqueue", "push",
         "release", "quit", "done"},
   eval : Models \cup {NoModel}, old : Models \cup {NoModel},
   bots : Models \cup {NoModel}, game : Nat \cup {NoGame}]

(***************************************************************************)
(* Nets and numbers.                                                       *)
(***************************************************************************)
LEMMA ModelsFacts ==
  /\ IsFiniteSet(Models) /\ Models \subseteq Nat \ {0} /\ 1 \in Models
  /\ NoModel \notin Models
BY SelfplayAssumption, FS_Interval DEF Models, NoModel

\* Latest is the last net, whatever set of nets there is.
LEMMA LatestIsLast ==
  ASSUME NEW l \in modelDatas, Last(modelDatas, l), modelDatas \subseteq Models
  PROVE  Latest = l
<1>1. \A m \in modelDatas : m \in Nat
  BY ModelsFacts
<1>2. \A m \in modelDatas : (\A k \in modelDatas : k <= m) => m = l
  BY <1>1 DEF Last
<1>3. \E m \in modelDatas : \A k \in modelDatas : k <= m
  BY DEF Last
<1> QED
  BY <1>2, <1>3 DEF Latest

\* Any threads, the holders of a net among them, can be counted.
LEMMA ThreadsCounted ==
  ASSUME NEW S \in SUBSET Games
  PROVE  /\ IsFiniteSet(S) /\ Cardinality(S) \in Nat
         /\ Cardinality(S) = 0 <=> S = {}
<1>1. IsFiniteSet(S)
  BY SelfplayAssumption, FS_Subset
<1> QED
  BY <1>1, FS_CardinalityType, FS_EmptySet

LEMMA ActiveCounted ==
  ASSUME NEW data
  PROVE  IsFiniteSet(Active(data)) /\ Cardinality(Active(data)) \in Nat
<1>1. Active(data) \in SUBSET Models
  BY DEF Active
<1>2. IsFiniteSet(Active(data))
  BY <1>1, ModelsFacts, FS_Subset
<1> QED
  BY <1>2, FS_CardinalityType

\* A thread that holds no other nets than before changes no net's holders.
LEMMA SameHolders ==
  ASSUME NEW g \in Games, NEW r, gt \in [Games -> Threads],
         gt' = [gt EXCEPT ![g] = r], r.eval = gt[g].eval, r.old = gt[g].old
  PROVE  /\ \A h \in Games : Holds(h)' = Holds(h)
         /\ \A m : Holders(m)' = Holders(m)
<1>1. \A h \in Games : gt'[h].eval = gt[h].eval /\ gt'[h].old = gt[h].old
  OBVIOUS
<1>2. \A h \in Games : Holds(h)' = Holds(h)
  BY <1>1 DEF Holds
<1> QED
  BY <1>2 DEF Holders

\* One that acquires a net is one holder more of that net, and of no other.
LEMMA OneHolderMore ==
  ASSUME NEW g \in Games, NEW l, l \notin Holds(g),
         Holds(g)' = Holds(g) \cup {l}, \A h \in Games \ {g} : Holds(h)' = Holds(h)
  PROVE  \A m : Cardinality(Holders(m))' =
                  IF m = l THEN Cardinality(Holders(m)) + 1 ELSE Cardinality(Holders(m))
<1>1. Holders(l)' = Holders(l) \cup {g} /\ g \notin Holders(l)
  BY DEF Holders
<1>2. \A m : m # l => Holders(m)' = Holders(m)
  BY DEF Holders
<1>3. Cardinality(Holders(l) \cup {g}) = Cardinality(Holders(l)) + 1
  <2>1. Holders(l) \in SUBSET Games
    BY DEF Holders
  <2> QED
    BY <1>1, <2>1, ThreadsCounted, FS_AddElement
<1> QED
  BY <1>1, <1>2, <1>3

LEMMA OneHolderLess ==
  ASSUME NEW g \in Games, NEW l, l \in Holds(g),
         Holds(g)' = Holds(g) \ {l}, \A h \in Games \ {g} : Holds(h)' = Holds(h)
  PROVE  \A m : Cardinality(Holders(m))' =
                  IF m = l THEN Cardinality(Holders(m)) - 1 ELSE Cardinality(Holders(m))
<1>1. Holders(l)' = Holders(l) \ {g} /\ g \in Holders(l)
  BY DEF Holders
<1>2. \A m : m # l => Holders(m)' = Holders(m)
  BY DEF Holders
<1>3. Cardinality(Holders(l) \ {g}) = Cardinality(Holders(l)) - 1
  <2>1. Holders(l) \in SUBSET Games
    BY DEF Holders
  <2> QED
    BY <1>1, <2>1, ThreadsCounted, FS_RemoveElement
<1> QED
  BY <1>1, <1>2, <1>3

(***************************************************************************)
(* Cleaning up: nets in use and the last net stay, the others go.          *)
(***************************************************************************)
CleanedUp(models, data, l) ==
  /\ modelDatas' \subseteq models /\ Last(modelDatas', l)
  /\ \A m \in models : data[m].acquireCount # 0 => m \in modelDatas'
  /\ \A m \in modelDatas' : m # l => data[m].acquireCount # 0
  /\ md' \in [Models -> Datas]
  /\ \A m \in Models :
       /\ md'[m].readOnly <=> data[m].readOnly \/ m \in models \ modelDatas'
       /\ md'[m].acquireCount = data[m].acquireCount
       /\ md'[m].phase = data[m].phase /\ md'[m].loop = data[m].loop
       /\ md'[m].game = data[m].game

LEMMA CleanupKeeps ==
  ASSUME NEW models \in SUBSET Models, NEW data \in [Models -> Datas],
         NEW l \in models, Last(models, l), Cleanup(models, data)
  PROVE  CleanedUp(models, data, l)
<1>0. PICK R : R = Retired(models, data)
  OBVIOUS
<1>1. modelDatas' = models \ R /\ md' = Close(data, R)
  BY <1>0 DEF Cleanup
<1>2. \A m \in models : m \in Nat
  BY ModelsFacts
<1>3. \A m \in models : m \in R <=> data[m].acquireCount = 0 /\ m # l
  BY <1>0, <1>2 DEF Retired, Last
<1>4. R \subseteq models
  BY <1>0 DEF Retired
<1>5. /\ modelDatas' \subseteq models /\ Last(modelDatas', l)
      /\ \A m \in models : data[m].acquireCount # 0 => m \in modelDatas'
      /\ \A m \in modelDatas' : m # l => data[m].acquireCount # 0
  BY <1>1, <1>3, <1>4 DEF Last
<1>6. \A m \in Models : m \in R <=> m \in models \ modelDatas'
  BY <1>1, <1>4
<1>7. md' = [m \in Models |-> IF m \in R THEN [data[m] EXCEPT !.readOnly = TRUE] ELSE data[m]]
  BY <1>1 DEF Close
<1>8. ASSUME NEW m \in Models
      PROVE  /\ md'[m] \in Datas
             /\ md'[m].readOnly <=> data[m].readOnly \/ m \in models \ modelDatas'
             /\ md'[m].acquireCount = data[m].acquireCount
             /\ md'[m].phase = data[m].phase /\ md'[m].loop = data[m].loop
             /\ md'[m].game = data[m].game
  <2>1. data[m] \in Datas
    OBVIOUS
  <2>2. CASE m \in R
    <3>1. md'[m] = [data[m] EXCEPT !.readOnly = TRUE]
      BY <1>7, <2>2
    <3> QED
      BY <3>1, <2>1, <2>2, <1>6 DEF Datas
  <2>3. CASE m \notin R
    <3>1. md'[m] = data[m]
      BY <1>7, <2>3
    <3> QED
      BY <3>1, <2>1, <2>3, <1>6 DEF Datas
  <2> QED
    BY <2>2, <2>3
<1>9. md' \in [Models -> Datas]
  <2>1. \A m \in Models :
          (IF m \in R THEN [data[m] EXCEPT !.readOnly = TRUE] ELSE data[m]) \in Datas
    BY <1>7, <1>8
  <2> QED
    BY <1>7, <2>1
<1> QED
  BY <1>5, <1>8, <1>9 DEF CleanedUp

(***************************************************************************)
(* The invariant holds at first.                                           *)
(***************************************************************************)
LEMMA TypeOKIs ==
  TypeOK <=>
    /\ modelDatas \subseteq Models /\ md \in [Models -> Datas] /\ gt \in [Games -> Threads]
    /\ numGamesStarted \in Nat /\ shouldStop \in BOOLEAN
    /\ loading \in {"check", "load", "done"}
    /\ main \in {"joining", "stopping", "deleting", "done"}
    /\ numDataWriteLoopsActive \in Int /\ written \in Seq(Nat)
BY DEF TypeOK, Datas, Threads

LEMMA Initially == Init => IInv
<1> SUFFICES ASSUME Init PROVE IInv
  OBVIOUS
<1>1. /\ md \in [Models -> Datas]
      /\ \A m \in Models :
           /\ md[m].loop = IF m = 1 THEN "pop" ELSE "none"
           /\ md[m].phase = IF m = 1 THEN "loaded" ELSE "unloaded"
           /\ md[m].readOnly = FALSE /\ md[m].acquireCount = 0
  <2> DEFINE d == [NoData EXCEPT !.phase = "loaded", !.loop = "pop"]
  <2>1. /\ NoData \in Datas /\ NoData.loop = "none" /\ NoData.phase = "unloaded"
        /\ NoData.readOnly = FALSE /\ NoData.acquireCount = 0
    <3>1. <<>> \in Seq(Nat)
      BY EmptySeq
    <3> QED
      BY <3>1 DEF NoData, Datas, NoGame
  <2>2. /\ d \in Datas /\ d.loop = "pop" /\ d.phase = "loaded"
        /\ d.readOnly = FALSE /\ d.acquireCount = 0
    BY <2>1 DEF Datas
  <2>3. md = [m \in Models |-> IF m = 1 THEN d ELSE NoData]
    BY DEF Init
  <2> HIDE DEF d
  <2> QED
    BY <2>1, <2>2, <2>3
<1>2. gt \in [Games -> Threads] /\ \A g \in Games : Holds(g) = {}
  BY DEF Init, Waiting, Threads, Holds, NoModel, NoGame
<1>3. TypeOK
  <2>1. written \in Seq(Nat)
    BY EmptySeq DEF Init
  <2>2. modelDatas \subseteq Models
    BY ModelsFacts DEF Init
  <2>3. /\ numGamesStarted = 0 /\ shouldStop = FALSE /\ loading = "check"
        /\ main = "joining" /\ numDataWriteLoopsActive = 1
    BY DEF Init
  <2>4. /\ numGamesStarted \in Nat
        /\ loading \in {"check", "load", "done"}
        /\ main \in {"joining", "stopping", "deleting", "done"}
        /\ numDataWriteLoopsActive \in Int
    BY <2>3
  <2>5. shouldStop \in BOOLEAN
    BY <2>3, Zenon
  <2> QED
    BY <1>1, <1>2, <2>1, <2>2, <2>4, <2>5, TypeOKIs
<1>4. GameInv
  BY <1>2 DEF GameInv, Init, Waiting
<1>5. ModelInv
  BY <1>1, ModelsFacts DEF ModelInv, Fitting, Init
<1>6. CountInv
  <2>1. \A m : Holders(m) = {}
    BY <1>2 DEF Holders
  <2> QED
    BY <1>1, <2>1, FS_EmptySet DEF CountInv
<1>7. ActiveInv
  <2>1. Active(md) = {1}
    BY ZenonT(30), <1>1, ModelsFacts DEF Active
  <2> QED
    BY <2>1, FS_Singleton DEF ActiveInv, Init
<1>8. LastInv
  BY DEF LastInv, Last, Init
<1>9. MainInv
  BY DEF MainInv, Init
<1> QED
  BY <1>3, <1>4, <1>5, <1>6, <1>7, <1>8, <1>9 DEF IInv

(***************************************************************************)
(* The steps of a game thread.                                             *)
(***************************************************************************)
\* The last net, if there is one.
LEMMA LatestManaged ==
  ASSUME IInv, modelDatas # {}
  PROVE  Latest \in modelDatas /\ Last(modelDatas, Latest)
<1>1. PICK l \in modelDatas : Last(modelDatas, l)
  BY DEF IInv, LastInv
<1>2. Latest = l
  BY <1>1, LatestIsLast, TypeOKIs DEF IInv
<1> QED
  BY <1>1, <1>2

\* A step of a thread that keeps the nets it holds, and that changes of the
\* nets at most what is in their queues.
LEMMA HoldsOn ==
  ASSUME IInv, NEW g \in Games, NEW r \in Threads, gt' = [gt EXCEPT ![g] = r],
         r.eval = gt[g].eval, r.old = gt[g].old, gt[g].pc # "done",
         r.eval = NoModel <=> r.pc \in {"loop", "acquire", "done"},
         r.old # NoModel <=> r.pc = "switch",
         r.pc = "switch" => r.eval # r.old /\ r.bots = r.old,
         r.pc = "play" => r.bots = r.eval,
         r.pc \in {"play", "switch", "set", "enqueue", "push"} => r.game \in Nat,
         md' \in [Models -> Datas],
         \A m \in Models : /\ md'[m].loop = md[m].loop /\ md'[m].phase = md[m].phase
                           /\ md'[m].readOnly = md[m].readOnly
                           /\ md'[m].acquireCount = md[m].acquireCount
                           /\ md'[m].game = md[m].game,
         modelDatas' = modelDatas, numDataWriteLoopsActive' = numDataWriteLoopsActive,
         numGamesStarted' \in Nat, shouldStop' \in BOOLEAN, UNCHANGED otherVars
  PROVE  IInv'
<1>1. /\ modelDatas \subseteq Models /\ gt \in [Games -> Threads] /\ gt' \in [Games -> Threads]
      /\ gt'[g] = r /\ \A h \in Games \ {g} : gt'[h] = gt[h]
  BY TypeOKIs DEF IInv
<1>2. \A h \in Games : Holds(h)' = Holds(h)
  BY <1>1, SameHolders
<1>3. \A m : Holders(m)' = Holders(m)
  BY <1>1, SameHolders
<1>4. TypeOK'
  BY <1>1 DEF IInv, TypeOK, Datas, Threads, otherVars
<1>5. GameInv'
  BY <1>1, <1>2 DEF IInv, GameInv
<1>6. ModelInv'
  BY DEF IInv, ModelInv, Fitting
<1>7. CountInv'
  BY <1>3 DEF IInv, CountInv
<1>8. ActiveInv'
  <2>1. Active(md') = Active(md)
    BY DEF Active
  <2> QED
    BY <2>1 DEF IInv, ActiveInv
<1>9. LastInv'
  BY <1>1 DEF IInv, LastInv, Last
<1>10. MainInv'
  BY <1>1 DEF IInv, MainInv, otherVars
<1> QED
  BY <1>4, <1>5, <1>6, <1>7, <1>8, <1>9, <1>10 DEF IInv

\* A step of a thread that acquires the latest net.
LEMMA HoldsMore ==
  ASSUME IInv, NEW g \in Games, NEW r \in Threads, gt' = [gt EXCEPT ![g] = r],
         modelDatas # {}, Latest \notin Holds(g), md' = Acquired(Latest),
         r.eval = Latest, r.old = gt[g].eval, gt[g].pc # "done",
         \/ r.pc = "start" /\ gt[g].pc = "acquire"
         \/ /\ r.pc = "switch" /\ gt[g].pc = "play"
            /\ r.bots = gt[g].bots /\ r.game = gt[g].game,
         UNCHANGED <<managerVars, numGamesStarted, shouldStop, otherVars>>
  PROVE  IInv'
<1>0. /\ gt \in [Games -> Threads] /\ md \in [Models -> Datas] /\ modelDatas \subseteq Models
      /\ UNCHANGED <<modelDatas, numDataWriteLoopsActive, loading, main, written>>
  BY TypeOKIs DEF IInv, managerVars, otherVars
<1>1. /\ gt' \in [Games -> Threads] /\ gt'[g] = r
      /\ \A h \in Games \ {g} : gt'[h] = gt[h]
  BY <1>0
<1>2. Latest \in modelDatas /\ Latest \in Models /\ Latest # NoModel
  BY <1>0, LatestManaged, ModelsFacts
<1>3. Holds(g) = {gt[g].eval} \ {NoModel} /\ {r.eval, r.old} \ {NoModel} = Holds(g) \cup {Latest}
  BY <1>2 DEF IInv, GameInv, Holds
<1>4. /\ Holds(g)' = Holds(g) \cup {Latest}
      /\ \A h \in Games \ {g} : Holds(h)' = Holds(h)
      /\ \A m : Cardinality(Holders(m))' =
                  IF m = Latest THEN Cardinality(Holders(m)) + 1 ELSE Cardinality(Holders(m))
  <2>1. PICK l : l = Latest
    OBVIOUS
  <2>2. Holds(g) = {gt[g].eval} \ {NoModel} /\ l # NoModel /\ l \notin Holds(g)
    BY <1>2, <1>3, <2>1
  <2>3. /\ Holds(g)' = Holds(g) \cup {l}
        /\ \A h \in Games \ {g} : Holds(h)' = Holds(h)
        /\ \A m : Cardinality(Holders(m))' =
                    IF m = l THEN Cardinality(Holders(m)) + 1 ELSE Cardinality(Holders(m))
    <3>1. {r.eval, r.old} \ {NoModel} = Holds(g) \cup {l}
      BY <2>1, <2>2
    <3>2. Holds(g)' = Holds(g) \cup {l} /\ \A h \in Games \ {g} : Holds(h)' = Holds(h)
      BY <1>1, <3>1 DEF Holds
    <3> QED
      BY <2>2, <3>2, OneHolderMore
  <2> QED
    BY <2>1, <2>3
<1>5. /\ md' \in [Models -> Datas]
      /\ \A m \in Models :
           /\ md'[m].acquireCount = IF m = Latest THEN md[m].acquireCount + 1
                                    ELSE md[m].acquireCount
           /\ md'[m].loop = md[m].loop /\ md'[m].phase = md[m].phase
           /\ md'[m].readOnly = md[m].readOnly /\ md'[m].game = md[m].game
  <2>1. md[Latest] \in Datas
    BY <1>0, <1>2
  <2> DEFINE d == [md[Latest] EXCEPT !.acquireCount = @ + 1]
  <2>2. /\ d \in Datas /\ d.acquireCount = md[Latest].acquireCount + 1
        /\ d.loop = md[Latest].loop /\ d.phase = md[Latest].phase
        /\ d.readOnly = md[Latest].readOnly /\ d.game = md[Latest].game
    BY <2>1 DEF Datas
  <2>3. md' = [md EXCEPT ![Latest] = d]
    BY DEF Acquired
  <2> HIDE DEF d
  <2> QED
    BY <1>0, <1>2, <2>2, <2>3
<1>6. TypeOK'
  BY <1>0, <1>1, <1>5 DEF IInv, TypeOK, Datas, Threads
<1>7. GameInv'
  <2>1. \A h \in Games : Holds(h)' \subseteq modelDatas'
    BY <1>0, <1>2, <1>4 DEF IInv, GameInv
  <2>2. /\ r.pc = "switch" => r.eval # r.old /\ r.bots = r.old /\ r.old # NoModel
        /\ r.pc = "start" => r.old = NoModel
    BY <1>3 DEF IInv, GameInv
  <2> QED
    BY <1>1, <1>2, <2>1, <2>2 DEF IInv, GameInv
<1>8. ModelInv'
  BY <1>0, <1>5 DEF IInv, ModelInv, Fitting
<1>9. CountInv'
  BY <1>0, <1>4, <1>5 DEF IInv, CountInv
<1>10. ActiveInv'
  <2>1. Active(md') = Active(md)
    BY <1>5 DEF Active
  <2> QED
    BY <1>0, <2>1 DEF IInv, ActiveInv
<1>11. LastInv'
  <2>1. Last(modelDatas, Latest)
    BY LatestManaged
  <2>2. \A l \in modelDatas : Last(modelDatas, l) => l = Latest
    BY <1>0, <2>1, <1>2, ModelsFacts DEF Last
  <2> QED
    BY <1>0, <1>5, <2>1, <2>2 DEF IInv, LastInv, Last
<1>12. MainInv'
  BY <1>0, <1>1 DEF IInv, MainInv
<1> QED
  BY <1>6, <1>7, <1>8, <1>9, <1>10, <1>11, <1>12 DEF IInv

\* A step of a thread that releases a net it holds.
LEMMA HoldsLess ==
  ASSUME IInv, NEW g \in Games, NEW r \in Threads, gt' = [gt EXCEPT ![g] = r],
         NEW l \in Holds(g), Cleanup(modelDatas, Released(l)), gt[g].pc # "done",
         \/ /\ r.pc = "set" /\ gt[g].pc = "switch" /\ l = gt[g].old
            /\ r.eval = gt[g].eval /\ r.old = NoModel /\ r.game = gt[g].game
         \/ /\ r.pc \in {"loop", "done"} /\ gt[g].pc \in {"release", "quit"}
            /\ l = gt[g].eval /\ r.eval = NoModel /\ r.old = NoModel,
         UNCHANGED <<numDataWriteLoopsActive, numGamesStarted, shouldStop, otherVars>>
  PROVE  IInv'
<1>0. /\ gt \in [Games -> Threads] /\ md \in [Models -> Datas] /\ modelDatas \subseteq Models
      /\ UNCHANGED <<numDataWriteLoopsActive, loading, main, written>>
  BY TypeOKIs DEF IInv, otherVars
<1>1. /\ gt' \in [Games -> Threads] /\ gt'[g] = r
      /\ \A h \in Games \ {g} : gt'[h] = gt[h]
  BY <1>0
<1>2. l \in modelDatas /\ l \in Models
  BY <1>0 DEF IInv, GameInv
<1>3. {r.eval, r.old} \ {NoModel} = Holds(g) \ {l}
  BY DEF IInv, GameInv, Holds
<1>4. /\ Holds(g)' = Holds(g) \ {l}
      /\ \A h \in Games \ {g} : Holds(h)' = Holds(h)
      /\ \A m : Cardinality(Holders(m))' =
                  IF m = l THEN Cardinality(Holders(m)) - 1 ELSE Cardinality(Holders(m))
  <2>1. Holds(g)' = Holds(g) \ {l} /\ \A h \in Games \ {g} : Holds(h)' = Holds(h)
    BY <1>1, <1>3 DEF Holds
  <2>2. l \in Holds(g)
    OBVIOUS
  <2> QED
    BY <2>1, <2>2, OneHolderLess
<1>5. /\ Released(l) \in [Models -> Datas]
      /\ \A m \in Models :
           /\ Released(l)[m].acquireCount = IF m = l THEN md[m].acquireCount - 1
                                            ELSE md[m].acquireCount
           /\ Released(l)[m].loop = md[m].loop /\ Released(l)[m].phase = md[m].phase
           /\ Released(l)[m].readOnly = md[m].readOnly /\ Released(l)[m].game = md[m].game
  <2>1. md[l] \in Datas
    BY <1>0, <1>2
  <2> DEFINE d == [md[l] EXCEPT !.acquireCount = @ - 1]
  <2>2. /\ d \in Datas /\ d.acquireCount = md[l].acquireCount - 1
        /\ d.loop = md[l].loop /\ d.phase = md[l].phase
        /\ d.readOnly = md[l].readOnly /\ d.game = md[l].game
    BY <2>1 DEF Datas
  <2>3. Released(l) = [md EXCEPT ![l] = d]
    BY DEF Released
  <2> HIDE DEF d
  <2> QED
    BY <1>0, <1>2, <2>2, <2>3
<1>6. PICK last \in modelDatas : Last(modelDatas, last)
  BY <1>2 DEF IInv, LastInv
<1>7. CleanedUp(modelDatas, Released(l), last)
  <2>1. PICK models, data : models = modelDatas /\ data = Released(l)
    OBVIOUS
  <2>2. Cleanup(models, data)
    BY <2>1
  <2>3. /\ models \in SUBSET Models /\ data \in [Models -> Datas]
        /\ Last(models, last) /\ last \in models
    BY <1>0, <1>5, <1>6, <2>1
  <2>4. CleanedUp(models, data, last)
    BY <2>2, <2>3, CleanupKeeps
  <2> QED
    BY <2>1, <2>4
<1>8. TypeOK'
  BY <1>0, <1>1, <1>7 DEF CleanedUp, IInv, TypeOK, Datas, Threads
<1>9. CountInv'
  BY <1>4, <1>5, <1>7 DEF CleanedUp, IInv, CountInv
<1>10. GameInv'
  <2>1. ASSUME NEW h \in Games, NEW m \in Holds(h)' PROVE m \in modelDatas'
    <3>1. m \in Holds(h) /\ m \in modelDatas /\ m \in Models
      BY <1>0, <1>4, <2>1 DEF IInv, GameInv
    <3>2. Holders(m)' # {} /\ Holders(m)' \in SUBSET Games
      BY <2>1 DEF Holders
    <3>3. Cardinality(Holders(m))' # 0
      BY <3>2, ThreadsCounted
    <3> QED
      BY <3>1, <3>3, <1>7, <1>9 DEF CleanedUp, CountInv
  <2> QED
    BY <1>1, <2>1 DEF IInv, GameInv
<1>11. ModelInv'
  BY <1>0, <1>5, <1>7 DEF CleanedUp, IInv, ModelInv, Fitting
<1>12. ActiveInv'
  <2>1. Active(md') = Active(md)
    BY <1>5, <1>7 DEF CleanedUp, Active
  <2> QED
    BY <1>0, <2>1 DEF IInv, ActiveInv
<1>13. LastInv'
  <2>1. \A k \in modelDatas' : Last(modelDatas', k) => k = last
    BY <1>0, <1>7, ModelsFacts DEF CleanedUp, Last
  <2>2. last \in modelDatas'
    BY <1>7 DEF CleanedUp, Last
  <2> QED
    BY <1>0, <1>7, <2>1, <2>2 DEF CleanedUp, LastInv
<1>14. MainInv'
  <2>1. modelDatas # {} /\ modelDatas' # {}
    BY <1>2, <1>7 DEF CleanedUp, Last
  <2> QED
    BY <1>0, <1>1, <2>1 DEF IInv, MainInv
<1> QED
  BY <1>8, <1>9, <1>10, <1>11, <1>12, <1>13, <1>14 DEF IInv

LEMMA GameSteps ==
  ASSUME IInv, NEW g \in Games, Play(g) \/ AcquireNewer(g)
  PROVE  IInv'
<1>0. /\ gt \in [Games -> Threads] /\ md \in [Models -> Datas] /\ modelDatas \subseteq Models
      /\ numGamesStarted \in Nat /\ shouldStop \in BOOLEAN
  BY TypeOKIs DEF IInv
<1>1. gt[g] \in Threads
  BY <1>0
<1>2. /\ gt[g].eval = NoModel <=> gt[g].pc \in {"loop", "acquire", "done"}
      /\ gt[g].old # NoModel <=> gt[g].pc = "switch"
      /\ gt[g].pc = "switch" => gt[g].eval # gt[g].old /\ gt[g].bots = gt[g].old
      /\ gt[g].pc = "play" => gt[g].bots = gt[g].eval
      /\ gt[g].pc \in {"play", "switch", "set", "enqueue", "push"} => gt[g].game \in Nat
      /\ Holds(g) \subseteq modelDatas
      /\ Holds(g) = {gt[g].eval, gt[g].old} \ {NoModel}
  BY DEF IInv, GameInv, Holds
<1>3. \A p \in {"done", "acquire"} :
        LET r == [Waiting EXCEPT !.pc = p]
        IN  r \in Threads /\ r.pc = p /\ r.eval = NoModel /\ r.old = NoModel
  BY DEF Waiting, Threads, NoModel, NoGame
<1>4. CASE SeeStop(g)
  BY <1>0, <1>2, <1>3, <1>4, HoldsOn DEF SeeStop, Goes, managerVars
<1>5. CASE SeeGoOn(g)
  BY <1>0, <1>2, <1>3, <1>5, HoldsOn DEF SeeGoOn, Goes, managerVars
<1>6. CASE AcquireLatest(g)
  <2> DEFINE r == [gt[g] EXCEPT !.pc = "start", !.eval = Latest]
  <2>1. Latest \in Models
    BY <1>0, <1>6, LatestManaged DEF AcquireLatest
  <2>2. /\ r \in Threads /\ r.pc = "start" /\ r.eval = Latest /\ r.old = gt[g].old
    BY <1>1, <2>1 DEF Threads
  <2>3. gt' = [gt EXCEPT ![g] = r] /\ gt[g].pc = "acquire" /\ Holds(g) = {}
    BY <1>2, <1>6 DEF AcquireLatest, Goes
  <2> HIDE DEF r
  <2> QED
    BY <1>2, <1>6, <2>2, <2>3, HoldsMore DEF AcquireLatest
<1>7. CASE AcquireNewer(g)
  <2> DEFINE r == [gt[g] EXCEPT !.pc = "switch", !.old = gt[g].eval, !.eval = Latest]
  <2>1. Latest \in Models
    BY <1>0, <1>7, LatestManaged DEF AcquireNewer
  <2>2. /\ r \in Threads /\ r.pc = "switch" /\ r.eval = Latest /\ r.old = gt[g].eval
        /\ r.bots = gt[g].bots /\ r.game = gt[g].game
    BY <1>1, <2>1 DEF Threads
  <2>3. gt' = [gt EXCEPT ![g] = r] /\ gt[g].pc = "play" /\ Latest \notin Holds(g)
    BY <1>2, <1>7 DEF AcquireNewer, Goes
  <2> HIDE DEF r
  <2> QED
    BY <1>7, <2>2, <2>3, HoldsMore DEF AcquireNewer
<1>8. CASE StartGame(g)
  <2> DEFINE r == IF numGamesStarted < MaxGames
                  THEN [gt[g] EXCEPT !.pc = "play", !.bots = gt[g].eval,
                                     !.game = numGamesStarted]
                  ELSE [gt[g] EXCEPT !.pc = "quit"]
  <2>1. /\ r \in Threads /\ r.eval = gt[g].eval /\ r.old = gt[g].old
        /\ \/ r.pc = "play" /\ r.bots = gt[g].eval /\ r.game \in Nat
           \/ r.pc = "quit"
    BY <1>0, <1>1 DEF Threads
  <2>2. gt' = [gt EXCEPT ![g] = r] /\ gt[g].pc = "start" /\ numGamesStarted' \in Nat
    BY <1>0, <1>8 DEF StartGame, Goes
  <2> HIDE DEF r
  <2> QED
    BY <1>0, <1>2, <1>8, <2>1, <2>2, HoldsOn DEF StartGame, managerVars
<1>9. CASE ReleaseOld(g)
  <2> DEFINE r == [gt[g] EXCEPT !.pc = "set", !.old = NoModel]
  <2>1. /\ r \in Threads /\ r.pc = "set" /\ r.eval = gt[g].eval /\ r.old = NoModel
        /\ r.game = gt[g].game
    BY <1>1 DEF Threads
  <2>2. gt' = [gt EXCEPT ![g] = r] /\ gt[g].pc = "switch"
    BY <1>9 DEF ReleaseOld, Goes
  <2> HIDE DEF r
  <2>3. PICK l \in Holds(g) : l = gt[g].old
    BY <1>2, <2>2
  <2>4. Cleanup(modelDatas, Released(l))
    BY <1>9, <2>3 DEF ReleaseOld
  <2> QED
    BY <1>9, <2>1, <2>2, <2>3, <2>4, HoldsLess DEF ReleaseOld
<1>10. CASE SetNNEval(g)
  <2> DEFINE r == [gt[g] EXCEPT !.pc = "play", !.bots = gt[g].eval]
  <2>1. /\ r \in Threads /\ r.pc = "play" /\ r.eval = gt[g].eval /\ r.old = gt[g].old
        /\ r.bots = gt[g].eval /\ r.game = gt[g].game
    BY <1>1 DEF Threads
  <2>2. gt' = [gt EXCEPT ![g] = r] /\ gt[g].pc = "set"
    BY <1>10 DEF SetNNEval, Goes
  <2> HIDE DEF r
  <2> QED
    BY <1>0, <1>2, <1>10, <2>1, <2>2, HoldsOn DEF SetNNEval, managerVars
<1>11. CASE FinishGame(g)
  <2> DEFINE r == IF shouldStop
                  THEN [gt[g] EXCEPT !.pc = "quit", !.bots = NoModel, !.game = NoGame]
                  ELSE [gt[g] EXCEPT !.pc = "enqueue", !.bots = NoModel]
  <2>1. /\ r \in Threads /\ r.eval = gt[g].eval /\ r.old = gt[g].old
        /\ \/ r.pc = "quit"
           \/ r.pc = "enqueue" /\ r.game = gt[g].game
    BY <1>1 DEF Threads
  <2>2. gt' = [gt EXCEPT ![g] = r] /\ gt[g].pc = "play"
    BY <1>11 DEF FinishGame, Goes
  <2> HIDE DEF r
  <2> QED
    BY <1>0, <1>2, <1>11, <2>1, <2>2, HoldsOn DEF FinishGame, managerVars
<1>12. CASE FindData(g)
  <2> DEFINE r == [gt[g] EXCEPT !.pc = "push"]
  <2>1. /\ r \in Threads /\ r.eval = gt[g].eval /\ r.old = gt[g].old
        /\ r.pc = "push" /\ r.game = gt[g].game
    BY <1>1 DEF Threads
  <2>2. gt' = [gt EXCEPT ![g] = r] /\ gt[g].pc = "enqueue"
    BY <1>12 DEF FindData, Goes
  <2> HIDE DEF r
  <2> QED
    BY <1>0, <1>2, <1>12, <2>1, <2>2, HoldsOn DEF FindData, managerVars
<1>13. CASE PushGame(g)
  <2> DEFINE r == [gt[g] EXCEPT !.pc = "release", !.game = NoGame]
             l == gt[g].eval
             q == IF md[l].readOnly THEN md[l].queue ELSE Append(md[l].queue, gt[g].game)
             d == [md[l] EXCEPT !.queue = q]
  <2>1. /\ r \in Threads /\ r.eval = gt[g].eval /\ r.old = gt[g].old /\ r.pc = "release"
    BY <1>1 DEF Threads
  <2>2. gt' = [gt EXCEPT ![g] = r] /\ gt[g].pc = "push" /\ md' = [md EXCEPT ![l] = d]
    BY <1>13 DEF PushGame, Goes
  <2>3. l \in Models /\ md[l] \in Datas /\ gt[g].game \in Nat
    BY <1>0, <1>1, <1>2, <2>2 DEF Threads
  <2>4. q \in Seq(Nat)
    <3>1. md[l].queue \in Seq(Nat)
      BY <2>3 DEF Datas
    <3> QED
      BY <2>3, <3>1, AppendProperties
  <2> HIDE DEF r, l, q
  <2>5. /\ d \in Datas /\ d.loop = md[l].loop /\ d.phase = md[l].phase
        /\ d.readOnly = md[l].readOnly /\ d.acquireCount = md[l].acquireCount
        /\ d.game = md[l].game
    BY <2>3, <2>4 DEF Datas
  <2> HIDE DEF d
  <2>6. /\ md' \in [Models -> Datas]
        /\ \A m \in Models : /\ md'[m].loop = md[m].loop /\ md'[m].phase = md[m].phase
                              /\ md'[m].readOnly = md[m].readOnly
                              /\ md'[m].acquireCount = md[m].acquireCount
                              /\ md'[m].game = md[m].game
    BY <1>0, <2>2, <2>3, <2>5
  <2> QED
    BY ZenonT(30), <1>0, <1>2, <1>13, <2>1, <2>2, <2>6, HoldsOn DEF PushGame, managerVars
<1>14. CASE Release(g)
  <2> DEFINE r == [Waiting EXCEPT !.pc = IF gt[g].pc = "quit" THEN "done" ELSE "loop"]
  <2>1. /\ r \in Threads /\ r.pc \in {"loop", "done"} /\ r.eval = NoModel /\ r.old = NoModel
    BY DEF Waiting, Threads, NoModel, NoGame
  <2>2. gt' = [gt EXCEPT ![g] = r] /\ gt[g].pc \in {"release", "quit"}
    BY <1>14 DEF Release, Goes
  <2> HIDE DEF r
  <2>3. PICK l \in Holds(g) : l = gt[g].eval
    BY <1>2, <2>2
  <2>4. Cleanup(modelDatas, Released(l))
    BY <1>14, <2>3 DEF Release
  <2> QED
    BY <1>14, <2>1, <2>2, <2>3, <2>4, HoldsLess DEF Release
<1> QED
  BY <1>4, <1>5, <1>6, <1>7, <1>8, <1>9, <1>10, <1>11, <1>12, <1>13, <1>14 DEF Play

(***************************************************************************)
(* The loading thread.                                                     *)
(***************************************************************************)
LEMMA LoadStep ==
  ASSUME IInv, NEW m \in Models, LoadModel(m)
  PROVE  IInv'
<1>0. /\ gt \in [Games -> Threads] /\ md \in [Models -> Datas] /\ modelDatas \subseteq Models
      /\ UNCHANGED <<gt, main>> /\ loading = "load" /\ loading' = "check"
      /\ md[m].phase = "unloaded" /\ numDataWriteLoopsActive' = numDataWriteLoopsActive + 1
  BY TypeOKIs DEF IInv, LoadModel
<1>1. /\ modelDatas \cup {m} \in SUBSET Models /\ m \notin modelDatas
      /\ md[m].loop = "none" /\ md[m].readOnly = FALSE /\ md[m] \in Datas
  <2>1. md[m] \in Datas
    BY <1>0
  <2> QED
    BY <1>0, <2>1 DEF IInv, ModelInv, Fitting, Datas
<1>2. Last(modelDatas \cup {m}, m)
  <2>1. ASSUME NEW k \in modelDatas PROVE k <= m
    <3>1. k \in Models /\ k \in Nat /\ m \in Nat /\ md[k].phase = "loaded"
      BY <1>0, ModelsFacts DEF IInv, ModelInv
    <3>2. m < k => md[m].phase # "unloaded"
      BY <3>1 DEF IInv, ModelInv
    <3> QED
      BY <1>0, <3>1, <3>2
  <2> QED
    BY <2>1, ModelsFacts DEF Last
<1> DEFINE e == [md[m] EXCEPT !.phase = "loaded", !.loop = "pop"]
           loaded == [md EXCEPT ![m] = e]
<1>3. /\ e \in Datas /\ e.phase = "loaded" /\ e.loop = "pop" /\ e.readOnly = FALSE
      /\ e.acquireCount = md[m].acquireCount
  BY <1>1 DEF Datas
<1>4. Cleanup(modelDatas \cup {m}, loaded)
  <2>1. [md EXCEPT ![m].phase = "loaded", ![m].loop = "pop"] = loaded
    BY <1>0
  <2> QED
    BY <2>1 DEF LoadModel
<1> HIDE DEF e
<1>5. /\ loaded \in [Models -> Datas] /\ loaded[m] = e
      /\ \A k \in Models : k # m => loaded[k] = md[k]
  BY <1>0, <1>3
<1> HIDE DEF loaded
<1>6. CleanedUp(modelDatas \cup {m}, loaded, m)
  <2>1. PICK models, data : models = modelDatas \cup {m} /\ data = loaded
    OBVIOUS
  <2>2. Cleanup(models, data)
    BY <1>4, <2>1
  <2>3. /\ models \in SUBSET Models /\ data \in [Models -> Datas]
        /\ Last(models, m) /\ m \in models
    BY <1>1, <1>2, <1>5, <2>1
  <2>4. CleanedUp(models, data, m)
    BY <2>2, <2>3, CleanupKeeps
  <2> QED
    BY <2>1, <2>4
<1>7. /\ modelDatas' \subseteq modelDatas \cup {m} /\ Last(modelDatas', m)
      /\ \A k \in modelDatas : md[k].acquireCount # 0 => k \in modelDatas'
      /\ \A k \in modelDatas' : k # m => md[k].acquireCount # 0
      /\ md' \in [Models -> Datas]
  BY <1>0, <1>1, <1>5, <1>6 DEF CleanedUp
<1>8. \A k \in Models :
        /\ md'[k].acquireCount = md[k].acquireCount
        /\ k = m => md'[k].phase = "loaded" /\ md'[k].loop = "pop" /\ ~md'[k].readOnly
        /\ k # m => /\ md'[k].phase = md[k].phase /\ md'[k].loop = md[k].loop
                    /\ md'[k].readOnly <=> md[k].readOnly \/ k \in modelDatas \ modelDatas'
                    /\ md'[k].game = md[k].game
  BY <1>1, <1>3, <1>5, <1>6, <1>7 DEF CleanedUp, Last
<1>9. TypeOK'
  <2>1. modelDatas' \subseteq Models
    BY <1>0, <1>7
  <2>2. /\ gt \in [Games -> Threads] /\ numGamesStarted \in Nat
        /\ shouldStop \in BOOLEAN /\ written \in Seq(Nat)
        /\ main \in {"joining", "stopping", "deleting", "done"}
        /\ numDataWriteLoopsActive \in Int
    BY TypeOKIs DEF IInv
  <2>3. /\ gt' \in [Games -> Threads] /\ numGamesStarted' \in Nat
        /\ written' \in Seq(Nat)
        /\ main' \in {"joining", "stopping", "deleting", "done"}
        /\ loading' \in {"check", "load", "done"}
    BY <2>2 DEF LoadModel
  <2>4. shouldStop' \in BOOLEAN
    BY <2>2, Zenon DEF LoadModel
  <2>5. numDataWriteLoopsActive' \in Int
    BY <2>2 DEF LoadModel
  <2> QED
    BY <1>7, <2>1, <2>3, <2>4, <2>5, Zenon DEF TypeOK, Datas, Threads
<1>10. CountInv'
  <2>1. \A k : Holders(k)' = Holders(k)
    BY <1>0 DEF Holders, Holds
  <2> QED
    BY <1>8, <2>1 DEF IInv, CountInv
<1>11. GameInv'
  <2>1. ASSUME NEW h \in Games, NEW k \in Holds(h) PROVE k \in modelDatas'
    <3>1. k \in modelDatas /\ k \in Models
      BY <1>0 DEF IInv, GameInv
    <3>2. Holders(k) # {} /\ Holders(k) \in SUBSET Games
      BY <2>1 DEF Holders
    <3>3. md[k].acquireCount # 0
      BY <3>1, <3>2, ThreadsCounted DEF IInv, CountInv
    <3> QED
      BY <1>7, <3>1, <3>3
  <2>2. \A h \in Games : Holds(h)' = Holds(h)
    BY <1>0 DEF Holds
  <2> QED
    BY <1>0, <2>1, <2>2 DEF IInv, GameInv
<1>12. ModelInv'
  <2>1. m \in modelDatas'
    BY <1>7 DEF Last
  <2>2. ASSUME NEW k \in Models
        PROVE  /\ Fitting(md[k])'
               /\ k \in modelDatas' <=> md'[k].phase = "loaded" /\ ~md'[k].readOnly
    <3>1. CASE k = m
      BY <1>8, <2>1, <3>1 DEF Fitting
    <3>2. CASE k # m
      <4>1. k \in modelDatas' => k \in modelDatas
        BY <1>7, <3>2
      <4> QED
        BY <1>8, <3>2, <4>1 DEF IInv, ModelInv, Fitting
    <3> QED
      BY <3>1, <3>2
  <2>3. ASSUME NEW k \in Models, md'[k].phase # "unloaded", NEW j \in Models, j < k
        PROVE  md'[j].phase # "unloaded"
    <3>1. CASE k = m
      <4>1. j \in 1..(m - 1)
        BY <2>3, <3>1, ModelsFacts
      <4> QED
        BY <1>8, <2>3, <3>1, <4>1 DEF LoadModel
    <3>2. CASE k # m
      BY <1>8, <2>3, <3>2 DEF IInv, ModelInv
    <3> QED
      BY <3>1, <3>2
  <2> QED
    BY <2>2, <2>3 DEF ModelInv
<1>13. ActiveInv'
  <2>1. Active(md') = Active(md) \cup {m} /\ m \notin Active(md)
    BY <1>1, <1>8 DEF Active
  <2>2. Cardinality(Active(md) \cup {m}) = Cardinality(Active(md)) + 1
    <3>1. Active(md) \in SUBSET Models
      BY DEF Active
    <3>2. IsFiniteSet(Active(md))
      BY <3>1, ModelsFacts, FS_Subset
    <3> QED
      BY <2>1, <3>2, FS_AddElement
  <2> QED
    BY <1>0, <2>1, <2>2 DEF IInv, ActiveInv
<1>14. LastInv'
  <2>1. \A k \in modelDatas' : Last(modelDatas', k) => k = m
    BY <1>1, <1>7, ModelsFacts DEF Last
  <2>2. m \in modelDatas' /\ modelDatas' \subseteq Models
    BY <1>1, <1>7 DEF Last
  <2> QED
    BY <1>7, <1>8, <2>1, <2>2 DEF LastInv
<1>15. MainInv'
  <2>1. modelDatas' # {}
    BY <1>7 DEF Last
  <2>2. main \in {"joining", "stopping"}
    BY <1>0 DEF IInv, MainInv, TypeOK
  <2> QED
    BY <1>0, <2>1, <2>2 DEF IInv, MainInv
<1> QED
  BY <1>9, <1>10, <1>11, <1>12, <1>13, <1>14, <1>15 DEF IInv

(***************************************************************************)
(* The writing loops.                                                      *)
(***************************************************************************)
\* A step of a writing loop to data d: of the net's phase only its end.
LEMMA LoopOn ==
  ASSUME IInv, NEW m \in Models, NEW d \in Datas, md' = [md EXCEPT ![m] = d],
         d.acquireCount = md[m].acquireCount, d.readOnly = md[m].readOnly, Fitting(d),
         \/ d.phase = md[m].phase
         \/ d.phase = "deleted" /\ md[m].readOnly /\ md[m].phase = "loaded",
         md[m].loop \in {"pop", "write", "ended", "deleted"},
         \/ /\ d.loop \in {"pop", "write", "ended", "deleted"}
            /\ UNCHANGED numDataWriteLoopsActive
         \/ /\ d.loop = "done"
            /\ numDataWriteLoopsActive' = numDataWriteLoopsActive - 1,
         written' \in Seq(Nat),
         UNCHANGED <<modelDatas, gt, numGamesStarted, shouldStop, loading, main>>
  PROVE  IInv'
<1>0. /\ md \in [Models -> Datas] /\ md' \in [Models -> Datas] /\ md'[m] = d
      /\ \A k \in Models : k # m => md'[k] = md[k]
  BY TypeOKIs DEF IInv
<1>1. TypeOK'
  BY <1>0 DEF IInv, TypeOK, Datas
<1>2. GameInv'
  BY DEF IInv, GameInv, Holds
<1>3. ModelInv'
  <2>1. \A k \in Models :
          /\ Fitting(md[k])'
          /\ k \in modelDatas' <=> md'[k].phase = "loaded" /\ ~md'[k].readOnly
          /\ md'[k].phase = "unloaded" <=> md[k].phase = "unloaded"
    BY <1>0 DEF IInv, ModelInv, Fitting
  <2> QED
    BY <2>1 DEF IInv, ModelInv
<1>4. CountInv'
  <2>1. \A k : Holders(k)' = Holders(k)
    BY DEF Holders, Holds
  <2> QED
    BY <1>0, <2>1 DEF IInv, CountInv
<1>5. ActiveInv'
  <2>1. m \in Active(md) /\ IsFiniteSet(Active(md))
    <3>1. Active(md) \in SUBSET Models
      BY DEF Active
    <3> QED
      BY <3>1, ModelsFacts, FS_Subset DEF Active
  <2>2. CASE d.loop = "done"
    <3>1. Active(md') = Active(md) \ {m}
      BY <1>0, <2>2 DEF Active
    <3>2. Cardinality(Active(md) \ {m}) = Cardinality(Active(md)) - 1
      BY <2>1, FS_RemoveElement
    <3> QED
      BY <2>2, <3>1, <3>2 DEF IInv, ActiveInv
  <2>3. CASE d.loop # "done"
    <3>1. Active(md') = Active(md)
      BY <1>0, <2>1, <2>3 DEF Active
    <3> QED
      BY <2>3, <3>1 DEF IInv, ActiveInv
  <2> QED
    BY <2>2, <2>3
<1>6. LastInv'
  <2>1. \A k \in Models : md'[k].acquireCount = md[k].acquireCount
    BY <1>0
  <2>2. modelDatas \subseteq Models
    BY DEF IInv, TypeOK
  <2> QED
    BY <2>1, <2>2 DEF IInv, LastInv, Last
<1>7. MainInv'
  BY DEF IInv, MainInv
<1> QED
  BY <1>1, <1>2, <1>3, <1>4, <1>5, <1>6, <1>7 DEF IInv

LEMMA WriteSteps ==
  ASSUME IInv, NEW m \in Models, Write(m)
  PROVE  IInv'
<1>0. /\ md \in [Models -> Datas] /\ written \in Seq(Nat)
      /\ md[m] \in Datas /\ Fitting(md[m])
  BY TypeOKIs DEF IInv, ModelInv
<1>1. CASE PopGame(m)
  <2> DEFINE d == [md[m] EXCEPT !.loop = "write", !.game = Head(md[m].queue),
                                !.queue = Tail(md[m].queue)]
  <2>1. Head(md[m].queue) \in Nat /\ Tail(md[m].queue) \in Seq(Nat)
    <3>1. md[m].queue \in Seq(Nat) /\ md[m].queue # <<>>
      BY <1>0, <1>1 DEF PopGame, Datas
    <3> QED
      BY <3>1, HeadTailProperties
  <2>2. /\ d \in Datas /\ d.loop = "write" /\ d.game \in Nat /\ d.phase = md[m].phase
        /\ d.acquireCount = md[m].acquireCount /\ d.readOnly = md[m].readOnly
    BY <1>0, <2>1 DEF Datas
  <2>3. md' = [md EXCEPT ![m] = d] /\ md[m].loop = "pop"
    BY <1>1 DEF PopGame, InLoop
  <2> HIDE DEF d
  <2>4. Fitting(d)
    BY <1>0, <2>2, <2>3 DEF Fitting
  <2> QED
    BY <1>0, <1>1, <2>2, <2>3, <2>4, LoopOn DEF PopGame, managerVars, otherVars
<1>2. CASE WriteGame(m)
  <2> DEFINE d == [md[m] EXCEPT !.loop = "pop", !.game = NoGame]
  <2>1. /\ d \in Datas /\ d.loop = "pop" /\ d.phase = md[m].phase
        /\ d.acquireCount = md[m].acquireCount /\ d.readOnly = md[m].readOnly
    BY <1>0 DEF Datas
  <2>2. /\ md' = [md EXCEPT ![m] = d] /\ md[m].loop = "write"
        /\ written' = Append(written, md[m].game)
    BY <1>2 DEF WriteGame, InLoop
  <2>3. written' \in Seq(Nat)
    <3>1. md[m].game \in Nat
      BY <1>0, <2>2 DEF Fitting
    <3> QED
      BY <1>0, <2>2, <3>1, AppendProperties
  <2> HIDE DEF d
  <2>4. Fitting(d)
    BY <1>0, <2>1, <2>2 DEF Fitting
  <2> QED
    BY <1>2, <2>1, <2>2, <2>3, <2>4, LoopOn DEF WriteGame, managerVars
<1>3. CASE EndLoop(m)
  <2> DEFINE d == [md[m] EXCEPT !.loop = "ended"]
  <2>1. /\ d \in Datas /\ d.loop = "ended" /\ d.phase = md[m].phase
        /\ d.acquireCount = md[m].acquireCount /\ d.readOnly = md[m].readOnly
    BY <1>0 DEF Datas
  <2>2. md' = [md EXCEPT ![m] = d] /\ md[m].loop = "pop" /\ md[m].readOnly
    BY <1>3 DEF EndLoop, InLoop
  <2> HIDE DEF d
  <2>3. Fitting(d)
    BY <1>0, <2>1, <2>2 DEF Fitting
  <2> QED
    BY <1>0, <1>3, <2>1, <2>2, <2>3, LoopOn DEF EndLoop, managerVars, otherVars
<1>4. CASE DeleteModel(m)
  <2> DEFINE d == [md[m] EXCEPT !.loop = "deleted", !.phase = "deleted"]
  <2>1. /\ d \in Datas /\ d.loop = "deleted" /\ d.phase = "deleted"
        /\ d.acquireCount = md[m].acquireCount /\ d.readOnly = md[m].readOnly
    BY <1>0 DEF Datas
  <2>2. md' = [md EXCEPT ![m] = d] /\ md[m].loop = "ended"
    BY <1>4 DEF DeleteModel, InLoop
  <2> HIDE DEF d
  <2>3. Fitting(d) /\ md[m].readOnly /\ md[m].phase = "loaded"
    BY <1>0, <2>1, <2>2 DEF Fitting, Datas
  <2> QED
    BY <1>0, <1>4, <2>1, <2>2, <2>3, LoopOn DEF DeleteModel, managerVars, otherVars
<1>5. CASE CheckIn(m)
  <2> DEFINE d == [md[m] EXCEPT !.loop = "done"]
  <2>1. /\ d \in Datas /\ d.loop = "done" /\ d.phase = md[m].phase
        /\ d.acquireCount = md[m].acquireCount /\ d.readOnly = md[m].readOnly
    BY <1>0 DEF Datas
  <2>2. md' = [md EXCEPT ![m] = d] /\ md[m].loop = "deleted"
    BY <1>5 DEF CheckIn, InLoop
  <2> HIDE DEF d
  <2>3. Fitting(d)
    BY <1>0, <2>1, <2>2 DEF Fitting
  <2> QED
    BY <1>0, <1>5, <2>1, <2>2, <2>3, LoopOn DEF CheckIn, otherVars
<1> QED
  BY <1>1, <1>2, <1>3, <1>4, <1>5 DEF Write

(***************************************************************************)
(* The main thread, and the signal.                                        *)
(***************************************************************************)
\* Steps that leave nets and game threads alone.
LEMMA NetsAlone ==
  ASSUME IInv, UNCHANGED <<modelDatas, md, gt, numGamesStarted, numDataWriteLoopsActive, written>>,
         shouldStop' \in BOOLEAN, loading' \in {"check", "load", "done"},
         main' \in {"joining", "stopping", "deleting", "done"}, MainInv'
  PROVE  IInv'
<1>1. TypeOK'
  BY DEF IInv, TypeOK
<1>2. GameInv' /\ CountInv'
  <2>1. /\ \A h : Holds(h)' = Holds(h)
        /\ \A k : Holders(k)' = Holders(k)
    BY DEF Holders, Holds
  <2> QED
    BY <2>1 DEF IInv, GameInv, CountInv
<1>3. ModelInv' /\ ActiveInv' /\ LastInv'
  BY DEF IInv, ModelInv, ActiveInv, LastInv
<1> QED
  BY <1>1, <1>2, <1>3 DEF IInv

LEMMA DestroySteps ==
  ASSUME IInv, DestroyManager
  PROVE  IInv'
<1>0. /\ md \in [Models -> Datas] /\ modelDatas \subseteq Models
      /\ main = "stopping" /\ main' = "deleting" /\ loading = "done" /\ modelDatas' = {}
      /\ UNCHANGED <<gt, numGamesStarted, shouldStop, loading, numDataWriteLoopsActive, written>>
  BY TypeOKIs DEF IInv, DestroyManager
<1>1. /\ md' \in [Models -> Datas]
      /\ \A m \in Models :
           /\ md'[m].readOnly <=> md[m].readOnly \/ m \in modelDatas
           /\ md'[m].acquireCount = md[m].acquireCount
           /\ md'[m].phase = md[m].phase /\ md'[m].loop = md[m].loop
           /\ md'[m].game = md[m].game
  <2>1. \A d \in Datas : LET e == [d EXCEPT !.readOnly = TRUE]
                         IN  /\ e \in Datas /\ e.readOnly = TRUE /\ e.game = d.game
                             /\ e.acquireCount = d.acquireCount
                             /\ e.phase = d.phase /\ e.loop = d.loop
    BY DEF Datas
  <2>2. md' = [m \in Models |-> IF m \in modelDatas THEN [md[m] EXCEPT !.readOnly = TRUE]
                                ELSE md[m]]
    BY DEF DestroyManager, Close
  <2> QED
    BY <1>0, <2>1, <2>2
<1>2. \A g \in Games : gt[g].pc = "done" /\ Holds(g) = {}
  BY <1>0 DEF IInv, MainInv, GameInv, Holds
<1>3. TypeOK'
  BY <1>0, <1>1 DEF IInv, TypeOK, Datas
<1>4. GameInv'
  BY <1>0, <1>2 DEF IInv, GameInv, Holds
<1>5. ModelInv'
  BY <1>0, <1>1 DEF IInv, ModelInv, Fitting
<1>6. CountInv'
  <2>1. \A k : Holders(k)' = Holders(k)
    BY <1>0 DEF Holders, Holds
  <2> QED
    BY <1>1, <2>1 DEF IInv, CountInv
<1>7. ActiveInv'
  <2>1. Active(md') = Active(md)
    BY <1>1 DEF Active
  <2> QED
    BY <1>0, <2>1 DEF IInv, ActiveInv
<1>8. LastInv' /\ MainInv'
  BY <1>0, <1>2 DEF LastInv, MainInv
<1> QED
  BY <1>3, <1>4, <1>5, <1>6, <1>7, <1>8 DEF IInv

(***************************************************************************)
(* The theorems.                                                           *)
(***************************************************************************)
\* Every step keeps the invariant.
LEMMA EveryStep == IInv /\ [Next]_vars => IInv'
<1> SUFFICES ASSUME IInv, [Next]_vars PROVE IInv'
  OBVIOUS
<1>1. CASE \E g \in Games : Play(g) \/ AcquireNewer(g)
  BY <1>1, GameSteps
<1>2. CASE \E m \in Models : Write(m)
  BY <1>2, WriteSteps
<1>3. CASE \E m \in Models : LoadModel(m)
  BY <1>3, LoadStep
<1>4. CASE CheckStop \/ NoNewModel \/ Signal
  <2>1. MainInv'
    BY <1>4 DEF IInv, MainInv, CheckStop, NoNewModel, Signal, managerVars, otherVars
  <2>2. loading \in {"check", "load", "done"} /\ shouldStop \in BOOLEAN
        /\ main \in {"joining", "stopping", "deleting", "done"}
    BY DEF IInv, TypeOK
  <2> QED
    BY <1>4, <2>1, <2>2, NetsAlone DEF CheckStop, NoNewModel, Signal, managerVars, otherVars
<1>5. CASE StopAll \/ Exit
  <2>1. MainInv'
    BY <1>5 DEF IInv, MainInv, StopAll, Exit, managerVars
  <2>2. loading \in {"check", "load", "done"} /\ shouldStop \in BOOLEAN
    BY DEF IInv, TypeOK
  <2> QED
    BY <1>5, <2>1, <2>2, NetsAlone DEF StopAll, Exit, managerVars
<1>6. CASE DestroyManager
  BY <1>6, DestroySteps
<1>7. CASE UNCHANGED vars
  <2>1. loading \in {"check", "load", "done"} /\ shouldStop \in BOOLEAN
        /\ main \in {"joining", "stopping", "deleting", "done"}
    BY DEF IInv, TypeOK
  <2>2. MainInv'
    BY <1>7 DEF IInv, MainInv, vars
  <2> QED
    BY <1>7, <2>1, <2>2, NetsAlone DEF vars
<1> QED
  BY <1>1, <1>2, <1>3, <1>4, <1>5, <1>6, <1>7 DEF Next, Load, Main, Ended

\* What game threads, nets, their counts and the main thread always are.
THEOREM Inductive == Spec => []IInv
BY Initially, EveryStep, PTL DEF Spec

\* A net stays managed, loaded and writable as long as a game thread holds it,
\* and the searches of a thread use a net that it holds.
THEOREM HeldStay == Spec => []HeldModelsManaged
<1>1. IInv => HeldModelsManaged
  <2> SUFFICES ASSUME IInv, NEW g \in Games
               PROVE  /\ \A m \in Holds(g) : /\ m \in modelDatas /\ md[m].phase = "loaded"
                                             /\ ~md[m].readOnly
                      /\ gt[g].pc = "play" => gt[g].bots = gt[g].eval
                      /\ gt[g].pc = "switch" => gt[g].bots = gt[g].old
    BY DEF HeldModelsManaged
  <2> QED
    BY DEF IInv, TypeOK, GameInv, ModelInv
<1> QED
  BY <1>1, Inductive, PTL

\* The assertions of the manager and of the self-play command hold.
THEOREM Asserted == Spec => []AssertionsHold
<1>1. IInv => AssertionsHold
  <2> SUFFICES ASSUME IInv PROVE AssertionsHold
    OBVIOUS
  <2>1. modelDatas \subseteq Models /\ Active(md) \in SUBSET Models
    BY DEF IInv, TypeOK, Active
  <2>2. \A m \in Models : md[m].acquireCount = Cardinality(Holders(m))
    BY DEF IInv, CountInv
  <2>3. ASSUME NEW m \in Models, m \notin modelDatas PROVE md[m].acquireCount = 0
    <3>1. Holders(m) = {} /\ Holders(m) \in SUBSET Games
      BY <2>3 DEF IInv, GameInv, Holders
    <3> QED
      BY <2>2, <3>1, ThreadsCounted
  <2>4. \A m \in Models : md[m].loop \in {"ended", "deleted"} => m \notin modelDatas
    BY DEF IInv, ModelInv, Fitting
  <2>5. ASSUME NEW m \in Models, md[m].loop = "deleted", numDataWriteLoopsActive = 1,
               NEW l \in modelDatas
        PROVE  FALSE
    <3>1. l \in Models /\ md[l].phase = "loaded" /\ ~md[l].readOnly
      BY <2>1 DEF IInv, ModelInv
    <3>2. md[l].loop \in {"pop", "write"}
      BY <3>1 DEF IInv, TypeOK, ModelInv, Fitting
    <3>3. l # m /\ {l, m} \subseteq Active(md)
      BY <2>5, <3>1, <3>2 DEF Active
    <3>4. IsFiniteSet(Active(md)) /\ Cardinality(Active(md)) = 1
      BY <2>1, <2>5, ModelsFacts, FS_Subset DEF IInv, ActiveInv
    <3>5. \E x : Active(md) = {x}
      BY <3>4, FS_Singleton
    <3> QED
      BY <3>3, <3>5
  <2>6. ASSUME NEW g \in Games, gt[g].pc = "acquire" PROVE modelDatas # {}
    BY <2>6 DEF IInv, MainInv, TypeOK
  <2>7. ASSUME main # "joining", NEW m \in Models PROVE md[m].acquireCount = 0
    <3>1. Holders(m) = {} /\ Holders(m) \in SUBSET Games
      BY <2>7, ModelsFacts DEF IInv, MainInv, GameInv, Holders, Holds
    <3> QED
      BY <2>2, <3>1, ThreadsCounted
  <2> QED
    BY <2>2, <2>3, <2>4, <2>5, <2>6, <2>7 DEF AssertionsHold, IInv, ActiveInv, Active
<1> QED
  BY <1>1, Inductive, PTL

\* No net that is neither the last nor in use stays managed.
THEOREM UnusedGo == Spec => []UnusedModelsRetired
<1>1. IInv => UnusedModelsRetired
  <2> SUFFICES ASSUME IInv, NEW m \in modelDatas, m # Latest
               PROVE  md[m].acquireCount > 0
    BY DEF UnusedModelsRetired
  <2>1. Latest \in modelDatas /\ Last(modelDatas, Latest) /\ m \in Models
    BY LatestManaged DEF IInv, TypeOK
  <2>2. md[m].acquireCount # 0
    BY <2>1 DEF IInv, LastInv
  <2>3. md[m].acquireCount = Cardinality(Holders(m)) /\ Holders(m) \in SUBSET Games
    BY <2>1 DEF IInv, CountInv, Holders
  <2> QED
    BY <2>2, <2>3, ThreadsCounted
<1> QED
  BY <1>1, Inductive, PTL
=============================================================================
