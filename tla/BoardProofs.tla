---------------------------- MODULE BoardProofs ----------------------------
(***************************************************************************)
(* For every size of board: what a Board computes of a move without        *)
(* playing it is right whenever its bookkeeping is; and the rules that a   *)
(* Board implements leave no group without liberties.                      *)
(***************************************************************************)
EXTENDS Board, FiniteSetTheorems, SequenceTheorems, WellFoundedInduction, TLAPS

(***************************************************************************)
(* The grid.                                                               *)
(***************************************************************************)
\* A board has finitely many points.
LEMMA PointsFinite == IsFiniteSet(Points)
<1>. DEFINE D == (1..XSize) \X (1..YSize)
            at == [i \in D |-> i[1] + i[2] * (XSize + 1)]
<1>1. IsFiniteSet(D)
  <2>1. IsFiniteSet(1..XSize) /\ IsFiniteSet(1..YSize)
    BY SizeAssumption, FS_Interval
  <2>. QED
    BY <2>1, FS_Product
<1>2. \A i \in D : at[i] \in Points
  BY DEF Points
<1>3. \A l \in Points : \E i \in D : at[i] = l
  <2>. SUFFICES ASSUME NEW l \in Points PROVE \E i \in D : at[i] = l
    OBVIOUS
  <2>1. PICK x \in 1..XSize, y \in 1..YSize : l = x + y * (XSize + 1)
    BY DEF Points
  <2>2. <<x, y>> \in D /\ at[<<x, y>>] = l
    BY <2>1
  <2>. QED
    BY <2>2
<1>4. at \in Surjection(D, Points)
  <2>. HIDE DEF D
  <2>. QED
    BY <1>2, <1>3 DEF Surjection
<1>. QED
  BY <1>1, <1>4, FS_Surjection

\* Points are numbers, and none is its own neighbour; to be neighbours is mutual.
LEMMA Adjacency ==
  /\ Points \subseteq Int
  /\ Neighbours \in [Points -> SUBSET Points]
  /\ \A l \in Points : l \notin Neighbours[l]
  /\ \A l, m \in Points : m \in Neighbours[l] <=> l \in Neighbours[m]
<1>1. Points \subseteq Int
  BY SizeAssumption DEF Points
<1>2. Neighbours \in [Points -> SUBSET Points]
  BY DEF Neighbours
<1>3. \A l \in Points : Neighbours[l] = {l - (XSize + 1), l - 1, l + 1, l + (XSize + 1)} \cap Points
  <2>. SUFFICES ASSUME NEW l \in Points
                PROVE  {l + AdjOffsets[i] : i \in 1..4}
                         = {l - (XSize + 1), l - 1, l + 1, l + (XSize + 1)}
    BY DEF Neighbours
  <2>1. /\ AdjOffsets[1] = -(XSize + 1) /\ AdjOffsets[2] = -1
        /\ AdjOffsets[3] = 1 /\ AdjOffsets[4] = XSize + 1
    BY DEF AdjOffsets
  <2>2. 1..4 = {1, 2, 3, 4}
    OBVIOUS
  <2>3. {l + AdjOffsets[i] : i \in 1..4}
          = {l + AdjOffsets[1], l + AdjOffsets[2], l + AdjOffsets[3], l + AdjOffsets[4]}
    BY <2>2
  <2>. QED
    BY <1>1, <2>1, <2>3, SizeAssumption
<1>. QED
  BY <1>1, <1>2, <1>3, SizeAssumption

(***************************************************************************)
(* Groups.                                                                 *)
(***************************************************************************)
\* A set of points that holds its neighbours of a colour.
Whole(c, color, S) ==
  S \subseteq Points /\ \A r \in S : \A m \in Neighbours[r] : c[m] = color => m \in S

\* What Group grows is whole exactly when its rim is empty.
LEMMA RimEmpty ==
  ASSUME NEW c, NEW color, NEW S \in SUBSET Points
  PROVE  /\ Rim(c, color, S) = {} <=> Whole(c, color, S)
         /\ S \cup Rim(c, color, S) \in SUBSET Points
         /\ \A T \in SUBSET Points :
              S \subseteq T /\ Whole(c, color, T) => Rim(c, color, S) \subseteq T
<1>1. \A m : m \in Rim(c, color, S) <=>
            m \notin S /\ c[m] = color /\ \E r \in S : m \in Neighbours[r]
  BY DEF Rim
<1>2. \A r \in Points : Neighbours[r] \subseteq Points
  BY Adjacency
<1>. QED
  BY <1>1, <1>2 DEF Whole

\* A group is the least whole set of its colour around a point.
LEMMA GroupLeast ==
  ASSUME NEW c \in [Points -> Colors], NEW l \in Points
  PROVE  /\ l \in Group(c, l) /\ Whole(c, c[l], Group(c, l))
         /\ \A m \in Group(c, l) : m \in Points /\ c[m] = c[l]
         /\ \A S : l \in S /\ Whole(c, c[l], S) => Group(c, l) \subseteq S
<1>. DEFINE R(S) == Rim(c, c[l], S)
            Hull(S) == {m \in Points : \A T \in SUBSET Points :
                                         S \subseteq T /\ R(T) = {} => m \in T}
            H == [S \in SUBSET Points |-> Hull(S)]
            G == CHOOSE g : g = [S \in SUBSET Points |-> IF R(S) = {} THEN S ELSE g[S \cup R(S)]]
            Right(S) == /\ S \subseteq G[S] /\ G[S] \subseteq Points /\ R(G[S]) = {}
                        /\ \A T \in SUBSET Points : S \subseteq T /\ R(T) = {} => G[S] \subseteq T
<1>1. \A S \in SUBSET Points :
         /\ S \cup R(S) \in SUBSET Points
         /\ \A T \in SUBSET Points : S \subseteq T /\ R(T) = {} => R(S) \subseteq T
  BY RimEmpty
<1>. HIDE DEF R
<1>2. H = [S \in SUBSET Points |-> IF R(S) = {} THEN S ELSE H[S \cup R(S)]]
  <2>. SUFFICES ASSUME NEW S \in SUBSET Points
                PROVE  Hull(S) = IF R(S) = {} THEN S ELSE H[S \cup R(S)]
    OBVIOUS
  <2>1. CASE R(S) = {}
    BY <2>1
  <2>2. CASE R(S) # {}
    <3>1. H[S \cup R(S)] = Hull(S \cup R(S))
      BY <1>1
    <3>2. Hull(S) = Hull(S \cup R(S))
      BY <1>1
    <3>. QED
      BY <2>2, <3>1, <3>2
  <2>. QED
    BY <2>1, <2>2
<1>3. G = [S \in SUBSET Points |-> IF R(S) = {} THEN S ELSE G[S \cup R(S)]]
  <2>. HIDE DEF H
  <2>. QED
    BY <1>2
<1>4. Group(c, l) = G[{l}]
  BY DEF Group, R
<1>. HIDE DEF G
<1>5. \A S \in SUBSET Points : Right(S)
  <2>. DEFINE Bad == {Points \ S : S \in {T \in SUBSET Points : ~Right(T)}}
  <2>1. \A S \in SUBSET Points :
          (R(S) # {} => Right(S \cup R(S))) => Right(S)
    <3>. SUFFICES ASSUME NEW S \in SUBSET Points, R(S) # {} => Right(S \cup R(S))
                  PROVE  Right(S)
      OBVIOUS
    <3>1. CASE R(S) = {}
      BY <1>3, <3>1
    <3>2. CASE R(S) # {}
      <4>1. G[S] = G[S \cup R(S)]
        BY <1>3, <3>2
      <4>. QED
        BY <1>1, <3>2, <4>1
    <3>. QED
      BY <3>1, <3>2
  <2>. HIDE DEF Right
  <2>. SUFFICES ASSUME Bad # {} PROVE FALSE
    OBVIOUS
  <2>2. Bad \subseteq FiniteSubsetsOf(Points)
    BY PointsFinite, FS_Subset DEF FiniteSubsetsOf
  <2>3. PICK U \in Bad : \A V \in Bad : <<V, U>> \notin StrictSubsetOrdering(Points)
    BY <2>2, FS_StrictSubsetOrderingWellFounded, WFMin
  <2>4. PICK S \in SUBSET Points : ~Right(S) /\ U = Points \ S
    OBVIOUS
  <2>5. R(S) # {} /\ ~Right(S \cup R(S))
    BY <2>1, <2>4
  <2>6. R(S) \cap S = {}
    BY DEF Rim, R
  <2>7. Points \ (S \cup R(S)) \in Bad
    BY <1>1, <2>5
  <2>8. <<Points \ (S \cup R(S)), U>> \in StrictSubsetOrdering(Points)
    BY <1>1, <2>4, <2>5, <2>6 DEF StrictSubsetOrdering
  <2>. QED
    BY <2>3, <2>7, <2>8
<1>6. Right({l})
  BY <1>5
<1>7. \A T \in SUBSET Points : R(T) = {} <=> Whole(c, c[l], T)
  BY RimEmpty DEF R
<1>8. Group(c, l) \in SUBSET Points /\ l \in Group(c, l) /\ Whole(c, c[l], Group(c, l))
  BY <1>4, <1>6, <1>7
<1>9. ASSUME NEW S, l \in S, Whole(c, c[l], S)
      PROVE  Group(c, l) \subseteq S
  <2>1. S \in SUBSET Points /\ R(S) = {}
    BY <1>7, <1>9 DEF Whole
  <2>. QED
    BY <1>4, <1>6, <1>9, <2>1
<1>10. Whole(c, c[l], {m \in Points : c[m] = c[l]})
  BY Adjacency DEF Whole
<1>. QED
  BY <1>8, <1>9, <1>10

\* Every stone of a group has the same group.
LEMMA GroupShared ==
  ASSUME NEW c \in [Points -> Colors], NEW l \in Points, NEW m \in Group(c, l)
  PROVE  Group(c, m) = Group(c, l)
<1>1. m \in Points /\ c[m] = c[l]
  BY GroupLeast
<1>2. Group(c, m) \subseteq Group(c, l)
  BY <1>1, GroupLeast
<1>. DEFINE T == {x \in Group(c, l) : l \in Group(c, x)}
<1>3. ASSUME NEW x \in T, NEW y \in Neighbours[x], c[y] = c[l]
      PROVE  y \in T
  <2>1. x \in Points /\ y \in Points /\ c[x] = c[l] /\ x \in Neighbours[y]
    BY GroupLeast, Adjacency
  <2>2. y \in Group(c, l)
    BY <1>3, GroupLeast DEF Whole
  <2>3. x \in Group(c, y)
    BY <1>3, <2>1, GroupLeast DEF Whole
  <2>4. Group(c, x) \subseteq Group(c, y)
    BY <1>3, <2>1, <2>3, GroupLeast
  <2>. QED
    BY <2>2, <2>4
<1>4. l \in T /\ Whole(c, c[l], T)
  BY <1>3, GroupLeast DEF Whole
<1>5. Group(c, l) \subseteq T
  <2>. HIDE DEF T
  <2>. QED
    BY <1>4, GroupLeast
<1>. QED
  BY <1>1, <1>2, <1>5, GroupLeast

\* A group depends on where its colour is, and on nothing else.
LEMMA GroupDepends ==
  ASSUME NEW c \in [Points -> Colors], NEW e \in [Points -> Colors], NEW m \in Points,
         e[m] = c[m], \A x \in Points : e[x] = c[m] <=> c[x] = c[m]
  PROVE  Group(e, m) = Group(c, m)
<1>1. \A r \in Points : Neighbours[r] \subseteq Points
  BY Adjacency
<1>2. Whole(e, e[m], Group(c, m))
  <2>1. Whole(c, c[m], Group(c, m))
    BY GroupLeast
  <2>. QED
    BY <1>1, <2>1 DEF Whole
<1>3. Whole(c, c[m], Group(e, m))
  <2>1. Whole(e, e[m], Group(e, m))
    BY GroupLeast
  <2>. QED
    BY <1>1, <2>1 DEF Whole
<1>4. Group(e, m) \subseteq Group(c, m)
  BY <1>2, GroupLeast
<1>5. Group(c, m) \subseteq Group(e, m)
  BY <1>3, GroupLeast
<1>. QED
  BY <1>4, <1>5

\* What a liberty is.
LEMMA LibertyOf ==
  ASSUME NEW c, NEW S \in SUBSET Points
  PROVE  /\ Liberties(c, S) \subseteq Points
         /\ \A m : m \in Liberties(c, S) <=>
                     c[m] = C_EMPTY /\ \E x \in S : m \in Neighbours[x]
<1>1. \A x \in S : Neighbours[x] \subseteq Points
  BY Adjacency
<1>. QED
  BY <1>1 DEF Liberties

(***************************************************************************)
(* A board whose bookkeeping is exact.                                     *)
(***************************************************************************)
\* BookkeepingExact, as far as predictions need it, of any board.
Exact(d) ==
  /\ d.colors \in [Points -> Colors]
  /\ \A l \in Points : d.colors[l] # C_EMPTY =>
       /\ ToSet(Stroll(d, l)) = Group(d.colors, l)
       /\ d.chain_head[l] \in Group(d.colors, l)
       /\ \A m \in Group(d.colors, l) : d.chain_head[m] = d.chain_head[l]
       /\ ChainSize(d, l) = Cardinality(Group(d.colors, l))
       /\ NumLiberties(d, l) = Cardinality(Liberties(d.colors, Group(d.colors, l)))
       /\ NumLiberties(d, l) > 0
  /\ d.pos_hash = {<<l, d.colors[l]>> : l \in Stones(d.colors)}

\* The opposing stones beside l whose chains a stone at l would take, and what
\* a stone at l would be connected with.
Prey(d, l, p) == {a \in Beside(d, l, Opp(p)) : InAtari(d, a)}
Caught(d, l, p) == UNION {Group(d.colors, a) : a \in Prey(d, l, p)}
Kin(d, l, p) == UNION {Group(d.colors, a) : a \in Beside(d, l, p)}

\* The two players, and no player.
LEMMA PlayersDiffer ==
  ASSUME NEW p \in Players
  PROVE  /\ p \in Colors /\ Opp(p) \in Players /\ Opp(p) \in Colors
         /\ p # Opp(p) /\ p # C_EMPTY /\ Opp(p) # C_EMPTY /\ Opp(Opp(p)) = p
         /\ Colors = {C_EMPTY, p, Opp(p)}
BY DEF Players, Colors, Opp, C_EMPTY, C_BLACK, C_WHITE

\* A chain beside an empty point has that point as a liberty.
LEMMA LibertyBeside ==
  ASSUME NEW d, Exact(d), NEW l \in Points, d.colors[l] = C_EMPTY,
         NEW a \in Neighbours[l], d.colors[a] # C_EMPTY
  PROVE  /\ l \in Liberties(d.colors, Group(d.colors, a))
         /\ Liberties(d.colors, Group(d.colors, a)) \subseteq Points
         /\ IsFiniteSet(Liberties(d.colors, Group(d.colors, a)))
         /\ NumLiberties(d, a) = Cardinality(Liberties(d.colors, Group(d.colors, a)))
         /\ NumLiberties(d, a) \in Nat /\ NumLiberties(d, a) > 0
<1>. DEFINE L == Liberties(d.colors, Group(d.colors, a))
<1>1. a \in Points /\ l \in Neighbours[a]
  BY Adjacency
<1>2. d.colors \in [Points -> Colors] /\ NumLiberties(d, a) = Cardinality(L)
      /\ NumLiberties(d, a) > 0
  BY <1>1 DEF Exact
<1>3. a \in Group(d.colors, a) /\ Group(d.colors, a) \in SUBSET Points
  BY <1>1, <1>2, GroupLeast
<1>4. l \in L /\ L \subseteq Points
  BY <1>1, <1>3, LibertyOf
<1>5. IsFiniteSet(L) /\ Cardinality(L) \in Nat
  BY <1>4, PointsFinite, FS_Subset, FS_CardinalityType
<1>. QED
  BY <1>2, <1>4, <1>5

\* It has at most one liberty, which is to say one, exactly when it has no other.
LEMMA AtariIs ==
  ASSUME NEW d, Exact(d), NEW l \in Points, d.colors[l] = C_EMPTY,
         NEW a \in Neighbours[l], d.colors[a] # C_EMPTY
  PROVE  /\ NumLiberties(d, a) = 1 <=> Liberties(d.colors, Group(d.colors, a)) = {l}
         /\ NumLiberties(d, a) <= 1 <=> Liberties(d.colors, Group(d.colors, a)) = {l}
<1>. DEFINE L == Liberties(d.colors, Group(d.colors, a))
<1>1. /\ l \in L /\ IsFiniteSet(L)
      /\ NumLiberties(d, a) = Cardinality(L) /\ Cardinality(L) \in Nat /\ Cardinality(L) > 0
  BY LibertyBeside
<1>. HIDE DEF L
<1>2. Cardinality(L) = 1 <=> L = {l}
  BY <1>1, FS_Singleton
<1>. QED
  BY <1>1, <1>2 DEF L

(***************************************************************************)
(* A move, as the rules have it.                                           *)
(***************************************************************************)
\* The stones a move takes from the opponent are the chains in atari beside it.
LEMMA TakenIs ==
  ASSUME NEW d, Exact(d), NEW l \in Points, NEW p \in Players, d.colors[l] = C_EMPTY
  PROVE  Taken(d.colors, l, p) = Caught(d, l, p)
<1>. DEFINE c == d.colors
            put == [c EXCEPT ![l] = p]
            L(m) == Liberties(c, Group(c, m))
<1>1. c \in [Points -> Colors] /\ put \in [Points -> Colors]
  BY PlayersDiffer DEF Exact
<1>2. ASSUME NEW m \in Points, c[m] = Opp(p)
      PROVE  Liberties(put, Group(put, m)) = L(m) \ {l}
  <2>1. Group(put, m) = Group(c, m)
    BY <1>1, <1>2, GroupDepends, PlayersDiffer
  <2>2. Group(c, m) \in SUBSET Points
    BY <1>1, GroupLeast
  <2>3. \A n \in Points : put[n] = C_EMPTY <=> c[n] = C_EMPTY /\ n # l
    BY <1>1, PlayersDiffer
  <2>. HIDE DEF put
  <2>. QED
    BY <2>1, <2>2, <2>3, LibertyOf
<1>3. \A m : m \in Taken(c, l, p) <=> m \in Points /\ c[m] = Opp(p) /\ L(m) \ {l} = {}
  <2>1. \A m : m \in Taken(c, l, p) <=>
                 m \in Points /\ put[m] = Opp(p) /\ Liberties(put, Group(put, m)) = {}
    BY PlayersDiffer DEF Taken, Stifled, Stones
  <2>2. \A m \in Points : put[m] = Opp(p) <=> c[m] = Opp(p)
    BY <1>1, PlayersDiffer
  <2>. HIDE DEF put, L
  <2>. QED
    BY <1>2, <2>1, <2>2
<1>4. ASSUME NEW m \in Points, c[m] = Opp(p), L(m) \ {l} = {}
      PROVE  m \in Caught(d, l, p)
  <2>1. m \in Group(c, m) /\ Group(c, m) \in SUBSET Points
    BY <1>1, GroupLeast
  <2>2. L(m) # {}
    <3>1. NumLiberties(d, m) = Cardinality(L(m)) /\ NumLiberties(d, m) > 0
      BY <1>4, PlayersDiffer DEF Exact
    <3>. QED
      BY <3>1, FS_EmptySet
  <2>3. PICK x \in Group(c, m) : l \in Neighbours[x]
    BY <1>4, <2>1, <2>2, LibertyOf
  <2>4. x \in Neighbours[l] /\ c[x] = Opp(p) /\ Group(c, x) = Group(c, m)
    <3>1. x \in Points /\ x \in Neighbours[l]
      BY <2>1, <2>3, Adjacency
    <3>2. c[x] = c[m]
      BY <1>1, GroupLeast
    <3>3. Group(c, x) = Group(c, m)
      BY <1>1, GroupShared
    <3>. QED
      BY <1>4, <3>1, <3>2, <3>3
  <2>5. x \in Prey(d, l, p)
    <3>1. c[x] # C_EMPTY /\ L(x) = {l}
      BY <1>4, <2>2, <2>4, PlayersDiffer
    <3>2. NumLiberties(d, x) = 1
      BY <2>4, <3>1, AtariIs
    <3>. QED
      BY <2>4, <3>2 DEF Prey, Beside, InAtari
  <2>. QED
    BY <2>1, <2>4, <2>5 DEF Caught
<1>5. ASSUME NEW m \in Caught(d, l, p)
      PROVE  m \in Points /\ c[m] = Opp(p) /\ L(m) \ {l} = {}
  <2>1. PICK a \in Prey(d, l, p) : m \in Group(c, a)
    BY DEF Caught
  <2>2. a \in Neighbours[l] /\ a \in Points /\ c[a] = Opp(p) /\ NumLiberties(d, a) = 1
    BY Adjacency DEF Prey, Beside, InAtari
  <2>3. m \in Points /\ c[m] = Opp(p) /\ Group(c, m) = Group(c, a)
    BY <1>1, <2>1, <2>2, GroupLeast, GroupShared
  <2>4. L(a) = {l}
    <3>1. c[a] # C_EMPTY
      BY <2>2, PlayersDiffer
    <3>. QED
      BY <2>2, <3>1, AtariIs
  <2>. QED
    BY <2>3, <2>4
<1>. QED
  <2>. HIDE DEF c, L
  <2>. QED
    BY <1>3, <1>4, <1>5 DEF c

\* The stones a move takes are the opponent's.
LEMMA CaughtIs ==
  ASSUME NEW d, Exact(d), NEW l \in Points, NEW p \in Players, d.colors[l] = C_EMPTY
  PROVE  /\ \A m \in Caught(d, l, p) : m \in Points /\ m # l /\ d.colors[m] = Opp(p)
         /\ \A a \in Prey(d, l, p) : a \in Caught(d, l, p)
         /\ \A a \in Neighbours[l] : a \in Caught(d, l, p) => a \in Prey(d, l, p)
         /\ \A m \in Kin(d, l, p) : m \in Points /\ m # l /\ d.colors[m] = p
         /\ Caught(d, l, p) = {} <=> Prey(d, l, p) = {}
<1>1. d.colors \in [Points -> Colors]
  BY DEF Exact
<1>2. \A a \in Prey(d, l, p) :
        a \in Neighbours[l] /\ a \in Points /\ d.colors[a] = Opp(p) /\ NumLiberties(d, a) = 1
  BY Adjacency DEF Prey, Beside, InAtari
<1>3. \A a \in Prey(d, l, p) : a \in Caught(d, l, p)
  BY <1>1, <1>2, GroupLeast DEF Caught
<1>4. \A m \in Caught(d, l, p) : m \in Points /\ m # l /\ d.colors[m] = Opp(p)
  BY <1>1, <1>2, GroupLeast, PlayersDiffer DEF Caught
<1>5. ASSUME NEW a \in Neighbours[l], a \in Caught(d, l, p)
      PROVE  a \in Prey(d, l, p)
  <2>1. PICK m \in Prey(d, l, p) : a \in Group(d.colors, m)
    BY <1>5 DEF Caught
  <2>2. Group(d.colors, a) = Group(d.colors, m) /\ d.colors[a] = Opp(p)
    BY <1>1, <1>2, <1>4, <1>5, <2>1, GroupShared
  <2>3. Liberties(d.colors, Group(d.colors, m)) = {l}
    <3>1. m \in Neighbours[l] /\ d.colors[m] # C_EMPTY /\ NumLiberties(d, m) = 1
      BY <1>2, PlayersDiffer
    <3>. QED
      BY <3>1, AtariIs
  <2>4. NumLiberties(d, a) = 1
    <3>1. d.colors[a] # C_EMPTY
      BY <2>2, PlayersDiffer
    <3>. QED
      BY <2>2, <2>3, <3>1, AtariIs
  <2>. QED
    BY <2>2, <2>4 DEF Prey, Beside, InAtari
<1>6. \A m \in Kin(d, l, p) : m \in Points /\ m # l /\ d.colors[m] = p
  <2>. SUFFICES ASSUME NEW a \in Beside(d, l, p), NEW m \in Group(d.colors, a)
                PROVE  m \in Points /\ m # l /\ d.colors[m] = p
    BY DEF Kin
  <2>1. a \in Points /\ d.colors[a] = p
    BY Adjacency DEF Beside
  <2>2. m \in Points /\ d.colors[m] = p
    BY <1>1, <2>1, GroupLeast
  <2>. QED
    BY <2>2, PlayersDiffer
<1>. QED
  BY <1>3, <1>4, <1>5, <1>6 DEF Caught

\* The liberties that a stone put at l has when what it takes is gone.
Freed(d, l, p) ==
  ImmediateLiberties(d, l) \cup Prey(d, l, p)
    \cup {m \in Points \ {l} : /\ d.colors[m] = C_EMPTY \/ m \in Caught(d, l, p)
                               /\ \E x \in Kin(d, l, p) : m \in Neighbours[x]}

\* The group of the stone put, and its liberties.
LEMMA PutIs ==
  ASSUME NEW d, Exact(d), NEW l \in Points, NEW p \in Players, d.colors[l] = C_EMPTY
  PROVE  LET put == Without([d.colors EXCEPT ![l] = p], Taken(d.colors, l, p))
         IN /\ put \in [Points -> Colors]
            /\ \A m \in Points : put[m] = IF m = l THEN p
                                          ELSE IF m \in Caught(d, l, p) THEN C_EMPTY
                                          ELSE d.colors[m]
            /\ Group(put, l) = {l} \cup Kin(d, l, p)
            /\ Liberties(put, Group(put, l)) = Freed(d, l, p)
<1>. DEFINE c == d.colors
            put == Without([c EXCEPT ![l] = p], Taken(c, l, p))
<1>1. c \in [Points -> Colors]
  BY DEF Exact
<1>2. \A m \in Points : put[m] = IF m = l THEN p
                                 ELSE IF m \in Caught(d, l, p) THEN C_EMPTY
                                 ELSE c[m]
  BY <1>1, TakenIs, CaughtIs DEF Without
<1>3. put \in [Points -> Colors]
  <2>1. put = [m \in Points |-> put[m]]
    BY DEF Without
  <2>. HIDE DEF put
  <2>. QED
    BY <1>1, <1>2, <2>1, PlayersDiffer
<1>. HIDE DEF put
<1>4. \A m \in Points : put[m] = p <=> m = l \/ c[m] = p
  BY <1>2, CaughtIs, PlayersDiffer
<1>5. \A m \in Points : put[m] = C_EMPTY <=> m # l /\ (c[m] = C_EMPTY \/ m \in Caught(d, l, p))
  BY <1>2, PlayersDiffer
<1>. DEFINE J == {l} \cup Kin(d, l, p)
<1>6. J \subseteq Points
  BY CaughtIs
<1>7. Whole(put, p, J)
  <2>. SUFFICES ASSUME NEW x \in J, NEW m \in Neighbours[x], put[m] = p
                PROVE  m \in J
    BY <1>6 DEF Whole
  <2>1. m \in Points
    BY <1>6, Adjacency
  <2>2. CASE m = l
    BY <2>2
  <2>3. CASE m # l /\ x = l
    <3>1. m \in Beside(d, l, p)
      BY <1>4, <2>1, <2>3 DEF Beside
    <3>. QED
      BY <1>1, <2>1, <3>1, GroupLeast DEF Kin
  <2>4. CASE m # l /\ x # l
    <3>1. PICK a \in Beside(d, l, p) : x \in Group(c, a)
      BY <2>4 DEF Kin
    <3>2. a \in Points /\ c[a] = p /\ c[m] = p
      BY <1>4, <2>1, <2>4, <3>1, Adjacency DEF Beside
    <3>3. m \in Group(c, a)
      BY <1>1, <3>1, <3>2, GroupLeast DEF Whole
    <3>. QED
      BY <3>1, <3>3 DEF Kin
  <2>. QED
    BY <2>2, <2>3, <2>4
<1>8. put[l] = p
  BY <1>4
<1>9. Group(put, l) \subseteq J
  BY <1>3, <1>7, <1>8, GroupLeast
<1>10. ASSUME NEW a \in Beside(d, l, p)
       PROVE  Group(c, a) \subseteq Group(put, l)
  <2>1. a \in Neighbours[l] /\ a \in Points /\ c[a] = p
    BY Adjacency DEF Beside
  <2>2. a \in Group(put, l)
    BY <1>3, <1>4, <1>8, <2>1, GroupLeast DEF Whole
  <2>3. Whole(c, p, Group(put, l))
    <3>1. \A r \in Points : Neighbours[r] \subseteq Points
      BY Adjacency
    <3>2. Whole(put, p, Group(put, l))
      BY <1>3, <1>8, GroupLeast
    <3>. QED
      BY <1>4, <3>1, <3>2 DEF Whole
  <2>. QED
    BY <1>1, <2>1, <2>2, <2>3, GroupLeast
<1>11. Group(put, l) = J
  BY <1>3, <1>9, <1>10, GroupLeast DEF Kin
<1>12. Liberties(put, J) = Freed(d, l, p)
  <2>1. \A m : m \in Liberties(put, J) <=>
                 put[m] = C_EMPTY /\ \E x \in J : m \in Neighbours[x]
    BY <1>6, LibertyOf
  <2>2. \A x \in J : Neighbours[x] \subseteq Points
    BY <1>6, Adjacency
  <2>3. ASSUME NEW m \in Points
        PROVE  m \in Liberties(put, J) <=> m \in Freed(d, l, p)
    <3>1. m \in Neighbours[l] => m # l
      BY Adjacency
    <3>2. m \in Neighbours[l] => (m \in Prey(d, l, p) <=> m \in Caught(d, l, p))
      BY CaughtIs
    <3>3. m \in Liberties(put, J) <=>
            /\ m # l /\ (c[m] = C_EMPTY \/ m \in Caught(d, l, p))
            /\ m \in Neighbours[l] \/ \E x \in Kin(d, l, p) : m \in Neighbours[x]
      BY <1>5, <2>1
    <3>4. m \in Freed(d, l, p) <=>
            \/ m \in Neighbours[l] /\ (c[m] = C_EMPTY \/ m \in Prey(d, l, p))
            \/ /\ m # l /\ (c[m] = C_EMPTY \/ m \in Caught(d, l, p))
               /\ \E x \in Kin(d, l, p) : m \in Neighbours[x]
      BY DEF Freed, ImmediateLiberties, Prey, Beside
    <3>. QED
      BY <3>1, <3>2, <3>3, <3>4
  <2>4. Liberties(put, J) \subseteq Points /\ Freed(d, l, p) \subseteq Points
    BY <1>6, LibertyOf, Adjacency DEF Freed, ImmediateLiberties, Prey, Beside
  <2>. QED
    BY <2>3, <2>4
<1>. QED
  BY <1>2, <1>3, <1>11, <1>12 DEF put

\* The new stone dies exactly when isSuicide says so.
LEMMA SuicideIs ==
  ASSUME NEW d, Exact(d), NEW l \in Points, NEW p \in Players, d.colors[l] = C_EMPTY
  PROVE  /\ IsSuicide(d, l, p) <=> Freed(d, l, p) = {}
         /\ Given(d.colors, l, p) = IF Freed(d, l, p) = {} THEN {l} \cup Kin(d, l, p) ELSE {}
         /\ IsSuicide(d, l, p) => Caught(d, l, p) = {}
<1>0. \A a \in Beside(d, l, p) :
        a \in Points /\ a \in Neighbours[l] /\ d.colors[a] # C_EMPTY
  BY Adjacency, PlayersDiffer DEF Beside
<1>1. IsSuicide(d, l, p) <=>
        /\ ImmediateLiberties(d, l) = {}
        /\ Prey(d, l, p) = {}
        /\ \A a \in Beside(d, l, p) : Liberties(d.colors, Group(d.colors, a)) = {l}
  <2>1. \A a \in Beside(d, l, p) :
          NumLiberties(d, a) <= 1 <=> Liberties(d.colors, Group(d.colors, a)) = {l}
    BY <1>0, AtariIs
  <2>. QED
    BY <2>1 DEF IsSuicide, Prey
<1>2. d.colors \in [Points -> Colors]
  BY DEF Exact
<1>3. \A a \in Beside(d, l, p) : \A m :
        m \in Liberties(d.colors, Group(d.colors, a)) <=>
          d.colors[m] = C_EMPTY /\ \E x \in Group(d.colors, a) : m \in Neighbours[x]
  <2>1. \A a \in Beside(d, l, p) : Group(d.colors, a) \in SUBSET Points
    BY <1>0, <1>2, GroupLeast
  <2>. QED
    BY <2>1, LibertyOf
<1>4. ASSUME IsSuicide(d, l, p)
      PROVE  Freed(d, l, p) = {} /\ Caught(d, l, p) = {}
  <2>1. Caught(d, l, p) = {}
    BY <1>1, <1>4, CaughtIs
  <2>2. ASSUME NEW m \in Points \ {l}, d.colors[m] = C_EMPTY,
               NEW x \in Kin(d, l, p), m \in Neighbours[x]
        PROVE  FALSE
    <3>1. PICK a \in Beside(d, l, p) : x \in Group(d.colors, a)
      BY DEF Kin
    <3>. QED
      BY <1>1, <1>3, <1>4, <2>2, <3>1
  <2>. QED
    BY <1>1, <1>4, <2>1, <2>2 DEF Freed
<1>5. ASSUME Freed(d, l, p) = {}
      PROVE  IsSuicide(d, l, p)
  <2>1. ImmediateLiberties(d, l) = {} /\ Prey(d, l, p) = {}
    BY <1>5 DEF Freed
  <2>2. ASSUME NEW a \in Beside(d, l, p)
        PROVE  Liberties(d.colors, Group(d.colors, a)) = {l}
    <3>1. /\ l \in Liberties(d.colors, Group(d.colors, a))
          /\ Liberties(d.colors, Group(d.colors, a)) \subseteq Points
      BY <1>0, LibertyBeside
    <3>2. ASSUME NEW m \in Liberties(d.colors, Group(d.colors, a)), m # l
          PROVE  FALSE
      <4>1. m \in Points /\ d.colors[m] = C_EMPTY
        BY <1>3, <3>1
      <4>2. \E x \in Kin(d, l, p) : m \in Neighbours[x]
        BY <1>3 DEF Kin
      <4>. QED
        BY <1>5, <3>2, <4>1, <4>2 DEF Freed
    <3>. QED
      BY <3>1, <3>2
  <2>. QED
    BY <1>1, <2>1, <2>2
<1>6. Given(d.colors, l, p) = IF Freed(d, l, p) = {} THEN {l} \cup Kin(d, l, p) ELSE {}
  BY PutIs DEF Given
<1>. QED
  BY <1>4, <1>5, <1>6

(***************************************************************************)
(* The predictions.                                                        *)
(***************************************************************************)
\* The position after a move.
LEMMA AfterIs ==
  ASSUME NEW d, Exact(d), NEW l \in Points, NEW p \in Players, d.colors[l] = C_EMPTY
  PROVE  /\ After(d.colors, l, p) \in [Points -> Colors]
         /\ \A m \in Points :
              After(d.colors, l, p)[m] =
                IF Freed(d, l, p) = {}
                THEN IF m = l \/ m \in Kin(d, l, p) THEN C_EMPTY ELSE d.colors[m]
                ELSE IF m = l THEN p
                ELSE IF m \in Caught(d, l, p) THEN C_EMPTY
                ELSE d.colors[m]
         /\ Freed(d, l, p) # {} =>
              Liberties(After(d.colors, l, p), Group(After(d.colors, l, p), l)) = Freed(d, l, p)
<1>. DEFINE c == d.colors
            put == Without([c EXCEPT ![l] = p], Taken(c, l, p))
<1>1. c \in [Points -> Colors] /\ C_EMPTY \in Colors /\ p \in Colors
  BY PlayersDiffer DEF Exact, Colors
<1>2. /\ Taken(c, l, p) = Caught(d, l, p)
      /\ Given(c, l, p) = IF Freed(d, l, p) = {} THEN {l} \cup Kin(d, l, p) ELSE {}
      /\ Freed(d, l, p) = {} => Caught(d, l, p) = {}
  BY TakenIs, SuicideIs
<1>3. /\ After(c, l, p) \in [Points -> Colors]
      /\ \A m \in Points :
           After(c, l, p)[m] = IF m \in Caught(d, l, p) \/ m \in Given(c, l, p) THEN C_EMPTY
                               ELSE IF m = l THEN p ELSE c[m]
  BY <1>1, <1>2 DEF After, Without
<1>4. l \notin Caught(d, l, p)
  BY CaughtIs
<1>5. ASSUME Freed(d, l, p) # {}
      PROVE  After(c, l, p) = put
  BY <1>2, <1>5 DEF After
<1>6. Liberties(put, Group(put, l)) = Freed(d, l, p)
  BY PutIs
<1>. QED
  <2>. HIDE DEF put
  <2>. QED
    BY <1>2, <1>3, <1>4, <1>5, <1>6

\* wouldBeCapture: a move takes stones exactly when a chain beside it is in atari.
LEMMA CapturesPredicted ==
  ASSUME NEW d, Exact(d), NEW l \in Points, NEW p \in Players, d.colors[l] = C_EMPTY
  PROVE  WouldBeCapture(d, l, p) <=> Taken(d.colors, l, p) # {}
<1>1. WouldBeCapture(d, l, p) <=> Prey(d, l, p) # {}
  BY DEF WouldBeCapture, Prey
<1>. QED
  BY <1>1, TakenIs, CaughtIs

\* isSuicide and isIllegalSuicide.
LEMMA SuicidesPredicted ==
  ASSUME NEW d, Exact(d), NEW l \in Points, NEW p \in Players, d.colors[l] = C_EMPTY
  PROVE  /\ IsSuicide(d, l, p) <=> Given(d.colors, l, p) # {}
         /\ \A multi \in BOOLEAN :
              ~IsIllegalSuicide(d, l, p, multi) <=> MayPlay(d.colors, l, p, multi)
<1>0. /\ IsSuicide(d, l, p) <=> Freed(d, l, p) = {}
      /\ Given(d.colors, l, p) = IF Freed(d, l, p) = {} THEN {l} \cup Kin(d, l, p) ELSE {}
  BY SuicideIs
<1>1. IsSuicide(d, l, p) <=> Given(d.colors, l, p) # {}
  BY <1>0
<1>2. Kin(d, l, p) = {} <=> Beside(d, l, p) = {}
  <2>1. \A a \in Beside(d, l, p) : a \in Group(d.colors, a)
    BY Adjacency, GroupLeast DEF Beside, Exact
  <2>. QED
    BY <2>1 DEF Kin
<1>3. ASSUME Given(d.colors, l, p) # {}
      PROVE  Given(d.colors, l, p) = {l} <=> Beside(d, l, p) = {}
  <2>1. Given(d.colors, l, p) = {l} \cup Kin(d, l, p)
    BY <1>0, <1>3
  <2>2. l \notin Kin(d, l, p)
    BY CaughtIs
  <2>. QED
    BY <1>2, <2>1, <2>2
<1>4. ~IsIllegalSuicide(d, l, p, TRUE) <=> MayPlay(d.colors, l, p, TRUE)
  BY <1>1, <1>3 DEF IsIllegalSuicide, MayPlay
<1>5. ~IsIllegalSuicide(d, l, p, FALSE) <=> MayPlay(d.colors, l, p, FALSE)
  BY <1>1 DEF IsIllegalSuicide, MayPlay
<1>. QED
  BY <1>1, <1>4, <1>5

\* getPosHashAfterMove: the hash of the position after the move.
LEMMA HashPredicted ==
  ASSUME NEW d, Exact(d), NEW l \in Points, NEW p \in Players, d.colors[l] = C_EMPTY
  PROVE  GetPosHashAfterMove(d, l, p) =
           LET after == After(d.colors, l, p) IN {<<m, after[m]>> : m \in Stones(after)}
<1>. DEFINE c == d.colors
            after == After(c, l, p)
            Part(S) == {<<m, c[m]>> : m \in S}
            kin == {a \in Beside(d, l, p) : InAtari(d, a)}
            put == Toggle(d.pos_hash, l, p)
            goal == {<<m, after[m]>> : m \in Stones(after)}
<1>1. c \in [Points -> Colors] /\ d.pos_hash = Part(Stones(c))
  BY Zenon DEF Exact
<1>2. put = Part(Stones(c)) \cup {<<l, p>>} /\ <<l, p>> \notin Part(Stones(c))
  BY <1>1 DEF Toggle, Xor, Stones
<1>3. \A S \in SUBSET Stones(c) :
        /\ Xor(put, Part(S)) = Part(Stones(c) \ S) \cup {<<l, p>>}
        /\ Toggle(Xor(put, Part(S)), l, p) = Part(Stones(c) \ S)
  <2>. SUFFICES ASSUME NEW S \in SUBSET Stones(c)
                PROVE  /\ Xor(put, Part(S)) = Part(Stones(c) \ S) \cup {<<l, p>>}
                       /\ Toggle(Xor(put, Part(S)), l, p) = Part(Stones(c) \ S)
    OBVIOUS
  <2>1. Part(S) \subseteq Part(Stones(c))
    OBVIOUS
  <2>2. Part(Stones(c)) \ Part(S) = Part(Stones(c) \ S)
    OBVIOUS
  <2>. HIDE DEF Part, put
  <2>3. Xor(put, Part(S)) = Part(Stones(c) \ S) \cup {<<l, p>>}
    BY <1>2, <2>1, <2>2 DEF Xor
  <2>4. <<l, p>> \notin Part(Stones(c) \ S)
    BY <1>2, <2>2
  <2>5. Xor(Xor(put, Part(S)), {<<l, p>>}) = Part(Stones(c) \ S)
    BY <2>3, <2>4 DEF Xor
  <2>. QED
    BY <2>3, <2>5 DEF Toggle
<1>4. \A a \in Points : c[a] # C_EMPTY => ToSet(Stroll(d, a)) = Group(c, a)
  BY DEF Exact
<1>5. HashWithout(d, put, Prey(d, l, p)) = Xor(put, Part(Caught(d, l, p)))
  <2>1. \A a \in Prey(d, l, p) : ToSet(Stroll(d, a)) = Group(c, a)
    <3>1. \A a \in Prey(d, l, p) : a \in Points /\ c[a] # C_EMPTY
      <4>. SUFFICES ASSUME NEW a \in Prey(d, l, p) PROVE a \in Points /\ c[a] # C_EMPTY
        OBVIOUS
      <4>1. a \in Points /\ d.colors[a] = Opp(p)
        BY Adjacency DEF Prey, Beside, InAtari
      <4>. QED
        BY <4>1, PlayersDiffer
    <3>. QED
      BY <1>4, <3>1
  <2>2. UNION {ToSet(Stroll(d, a)) : a \in Prey(d, l, p)} = Caught(d, l, p)
    BY <2>1 DEF Caught
  <2>. QED
    BY <2>2 DEF HashWithout
<1>6. ASSUME IsSuicide(d, l, p)
      PROVE  HashWithout(d, put, kin) = Xor(put, Part(Kin(d, l, p)))
  <2>1. \A a \in Beside(d, l, p) :
          a \in Points /\ a \in Neighbours[l] /\ c[a] # C_EMPTY /\ ToSet(Stroll(d, a)) = Group(c, a)
    BY <1>4, Adjacency, PlayersDiffer DEF Beside
  <2>2. \A a \in Beside(d, l, p) : NumLiberties(d, a) = 1
    BY <1>6, <2>1, AtariIs DEF IsSuicide
  <2>3. kin = Beside(d, l, p)
    BY <2>2 DEF InAtari
  <2>4. UNION {ToSet(Stroll(d, a)) : a \in kin} = Kin(d, l, p)
    BY <2>1, <2>3 DEF Kin
  <2>. QED
    BY <2>4 DEF HashWithout
<1>7. Caught(d, l, p) \in SUBSET Stones(c) /\ Kin(d, l, p) \in SUBSET Stones(c)
  BY CaughtIs, PlayersDiffer DEF Stones
<1>8. GetPosHashAfterMove(d, l, p) = IF IsSuicide(d, l, p)
                                     THEN Part(Stones(c) \ Kin(d, l, p))
                                     ELSE Part(Stones(c) \ Caught(d, l, p)) \cup {<<l, p>>}
  <2>1. GetPosHashAfterMove(d, l, p) = IF IsSuicide(d, l, p)
                                       THEN Toggle(HashWithout(d, put, kin), l, p)
                                       ELSE HashWithout(d, put, Prey(d, l, p))
    BY DEF GetPosHashAfterMove, Prey
  <2>. HIDE DEF Part, put, kin
  <2>. QED
    BY <1>3, <1>5, <1>6, <1>7, <2>1
<1>9. /\ after \in [Points -> Colors]
      /\ IsSuicide(d, l, p) =>
           \A m \in Points : after[m] = IF m = l \/ m \in Kin(d, l, p) THEN C_EMPTY ELSE c[m]
      /\ ~IsSuicide(d, l, p) =>
           \A m \in Points : after[m] = IF m = l THEN p
                                        ELSE IF m \in Caught(d, l, p) THEN C_EMPTY
                                        ELSE c[m]
  <2>1. IsSuicide(d, l, p) <=> Freed(d, l, p) = {}
    BY SuicideIs
  <2>. QED
    BY <2>1, AfterIs
<1>. HIDE DEF after
<1>10. CASE IsSuicide(d, l, p)
  <2>1. Stones(after) = Stones(c) \ Kin(d, l, p)
    BY <1>9, <1>10 DEF Stones
  <2>2. \A m \in Stones(after) : after[m] = c[m]
    BY <1>9, <1>10, <2>1 DEF Stones
  <2>3. goal = Part(Stones(c) \ Kin(d, l, p))
    BY <2>1, <2>2
  <2>. QED
    BY <1>8, <1>10, <2>3 DEF after
<1>11. CASE ~IsSuicide(d, l, p)
  <2>1. Stones(after) = (Stones(c) \ Caught(d, l, p)) \cup {l} /\ l \notin Stones(c)
    BY <1>9, <1>11, PlayersDiffer DEF Stones
  <2>2. after[l] = p /\ \A m \in Stones(c) \ Caught(d, l, p) : after[m] = c[m]
    BY <1>9, <1>11, <2>1 DEF Stones
  <2>3. goal = Part(Stones(c) \ Caught(d, l, p)) \cup {<<l, p>>}
    BY <2>1, <2>2
  <2>. QED
    BY <1>8, <1>11, <2>3 DEF after
<1>. QED
  BY <1>10, <1>11

\* The heads tell the chains that would be taken from the others.
LEMMA HeadsTell ==
  ASSUME NEW d, Exact(d), NEW l \in Points, NEW p \in Players, d.colors[l] = C_EMPTY,
         NEW m \in Points, d.colors[m] = Opp(p)
  PROVE  m \in Caught(d, l, p) <=> \E a \in Prey(d, l, p) : d.chain_head[m] = d.chain_head[a]
<1>. DEFINE c == d.colors
<1>1. c \in [Points -> Colors] /\ c[m] # C_EMPTY
  BY PlayersDiffer DEF Exact
<1>2. \A a \in Points : c[a] # C_EMPTY =>
        /\ d.chain_head[a] \in Group(c, a)
        /\ \A n \in Group(c, a) : d.chain_head[n] = d.chain_head[a]
  BY DEF Exact
<1>3. ASSUME NEW a \in Prey(d, l, p)
      PROVE  m \in Group(c, a) <=> d.chain_head[m] = d.chain_head[a]
  <2>1. a \in Points /\ c[a] # C_EMPTY
    <3>1. a \in Points /\ d.colors[a] = Opp(p)
      BY Adjacency DEF Prey, Beside
    <3>. QED
      BY <3>1, PlayersDiffer
  <2>2. ASSUME d.chain_head[m] = d.chain_head[a]
        PROVE  m \in Group(c, a)
    <3>1. d.chain_head[a] \in Group(c, m) /\ d.chain_head[a] \in Group(c, a)
      BY <1>1, <1>2, <2>1, <2>2
    <3>2. Group(c, m) = Group(c, a)
      BY <1>1, <2>1, <3>1, GroupShared
    <3>. QED
      BY <1>1, <3>2, GroupLeast
  <2>. QED
    BY <1>2, <2>1, <2>2
<1>. QED
  BY <1>3 DEF Caught

\* The liberties of the new stone, when it lives.
LEMMA LibertiesAfter ==
  ASSUME NEW d, Exact(d), NEW l \in Points, NEW p \in Players, d.colors[l] = C_EMPTY,
         Given(d.colors, l, p) = {}
  PROVE  LET after == After(d.colors, l, p)
         IN Cardinality(Liberties(after, Group(after, l))) = Cardinality(Freed(d, l, p))
<1>1. Freed(d, l, p) # {}
  <2>1. Given(d.colors, l, p) = IF Freed(d, l, p) = {} THEN {l} \cup Kin(d, l, p) ELSE {}
    BY SuicideIs
  <2>. QED
    BY <2>1
<1>2. Freed(d, l, p) # {} =>
        Liberties(After(d.colors, l, p), Group(After(d.colors, l, p), l)) = Freed(d, l, p)
  BY AfterIs
<1>. QED
  BY <1>1, <1>2

\* Freed is finite.
LEMMA FreedFinite ==
  ASSUME NEW d, NEW l \in Points, NEW p
  PROVE  /\ Freed(d, l, p) \subseteq Points /\ IsFiniteSet(Freed(d, l, p))
         /\ Cardinality(Freed(d, l, p)) \in Nat
<1>1. Freed(d, l, p) \subseteq Points
  BY Adjacency DEF Freed, ImmediateLiberties, Prey, Beside
<1>. QED
  BY <1>1, PointsFinite, FS_Subset, FS_CardinalityType

\* getNumLibertiesAfterPlay gathers exactly the liberties of the new stone.
LEMMA LibertiesPredicted ==
  ASSUME NEW d, Exact(d), NEW l \in Points, NEW p \in Players, d.colors[l] = C_EMPTY,
         NEW max \in 1..4
  PROVE  GetNumLibertiesAfterPlay(d, l, p, max) = Min({max, Cardinality(Freed(d, l, p))})
<1>. DEFINE c == d.colors
            preyHeads == {d.chain_head[a] : a \in Prey(d, l, p)}
            empties == {m \in Points : \/ c[m] = C_EMPTY
                                       \/ c[m] = Opp(p) /\ d.chain_head[m] \in preyHeads}
            joined == UNION {ToSet(Stroll(d, a)) : a \in Beside(d, l, p)}
            libs == ImmediateLiberties(d, l) \cup Prey(d, l, p)
                    \cup (((UNION {Neighbours[m] : m \in joined}) \cap empties) \ {l})
<1>1. GetNumLibertiesAfterPlay(d, l, p, max) =
        IF Cardinality(libs) >= max THEN max ELSE Cardinality(libs)
  BY DEF GetNumLibertiesAfterPlay, Prey
<1>2. joined = Kin(d, l, p)
  <2>1. \A a \in Beside(d, l, p) : ToSet(Stroll(d, a)) = Group(c, a)
    <3>. SUFFICES ASSUME NEW a \in Beside(d, l, p) PROVE ToSet(Stroll(d, a)) = Group(c, a)
      OBVIOUS
    <3>1. a \in Points /\ d.colors[a] # C_EMPTY
      <4>1. a \in Points /\ d.colors[a] = p
        BY Adjacency DEF Beside
      <4>. QED
        BY <4>1, PlayersDiffer
    <3>. QED
      BY <3>1 DEF Exact
  <2>. QED
    BY <2>1 DEF Kin
<1>3. \A m \in Points : m \in empties <=> c[m] = C_EMPTY \/ m \in Caught(d, l, p)
  <2>. SUFFICES ASSUME NEW m \in Points
                PROVE  m \in empties <=> c[m] = C_EMPTY \/ m \in Caught(d, l, p)
    OBVIOUS
  <2>1. m \in Caught(d, l, p) => c[m] = Opp(p)
    BY CaughtIs
  <2>2. c[m] = Opp(p) => (m \in Caught(d, l, p) <=> d.chain_head[m] \in preyHeads)
    BY HeadsTell
  <2>. QED
    BY <2>1, <2>2
<1>4. \A x \in Kin(d, l, p) : x \in Points /\ Neighbours[x] \subseteq Points
  BY CaughtIs, Adjacency
<1>5. empties \subseteq Points
  OBVIOUS
<1>. HIDE DEF joined, empties
<1>6. ((UNION {Neighbours[m] : m \in joined}) \cap empties) \ {l}
        = {m \in Points \ {l} : /\ c[m] = C_EMPTY \/ m \in Caught(d, l, p)
                                /\ \E x \in Kin(d, l, p) : m \in Neighbours[x]}
  <2>. DEFINE free == {m \in Points \ {l} : /\ c[m] = C_EMPTY \/ m \in Caught(d, l, p)
                                            /\ \E x \in Kin(d, l, p) : m \in Neighbours[x]}
              near == UNION {Neighbours[m] : m \in joined}
  <2>1. \A m : m \in near <=> \E x \in Kin(d, l, p) : m \in Neighbours[x]
    BY <1>2
  <2>. HIDE DEF near
  <2>2. \A m \in Points : m \in (near \cap empties) \ {l} <=> m \in free
    BY <1>3, <2>1
  <2>3. (near \cap empties) \ {l} \subseteq Points /\ free \subseteq Points
    BY <1>5
  <2>4. (near \cap empties) \ {l} = free
    <3>. HIDE DEF free
    <3>. QED
      BY <2>2, <2>3
  <2>. QED
    BY <2>4 DEF near
<1>7. libs = Freed(d, l, p)
  BY <1>6 DEF Freed
<1>8. Cardinality(Freed(d, l, p)) \in Nat
  BY FreedFinite
<1>9. \A n \in Nat : Min({max, n}) = IF n >= max THEN max ELSE n
  BY DEF Min
<1>. QED
  <2>. HIDE DEF libs
  <2>. QED
    BY <1>1, <1>7, <1>8, <1>9

\* A union has at most as many elements as its parts.
LEMMA UnionBound ==
  ASSUME NEW S, NEW T, IsFiniteSet(S), IsFiniteSet(T)
  PROVE  /\ IsFiniteSet(S \cup T)
         /\ Cardinality(S \cup T) <= Cardinality(S) + Cardinality(T)
         /\ S \cap T = {} => Cardinality(S \cup T) = Cardinality(S) + Cardinality(T)
<1>1. IsFiniteSet(S \cap T)
  <2>1. S \cap T \in SUBSET S
    OBVIOUS
  <2>. QED
    BY <2>1, FS_Subset
<1>2. /\ Cardinality(S) \in Nat /\ Cardinality(T) \in Nat
      /\ Cardinality(S \cap T) \in Nat /\ Cardinality(S \cup T) \in Nat
  BY <1>1, FS_Union, FS_CardinalityType
<1>3. S \cap T = {} => Cardinality(S \cap T) = 0
  BY <1>1, FS_EmptySet
<1>4. /\ IsFiniteSet(S \cup T)
      /\ Cardinality(S \cup T) = Cardinality(S) + Cardinality(T) - Cardinality(S \cap T)
  BY FS_Union
<1>. QED
  BY <1>2, <1>3, <1>4

\* The sides of a point.
LEMMA Sides ==
  ASSUME NEW l \in Points, NEW a \in Neighbours[l]
  PROVE  \/ a = l + AdjOffsets[1] \/ a = l + AdjOffsets[2]
         \/ a = l + AdjOffsets[3] \/ a = l + AdjOffsets[4]
<1>1. PICK i \in 1..4 : a = l + AdjOffsets[i]
  BY DEF Neighbours
<1>2. i = 1 \/ i = 2 \/ i = 3 \/ i = 4
  OBVIOUS
<1>. QED
  BY <1>1, <1>2

\* What a chain the stone joins adds to its liberties.
LEMMA KinAdds ==
  ASSUME NEW d, Exact(d), NEW l \in Points, NEW p \in Players, d.colors[l] = C_EMPTY,
         NEW a \in Beside(d, l, p)
  PROVE  LET E == Liberties(d.colors, Group(d.colors, a)) \ {l}
         IN /\ E \subseteq Freed(d, l, p) /\ E \cap Prey(d, l, p) = {}
            /\ IsFiniteSet(E) /\ Cardinality(E) = NumLiberties(d, a) - 1
            /\ NumLiberties(d, a) - 1 \in Nat
            /\ \A m \in Points \ {l} : \A x \in Group(d.colors, a) :
                 d.colors[m] = C_EMPTY /\ m \in Neighbours[x] => m \in E
<1>. DEFINE c == d.colors
            L == Liberties(c, Group(c, a))
            E == L \ {l}
<1>1. a \in Neighbours[l] /\ a \in Points /\ c[a] = p
  BY Adjacency DEF Beside
<1>2. c[a] # C_EMPTY
  BY <1>1, PlayersDiffer
<1>3. c \in [Points -> Colors]
  BY DEF Exact
<1>4. /\ l \in L /\ L \subseteq Points /\ IsFiniteSet(L)
      /\ NumLiberties(d, a) = Cardinality(L) /\ Cardinality(L) \in Nat /\ Cardinality(L) > 0
  BY <1>1, <1>2, LibertyBeside
<1>5. Group(c, a) \in SUBSET Points /\ Group(c, a) \subseteq Kin(d, l, p)
  BY <1>1, <1>3, GroupLeast DEF Kin
<1>6. \A m : m \in L <=> c[m] = C_EMPTY /\ \E x \in Group(c, a) : m \in Neighbours[x]
  BY <1>5, LibertyOf
<1>. HIDE DEF L
<1>7. E \subseteq Freed(d, l, p)
  BY <1>4, <1>5, <1>6 DEF Freed
<1>8. E \cap Prey(d, l, p) = {}
  BY <1>6, PlayersDiffer DEF Prey, Beside
<1>9. IsFiniteSet(E) /\ Cardinality(E) = Cardinality(L) - 1
  BY <1>4, FS_RemoveElement
<1>. QED
  BY <1>4, <1>6, <1>7, <1>8, <1>9 DEF L

\* What a chain the stone takes adds at most.
LEMMA PreyAdds ==
  ASSUME NEW d, Exact(d), NEW l \in Points, NEW p \in Players, d.colors[l] = C_EMPTY,
         NEW a \in Prey(d, l, p)
  PROVE  /\ IsFiniteSet(Group(d.colors, a)) /\ ChainSize(d, a) = Cardinality(Group(d.colors, a))
         /\ Cardinality(Group(d.colors, a)) \in Nat
         /\ a \in Group(d.colors, a)
<1>1. a \in Points /\ d.colors[a] = Opp(p)
  BY Adjacency DEF Prey, Beside
<1>2. d.colors[a] # C_EMPTY
  BY <1>1, PlayersDiffer
<1>3. a \in Group(d.colors, a) /\ Group(d.colors, a) \in SUBSET Points
  BY <1>1, GroupLeast DEF Exact
<1>4. ChainSize(d, a) = Cardinality(Group(d.colors, a))
  BY <1>1, <1>2 DEF Exact
<1>. QED
  BY <1>3, <1>4, PointsFinite, FS_Subset, FS_CardinalityType

\* One of five numbers is the greatest.
LEMMA GreatestOfFive ==
  ASSUME NEW v \in Int, NEW w \in Int, NEW x \in Int, NEW y \in Int, NEW z \in Int
  PROVE  Max({v, w, x, y, z}) \in {v, w, x, y, z}
<1>. DEFINE S == {v, w, x, y, z}
<1>1. \E m \in S : \A n \in S : m >= n
  <2>1. PICK m1 \in {v, w} : m1 >= v /\ m1 >= w
    OBVIOUS
  <2>2. PICK m2 \in {m1, x} : m2 >= m1 /\ m2 >= x
    OBVIOUS
  <2>3. PICK m3 \in {m2, y} : m3 >= m2 /\ m3 >= y
    OBVIOUS
  <2>4. PICK m4 \in {m3, z} : m4 >= m3 /\ m4 >= z
    OBVIOUS
  <2>5. m4 \in S /\ \A n \in S : m4 >= n
    BY <2>1, <2>2, <2>3, <2>4
  <2>. QED
    BY <2>5
<1>. QED
  <2>. HIDE DEF S
  <2>1. Max(S) \in S
    BY <1>1 DEF Max
  <2>. QED
    BY <2>1 DEF S

\* getBoundNumLibertiesAfterPlay: the liberties of the new stone are within bounds.
LEMMA BoundsPredicted ==
  ASSUME NEW d, Exact(d), NEW l \in Points, NEW p \in Players, d.colors[l] = C_EMPTY
  PROVE  LET bound == GetBoundNumLibertiesAfterPlay(d, l, p)
         IN /\ bound.lowerBound <= Cardinality(Freed(d, l, p))
            /\ Cardinality(Freed(d, l, p)) <= bound.upperBound
<1>. DEFINE c == d.colors
            free == Freed(d, l, p)
            imm == ImmediateLiberties(d, l)
            prey == Prey(d, l, p)
            kin == Beside(d, l, p)
            extra(a) == NumLiberties(d, a) - 1
            gain(a) == IF a \in prey THEN ChainSize(d, a) ELSE IF a \in kin THEN extra(a) ELSE 0
            E(a) == Liberties(c, Group(c, a)) \ {l}
            D(a) == IF a \in prey THEN Group(c, a) ELSE IF a \in kin THEN E(a) ELSE {}
            side(i) == l + AdjOffsets[i]
            v == Cardinality(imm)
            M == {v} \cup {extra(a) : a \in kin}
<1>1. /\ GetBoundNumLibertiesAfterPlay(d, l, p).lowerBound = Cardinality(prey) + Max(M)
      /\ GetBoundNumLibertiesAfterPlay(d, l, p).upperBound =
           Cardinality(imm) + gain(side(1)) + gain(side(2)) + gain(side(3)) + gain(side(4))
  BY DEF GetBoundNumLibertiesAfterPlay, Prey
<1>2. /\ IsFiniteSet(free) /\ Cardinality(free) \in Nat
      /\ imm \in SUBSET free /\ prey \in SUBSET free
  <2>1. imm \in SUBSET free /\ prey \in SUBSET free
    BY DEF Freed
  <2>. QED
    BY <2>1, FreedFinite
<1>3. /\ IsFiniteSet(imm) /\ IsFiniteSet(prey)
      /\ Cardinality(imm) \in Nat /\ Cardinality(prey) \in Nat
  BY <1>2, FS_Subset, FS_CardinalityType
<1>4. \A a \in kin :
        /\ E(a) \subseteq free /\ E(a) \cap prey = {}
        /\ IsFiniteSet(E(a)) /\ Cardinality(E(a)) = extra(a) /\ extra(a) \in Nat
        /\ \A m \in Points \ {l} : \A x \in Group(c, a) :
             c[m] = C_EMPTY /\ m \in Neighbours[x] => m \in E(a)
  BY KinAdds
<1>5. \A a \in prey :
        IsFiniteSet(Group(c, a)) /\ ChainSize(d, a) = Cardinality(Group(c, a))
        /\ Cardinality(Group(c, a)) \in Nat /\ a \in Group(c, a)
  BY PreyAdds
<1>6. Max(M) \in M
  <2>. DEFINE e(i) == IF side(i) \in kin THEN extra(side(i)) ELSE v
  <2>1. \A a \in kin : a = side(1) \/ a = side(2) \/ a = side(3) \/ a = side(4)
    BY Sides DEF Beside
  <2>2. M = {v, e(1), e(2), e(3), e(4)}
    <3>1. ASSUME NEW a \in kin
          PROVE  extra(a) \in {v, e(1), e(2), e(3), e(4)}
      <4>. HIDE DEF kin, extra, v, side
      <4>. QED
        BY <2>1, <3>1
    <3>2. \A i : e(i) \in M
      <4>. HIDE DEF kin, extra, v, side
      <4>. QED
        OBVIOUS
    <3>. HIDE DEF kin, extra, v, e
    <3>. QED
      BY <3>1, <3>2
  <2>3. v \in Int /\ \A i : e(i) \in Int
    <3>. HIDE DEF kin, extra, imm, side, E
    <3>1. v \in Int /\ \A a \in kin : extra(a) \in Int
      BY <1>3, <1>4
    <3>. HIDE DEF v
    <3>. QED
      BY <3>1
  <2>. HIDE DEF M, e, v
  <2>. QED
    BY <2>2, <2>3, GreatestOfFive
<1>7. \A n \in M : n \in Nat /\ Cardinality(prey) + n <= Cardinality(free)
  <2>1. ASSUME NEW S \in SUBSET free, S \cap prey = {}
        PROVE  Cardinality(S) \in Nat /\ Cardinality(prey) + Cardinality(S) <= Cardinality(free)
    <3>1. IsFiniteSet(S) /\ Cardinality(S) \in Nat
      BY <1>2, FS_Subset, FS_CardinalityType
    <3>2. Cardinality(S \cup prey) = Cardinality(S) + Cardinality(prey)
      BY <1>3, <2>1, <3>1, UnionBound
    <3>3. S \cup prey \in SUBSET free
      BY <1>2
    <3>4. Cardinality(S \cup prey) <= Cardinality(free)
      BY <1>2, <3>3, FS_Subset
    <3>. QED
      BY <1>3, <3>1, <3>2, <3>4
  <2>2. imm \cap prey = {}
    BY PlayersDiffer DEF ImmediateLiberties, Prey, Beside
  <2>. HIDE DEF imm, prey, free, E, extra, kin
  <2>. QED
    BY <1>2, <1>4, <2>1, <2>2
<1>8. \A a : IsFiniteSet(D(a)) /\ Cardinality(D(a)) = gain(a) /\ gain(a) \in Nat
  <2>1. IsFiniteSet({}) /\ Cardinality({}) = 0
    BY FS_EmptySet
  <2>. HIDE DEF prey, kin, E, extra
  <2>. QED
    BY <1>4, <1>5, <2>1
<1>9. free \subseteq imm \cup D(side(1)) \cup D(side(2)) \cup D(side(3)) \cup D(side(4))
  <2>1. \A a \in prey \cup kin : a = side(1) \/ a = side(2) \/ a = side(3) \/ a = side(4)
    BY Sides DEF Beside, Prey
  <2>2. prey \cap kin = {}
    BY PlayersDiffer DEF Beside, Prey
  <2>3. ASSUME NEW m \in free, m \notin imm
        PROVE  \E a \in prey \cup kin : m \in D(a)
    <3>1. CASE m \in Caught(d, l, p)
      <4>1. PICK a \in prey : m \in Group(c, a)
        BY <3>1 DEF Caught
      <4>. QED
        BY <4>1
    <3>2. CASE m \in prey
      BY <1>5, <3>2
    <3>3. CASE m \notin prey /\ m \notin Caught(d, l, p)
      <4>1. m \in Points \ {l} /\ c[m] = C_EMPTY /\ \E x \in Kin(d, l, p) : m \in Neighbours[x]
        BY <2>3, <3>3 DEF Freed
      <4>2. PICK a \in kin : \E x \in Group(c, a) : m \in Neighbours[x]
        BY <4>1 DEF Kin
      <4>3. m \in E(a)
        BY <1>4, <4>1, <4>2
      <4>. QED
        BY <2>2, <4>2, <4>3
    <3>. QED
      BY <3>1, <3>2, <3>3
  <2>. HIDE DEF D, side, free, imm, prey, kin
  <2>. QED
    BY <2>1, <2>3
<1>. HIDE DEF D, side, free, imm, prey, kin, gain, M
<1>10. Cardinality(free) <=
         Cardinality(imm) + gain(side(1)) + gain(side(2)) + gain(side(3)) + gain(side(4))
  <2>. DEFINE U1 == imm \cup D(side(1))
              U2 == U1 \cup D(side(2))
              U3 == U2 \cup D(side(3))
              U4 == U3 \cup D(side(4))
  <2>1. /\ IsFiniteSet(U1) /\ Cardinality(U1) \in Nat
        /\ Cardinality(U1) <= Cardinality(imm) + gain(side(1))
    BY <1>3, <1>8, UnionBound, FS_CardinalityType
  <2>. HIDE DEF U1
  <2>2. /\ IsFiniteSet(U2) /\ Cardinality(U2) \in Nat
        /\ Cardinality(U2) <= Cardinality(U1) + gain(side(2))
    BY <1>8, <2>1, UnionBound, FS_CardinalityType
  <2>. HIDE DEF U2
  <2>3. /\ IsFiniteSet(U3) /\ Cardinality(U3) \in Nat
        /\ Cardinality(U3) <= Cardinality(U2) + gain(side(3))
    BY <1>8, <2>2, UnionBound, FS_CardinalityType
  <2>. HIDE DEF U3
  <2>4. /\ IsFiniteSet(U4) /\ Cardinality(U4) \in Nat
        /\ Cardinality(U4) <= Cardinality(U3) + gain(side(4))
    BY <1>8, <2>3, UnionBound, FS_CardinalityType
  <2>5. free \in SUBSET U4
    BY <1>9 DEF U1, U2, U3
  <2>. HIDE DEF U4
  <2>6. Cardinality(free) <= Cardinality(U4)
    BY <2>4, <2>5, FS_Subset
  <2>. QED
    BY <1>2, <1>3, <1>8, <2>1, <2>2, <2>3, <2>4, <2>6
<1>11. Cardinality(prey) + Max(M) <= Cardinality(free)
  BY <1>6, <1>7
<1>. QED
  BY <1>1, <1>10, <1>11 DEF free

\* getKoCaptureLoc: the stone taken where the opponent is all around.
LEMMA KoCapturePredicted ==
  ASSUME NEW d, Exact(d), NEW l \in Points, NEW p \in Players, d.colors[l] = C_EMPTY
  PROVE  LET q == GetKoCaptureLoc(d, l, p)
         IN IF /\ Beside(d, l, Opp(p)) = Neighbours[l]
               /\ Cardinality(Taken(d.colors, l, p)) = 1
            THEN Taken(d.colors, l, p) = {q} ELSE q = NULL_LOC
<1>. DEFINE taken == Taken(d.colors, l, p)
            prey == Prey(d, l, p)
            q == GetKoCaptureLoc(d, l, p)
            lone == Cardinality(prey) = 1 /\ \A a \in prey : ChainSize(d, a) = 1
<1>1. q = IF Beside(d, l, Opp(p)) = Neighbours[l] /\ lone
          THEN CHOOSE a \in prey : TRUE ELSE NULL_LOC
  BY DEF GetKoCaptureLoc, Prey
<1>2. taken = Caught(d, l, p)
  BY TakenIs
<1>3. \A a \in prey :
        /\ IsFiniteSet(Group(d.colors, a)) /\ ChainSize(d, a) = Cardinality(Group(d.colors, a))
        /\ a \in Group(d.colors, a) /\ Group(d.colors, a) \subseteq taken
  <2>1. \A a \in prey : Group(d.colors, a) \subseteq taken
    BY <1>2 DEF Caught
  <2>. QED
    BY <2>1, PreyAdds
<1>4. IsFiniteSet(taken) /\ IsFiniteSet(prey)
  <2>1. taken \in SUBSET Points /\ prey \in SUBSET Points
    BY <1>2, CaughtIs
  <2>. QED
    BY <2>1, PointsFinite, FS_Subset
<1>5. ASSUME Cardinality(taken) = 1
      PROVE  lone /\ taken = {CHOOSE a \in prey : TRUE}
  <2>1. PICK t : taken = {t}
    BY <1>4, <1>5, FS_Singleton
  <2>2. prey # {}
    BY <1>2, <2>1 DEF Caught
  <2>3. prey = {t} /\ \A a \in prey : Group(d.colors, a) = {t}
    BY <1>3, <2>1, <2>2
  <2>4. Cardinality(prey) = 1 /\ \A a \in prey : ChainSize(d, a) = 1
    BY <1>3, <2>3, FS_Singleton
  <2>. HIDE DEF prey
  <2>. QED
    BY <2>1, <2>3, <2>4
<1>6. ASSUME lone
      PROVE  Cardinality(taken) = 1
  <2>1. PICK a : prey = {a}
    BY <1>4, <1>6, FS_Singleton
  <2>2. Cardinality(Group(d.colors, a)) = 1
    BY <1>3, <1>6, <2>1
  <2>3. taken = Group(d.colors, a)
    BY <1>2, <2>1 DEF Caught
  <2>. QED
    BY <2>2, <2>3
<1>. HIDE DEF taken, prey, q
<1>. QED
  <2>1. IF Beside(d, l, Opp(p)) = Neighbours[l] /\ Cardinality(taken) = 1
        THEN taken = {q} ELSE q = NULL_LOC
    BY <1>1, <1>5, <1>6
  <2>. QED
    BY <2>1 DEF taken, q

(***************************************************************************)
(* The theorem.                                                            *)
(***************************************************************************)
\* Bookkeeping that is exact is all that predictions need: in every state of a
\* board of any size in which the chains, their liberties and the hash agree
\* with the stones, what the board computes of any move of either player
\* without playing it is what the rules give.
THEOREM Predicted == BookkeepingExact => PredictionsExact
<1>. SUFFICES ASSUME BookkeepingExact PROVE PredictionsExact
  OBVIOUS
<1>1. Exact(b)
  BY DEF BookkeepingExact, Exact, Stones
<1>. SUFFICES ASSUME NEW l \in Points, NEW p \in Players, b.colors[l] = C_EMPTY
              PROVE  LET c == b.colors
                         taken == Taken(c, l, p)
                         given == Given(c, l, p)
                         after == After(c, l, p)
                         libs == IF given = {} THEN Cardinality(Liberties(after, Group(after, l)))
                                 ELSE 0
                         bound == GetBoundNumLibertiesAfterPlay(b, l, p)
                     IN /\ IsSuicide(b, l, p) <=> given # {}
                        /\ \A multi \in BOOLEAN :
                             ~IsIllegalSuicide(b, l, p, multi) <=> MayPlay(c, l, p, multi)
                        /\ WouldBeCapture(b, l, p) <=> taken # {}
                        /\ GetPosHashAfterMove(b, l, p) = {<<m, after[m]>> : m \in Stones(after)}
                        /\ given = {} =>
                             /\ bound.lowerBound <= libs /\ libs <= bound.upperBound
                             /\ \A max \in 1..4 :
                                  GetNumLibertiesAfterPlay(b, l, p, max) = Min({max, libs})
                        /\ LET q == GetKoCaptureLoc(b, l, p)
                           IN IF Beside(b, l, Opp(p)) = Neighbours[l] /\ Cardinality(taken) = 1
                              THEN taken = {q} ELSE q = NULL_LOC
  BY DEF PredictionsExact
<1>2. /\ IsSuicide(b, l, p) <=> Given(b.colors, l, p) # {}
      /\ \A multi \in BOOLEAN :
           ~IsIllegalSuicide(b, l, p, multi) <=> MayPlay(b.colors, l, p, multi)
  BY <1>1, SuicidesPredicted
<1>3. WouldBeCapture(b, l, p) <=> Taken(b.colors, l, p) # {}
  BY <1>1, CapturesPredicted
<1>. DEFINE after == After(b.colors, l, p)
            bound == GetBoundNumLibertiesAfterPlay(b, l, p)
            libs == Cardinality(Liberties(after, Group(after, l)))
<1>4. GetPosHashAfterMove(b, l, p) = {<<m, after[m]>> : m \in Stones(after)}
  BY <1>1, HashPredicted
<1>5. ASSUME Given(b.colors, l, p) = {}
      PROVE  /\ bound.lowerBound <= libs /\ libs <= bound.upperBound
             /\ \A max \in 1..4 : GetNumLibertiesAfterPlay(b, l, p, max) = Min({max, libs})
  <2>1. libs = Cardinality(Freed(b, l, p))
    BY <1>1, <1>5, LibertiesAfter
  <2>2. /\ bound.lowerBound <= Cardinality(Freed(b, l, p))
        /\ Cardinality(Freed(b, l, p)) <= bound.upperBound
    BY <1>1, BoundsPredicted
  <2>3. \A max \in 1..4 :
          GetNumLibertiesAfterPlay(b, l, p, max) = Min({max, Cardinality(Freed(b, l, p))})
    BY <1>1, LibertiesPredicted
  <2>. HIDE DEF libs, bound
  <2>. QED
    BY <2>1, <2>2, <2>3
<1>6. LET q == GetKoCaptureLoc(b, l, p)
      IN IF Beside(b, l, Opp(p)) = Neighbours[l] /\ Cardinality(Taken(b.colors, l, p)) = 1
         THEN Taken(b.colors, l, p) = {q} ELSE q = NULL_LOC
  BY <1>1, KoCapturePredicted
<1>. QED
  BY <1>2, <1>3, <1>4, <1>5, <1>6, Zenon

(***************************************************************************)
(* The rules: no group is ever without liberties.                          *)
(***************************************************************************)
\* A stone is stifled when its group has no liberties.
LEMMA StifledIs ==
  ASSUME NEW c \in [Points -> Colors]
  PROVE  \A m : m \in Stifled(c) <=>
           m \in Points /\ c[m] # C_EMPTY /\ Liberties(c, Group(c, m)) = {}
BY DEF Stifled, Stones

\* Stones taken away stifle nothing.
LEMMA RemovalFrees ==
  ASSUME NEW c \in [Points -> Colors], NEW R
  PROVE  /\ Without(c, R) \in [Points -> Colors]
         /\ Stifled(Without(c, R)) \subseteq Stifled(c) \ R
<1>. DEFINE e == Without(c, R)
<1>1. /\ e \in [Points -> Colors]
      /\ \A m \in Points : e[m] = IF m \in R THEN C_EMPTY ELSE c[m]
  BY DEF Without, Colors
<1>. HIDE DEF e
<1>2. ASSUME NEW m \in Stifled(e)
      PROVE  m \in Stifled(c) /\ m \notin R
  <2>1. m \in Points /\ e[m] # C_EMPTY /\ Liberties(e, Group(e, m)) = {}
    BY <1>1, StifledIs
  <2>2. m \notin R /\ c[m] = e[m]
    BY <1>1, <2>1
  <2>3. /\ Group(e, m) \in SUBSET Points /\ Whole(e, e[m], Group(e, m))
        /\ m \in Group(e, m) /\ \A x \in Group(e, m) : e[x] = e[m]
    BY <1>1, <2>1, GroupLeast
  <2>4. \A x \in Group(e, m) : \A n \in Neighbours[x] :
          n \in Points /\ e[n] # C_EMPTY
    <3>1. \A x \in Group(e, m) : \A n \in Neighbours[x] : n \in Points
      BY <2>3, Adjacency
    <3>2. \A n : n \in Liberties(e, Group(e, m)) <=>
                   e[n] = C_EMPTY /\ \E x \in Group(e, m) : n \in Neighbours[x]
      BY <2>3, LibertyOf
    <3>. QED
      BY <2>1, <3>1, <3>2
  <2>5. Whole(c, c[m], Group(e, m))
    BY <1>1, <2>2, <2>3, <2>4 DEF Whole
  <2>6. Group(c, m) \subseteq Group(e, m)
    BY <2>1, <2>3, <2>5, GroupLeast
  <2>7. Liberties(c, Group(c, m)) = {}
    <3>1. Group(c, m) \in SUBSET Points
      BY <2>3, <2>6
    <3>2. \A n : n \in Liberties(c, Group(c, m)) <=>
                   c[n] = C_EMPTY /\ \E x \in Group(c, m) : n \in Neighbours[x]
      BY <3>1, LibertyOf
    <3>. QED
      BY <1>1, <2>4, <2>6, <3>2
  <2>. QED
    BY <2>1, <2>2, <2>7, StifledIs
<1>. QED
  BY <1>1, <1>2 DEF e

\* A move that takes what it stifles leaves nothing stifled.
LEMMA MoveFrees ==
  ASSUME NEW c \in [Points -> Colors], NEW l \in Points, NEW p \in Players,
         c[l] = C_EMPTY, Stifled(c) = {}
  PROVE  /\ After(c, l, p) \in [Points -> Colors] /\ Stifled(After(c, l, p)) = {}
         /\ Taken(c, l, p) \subseteq Points /\ Given(c, l, p) \subseteq Points
<1>. DEFINE put == [c EXCEPT ![l] = p]
            taken == Taken(c, l, p)
            given == Given(c, l, p)
            then == Without(put, taken)
            after == After(c, l, p)
<1>1. put \in [Points -> Colors] /\ \A m \in Points : put[m] = IF m = l THEN p ELSE c[m]
  BY PlayersDiffer
<1>2. \A m : m \in taken <=> m \in Stifled(put) /\ put[m] = Opp(p)
  BY DEF Taken
<1>3. given = IF Liberties(then, Group(then, l)) = {} THEN Group(then, l) ELSE {}
  BY DEF Given
<1>4. after = Without(put, taken \cup given)
  BY DEF After
<1>. HIDE DEF put, taken, given
<1>5. then \in [Points -> Colors] /\ Stifled(then) \subseteq Stifled(put) \ taken
  BY <1>1, RemovalFrees
<1>6. \A m \in Points : then[m] = IF m \in taken THEN C_EMPTY ELSE put[m]
  BY DEF Without
<1>7. after = Without(then, given)
  BY <1>4, <1>6 DEF Without
<1>. HIDE DEF then, after
<1>8. after \in [Points -> Colors] /\ Stifled(after) \subseteq Stifled(then) \ given
  BY <1>5, <1>7, RemovalFrees
<1>9. \A m \in Points : then[m] = p <=> put[m] = p
  BY <1>2, <1>6, PlayersDiffer
<1>10. put[l] = p /\ then[l] = p
  BY <1>1, <1>9
<1>11. Group(then, l) = Group(put, l)
  BY <1>1, <1>5, <1>9, <1>10, GroupDepends
<1>12. ASSUME NEW m \in Stifled(put), put[m] = p
       PROVE  m \in Group(put, l)
  <2>1. m \in Points /\ Liberties(put, Group(put, m)) = {}
    BY <1>1, StifledIs
  <2>2. CASE l \in Group(put, m)
    <3>1. Group(put, l) = Group(put, m)
      BY <1>1, <2>1, <2>2, GroupShared
    <3>. QED
      BY <1>1, <2>1, <3>1, GroupLeast
  <2>3. CASE l \notin Group(put, m)
    <3>1. /\ Group(put, m) \in SUBSET Points /\ Whole(put, p, Group(put, m))
          /\ m \in Group(put, m)
      BY <1>1, <1>12, <2>1, GroupLeast
    <3>2. c[m] = p
      BY <1>1, <1>12, <2>1, <2>3, <3>1
    <3>3. \A x \in Group(put, m) : \A n \in Neighbours[x] : n \in Points /\ n # l
      BY <1>10, <2>3, <3>1, Adjacency DEF Whole
    <3>4. Whole(c, c[m], Group(put, m))
      BY <1>1, <3>1, <3>2, <3>3 DEF Whole
    <3>5. Group(c, m) \subseteq Group(put, m)
      BY <2>1, <3>1, <3>4, GroupLeast
    <3>6. c[m] # C_EMPTY
      BY <3>2, PlayersDiffer
    <3>7. Liberties(c, Group(c, m)) # {}
      BY <2>1, <3>6, StifledIs
    <3>8. PICK n \in Liberties(c, Group(c, m)) : TRUE
      BY <3>7
    <3>9. c[n] = C_EMPTY /\ \E x \in Group(c, m) : n \in Neighbours[x]
      BY <3>1, <3>5, LibertyOf
    <3>10. put[n] = C_EMPTY /\ \E x \in Group(put, m) : n \in Neighbours[x]
      BY <1>1, <3>3, <3>5, <3>9
    <3>11. n \in Liberties(put, Group(put, m))
      BY <3>1, <3>10, LibertyOf
    <3>. QED
      BY <2>1, <3>11
  <2>. QED
    BY <2>2, <2>3
<1>13. ASSUME NEW m \in Stifled(after)
       PROVE  FALSE
  <2>1. m \in Stifled(then) /\ m \in Stifled(put) /\ m \notin taken /\ m \notin given
    BY <1>5, <1>8
  <2>2. m \in Points /\ put[m] \in {p, Opp(p)}
    BY <1>1, <2>1, StifledIs, PlayersDiffer
  <2>3. put[m] = p
    BY <1>2, <2>1, <2>2
  <2>4. m \in Group(then, l)
    BY <1>11, <1>12, <2>1, <2>3
  <2>5. Group(then, m) = Group(then, l)
    BY <1>5, <2>4, GroupShared
  <2>6. Liberties(then, Group(then, m)) = {}
    BY <1>5, <2>1, StifledIs
  <2>. QED
    BY <1>3, <2>1, <2>4, <2>5, <2>6
<1>14. taken \subseteq Points
  BY <1>1, <1>2, StifledIs
<1>15. given \subseteq Points
  BY <1>3, <1>5, GroupLeast
<1>. QED
  BY <1>8, <1>13, <1>14, <1>15 DEF after, taken, given

\* GoBoard's grid is the board's.
LEMMA SameGrid ==
  /\ Rules!Points = Points /\ Rules!Players = Players /\ Rules!Colors = Colors
  /\ Rules!NULL_LOC = NULL_LOC /\ Rules!C_EMPTY = C_EMPTY
  /\ \A c, l : Rules!Group(c, l) = Group(c, l)
  /\ \A c, group : Rules!Liberties(c, group) = Liberties(c, group)
  /\ \A c : Rules!Stifled(c) = Stifled(c)
  /\ \A c, R : Rules!Without(c, R) = Without(c, R)
  /\ \A c, l, p : /\ Rules!Taken(c, l, p) = Taken(c, l, p)
                  /\ Rules!Given(c, l, p) = Given(c, l, p)
                  /\ Rules!After(c, l, p) = After(c, l, p)
<1>1. Rules!NULL_LOC = NULL_LOC /\ Rules!C_EMPTY = C_EMPTY
  BY DEF NULL_LOC, Rules!NULL_LOC, C_EMPTY, Rules!C_EMPTY
<1>2. Rules!Players = Players
  BY DEF Players, Rules!Players, C_BLACK, Rules!C_BLACK, C_WHITE, Rules!C_WHITE
<1>3. Rules!Colors = Colors
  BY <1>1, <1>2 DEF Colors, Rules!Colors
<1>4. Rules!Points = Points
  BY DEF Points, Rules!Points
<1>5. Rules!Neighbours = Neighbours
  BY DEF Neighbours, Rules!Neighbours, AdjOffsets, Rules!AdjOffsets, Points, Rules!Points
<1>6. \A c, group : Rules!Liberties(c, group) = Liberties(c, group)
  BY <1>1, <1>5 DEF Liberties, Rules!Liberties
<1>7. \A c, l : Rules!Group(c, l) = Group(c, l)
  BY DEF Group, Rules!Group, Rim, Rules!Rim, Neighbours, Rules!Neighbours,
         AdjOffsets, Rules!AdjOffsets, Points, Rules!Points
<1>8. \A c, R : Rules!Without(c, R) = Without(c, R)
  BY <1>1, <1>4 DEF Without, Rules!Without
<1>9. \A c : Rules!Stifled(c) = Stifled(c)
  BY <1>1, <1>4, <1>6, <1>7 DEF Stifled, Rules!Stifled, Stones, Rules!Stones
<1>10. \A c, l, p : Rules!Taken(c, l, p) = Taken(c, l, p)
  BY <1>9 DEF Taken, Rules!Taken, Opp, Rules!Opp
<1>11. \A c, l, p : Rules!Given(c, l, p) = Given(c, l, p)
  BY <1>6, <1>7, <1>8, <1>10, ZenonT(40) DEF Given, Rules!Given
<1>12. \A c, l, p : Rules!After(c, l, p) = After(c, l, p)
  BY <1>8, <1>10, <1>11 DEF After, Rules!After
<1>13. \A c, l, p : /\ Rules!Taken(c, l, p) = Taken(c, l, p)
                      /\ Rules!Given(c, l, p) = Given(c, l, p)
                      /\ Rules!After(c, l, p) = After(c, l, p)
  BY <1>10, <1>11, <1>12
<1>. QED
  BY <1>1, <1>2, <1>3, <1>4, <1>6, <1>7, <1>8, <1>9, <1>13

\* GoBoard counts as the board does.
LEMMA SameCardinality == \A S : Rules!Cardinality(S) = Cardinality(S)
BY DEF Cardinality, Rules!Cardinality

\* A position without a group that has no liberties.
Calm ==
  [colors : {c \in [Points -> Colors] : Stifled(c) = {}},
   ko : Points \cup {NULL_LOC},
   lost : [Players -> Nat]]

\* All that undo can bring back is calm as well.
CalmInv == Position(b) \in Calm /\ past \in Seq(Calm)

\* A position of stones that have liberties, nothing lost, is calm.
LEMMA SettledCalm ==
  ASSUME NEW c \in [Points -> Colors], Stifled(c) = {}
  PROVE  Rules!Settled(c) \in Calm
BY SameGrid DEF Rules!Settled, Rules!NothingLost, Calm

\* Playing keeps a position calm.
LEMMA PlayedCalm ==
  ASSUME NEW pos \in Calm, NEW l \in Points, NEW p \in Players, pos.colors[l] = C_EMPTY
  PROVE  Rules!Played(pos, l, p) \in Calm
<1>. DEFINE c == pos.colors
<1>1. c \in [Points -> Colors] /\ Stifled(c) = {} /\ pos.lost \in [Players -> Nat]
  BY DEF Calm
<1>2. /\ After(c, l, p) \in [Points -> Colors] /\ Stifled(After(c, l, p)) = {}
      /\ Taken(c, l, p) \subseteq Points /\ Given(c, l, p) \subseteq Points
  BY <1>1, MoveFrees
<1>3. Rules!KoAfter(c, l, p) \in Points \cup {NULL_LOC}
  BY <1>2, SameGrid DEF Rules!KoAfter
<1>4. Cardinality(Taken(c, l, p)) \in Nat /\ Cardinality(Given(c, l, p)) \in Nat
  BY <1>2, PointsFinite, FS_Subset, FS_CardinalityType
<1>5. [q \in Players |-> pos.lost[q] + Cardinality(IF q = p THEN Given(c, l, p)
                                                 ELSE Taken(c, l, p))] \in [Players -> Nat]
  <2>1. ASSUME NEW q \in Players
        PROVE  pos.lost[q] + Cardinality(IF q = p THEN Given(c, l, p) ELSE Taken(c, l, p)) \in Nat
    <3>1. pos.lost[q] \in Nat
      BY <1>1
    <3>2. Cardinality(IF q = p THEN Given(c, l, p) ELSE Taken(c, l, p)) \in Nat
      BY <1>4
    <3>. QED
      BY <3>1, <3>2
  <2>. QED
    BY <2>1
<1>6. Rules!Played(pos, l, p) =
        [colors |-> After(c, l, p), ko |-> Rules!KoAfter(c, l, p),
         lost |-> [q \in Players |-> pos.lost[q] +
                     Cardinality(IF q = p THEN Given(c, l, p) ELSE Taken(c, l, p))]]
  BY SameGrid, SameCardinality DEF Rules!Played
<1>. QED
  BY <1>2, <1>3, <1>5, <1>6 DEF Calm

\* The last and the first of some calm positions.
LEMMA EndOfCalm ==
  ASSUME NEW s \in Seq(Calm), s # << >>
  PROVE  Last(s) \in Calm /\ Front(s) \in Seq(Calm)
<1>1. Len(s) \in 1..Len(s)
  OBVIOUS
<1>. QED
  BY <1>1 DEF Last, Front

\* A board starts calm.
LEMMA RulesInit ==
  Rules!Init => CalmInv
<1>. SUFFICES ASSUME Rules!Init PROVE CalmInv
  OBVIOUS
<1>1. PICK c \in Openings : Position(b) = Rules!Settled(Without(c, Stifled(c)))
  BY SameGrid DEF Rules!Init
<1>2. c \in [Points -> Colors]
  BY OpeningsAssumption
<1>3. Without(c, Stifled(c)) \in [Points -> Colors] /\ Stifled(Without(c, Stifled(c))) = {}
  BY <1>2, RemovalFrees
<1>4. past = << >>
  BY DEF Rules!Init
<1>. QED
  BY <1>1, <1>3, <1>4, SettledCalm DEF CalmInv

\* A set of numbers below a bound has a greatest.
LEMMA Greatest ==
  ASSUME NEW N \in Nat, NEW S \in SUBSET (0..N), S # {}
  PROVE  \E x \in S : \A y \in S : x >= y
<1>. DEFINE T == {N - x : x \in S}
<1>1. \A x \in S : x \in Int /\ N - x \in Nat
  OBVIOUS
<1>2. \A u \in T : \E x \in S : u = N - x
  OBVIOUS
<1>3. \A x \in S : N - x \in T
  OBVIOUS
<1>. HIDE DEF T
<1>4. T \subseteq Nat /\ T # {}
  <2>1. T # {}
    BY <1>3
  <2>2. ASSUME NEW u \in T PROVE u \in Nat
    BY <1>1, <1>2
  <2>. QED
    BY <2>1, <2>2
<1>5. PICK t \in T : \A u \in T : <<u, t>> \notin OpToRel(<, Nat)
  BY <1>4, NatLessThanWellFounded, WFMin, Zenon
<1>6. ASSUME NEW u \in T, u < t PROVE <<u, t>> \in OpToRel(<, Nat)
  BY <1>4, <1>6, Zenon DEF OpToRel
<1>7. \A u \in T : ~(u < t)
  BY <1>5, <1>6, Zenon
<1>8. PICK x \in S : t = N - x
  BY <1>2
<1>9. ASSUME NEW y \in S PROVE x >= y
  <2>1. ~(N - y < N - x)
    BY <1>3, <1>7, <1>8
  <2>2. x \in Int /\ y \in Int
    BY <1>1
  <2>. QED
    BY <2>1, <2>2
<1>. QED
  BY <1>9

\* Stones laid over a position.
LEMMA OverlayIs ==
  ASSUME NEW c \in [Points -> Colors], NEW moves \in Seq([loc : Points, pla : Colors])
  PROVE  /\ Rules!Overlay(c, moves) \in [Points -> Colors]
         /\ Rules!Overlay(c, << >>) = c
<1>. DEFINE at(l) == {i \in DOMAIN moves : moves[i].loc = l}
<1>1. ASSUME NEW l \in Points, at(l) # {}
      PROVE  moves[Max(at(l))].pla \in Colors
  <2>1. at(l) \in SUBSET (0..Len(moves)) /\ Len(moves) \in Nat
    OBVIOUS
  <2>2. \E x \in at(l) : \A y \in at(l) : x >= y
    BY <1>1, <2>1, Greatest
  <2>3. Max(at(l)) \in DOMAIN moves
    BY <2>2 DEF Max
  <2>4. \A i \in DOMAIN moves : moves[i].pla \in Colors
    <3>. DEFINE Placement == [loc : Points, pla : Colors]
    <3>1. \A m \in Placement : m.pla \in Colors
      OBVIOUS
    <3>2. moves \in Seq(Placement)
      OBVIOUS
    <3>. HIDE DEF Placement
    <3>. QED
      BY <3>1, <3>2
  <2>. QED
    BY <2>3, <2>4
<1>2. Rules!Overlay(c, moves) =
        [l \in Points |-> IF at(l) = {} THEN c[l] ELSE moves[Max(at(l))].pla]
  BY SameGrid DEF Rules!Overlay, Rules!Max, Max
<1>3. Rules!Overlay(c, moves) \in [Points -> Colors]
  BY <1>1, <1>2
<1>4. Rules!Overlay(c, << >>) = c
  BY SameGrid DEF Rules!Overlay
<1>. QED
  BY <1>3, <1>4

\* Every step of the rules keeps the position calm.
LEMMA RulesNext ==
  CalmInv /\ [Rules!Next]_Rules!vars => CalmInv'
<1>. SUFFICES ASSUME CalmInv, [Rules!Next]_Rules!vars PROVE CalmInv'
  OBVIOUS
<1>. DEFINE pos == Position(b)
<1>0. /\ pos \in Calm /\ past \in Seq(Calm)
      /\ pos.colors \in [Points -> Colors] /\ Stifled(pos.colors) = {}
      /\ pos.lost \in [Players -> Nat]
  BY DEF CalmInv, Calm
<1>1. CASE Rules!PlayRecorded
  <2>1. PICK l \in Points, p \in Players :
          pos.colors[l] = C_EMPTY /\ pos' = Rules!Played(pos, l, p)
    BY <1>1, SameGrid DEF Rules!PlayRecorded, Rules!MayPlay
  <2>2. pos' \in Calm
    BY <1>0, <2>1, PlayedCalm
  <2>3. past' \in Seq(Calm)
    BY <1>0, <1>1 DEF Rules!PlayRecorded
  <2>. QED
    BY <2>2, <2>3 DEF CalmInv
<1>2. CASE Rules!PassRecorded
  <2>1. pos' = [pos EXCEPT !.ko = NULL_LOC] /\ past' = Append(past, pos)
    BY <1>2, SameGrid DEF Rules!PassRecorded
  <2>2. pos' \in Calm
    BY <1>0, <2>1 DEF Calm
  <2>. QED
    BY <1>0, <2>1, <2>2 DEF CalmInv
<1>3. CASE Rules!Undo
  <2>1. past # << >> /\ pos' = Last(past) /\ past' = Front(past)
    BY <1>3 DEF Rules!Undo, Rules!Last, Rules!Front, Last, Front
  <2>2. Last(past) \in Calm /\ Front(past) \in Seq(Calm)
    BY <1>0, <2>1, EndOfCalm
  <2>. QED
    BY <2>1, <2>2 DEF CalmInv
<1>4. CASE Rules!Forget
  <2>1. pos' = [pos EXCEPT !.lost = Rules!NothingLost] /\ past' = << >>
    BY <1>4 DEF Rules!Forget
  <2>2. Rules!NothingLost \in [Players -> Nat]
    BY SameGrid DEF Rules!NothingLost
  <2>3. pos' = [colors |-> pos.colors, ko |-> pos.ko, lost |-> Rules!NothingLost]
    BY <1>0, <2>1 DEF Calm
  <2>4. pos' \in Calm
    BY <1>0, <2>2, <2>3 DEF Calm
  <2>. QED
    BY <2>1, <2>4 DEF CalmInv
<1>5. CASE Rules!SetStone
  <2>1. past' = past
    BY <1>5 DEF Rules!SetStone
  <2>2. PICK l \in Points, color \in Colors :
          \/ pos' = Rules!Settled(pos.colors)
          \/ pos' = Rules!Settled(Without(pos.colors, {l}))
          \/ /\ color \in Players
             /\ pos' = Rules!Settled(After(Without(pos.colors, {l}), l, color))
    BY <1>5, SameGrid DEF Rules!SetStone, Colors
  <2>. DEFINE c == Without(pos.colors, {l})
  <2>3. c \in [Points -> Colors] /\ Stifled(c) = {} /\ c[l] = C_EMPTY
    <3>1. c \in [Points -> Colors] /\ Stifled(c) \subseteq Stifled(pos.colors)
      BY <1>0, RemovalFrees
    <3>2. c[l] = C_EMPTY
      BY DEF Without
    <3>. QED
      BY <1>0, <3>1, <3>2
  <2>4. color \in Players =>
          After(c, l, color) \in [Points -> Colors] /\ Stifled(After(c, l, color)) = {}
    BY <2>3, MoveFrees
  <2>5. pos' \in Calm
    BY <1>0, <2>2, <2>3, <2>4, SettledCalm
  <2>. QED
    BY <1>0, <2>1, <2>5 DEF CalmInv
<1>6. CASE Rules!SetStoneFailIfNoLibs
  <2>1. past' = past
    BY <1>6 DEF Rules!SetStoneFailIfNoLibs
  <2>2. PICK l \in Points, color \in Colors :
          \/ /\ pos' = Rules!Settled([pos.colors EXCEPT ![l] = color])
             /\ Stifled([pos.colors EXCEPT ![l] = color]) = {}
          \/ pos' = pos
    BY <1>6, SameGrid DEF Rules!SetStoneFailIfNoLibs
  <2>3. [pos.colors EXCEPT ![l] = color] \in [Points -> Colors]
    BY <1>0
  <2>4. pos' \in Calm
    BY <1>0, <2>2, <2>3, SettledCalm
  <2>. QED
    BY <1>0, <2>1, <2>4 DEF CalmInv
<1>7. CASE Rules!SetStonesFailIfNoLibs
  <2>1. past' = past
    BY <1>7 DEF Rules!SetStonesFailIfNoLibs
  <2>2. PICK moves \in Placements :
          LET c(n) == Rules!Overlay(Rules!Cleared(pos.colors, moves), SubSeq(moves, 1, n))
              fits == {n \in 0..Len(moves) : Stifled(c(n)) = {}}
              n == CHOOSE n \in fits : \A m \in fits : m <= n
          IN pos' = pos \/ pos' = Rules!Settled(c(n))
    BY <1>7, SameGrid DEF Rules!SetStonesFailIfNoLibs
  <2>. DEFINE cleared == Rules!Cleared(pos.colors, moves)
              c(n) == Rules!Overlay(cleared, SubSeq(moves, 1, n))
              fits == {n \in 0..Len(moves) : Stifled(c(n)) = {}}
              most == CHOOSE n \in fits : \A m \in fits : m <= n
  <2>3. moves \in Seq([loc : Points, pla : Colors])
    BY PlacementsAssumption
  <2>4. cleared \in [Points -> Colors] /\ Stifled(cleared) = {}
    BY <1>0, RemovalFrees, SameGrid DEF Rules!Cleared
  <2>5. \A n \in 0..Len(moves) :
          SubSeq(moves, 1, n) \in Seq([loc : Points, pla : Colors])
    <3>1. ASSUME NEW n \in 0..Len(moves)
          PROVE  SubSeq(moves, 1, n) \in Seq([loc : Points, pla : Colors])
      <4>. DEFINE Placement == [loc : Points, pla : Colors]
      <4>. HIDE DEF Placement
      <4>1. moves \in Seq(Placement)
        BY <2>3 DEF Placement
      <4>2. n \in Int /\ \A i \in 1..n : moves[i] \in Placement
        BY <4>1
      <4>3. SubSeq(moves, 1, n) \in Seq(Placement)
        BY <4>2, SubSeqProperties
      <4>. QED
        BY <4>3 DEF Placement
    <3>. QED
      BY <3>1
  <2>6. \A n \in 0..Len(moves) : c(n) \in [Points -> Colors]
    BY <2>4, <2>5, OverlayIs
  <2>7. c(0) = cleared
    <3>1. SubSeq(moves, 1, 0) = << >>
      BY <2>3
    <3>. QED
      BY <2>3, <2>4, <3>1, OverlayIs
  <2>8. 0 \in fits /\ fits \in SUBSET (0..Len(moves)) /\ Len(moves) \in Nat
    BY <2>3, <2>4, <2>7
  <2>9. \E n \in fits : \A m \in fits : n >= m
    BY <2>8, Greatest
  <2>10. most \in fits
    BY <2>8, <2>9
  <2>11. c(most) \in [Points -> Colors] /\ Stifled(c(most)) = {}
    BY <2>6, <2>10
  <2>12. pos' \in Calm
    BY <1>0, <2>2, <2>11, SettledCalm
  <2>. QED
    BY <1>0, <2>1, <2>12 DEF CalmInv
<1>8. CASE Rules!SetStonesTolerant
  <2>1. past' = past
    BY <1>8 DEF Rules!SetStonesTolerant
  <2>2. PICK moves \in Placements :
          LET c == Rules!Overlay(pos.colors, moves)
          IN pos' = Rules!Settled(Without(c, Stifled(c)))
    BY <1>8, SameGrid DEF Rules!SetStonesTolerant
  <2>. DEFINE c == Rules!Overlay(pos.colors, moves)
  <2>3. c \in [Points -> Colors]
    BY <1>0, PlacementsAssumption, OverlayIs
  <2>4. Without(c, Stifled(c)) \in [Points -> Colors] /\ Stifled(Without(c, Stifled(c))) = {}
    BY <2>3, RemovalFrees
  <2>5. pos' \in Calm
    BY <2>2, <2>4, SettledCalm
  <2>. QED
    BY <1>0, <2>1, <2>5 DEF CalmInv
<1>9. CASE UNCHANGED Rules!vars
  BY <1>9 DEF Rules!vars, CalmInv
<1>. QED
  BY <1>1, <1>2, <1>3, <1>4, <1>5, <1>6, <1>7, <1>8, <1>9 DEF Rules!Next

\* The rules of Go, whatever the size of the board, its openings and the stones
\* set on it, never leave a group without liberties, also not among the positions
\* that undoing brings back: a board that implements them shows none.
THEOREM RulesKeepCalm == ImplementsGoBoard => []CalmInv
BY RulesInit, RulesNext, PTL DEF ImplementsGoBoard, Rules!Spec
=============================================================================
