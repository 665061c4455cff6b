---------------------------- MODULE L2BookProofs ----------------------------
(***************************************************************************)
(* Lemmas about the order-book operators, for every finite price grid.     *)
(***************************************************************************)
EXTENDS L2Book, FiniteSetTheorems, WellFoundedInduction, TLAPS

\* An update without negative quantities keeps the levels natural numbers.
LEMMA MergeType ==
    ASSUME NEW lv \in Levels, NEW d \in Updates, ~Negative(d)
    PROVE  Merge(lv, d) \in Levels
<1>1. ASSUME NEW s \in Slots
      PROVE  (IF d[s] = None THEN lv[s] ELSE d[s]) \in Nat
  <2>1. CASE d[s] = None
    BY <2>1 DEF Levels
  <2>2. CASE d[s] # None
    <3>1. d[s] \in Int
      BY <2>2 DEF Updates
    <3>2. ~(d[s] < 0)
      BY <2>2 DEF Negative
    <3> QED
      BY <2>2, <3>1, <3>2
  <2> QED
    BY <2>1, <2>2
<1> QED
  BY <1>1 DEF Merge, Levels

\* Cutting a book keeps each level or drops it.
LEMMA TopType ==
    ASSUME NEW lv \in Levels, NEW n
    PROVE  /\ Top(lv, n) \in Levels
           /\ \A s \in Slots : Top(lv, n)[s] \in {0, lv[s]}
BY DEF Top, Levels

\* The prices on side that come before p among those with a level.
Before(lv, side, p) == {q \in Prices : lv[<<side, q>>] # 0 /\ Better(side, q, p)}

\* The set of levels in front of one, whose size decides the cut, is finite.
LEMMA BeforeFinite ==
    ASSUME NEW lv, NEW side, NEW p
    PROVE  /\ IsFiniteSet(Before(lv, side, p))
           /\ Cardinality(Before(lv, side, p)) \in Nat
           /\ Cardinality(Before(lv, side, p)) <= Cardinality(Prices)
BY PricesAssumption, FS_Subset, FS_CardinalityType DEF Before

\* A cut at least as deep as the grid drops nothing.
LEMMA TopComplete ==
    ASSUME NEW lv \in Levels, NEW n \in Nat, Cardinality(Prices) <= n
    PROVE  Top(lv, n) = lv
<1>1. ASSUME NEW s \in Slots
      PROVE  Cardinality(Before(lv, s[1], s[2])) < n
  <2> DEFINE B == Before(lv, s[1], s[2])
  <2>1. s[2] \in Prices
    BY DEF Slots
  <2>2. B \subseteq Prices \ {s[2]}
    <3>1. ASSUME NEW q \in B PROVE q # s[2]
      BY <2>1, PricesAssumption DEF Before, Better
    <3> QED
      BY <3>1 DEF Before
  <2>3. /\ IsFiniteSet(Prices \ {s[2]})
        /\ Cardinality(Prices \ {s[2]}) = Cardinality(Prices) - 1
    BY <2>1, FS_RemoveElement, PricesAssumption
  <2>4. Cardinality(B) <= Cardinality(Prices \ {s[2]})
    BY <2>2, <2>3, FS_Subset
  <2>5. Cardinality(B) \in Nat /\ Cardinality(Prices) \in Nat
    BY BeforeFinite, FS_CardinalityType, PricesAssumption
  <2> HIDE DEF B
  <2> QED
    BY <2>3, <2>4, <2>5 DEF B
<1>2. \A s \in Slots : Top(lv, n)[s] = lv[s]
  BY <1>1 DEF Top, Before
<1> QED
  BY <1>2 DEF Top, Levels

\* A side that has a level has a best one, and a cut keeps it.
LEMMA BestExists ==
    ASSUME NEW lv, NEW side \in Sides, NEW p \in Prices, lv[<<side, p>>] # 0
    PROVE  \E q \in Best(lv, side) :
              q = p \/ Better(side, q, p)
<1> DEFINE P == {q \in Prices : lv[<<side, q>>] # 0}
           Cards == {Cardinality(Before(lv, side, q)) : q \in
                        {q \in P : q = p \/ Better(side, q, p)}}
<1>1. Cards \subseteq Nat /\ Cards # {}
  BY BeforeFinite
<1>2. PICK c \in Cards : \A e \in Cards : ~(<<e, c>> \in OpToRel(<, Nat))
  BY <1>1, NatLessThanWellFounded, WFMin
<1>3. PICK q \in P : /\ (q = p \/ Better(side, q, p))
                     /\ c = Cardinality(Before(lv, side, q))
  OBVIOUS
<1>4. ASSUME NEW r \in Prices, lv[<<side, r>>] # 0, Better(side, r, q)
      PROVE  FALSE
  <2>1. r = p \/ Better(side, r, p)
    BY <1>3, <1>4, PricesAssumption DEF Better
  <2>2. Before(lv, side, r) \subseteq Before(lv, side, q) \ {r}
    <3>1. ASSUME NEW x \in Prices, lv[<<side, x>>] # 0, Better(side, x, r)
          PROVE  Better(side, x, q) /\ x # r
      <4>1. x \in Int /\ r \in Int /\ q \in Int
        BY PricesAssumption
      <4> QED
        BY <1>4, <3>1, <4>1 DEF Better
    <3> QED
      BY <3>1 DEF Before
  <2>3. r \in Before(lv, side, q)
    BY <1>4 DEF Before
  <2>4. /\ IsFiniteSet(Before(lv, side, q) \ {r})
        /\ Cardinality(Before(lv, side, q) \ {r}) = c - 1
    BY <1>3, <2>3, FS_RemoveElement, BeforeFinite
  <2>5. Cardinality(Before(lv, side, r)) <= c - 1
    BY <2>2, <2>4, FS_Subset
  <2>6. Cardinality(Before(lv, side, r)) \in Cards
    BY <1>4, <2>1
  <2>7. Cardinality(Before(lv, side, r)) \in Nat /\ c \in Nat
    BY <1>1, <1>2, <2>6
  <2>8. Cardinality(Before(lv, side, r)) < c
    BY <2>5, <2>7
  <2> QED
    BY <1>2, <2>6, <2>7, <2>8 DEF OpToRel
<1> QED
  BY <1>3, <1>4 DEF Best

\* Cutting a book to n >= 1 levels does not move its best prices, so the cut
\* of an uncrossed book is uncrossed.
LEMMA TopUncrossed ==
    ASSUME NEW lv \in Levels, NEW n \in Nat \ {0}, ~Crossed(lv)
    PROVE  ~Crossed(Top(lv, n))
<1>1. ASSUME NEW side \in Sides, NEW p \in Best(Top(lv, n), side)
      PROVE  p \in Best(lv, side)
  <2>1. p \in Prices /\ Top(lv, n)[<<side, p>>] # 0
    BY DEF Best
  <2>2. lv[<<side, p>>] # 0
    BY <2>1 DEF Top, Slots
  <2>3. PICK q \in Best(lv, side) : q = p \/ Better(side, q, p)
    BY <2>1, <2>2, BestExists
  <2>4. Before(lv, side, q) = {}
    BY <2>3 DEF Best, Before
  <2>5. Cardinality(Before(lv, side, q)) = 0
    BY <2>4, FS_EmptySet
  <2>6. q \in Prices /\ lv[<<side, q>>] # 0
    BY DEF Best
  <2>7. Top(lv, n)[<<side, q>>] # 0
    BY <2>5, <2>6 DEF Top, Before, Slots
  <2>8. ~Better(side, q, p)
    BY <2>6, <2>7 DEF Best
  <2> QED
    BY <2>3, <2>8
<1> QED
  BY <1>1 DEF Crossed, Sides
=============================================================================
