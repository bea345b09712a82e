----------------------------- MODULE DataProofs -----------------------------
(***************************************************************************)
(* What the proofs know of the data: storage maps, transfers and unsigned  *)
(* numbers, which both pallets and the runtime are built from, and sums of *)
(* natural numbers.                                                        *)
(*                                                                         *)
(* A sum is the size of a set that holds one element, a token, for each    *)
(* unit: this is how the properties of the DAO pallet count shares, and    *)
(* the lemmas say how such a sum changes with one of its terms.  They      *)
(* carry the finiteness of the set of tokens along, so that nothing has to *)
(* be known of the set of the keys.  SumFunction, with which the           *)
(* properties of the funding pallet sum up, is the same sum when the keys  *)
(* are finite.                                                             *)
(***************************************************************************)
EXTENDS Storage, Balances, Unsigned, FiniteSetTheorems, Folds, TLAPS

-----------------------------------------------------------------------------
(* Storage maps and balances.                                              *)

\* Reading a typed map, or its default, gives a value of the type.
LEMMA GetType ==
  ASSUME NEW K, NEW V, NEW map \in [K -> V], NEW key, NEW default \in V
  PROVE  Get(map, key, default) \in V
BY DEF Get

\* Inserting a value into a typed map keeps it typed.
LEMMA PutType ==
  ASSUME NEW K, NEW V, NEW map, NEW key \in K, NEW value \in V,
         DOMAIN map \subseteq K, map \in [DOMAIN map -> V]
  PROVE  /\ DOMAIN Put(map, key, value) \subseteq K
         /\ Put(map, key, value) \in [DOMAIN Put(map, key, value) -> V]
BY DEF Put

\* Removing a key from a typed map keeps it typed.
LEMMA RemoveType ==
  ASSUME NEW K, NEW V, NEW map, NEW key,
         DOMAIN map \subseteq K, map \in [DOMAIN map -> V]
  PROVE  /\ DOMAIN Remove(map, key) \subseteq K
         /\ Remove(map, key) \in [DOMAIN Remove(map, key) -> V]
BY DEF Remove

\* A transfer moves what is there: no account is overdrawn.
LEMMA TransferType ==
  ASSUME NEW A, NEW b \in [A -> Nat], NEW from \in A, NEW to \in A,
         NEW value \in Nat, NEW requirement
  PROVE  Transfer(b, from, to, value, requirement) \in [A -> Nat]
<1>1. CASE CanTransfer(b, from, to, value, requirement)
  <2>1. b[from] \in Nat /\ b[to] \in Nat /\ b[from] >= value
    BY <1>1 DEF CanTransfer
  <2>2. Remainder(b[from], value) \in Nat
    BY <2>1, ExistentialDepositAssumption DEF Remainder
  <2> QED
    BY <2>1, <2>2 DEF Transfer
<1>2. CASE ~CanTransfer(b, from, to, value, requirement)
  BY <1>2 DEF Transfer
<1> QED
  BY <1>1, <1>2

\* Division of natural numbers.
LEMMA DivType ==
  ASSUME NEW a \in Nat, NEW b \in Nat, b > 0
  PROVE  a \div b \in Nat
OBVIOUS

\* The plain minus, wrapped around, stays in the type.
LEMMA SubType ==
  ASSUME NEW a \in Number, NEW b \in Number
  PROVE  Sub(a, b) \in Number
BY WordAssumption DEF Sub, Number

\* The plain plus, wrapped around, stays in the type.
LEMMA AddType ==
  ASSUME NEW a \in Number, NEW b \in Number
  PROVE  Add(a, b) \in Number
BY WordAssumption DEF Add, Number

LEMMA NumberIsNat == Number \subseteq Nat /\ 0 \in Number
BY WordAssumption DEF Number

-----------------------------------------------------------------------------
(* Tokens.                                                                 *)

\* f[k] tokens for each k in S.
Tokens(S, f) == UNION {{k} \X (1 .. f[k]) : k \in S}

\* The elements of the set.
LEMMA TokensElements ==
  ASSUME NEW S, NEW f
  PROVE  \A t : t \in Tokens(S, f) <=> \E k \in S : \E j \in 1 .. f[k] : t = <<k, j>>
BY DEF Tokens

\* Two sums with equal terms are equal.
LEMMA TokensEqual ==
  ASSUME NEW S, NEW f, NEW g, \A k \in S : f[k] = g[k]
  PROVE  Tokens(S, f) = Tokens(S, g)
BY DEF Tokens

\* The empty sum is 0.
LEMMA TokensEmpty ==
  ASSUME NEW f
  PROVE  /\ IsFiniteSet(Tokens({}, f))
         /\ Cardinality(Tokens({}, f)) = 0
<1>1. Tokens({}, f) = {}
  BY DEF Tokens
<1> QED
  BY <1>1, FS_EmptySet

\* The tokens of one key.
LEMMA TokensOfOne ==
  ASSUME NEW k, NEW n \in Nat
  PROVE  /\ IsFiniteSet({k} \X (1 .. n))
         /\ Cardinality({k} \X (1 .. n)) = n
<1>1. IsFiniteSet({k}) /\ Cardinality({k}) = 1
  BY FS_Singleton
<1>2. IsFiniteSet(1 .. n) /\ Cardinality(1 .. n) = n
  BY FS_Interval
<1>3. /\ IsFiniteSet({k} \X (1 .. n))
      /\ Cardinality({k} \X (1 .. n)) = Cardinality({k}) * Cardinality(1 .. n)
  BY <1>1, <1>2, FS_Product
<1>4. 1 * n = n
  OBVIOUS
<1> QED
  BY <1>1, <1>2, <1>3, <1>4, Zenon

\* The sum over S is the term of a k of S and the sum over the others.
LEMMA TokensSplit ==
  ASSUME NEW S, NEW f, NEW k \in S, f[k] \in Nat,
         IsFiniteSet(Tokens(S \ {k}, f))
  PROVE  /\ IsFiniteSet(Tokens(S, f))
         /\ Cardinality(Tokens(S, f)) = Cardinality(Tokens(S \ {k}, f)) + f[k]
<1> DEFINE rest == Tokens(S \ {k}, f)
           own == {k} \X (1 .. f[k])
<1>1. Tokens(S, f) = rest \cup own
  BY DEF Tokens
<1>2. rest \cap own = {}
  BY DEF Tokens
<1>3. IsFiniteSet(own) /\ Cardinality(own) = f[k]
  BY TokensOfOne
<1>4. Cardinality(rest) \in Nat
  BY FS_CardinalityType
<1> HIDE DEF rest, own
<1>5. /\ IsFiniteSet(rest \cup own)
      /\ Cardinality(rest \cup own)
           = Cardinality(rest) + Cardinality(own) - Cardinality(rest \cap own)
  BY <1>3, FS_Union DEF rest
<1>6. Cardinality(rest \cap own) = 0
  BY <1>2, FS_EmptySet
<1> QED
  BY <1>1, <1>3, <1>4, <1>5, <1>6 DEF rest

\* A sum of smaller terms over a part of the keys is not larger.
LEMMA TokensMonotone ==
  ASSUME NEW S, NEW f, NEW T, NEW g, S \subseteq T,
         \A k \in S : f[k] \in Nat /\ g[k] \in Nat /\ f[k] <= g[k],
         IsFiniteSet(Tokens(T, g))
  PROVE  /\ IsFiniteSet(Tokens(S, f))
         /\ Cardinality(Tokens(S, f)) <= Cardinality(Tokens(T, g))
<1>1. Tokens(S, f) \subseteq Tokens(T, g)
  BY DEF Tokens
<1> QED
  BY <1>1, FS_Subset

\* One term changes, or appears (its key is not in S), and the others stay.
LEMMA TokensChange ==
  ASSUME NEW S, NEW f, NEW T, NEW g, NEW k \in T,
         T \ {k} = S \ {k},
         \A j \in S \ {k} : f[j] = g[j],
         k \in S => f[k] \in Nat,
         g[k] \in Nat,
         IsFiniteSet(Tokens(S, f))
  PROVE  /\ IsFiniteSet(Tokens(T, g))
         /\ Cardinality(Tokens(S, f)) \in Nat
         /\ Cardinality(Tokens(T, g))
              = Cardinality(Tokens(S, f)) + g[k] - (IF k \in S THEN f[k] ELSE 0)
<1> DEFINE rest == Tokens(S \ {k}, f)
<1>1. rest \subseteq Tokens(S, f)
  BY DEF Tokens
<1>2. IsFiniteSet(rest) /\ Cardinality(rest) \in Nat
  BY <1>1, FS_Subset, FS_CardinalityType
<1>3. Tokens(T \ {k}, g) = rest
  BY TokensEqual
<1>4. /\ IsFiniteSet(Tokens(T, g))
      /\ Cardinality(Tokens(T, g)) = Cardinality(rest) + g[k]
  <2>1. IsFiniteSet(Tokens(T \ {k}, g))
    BY <1>2, <1>3
  <2>2. /\ IsFiniteSet(Tokens(T, g))
        /\ Cardinality(Tokens(T, g)) = Cardinality(Tokens(T \ {k}, g)) + g[k]
    BY <2>1, TokensSplit
  <2> QED
    BY <1>3, <2>2
<1>5. CASE k \in S
  <2>1. Cardinality(Tokens(S, f)) = Cardinality(rest) + f[k]
    BY <1>2, <1>5, TokensSplit
  <2> HIDE DEF rest
  <2> QED
    BY <1>2, <1>4, <1>5, <2>1
<1>6. CASE k \notin S
  <2>1. rest = Tokens(S, f)
    <3>1. S \ {k} = S
      BY <1>6
    <3> QED
      BY <3>1
  <2> HIDE DEF rest
  <2> QED
    BY <1>2, <1>4, <1>6, <2>1
<1> QED
  BY <1>5, <1>6

\* One term disappears.
LEMMA TokensRemove ==
  ASSUME NEW S, NEW f, NEW k \in S, f[k] \in Nat,
         IsFiniteSet(Tokens(S, f))
  PROVE  /\ IsFiniteSet(Tokens(S \ {k}, f))
         /\ Cardinality(Tokens(S \ {k}, f)) \in Nat
         /\ Cardinality(Tokens(S, f)) = Cardinality(Tokens(S \ {k}, f)) + f[k]
<1>1. Tokens(S \ {k}, f) \subseteq Tokens(S, f)
  BY DEF Tokens
<1>2. /\ IsFiniteSet(Tokens(S \ {k}, f))
      /\ Cardinality(Tokens(S \ {k}, f)) \in Nat
  BY <1>1, FS_Subset, FS_CardinalityType
<1> QED
  BY <1>2, TokensSplit

-----------------------------------------------------------------------------
(* SumFunction.                                                            *)

\* A family of subsets of a finite set has a smallest member: with it, a
\* fact of all the subsets is proved by the smallest counterexample.
LEMMA SmallestSubset ==
  ASSUME NEW S, IsFiniteSet(S), NEW F, F \subseteq SUBSET S, F # {}
  PROVE  \E s \in F : \A t \in F : t \subseteq s => t = s
<1>1. IsWellFoundedOn(StrictSubsetOrdering(S), SUBSET S)
  BY FS_StrictSubsetOrderingWellFounded, FS_FiniteSubsetsOfFinite
<1>2. PICK s \in F : \A t \in F : ~(<<t, s>> \in StrictSubsetOrdering(S))
  BY <1>1, WFMin
<1> QED
  BY <1>2 DEF StrictSubsetOrdering

\* A set of natural numbers that is not empty has a smallest element: with
\* it, a fact of all numbers up to n is proved by the smallest
\* counterexample.
LEMMA SmallestNumber ==
  ASSUME NEW n \in Nat, NEW F, F \subseteq 0 .. n, F # {}
  PROVE  \E m \in F : \A k \in F : m <= k
<1> DEFINE G == {0 .. m : m \in F}
           T == 0 .. n
<1>1. IsFiniteSet(T)
  BY FS_Interval
<1>2. \A s \in G : s \in SUBSET T
  <2>1. ASSUME NEW m \in F PROVE 0 .. m \subseteq T
    OBVIOUS
  <2> QED
    BY <2>1
<1>3. PICK s \in G : \A t \in G : t \subseteq s => t = s
  <2>1. G # {}
    OBVIOUS
  <2> HIDE DEF G, T
  <2>2. G \subseteq SUBSET T
    BY <1>2
  <2> QED
    BY <1>1, <2>1, <2>2, SmallestSubset
<1>4. PICK m \in F : s = 0 .. m
  OBVIOUS
<1>5. ASSUME NEW k \in F PROVE m <= k
  <2>1. CASE k < m
    <3>1. 0 .. k \in G /\ 0 .. k \subseteq s
      BY <1>4, <2>1
    <3>2. 0 .. k = 0 .. m
      BY <1>3, <1>4, <3>1
    <3>3. m \in 0 .. m /\ m \notin 0 .. k
      BY <2>1
    <3> QED
      BY <3>2, <3>3
  <2> QED
    BY <2>1
<1> QED
  BY <1>5

\* Induction over the numbers up to n, for a set of them.
LEMMA NumberInduction ==
  ASSUME NEW n \in Nat, NEW S, 0 \in S,
         \A h \in 1 .. n : h - 1 \in S => h \in S
  PROVE  0 .. n \subseteq S
<1> DEFINE F == {m \in 0 .. n : m \notin S}
<1>1. F = {}
  <2> SUFFICES ASSUME F # {} PROVE FALSE
    OBVIOUS
  <2>1. F \subseteq 0 .. n
    OBVIOUS
  <2>2. PICK m \in F : \A k \in F : m <= k
    <3> HIDE DEF F
    <3> QED
      BY <2>1, SmallestNumber
  <2>3. m \in 0 .. n /\ m \notin S /\ m # 0
    OBVIOUS
  <2>4. m \in 1 .. n /\ m - 1 \in 0 .. n /\ ~(m <= m - 1)
    BY <2>3
  <2>5. m - 1 \in S
    BY <2>2, <2>4
  <2> QED
    BY <2>3, <2>4, <2>5
<1> QED
  BY <1>1

\* A finite sum of natural numbers is one.
LEMMA TokensFinite ==
  ASSUME NEW S, IsFiniteSet(S), NEW f, \A k \in S : f[k] \in Nat
  PROVE  IsFiniteSet(Tokens(S, f)) /\ Cardinality(Tokens(S, f)) \in Nat
<1> DEFINE F == {s \in SUBSET S : ~IsFiniteSet(Tokens(s, f))}
<1>1. F = {}
  <2> SUFFICES ASSUME F # {} PROVE FALSE
    OBVIOUS
  <2>1. PICK s \in F : \A t \in F : t \subseteq s => t = s
    <3> HIDE DEF F
    <3>1. F \subseteq SUBSET S
      BY DEF F
    <3> QED
      BY <3>1, SmallestSubset
  <2>2. s # {}
    BY TokensEmpty
  <2>3. PICK k \in s : TRUE
    BY <2>2
  <2>4. IsFiniteSet(Tokens(s \ {k}, f))
    BY <2>1
  <2> QED
    BY <2>4, TokensSplit
<1> QED
  BY <1>1, FS_CardinalityType

LEMMA SumIsTokens ==
  ASSUME NEW f, IsFiniteSet(DOMAIN f), \A k \in DOMAIN f : f[k] \in Nat
  PROVE  SumFunction(f) = Cardinality(Tokens(DOMAIN f, f))
<1> DEFINE S == DOMAIN f
           size == [s \in SUBSET S |-> Cardinality(Tokens(s, f))]
           Folds(iter) ==
             iter = [s \in SUBSET S |->
                       IF s = {} THEN 0
                       ELSE LET x == CHOOSE x \in s : TRUE
                            IN  f[x] + iter[s \ {x}]]
           fold == CHOOSE iter : Folds(iter)
<1>1. SumFunction(f) = fold[S]
  BY DEF SumFunction, SumFunctionOnSet, FoldFunctionOnSet, MapThenFoldSet
<1>2. ASSUME NEW s \in SUBSET S, s # {}
      PROVE  LET x == CHOOSE x \in s : TRUE
             IN  /\ x \in s
                 /\ s \ {x} \in SUBSET S
                 /\ size[s] = f[x] + size[s \ {x}]
  <2> DEFINE x == CHOOSE x \in s : TRUE
  <2>1. x \in s
    BY <1>2
  <2> HIDE DEF x
  <2>2. IsFiniteSet(s \ {x}) /\ \A k \in s \ {x} : f[k] \in Nat
    BY FS_Subset
  <2>3. /\ IsFiniteSet(Tokens(s \ {x}, f))
        /\ Cardinality(Tokens(s \ {x}, f)) \in Nat
    BY <2>2, TokensFinite
  <2>4. Cardinality(Tokens(s, f)) = Cardinality(Tokens(s \ {x}, f)) + f[x]
    BY <2>1, <2>3, TokensSplit
  <2>5. Cardinality(Tokens(s, f)) = f[x] + Cardinality(Tokens(s \ {x}, f))
    BY <2>1, <2>3, <2>4
  <2> QED
    BY <2>1, <2>5 DEF x
<1>3. size[{}] = 0
  BY TokensEmpty
<1>4. Folds(size)
  BY <1>2, <1>3
<1>5. Folds(fold)
  BY <1>4
<1> DEFINE F == {s \in SUBSET S : fold[s] # size[s]}
<1>6. F = {}
  <2> SUFFICES ASSUME F # {} PROVE FALSE
    OBVIOUS
  <2>1. PICK s \in F : \A t \in F : t \subseteq s => t = s
    <3> HIDE DEF F, S
    <3>1. F \subseteq SUBSET S
      BY DEF F
    <3> QED
      BY <3>1, SmallestSubset DEF S
  <2>2. s # {}
    BY <1>3, <1>5
  <2> DEFINE x == CHOOSE x \in s : TRUE
  <2>3. x \in s /\ s \ {x} \in SUBSET S /\ size[s] = f[x] + size[s \ {x}]
    BY <1>2, <2>2
  <2>4. fold[s \ {x}] = size[s \ {x}]
    <3> HIDE DEF x, fold, size
    <3>1. s \ {x} # s /\ s \ {x} \subseteq s
      BY <2>3
    <3>2. s \ {x} \notin F
      <4> HIDE DEF F
      <4> QED
        BY <2>1, <3>1
    <3> QED
      BY <2>3, <3>2
  <2>5. fold[s] = f[x] + fold[s \ {x}]
    BY <1>5, <2>2
  <2> QED
    BY <2>1, <2>3, <2>4, <2>5
<1>7. fold[S] = size[S]
  BY <1>6
<1> QED
  BY <1>1, <1>7

\* The sum of natural numbers is one, and no term is larger.
LEMMA SumType ==
  ASSUME NEW f, IsFiniteSet(DOMAIN f), \A k \in DOMAIN f : f[k] \in Nat
  PROVE  /\ SumFunction(f) \in Nat
         /\ \A k \in DOMAIN f : f[k] <= SumFunction(f)
<1>1. /\ SumFunction(f) = Cardinality(Tokens(DOMAIN f, f))
      /\ IsFiniteSet(Tokens(DOMAIN f, f))
      /\ Cardinality(Tokens(DOMAIN f, f)) \in Nat
  BY SumIsTokens, TokensFinite
<1>2. ASSUME NEW k \in DOMAIN f PROVE f[k] <= Cardinality(Tokens(DOMAIN f, f))
  <2>1. {k} \X (1 .. f[k]) \subseteq Tokens(DOMAIN f, f)
    BY DEF Tokens
  <2>2. Cardinality({k} \X (1 .. f[k])) = f[k]
    BY TokensOfOne
  <2> QED
    BY <1>1, <2>1, <2>2, FS_Subset
<1> QED
  BY <1>1, <1>2

\* The sum of some of the terms.
LEMMA SumPart ==
  ASSUME NEW f, NEW g, IsFiniteSet(DOMAIN g), \A k \in DOMAIN g : g[k] \in Nat,
         DOMAIN f \subseteq DOMAIN g, \A k \in DOMAIN f : f[k] = g[k]
  PROVE  SumFunction(f) <= SumFunction(g)
<1>1. IsFiniteSet(DOMAIN f) /\ \A k \in DOMAIN f : f[k] \in Nat
  BY FS_Subset
<1>2. /\ SumFunction(f) = Cardinality(Tokens(DOMAIN f, f))
      /\ SumFunction(g) = Cardinality(Tokens(DOMAIN g, g))
      /\ IsFiniteSet(Tokens(DOMAIN g, g))
  BY <1>1, SumIsTokens, TokensFinite
<1>3. Tokens(DOMAIN f, f) \subseteq Tokens(DOMAIN g, g)
  BY DEF Tokens
<1> QED
  BY <1>2, <1>3, FS_Subset

\* A sum of zeros is zero.
LEMMA SumOfZeros ==
  ASSUME NEW f, IsFiniteSet(DOMAIN f), \A k \in DOMAIN f : f[k] = 0
  PROVE  SumFunction(f) = 0
<1>1. Tokens(DOMAIN f, f) = {}
  BY DEF Tokens
<1> QED
  BY <1>1, SumIsTokens, FS_EmptySet

\* Terms that are zero may be added.
LEMMA SumExtended ==
  ASSUME NEW f, NEW g, IsFiniteSet(DOMAIN g), \A k \in DOMAIN g : g[k] \in Nat,
         DOMAIN f \subseteq DOMAIN g,
         \A k \in DOMAIN g : g[k] = IF k \in DOMAIN f THEN f[k] ELSE 0
  PROVE  SumFunction(g) = SumFunction(f)
<1>1. IsFiniteSet(DOMAIN f) /\ \A k \in DOMAIN f : f[k] \in Nat
  BY FS_Subset
<1>2. Tokens(DOMAIN g, g) = Tokens(DOMAIN f, f)
  <2>1. \A k \in DOMAIN g \ DOMAIN f : 1 .. g[k] = {}
    OBVIOUS
  <2>2. \A k \in DOMAIN f : g[k] = f[k]
    OBVIOUS
  <2> QED
    BY <2>1, <2>2 DEF Tokens
<1> QED
  BY <1>1, <1>2, SumIsTokens

\* One term changes, or appears, and the others stay.
LEMMA SumChange ==
  ASSUME NEW f, NEW g, NEW k \in DOMAIN g,
         IsFiniteSet(DOMAIN f), \A j \in DOMAIN f : f[j] \in Nat,
         DOMAIN g \ {k} = DOMAIN f \ {k},
         \A j \in DOMAIN f \ {k} : f[j] = g[j],
         g[k] \in Nat
  PROVE  SumFunction(g) = SumFunction(f) + g[k]
                            - (IF k \in DOMAIN f THEN f[k] ELSE 0)
<1> DEFINE S == DOMAIN f
           T == DOMAIN g
<1>1. IsFiniteSet(T) /\ \A j \in T : g[j] \in Nat
  <2>1. T \subseteq S \cup {k}
    OBVIOUS
  <2> QED
    BY <2>1, FS_AddElement, FS_Subset
<1>2. /\ SumFunction(f) = Cardinality(Tokens(S, f))
      /\ SumFunction(g) = Cardinality(Tokens(T, g))
      /\ IsFiniteSet(Tokens(S, f))
  BY <1>1, SumIsTokens, TokensFinite
<1> HIDE DEF S, T
<1>3. Cardinality(Tokens(T, g))
        = Cardinality(Tokens(S, f)) + g[k] - (IF k \in S THEN f[k] ELSE 0)
  BY <1>2, TokensChange DEF S, T
<1> QED
  BY <1>2, <1>3 DEF S

\* A common factor.
LEMMA SumScale ==
  ASSUME NEW f, NEW g, DOMAIN g = DOMAIN f,
         IsFiniteSet(DOMAIN f), \A j \in DOMAIN f : f[j] \in Nat,
         NEW c \in Nat, \A j \in DOMAIN f : g[j] = f[j] * c
  PROVE  SumFunction(g) = SumFunction(f) * c
<1> DEFINE S == DOMAIN f
           F == {s \in SUBSET S : Cardinality(Tokens(s, g))
                                    # Cardinality(Tokens(s, f)) * c}
<1>1. \A j \in S : g[j] \in Nat
  OBVIOUS
<1>2. F = {}
  <2> SUFFICES ASSUME F # {} PROVE FALSE
    OBVIOUS
  <2>1. PICK s \in F : \A t \in F : t \subseteq s => t = s
    <3> HIDE DEF F, S
    <3>1. F \subseteq SUBSET S
      BY DEF F
    <3> QED
      BY <3>1, SmallestSubset DEF S
  <2>2. s # {}
    <3>1. 0 * c = 0
      OBVIOUS
    <3>2. /\ Cardinality(Tokens({}, g)) = 0
          /\ Cardinality(Tokens({}, f)) = 0
      BY TokensEmpty
    <3> QED
      BY <2>1, <3>1, <3>2, Zenon
  <2>3. PICK k \in s : TRUE
    BY <2>2
  <2> DEFINE a == Cardinality(Tokens(s \ {k}, f))
             b == Cardinality(Tokens(s \ {k}, g))
  <2>4. IsFiniteSet(s \ {k}) /\ s \ {k} \subseteq S /\ k \in S
    BY FS_Subset
  <2>5. /\ IsFiniteSet(Tokens(s \ {k}, f)) /\ a \in Nat
        /\ IsFiniteSet(Tokens(s \ {k}, g)) /\ b \in Nat
    BY <1>1, <2>4, TokensFinite
  <2>6. /\ Cardinality(Tokens(s, f)) = a + f[k]
        /\ Cardinality(Tokens(s, g)) = b + g[k]
    BY <1>1, <2>4, <2>5, TokensSplit
  <2>7. b = a * c
    <3>1. s \ {k} \notin F
      <4> HIDE DEF F
      <4> QED
        BY <2>1, <2>3
    <3> QED
      BY <2>4, <3>1
  <2>8. f[k] \in Nat /\ g[k] = f[k] * c
    BY <2>4
  <2> HIDE DEF a, b
  <2>9. b + g[k] = (a + f[k]) * c
    BY <2>5, <2>7, <2>8
  <2> QED
    BY <2>6, <2>9
<1>3. Cardinality(Tokens(S, g)) = Cardinality(Tokens(S, f)) * c
  BY <1>2
<1> QED
  BY <1>1, <1>3, SumIsTokens

\* The sum of the sums of two terms.
LEMMA SumAdd ==
  ASSUME NEW e, NEW f, NEW g, DOMAIN f = DOMAIN e, DOMAIN g = DOMAIN e,
         IsFiniteSet(DOMAIN e),
         \A j \in DOMAIN e : e[j] \in Nat /\ f[j] \in Nat /\ g[j] = e[j] + f[j]
  PROVE  SumFunction(g) = SumFunction(e) + SumFunction(f)
<1> DEFINE S == DOMAIN e
           F == {s \in SUBSET S : Cardinality(Tokens(s, g))
                                    # Cardinality(Tokens(s, e))
                                        + Cardinality(Tokens(s, f))}
<1>1. \A j \in S : g[j] \in Nat
  OBVIOUS
<1>2. F = {}
  <2> SUFFICES ASSUME F # {} PROVE FALSE
    OBVIOUS
  <2>1. PICK s \in F : \A t \in F : t \subseteq s => t = s
    <3> HIDE DEF F, S
    <3>1. F \subseteq SUBSET S
      BY DEF F
    <3> QED
      BY <3>1, SmallestSubset DEF S
  <2>2. s # {}
    <3>1. 0 = 0 + 0
      OBVIOUS
    <3>2. /\ Cardinality(Tokens({}, g)) = 0
          /\ Cardinality(Tokens({}, e)) = 0
          /\ Cardinality(Tokens({}, f)) = 0
      BY TokensEmpty
    <3> QED
      BY <2>1, <3>1, <3>2, Zenon
  <2>3. PICK k \in s : TRUE
    BY <2>2
  <2> DEFINE a == Cardinality(Tokens(s \ {k}, e))
             b == Cardinality(Tokens(s \ {k}, f))
             c == Cardinality(Tokens(s \ {k}, g))
  <2>4. IsFiniteSet(s \ {k}) /\ s \ {k} \subseteq S /\ k \in S
    BY FS_Subset
  <2>5. /\ IsFiniteSet(Tokens(s \ {k}, e)) /\ a \in Nat
        /\ IsFiniteSet(Tokens(s \ {k}, f)) /\ b \in Nat
        /\ IsFiniteSet(Tokens(s \ {k}, g)) /\ c \in Nat
    BY <1>1, <2>4, TokensFinite
  <2>6. /\ Cardinality(Tokens(s, e)) = a + e[k]
        /\ Cardinality(Tokens(s, f)) = b + f[k]
        /\ Cardinality(Tokens(s, g)) = c + g[k]
    BY <1>1, <2>4, <2>5, TokensSplit
  <2>7. c = a + b
    <3>1. s \ {k} \notin F
      <4> HIDE DEF F
      <4> QED
        BY <2>1, <2>3
    <3> QED
      BY <2>4, <3>1
  <2>8. e[k] \in Nat /\ f[k] \in Nat /\ g[k] = e[k] + f[k]
    BY <2>4
  <2> HIDE DEF a, b, c
  <2>9. c + g[k] = (a + e[k]) + (b + f[k])
    BY <2>5, <2>7, <2>8
  <2> QED
    BY <2>6, <2>9
<1>3. Cardinality(Tokens(S, g)) = Cardinality(Tokens(S, e)) + Cardinality(Tokens(S, f))
  BY <1>2
<1> QED
  BY <1>1, <1>3, SumIsTokens

\* The sum of terms none of which is larger than a bound.
LEMMA SumBounded ==
  ASSUME NEW f, IsFiniteSet(DOMAIN f), NEW m \in Nat,
         \A k \in DOMAIN f : f[k] \in 0 .. m
  PROVE  SumFunction(f) <= m * Cardinality(DOMAIN f)
<1> DEFINE S == DOMAIN f
           one == [k \in S |-> 1]
           all == [k \in S |-> m]
<1>1. \A k \in S : f[k] \in Nat
  OBVIOUS
<1>2. SumFunction(one) = Cardinality(S)
  <2>1. Tokens(S, one) = S \X {1}
    BY DEF Tokens
  <2>2. IsFiniteSet({1}) /\ Cardinality({1}) = 1
    BY FS_Singleton
  <2>3. Cardinality(S \X {1}) = Cardinality(S) * Cardinality({1})
        /\ Cardinality(S) \in Nat
    BY <2>2, FS_Product, FS_CardinalityType
  <2>4. SumFunction(one) = Cardinality(Tokens(S, one))
    <3>1. DOMAIN one = S /\ \A k \in S : one[k] \in Nat
      OBVIOUS
    <3> HIDE DEF one
    <3> QED
      BY <3>1, SumIsTokens
  <2>5. \A x \in Nat : x * 1 = x
    OBVIOUS
  <2> HIDE DEF one, S
  <2>6. Cardinality(S \X {1}) = Cardinality(S)
    BY <2>2, <2>3, <2>5
  <2> QED
    BY <2>1, <2>4, <2>6
<1>3. SumFunction(all) = SumFunction(one) * m
  <2>1. /\ DOMAIN one = S /\ DOMAIN all = S
        /\ \A k \in S : one[k] \in Nat /\ all[k] = one[k] * m
    OBVIOUS
  <2> HIDE DEF one, all
  <2> QED
    BY <2>1, SumScale
<1>4. SumFunction(f) <= SumFunction(all)
  <2>1. DOMAIN all = S /\ \A k \in S : all[k] = m
    OBVIOUS
  <2> HIDE DEF all
  <2>2. Tokens(S, f) \subseteq Tokens(S, all)
    <3>1. \A k \in S : 1 .. f[k] \subseteq 1 .. all[k]
      BY <1>1, <2>1
    <3> QED
      BY <3>1 DEF Tokens
  <2>3. /\ SumFunction(f) = Cardinality(Tokens(S, f))
        /\ SumFunction(all) = Cardinality(Tokens(S, all))
        /\ IsFiniteSet(Tokens(S, all))
    BY <1>1, <2>1, SumIsTokens, TokensFinite
  <2> QED
    BY <2>2, <2>3, FS_Subset
<1>5. Cardinality(S) \in Nat
  BY FS_CardinalityType
<1> HIDE DEF S, one, all
<1>6. Cardinality(S) * m = m * Cardinality(S)
  BY <1>5
<1> QED
  BY <1>2, <1>3, <1>4, <1>6 DEF S

=============================================================================
