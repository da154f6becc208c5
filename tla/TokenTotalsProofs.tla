-------------------------- MODULE TokenTotalsProofs --------------------------
(***************************************************************************)
(* Facts about the sum of balances of module TokenTotals.                  *)
(***************************************************************************)
EXTENDS TokenTotals, FiniteSetTheorems, FunctionTheorems, TLAPS

\* The purse of an owner: finite, and its size is the balance.
LEMMA Purse ==
  ASSUME NEW x, NEW n \in Nat
  PROVE  IsFiniteSet({x} \X (1..n)) /\ Cardinality({x} \X (1..n)) = n
<1>1. IsFiniteSet({x}) /\ Cardinality({x}) = 1
  BY FS_Singleton
<1>2. IsFiniteSet(1..n) /\ Cardinality(1..n) = IF 1 > n THEN 0 ELSE n - 1 + 1
  BY FS_Interval, 1 \in Int, n \in Int
<1>3. Cardinality(1..n) = n
  BY <1>2
<1>4. \A S, T : IsFiniteSet(S) /\ IsFiniteSet(T) =>
        /\ IsFiniteSet(S \X T)
        /\ Cardinality(S \X T) = Cardinality(S) * Cardinality(T)
  BY FS_Product
<1>5. /\ IsFiniteSet({x} \X (1..n))
      /\ Cardinality({x} \X (1..n)) = Cardinality({x}) * Cardinality(1..n)
  BY <1>1, <1>2, <1>4, Zenon
<1>6. Cardinality({x} \X (1..n)) = 1 * n
  BY <1>1, <1>3, <1>5
<1> QED
  BY <1>5, <1>6

\* A finite ledger has finitely many coins, so its total is a natural number.
LEMMA TotalOfType ==
  ASSUME NEW S, IsFiniteSet(S), NEW bal, \A x \in S : bal[x] \in Nat
  PROVE  IsFiniteSet(Coins(bal, S)) /\ TotalOf(bal, S) \in Nat
<1> DEFINE purse == [x \in S |-> {x} \X (1..bal[x])]
           Purses == {{x} \X (1..bal[x]) : x \in S}
<1>1. purse \in Surjection(S, Purses)
  BY DEF Surjection
<1>2. IsFiniteSet(Purses)
  BY <1>1, FS_Surjection
<1>3. \A x \in S : IsFiniteSet({x} \X (1..bal[x]))
  BY Purse
<1>4. IsFiniteSet(UNION Purses)
  BY <1>2, <1>3, FS_UNION
<1> QED
  BY <1>4, FS_CardinalityType DEF Coins, TotalOf

\* One owner's purse: its coins are as many as the balance.
LEMMA TotalOfOne ==
  ASSUME NEW x, NEW bal, bal[x] \in Nat
  PROVE  TotalOf(bal, {x}) = bal[x]
<1>1. Coins(bal, {x}) = {x} \X (1..bal[x])
  BY DEF Coins
<1> QED
  BY <1>1, Purse DEF TotalOf

\* The owners of a ledger can be split: the totals of the parts add up.
LEMMA TotalOfSplit ==
  ASSUME NEW S, IsFiniteSet(S), NEW T, T \subseteq S,
         NEW bal, \A x \in S : bal[x] \in Nat
  PROVE  TotalOf(bal, S) = TotalOf(bal, T) + TotalOf(bal, S \ T)
<1>1. IsFiniteSet(T) /\ IsFiniteSet(S \ T)
  BY FS_Subset, FS_Difference
<1>2. /\ IsFiniteSet(Coins(bal, T)) /\ TotalOf(bal, T) \in Nat
      /\ IsFiniteSet(Coins(bal, S \ T)) /\ TotalOf(bal, S \ T) \in Nat
  BY <1>1, TotalOfType
<1>3. Coins(bal, S) = Coins(bal, T) \cup Coins(bal, S \ T)
  BY DEF Coins
<1>4. Coins(bal, T) \cap Coins(bal, S \ T) = {}
  BY DEF Coins
<1>5. Cardinality(Coins(bal, T) \cap Coins(bal, S \ T)) = 0
  BY <1>4, FS_EmptySet
<1>6. Cardinality(Coins(bal, T) \cup Coins(bal, S \ T))
        = Cardinality(Coins(bal, T)) + Cardinality(Coins(bal, S \ T))
            - Cardinality(Coins(bal, T) \cap Coins(bal, S \ T))
  BY <1>2, FS_Union
<1> QED
  BY <1>2, <1>3, <1>5, <1>6 DEF TotalOf

\* One owner can be set apart.
LEMMA TotalOfPick ==
  ASSUME NEW S, IsFiniteSet(S), NEW c \in S,
         NEW bal, \A x \in S : bal[x] \in Nat
  PROVE  TotalOf(bal, S) = bal[c] + TotalOf(bal, S \ {c})
<1>1. {c} \subseteq S
  OBVIOUS
<1>2. TotalOf(bal, S) = TotalOf(bal, {c}) + TotalOf(bal, S \ {c})
  BY <1>1, TotalOfSplit
<1>3. TotalOf(bal, {c}) = bal[c]
  BY TotalOfOne
<1> QED
  BY <1>2, <1>3

\* Balances that agree on S have the same total over S.
LEMMA TotalOfSame ==
  ASSUME NEW S, NEW f, NEW g, \A x \in S : f[x] = g[x]
  PROVE  TotalOf(f, S) = TotalOf(g, S)
<1>1. Coins(f, S) = Coins(g, S)
  BY DEF Coins
<1> QED
  BY <1>1 DEF TotalOf

\* Changing one owner's balance changes the total by the same difference.
LEMMA TotalOfChange ==
  ASSUME NEW S, IsFiniteSet(S), NEW c \in S,
         NEW f, \A x \in S : f[x] \in Nat,
         NEW g, \A x \in S : g[x] \in Nat,
         \A x \in S \ {c} : f[x] = g[x]
  PROVE  TotalOf(g, S) = TotalOf(f, S) + g[c] - f[c]
<1>1. TotalOf(f, S) = f[c] + TotalOf(f, S \ {c})
  BY TotalOfPick
<1>2. TotalOf(g, S) = g[c] + TotalOf(g, S \ {c})
  BY TotalOfPick
<1>3. TotalOf(f, S \ {c}) = TotalOf(g, S \ {c})
  BY TotalOfSame
<1>4. TotalOf(f, S \ {c}) \in Nat
  BY TotalOfType, FS_Difference
<1> QED
  BY <1>1, <1>2, <1>3, <1>4

\* No owner has more than the whole ledger.
LEMMA TotalOfAtLeast ==
  ASSUME NEW S, IsFiniteSet(S), NEW c \in S,
         NEW f, \A x \in S : f[x] \in Nat
  PROVE  f[c] <= TotalOf(f, S)
<1>1. TotalOf(f, S) = f[c] + TotalOf(f, S \ {c})
  BY TotalOfPick
<1>2. TotalOf(f, S \ {c}) \in Nat
  BY TotalOfType, FS_Difference
<1> QED
  BY <1>1, <1>2

\* A ledger of zeros adds up to zero.
LEMMA TotalOfZero ==
  ASSUME NEW S, NEW f, \A x \in S : f[x] = 0
  PROVE  TotalOf(f, S) = 0
<1>1. Coins(f, S) = {}
  BY DEF Coins
<1> QED
  BY <1>1, FS_EmptySet DEF TotalOf

\* A coin is an owner with a number up to the owner's balance.
LEMMA CoinIs ==
  ASSUME NEW S, NEW bal, NEW p
  PROVE  p \in Coins(bal, S) <=> \E x \in S : \E i \in 1..bal[x] : p = <<x, i>>
BY DEF Coins

\* Two ledgers of the same owners can be added entry by entry: the coins of
\* the second are renumbered to follow those of the first.
LEMMA TotalOfSum ==
  ASSUME NEW S, IsFiniteSet(S),
         NEW f, \A x \in S : f[x] \in Nat,
         NEW g, \A x \in S : g[x] \in Nat
  PROVE  TotalOf([x \in S |-> f[x] + g[x]], S) = TotalOf(f, S) + TotalOf(g, S)
<1> DEFINE h == [x \in S |-> f[x] + g[x]]
           Moved == UNION {{x} \X ((f[x] + 1)..(f[x] + g[x])) : x \in S}
           shift == [p \in Coins(g, S) |-> <<p[1], f[p[1]] + p[2]>>]
<1>1. \A p : p \in Moved
        <=> \E x \in S : \E i \in (f[x] + 1)..(f[x] + g[x]) : p = <<x, i>>
  OBVIOUS
<1>2. \A p : p \in Coins(h, S)
        <=> \E x \in S : \E i \in 1..(f[x] + g[x]) : p = <<x, i>>
  BY CoinIs
<1>3. \A p : p \in Coins(f, S) <=> \E x \in S : \E i \in 1..f[x] : p = <<x, i>>
  BY CoinIs
<1>4. \A p : p \in Coins(g, S) <=> \E x \in S : \E i \in 1..g[x] : p = <<x, i>>
  BY CoinIs
<1> HIDE DEF Moved, h
<1>5. \A p : p \in Coins(h, S) <=> p \in Coins(f, S) \/ p \in Moved
  <2>1. \A x \in S : \A i : i \in 1..(f[x] + g[x])
          <=> i \in 1..f[x] \/ i \in (f[x] + 1)..(f[x] + g[x])
    OBVIOUS
  <2> QED
    BY <1>1, <1>2, <1>3, <2>1
<1>6. Coins(h, S) = Coins(f, S) \cup Moved
  BY <1>5
<1>7. Coins(f, S) \cap Moved = {}
  <2>1. \A x \in S : \A i : ~(i \in 1..f[x] /\ i \in (f[x] + 1)..(f[x] + g[x]))
    OBVIOUS
  <2> QED
    BY <1>1, <1>3, <2>1
<1>8. shift \in Bijection(Coins(g, S), Moved)
  <2>1. shift \in [Coins(g, S) -> Moved]
    <3> SUFFICES ASSUME NEW p \in Coins(g, S)
                 PROVE  <<p[1], f[p[1]] + p[2]>> \in Moved
      OBVIOUS
    <3>1. PICK x \in S, i \in Int : i \in 1..g[x] /\ p = <<x, i>>
      BY <1>4
    <3>2. f[x] + i \in (f[x] + 1)..(f[x] + g[x])
      BY <3>1
    <3> QED
      BY <1>1, <3>1, <3>2
  <2>2. \A p, q \in Coins(g, S) : shift[p] = shift[q] => p = q
    <3> SUFFICES ASSUME NEW p \in Coins(g, S), NEW q \in Coins(g, S),
                        <<p[1], f[p[1]] + p[2]>> = <<q[1], f[q[1]] + q[2]>>
                 PROVE  p = q
      OBVIOUS
    <3>1. PICK x \in S, i \in Int : i \in 1..g[x] /\ p = <<x, i>>
      BY <1>4
    <3>2. PICK y \in S, j \in Int : j \in 1..g[y] /\ q = <<y, j>>
      BY <1>4
    <3>3. x = y /\ f[x] + i = f[y] + j
      BY <3>1, <3>2
    <3>4. i = j
      BY <3>3
    <3> QED
      BY <3>1, <3>2, <3>3, <3>4
  <2>3. \A q \in Moved : \E p \in Coins(g, S) : shift[p] = q
    <3> SUFFICES ASSUME NEW q \in Moved
                 PROVE  \E p \in Coins(g, S) : <<p[1], f[p[1]] + p[2]>> = q
      OBVIOUS
    <3>1. PICK x \in S, i \in Int : i \in (f[x] + 1)..(f[x] + g[x]) /\ q = <<x, i>>
      BY <1>1
    <3>2. i - f[x] \in 1..g[x] /\ f[x] + (i - f[x]) = i
      BY <3>1
    <3>3. <<x, i - f[x]>> \in Coins(g, S)
      BY <1>4, <3>2
    <3> QED
      BY <3>1, <3>2, <3>3
  <2>4. shift \in Surjection(Coins(g, S), Moved)
    BY <2>1, <2>3 DEF Surjection
  <2>5. shift \in Injection(Coins(g, S), Moved)
    BY <2>1, <2>2 DEF Injection, IsInjective
  <2> QED
    BY <2>4, <2>5 DEF Bijection
<1> HIDE DEF shift
<1>9. /\ IsFiniteSet(Coins(f, S)) /\ IsFiniteSet(Coins(g, S))
      /\ TotalOf(f, S) \in Nat /\ TotalOf(g, S) \in Nat
  BY TotalOfType
<1>10. ExistsBijection(Coins(g, S), Moved)
  BY <1>8 DEF ExistsBijection
<1>11. IsFiniteSet(Moved) /\ Cardinality(Moved) = Cardinality(Coins(g, S))
  BY <1>9, <1>10, FS_Bijection
<1>12. Cardinality(Coins(f, S) \cup Moved)
         = Cardinality(Coins(f, S)) + Cardinality(Moved)
             - Cardinality(Coins(f, S) \cap Moved)
  BY <1>9, <1>11, FS_Union
<1>13. Cardinality(Coins(f, S) \cap Moved) = 0
  BY <1>7, FS_EmptySet
<1>14. TotalOf(h, S) = TotalOf(f, S) + TotalOf(g, S)
  BY <1>6, <1>9, <1>11, <1>12, <1>13 DEF TotalOf
<1> QED
  BY <1>14 DEF h
=============================================================================
