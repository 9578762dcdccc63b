---------------------------- MODULE SetLemmas ------------------------------
(***************************************************************************)
(* What the sums of the models add up to.  MapThenSumSet takes the members *)
(* of a set in an order CHOOSE fixes; the lemmas show that the order does  *)
(* not matter: a sum grows by what a new member brings and shrinks by what *)
(* a member takes away.                                                    *)
(*                                                                         *)
(* The induction over finite sets is by infinite descent: among the sets   *)
(* that refute a claim there is a smallest one.                            *)
(***************************************************************************)
EXTENDS Integers, FiniteSets, FiniteSetsExt, FiniteSetTheorems,
        WellFoundedInduction, TLAPS

\* The sum of a function over a set, SUM(column) of the ledger's queries.
SetSum(f, S) == MapThenSumSet(LAMBDA x : f[x], S)

\* The member MapThenSumSet takes first.
First(s) == CHOOSE x \in s : TRUE

\* The table of partial sums SetSum looks its result up in.
IsSumTable(f, S, g) ==
  g = [s \in SUBSET S |-> IF s = {} THEN 0 ELSE f[First(s)] + g[s \ {First(s)}]]

\* Among finite sets there is one that no other is a part of.
LEMMA SmallestSet ==
  ASSUME NEW U, NEW F \in SUBSET SUBSET U, F # {}, \A s \in F : IsFiniteSet(s)
  PROVE  \E s \in F : \A t \in F : t \subseteq s => t = s
<1>1. IsWellFoundedOn(StrictSubsetOrdering(U), FiniteSubsetsOf(U))
  BY FS_StrictSubsetOrderingWellFounded
<1>2. F \subseteq FiniteSubsetsOf(U)
  BY DEF FiniteSubsetsOf
<1>3. PICK s \in F : \A t \in F : ~(<<t, s>> \in StrictSubsetOrdering(U))
  BY <1>1, <1>2, WFMin
<1>4. QED BY <1>3 DEF StrictSubsetOrdering

LEMMA SmallestPart ==
  ASSUME NEW U, IsFiniteSet(U), NEW F, F \subseteq SUBSET U, F # {}
  PROVE  \E s \in F : \A t \in F : t \subseteq s => t = s
<1>1. F \in SUBSET SUBSET U
  OBVIOUS
<1>2. \A s \in F : IsFiniteSet(s)
  BY FS_Subset
<1>3. QED BY <1>1, <1>2, SmallestSet

LEMMA FirstIsIn ==
  ASSUME NEW s, s # {}
  PROVE  First(s) \in s
  BY DEF First

LEMMA SumDef ==
  ASSUME NEW f, NEW S
  PROVE  SetSum(f, S) = (CHOOSE g : IsSumTable(f, S, g))[S]
  BY DEF SetSum, MapThenSumSet, MapThenFoldSet, IsSumTable, First

\* A table is a function on the subsets, and computes every entry from a
\* smaller one.
LEMMA TableEntries ==
  ASSUME NEW f, NEW S, NEW g, IsSumTable(f, S, g)
  PROVE  /\ DOMAIN g = SUBSET S
         /\ g = [s \in SUBSET S |-> g[s]]
         /\ \A s \in SUBSET S :
              g[s] = IF s = {} THEN 0 ELSE f[First(s)] + g[s \ {First(s)}]
<1> DEFINE row(s) == IF s = {} THEN 0 ELSE f[First(s)] + g[s \ {First(s)}]
<1>1. g = [s \in SUBSET S |-> row(s)]
  BY DEF IsSumTable
<1> HIDE DEF row
<1>2. DOMAIN g = SUBSET S /\ (\A s \in SUBSET S : g[s] = row(s)) /\ g = [s \in SUBSET S |-> g[s]]
  BY <1>1
<1>3. QED BY <1>2 DEF row

LEMMA TableEntry ==
  ASSUME NEW f, NEW S, NEW g, IsSumTable(f, S, g), NEW s \in SUBSET S
  PROVE  /\ s = {} => g[s] = 0
         /\ s # {} => g[s] = f[First(s)] + g[s \ {First(s)}]
<1> DEFINE row(t) == IF t = {} THEN 0 ELSE f[First(t)] + g[t \ {First(t)}]
<1>1. g = [t \in SUBSET S |-> row(t)]
  BY DEF IsSumTable
<1> HIDE DEF row
<1>2. g[s] = row(s)
  BY <1>1
<1>3. QED BY <1>2 DEF row

LEMMA TableFromEntries ==
  ASSUME NEW f, NEW S, NEW g, g = [s \in SUBSET S |-> g[s]],
         \A s \in SUBSET S :
           g[s] = IF s = {} THEN 0 ELSE f[First(s)] + g[s \ {First(s)}]
  PROVE  IsSumTable(f, S, g)
<1> DEFINE row(s) == IF s = {} THEN 0 ELSE f[First(s)] + g[s \ {First(s)}]
<1>1. \A s \in SUBSET S : g[s] = row(s)
  OBVIOUS
<1> HIDE DEF row
<1>2. [s \in SUBSET S |-> g[s]] = [s \in SUBSET S |-> row(s)]
  BY <1>1
<1>3. g = [s \in SUBSET S |-> row(s)]
  BY <1>2
<1>4. QED BY <1>3 DEF IsSumTable, row

\* Two functions that agree on a set have one table of sums.
LEMMA TablesAgree ==
  ASSUME NEW S, IsFiniteSet(S), NEW f, NEW k, \A x \in S : f[x] = k[x],
         NEW g, IsSumTable(f, S, g), NEW h, IsSumTable(k, S, h)
  PROVE  \A s \in SUBSET S : g[s] = h[s]
<1> DEFINE F == {s \in SUBSET S : g[s] # h[s]}
<1>1. SUFFICES ASSUME F # {} PROVE FALSE
  OBVIOUS
<1>2. F \subseteq SUBSET S
  OBVIOUS
<1> HIDE DEF F
<1>3. PICK s \in F : \A t \in F : t \subseteq s => t = s
  BY <1>1, <1>2, SmallestPart
<1> USE DEF F
<1>4. s \in SUBSET S /\ g[s] # h[s]
  BY <1>3
<1>5. /\ s = {} => g[s] = 0
      /\ s # {} => g[s] = f[First(s)] + g[s \ {First(s)}]
  BY <1>4, TableEntry
<1>6. /\ s = {} => h[s] = 0
      /\ s # {} => h[s] = k[First(s)] + h[s \ {First(s)}]
  <2>1. s \in SUBSET S /\ IsSumTable(k, S, h)
    BY <1>4
  <2>2. QED BY ONLY <2>1, TableEntry
<1>7. s # {}
  BY <1>4, <1>5, <1>6
<1>8. First(s) \in s
  BY <1>7, FirstIsIn
<1>9. s \ {First(s)} \notin F
  BY <1>3, <1>8
<1>10. g[s \ {First(s)}] = h[s \ {First(s)}] /\ f[First(s)] = k[First(s)]
  BY <1>4, <1>8, <1>9
<1>11. QED BY <1>4, <1>5, <1>6, <1>7, <1>10

\* The table of a set holds the table of each of its parts.
LEMMA TableOfPart ==
  ASSUME NEW f, NEW S, NEW g, IsSumTable(f, S, g), NEW v \in SUBSET S
  PROVE  IsSumTable(f, v, [s \in SUBSET v |-> g[s]])
<1> DEFINE h == [s \in SUBSET v |-> g[s]]
<1>1. h = [s \in SUBSET v |-> h[s]]
  OBVIOUS
<1>2. ASSUME NEW s \in SUBSET v
      PROVE  h[s] = IF s = {} THEN 0 ELSE f[First(s)] + h[s \ {First(s)}]
  <2>1. s \in SUBSET S /\ s \ {First(s)} \in SUBSET v
    OBVIOUS
  <2>2. /\ s = {} => g[s] = 0
        /\ s # {} => g[s] = f[First(s)] + g[s \ {First(s)}]
    BY <2>1, TableEntry
  <2>3. h[s] = g[s] /\ h[s \ {First(s)}] = g[s \ {First(s)}]
    BY <2>1
  <2>4. QED BY <2>2, <2>3
<1> HIDE DEF h
<1>3. IsSumTable(f, v, h)
  BY <1>1, <1>2, TableFromEntries
<1>4. QED BY <1>3 DEF h

\* Every finite set has a table of sums.
LEMMA TableExists ==
  ASSUME NEW f, NEW S, IsFiniteSet(S)
  PROVE  \E g : IsSumTable(f, S, g)
<1> DEFINE F == {s \in SUBSET S : ~ \E g : IsSumTable(f, s, g)}
<1>1. SUFFICES ASSUME F # {} PROVE FALSE
  OBVIOUS
<1>2. F \subseteq SUBSET S
  OBVIOUS
<1> HIDE DEF F
<1>3. PICK v \in F : \A t \in F : t \subseteq v => t = v
  BY <1>1, <1>2, SmallestPart
<1> USE DEF F
<1> DEFINE G(s) == CHOOSE g : IsSumTable(f, s, g)
           Row(s) == IF s = {} THEN 0
                     ELSE f[First(s)] + G(s \ {First(s)})[s \ {First(s)}]
           h == [s \in SUBSET v |-> Row(s)]
<1>4. v \in SUBSET S /\ IsFiniteSet(v)
  BY <1>3, FS_Subset
<1>5. ASSUME NEW t \in SUBSET v, t # v PROVE IsSumTable(f, t, G(t))
  <2>1. t \notin F
    BY <1>3, <1>5
  <2>2. \E g : IsSumTable(f, t, g)
    BY <1>4, <2>1
  <2>3. QED BY <2>2
<1> HIDE DEF G
<1>6. ASSUME NEW t \in SUBSET v, t # v PROVE G(t)[t] = Row(t)
  <2>1. IsSumTable(f, t, G(t)) /\ t \in SUBSET t
    BY <1>5, <1>6
  <2>2. /\ t = {} => G(t)[t] = 0
        /\ t # {} => G(t)[t] = f[First(t)] + G(t)[t \ {First(t)}]
    BY <2>1, TableEntry
  <2>3. CASE t = {}
    BY <2>2, <2>3
  <2>4. CASE t # {}
    <3> DEFINE u == t \ {First(t)}
    <3>1. u \in SUBSET t /\ u \in SUBSET v /\ u # v
      BY <1>6, <2>4, FirstIsIn
    <3>2. IsSumTable(f, u, G(u)) /\ IsSumTable(f, t, G(t))
      BY <1>5, <1>6, <3>1
    <3>3. IsSumTable(f, u, [s \in SUBSET u |-> G(t)[s]])
      BY <3>1, <3>2, TableOfPart
    <3>4. IsFiniteSet(u)
      BY <1>4, <3>1, FS_Subset
    <3> HIDE DEF u
    <3>5. \A s \in SUBSET u : G(u)[s] = [r \in SUBSET u |-> G(t)[r]][s]
      BY <3>2, <3>3, <3>4, TablesAgree
    <3>6. u \in SUBSET u
      OBVIOUS
    <3>7. G(u)[u] = G(t)[u]
      BY <3>5, <3>6
    <3>8. QED BY <2>2, <2>4, <3>7 DEF u
  <2>5. QED BY <2>3, <2>4
<1>7. ASSUME NEW s \in SUBSET v
      PROVE  h[s] = IF s = {} THEN 0 ELSE f[First(s)] + h[s \ {First(s)}]
  <2>1. CASE s = {}
    BY <2>1
  <2>2. CASE s # {}
    <3> DEFINE u == s \ {First(s)}
    <3>1. u \in SUBSET v /\ u # v
      BY <2>2, FirstIsIn
    <3>2. h[u] = Row(u) /\ G(u)[u] = Row(u)
      BY <1>6, <3>1
    <3>3. h[s] = f[First(s)] + G(u)[u]
      BY <2>2
    <3>4. QED BY <2>2, <3>2, <3>3
  <2>3. QED BY <2>1, <2>2
<1>8. h = [s \in SUBSET v |-> h[s]]
  OBVIOUS
<1> HIDE DEF h
<1>9. IsSumTable(f, v, h)
  BY <1>7, <1>8, TableFromEntries
<1>10. QED BY <1>3, <1>9

\* Whatever table a set has, its last entry is the sum.
LEMMA SumOfTable ==
  ASSUME NEW f, NEW S, IsFiniteSet(S), NEW g, IsSumTable(f, S, g), NEW v \in SUBSET S
  PROVE  g[v] = SetSum(f, v)
<1> DEFINE h == CHOOSE k : IsSumTable(f, v, k)
           p == [s \in SUBSET v |-> g[s]]
<1>1. IsFiniteSet(v)
  BY FS_Subset
<1>2. IsSumTable(f, v, h)
  BY <1>1, TableExists
<1>3. IsSumTable(f, v, p)
  BY TableOfPart
<1>4. p[v] = g[v] /\ SetSum(f, v) = h[v]
  BY SumDef
<1> HIDE DEF h, p
<1>5. p[v] = h[v]
  BY <1>1, <1>2, <1>3, TablesAgree
<1>6. QED BY <1>4, <1>5
-----------------------------------------------------------------------------
\* How MapThenSumSet computes: nothing for the empty set, otherwise its first
\* member and the rest.
LEMMA SumFirst ==
  ASSUME NEW f, NEW S, IsFiniteSet(S)
  PROVE  /\ S = {} => SetSum(f, S) = 0
         /\ S # {} => SetSum(f, S) = f[First(S)] + SetSum(f, S \ {First(S)})
<1>1. PICK g : IsSumTable(f, S, g)
  BY TableExists
<1>2. S \in SUBSET S /\ S \ {First(S)} \in SUBSET S
  OBVIOUS
<1>3. g[S] = SetSum(f, S)
  BY <1>1, <1>2, SumOfTable
<1>4. g[S \ {First(S)}] = SetSum(f, S \ {First(S)})
  BY <1>1, <1>2, SumOfTable
<1>5. /\ S = {} => g[S] = 0
      /\ S # {} => g[S] = f[First(S)] + g[S \ {First(S)}]
  BY <1>1, <1>2, TableEntry
<1>6. QED BY <1>3, <1>4, <1>5

LEMMA SumEmpty ==
  ASSUME NEW f
  PROVE  SetSum(f, {}) = 0
  BY SumFirst, FS_EmptySet

\* Functions that agree on a set have the same sum.
LEMMA SumSame ==
  ASSUME NEW S, IsFiniteSet(S), NEW f, NEW k, \A x \in S : f[x] = k[x]
  PROVE  SetSum(f, S) = SetSum(k, S)
<1>1. PICK g : IsSumTable(f, S, g)
  BY TableExists
<1>2. PICK h : IsSumTable(k, S, h)
  BY TableExists
<1>3. S \in SUBSET S
  OBVIOUS
<1>4. g[S] = h[S]
  BY <1>1, <1>2, <1>3, TablesAgree
<1>5. g[S] = SetSum(f, S)
  BY <1>1, <1>3, SumOfTable
<1>6. h[S] = SetSum(k, S)
  <2>1. IsFiniteSet(S) /\ IsSumTable(k, S, h) /\ S \in SUBSET S
    BY <1>2
  <2>2. QED BY ONLY <2>1, SumOfTable
<1>7. QED BY <1>4, <1>5, <1>6

\* A sum of integers is an integer.
LEMMA SumType ==
  ASSUME NEW S, IsFiniteSet(S), NEW f, \A x \in S : f[x] \in Int
  PROVE  SetSum(f, S) \in Int
<1> DEFINE F == {s \in SUBSET S : SetSum(f, s) \notin Int}
<1>1. SUFFICES ASSUME F # {} PROVE FALSE
  OBVIOUS
<1>2. F \subseteq SUBSET S
  OBVIOUS
<1> HIDE DEF F
<1>3. PICK s \in F : \A t \in F : t \subseteq s => t = s
  BY <1>1, <1>2, SmallestPart
<1> USE DEF F
<1>4. s \in SUBSET S /\ IsFiniteSet(s) /\ SetSum(f, s) \notin Int
  BY <1>3, FS_Subset
<1>5. /\ s = {} => SetSum(f, s) = 0
      /\ s # {} => SetSum(f, s) = f[First(s)] + SetSum(f, s \ {First(s)})
  BY <1>4, SumFirst
<1>6. s # {}
  BY <1>4, <1>5
<1>7. First(s) \in s
  BY <1>6, FirstIsIn
<1>8. SetSum(f, s \ {First(s)}) \in Int
  BY <1>3, <1>4, <1>7
<1>9. f[First(s)] \in Int
  BY <1>4, <1>7
<1>10. QED BY <1>4, <1>5, <1>6, <1>8, <1>9

\* Any member may be counted first.
LEMMA SumRemove ==
  ASSUME NEW S, IsFiniteSet(S), NEW f, \A x \in S : f[x] \in Int, NEW a \in S
  PROVE  SetSum(f, S) = f[a] + SetSum(f, S \ {a})
<1> DEFINE Differs(s, x) == SetSum(f, s) # f[x] + SetSum(f, s \ {x})
           F == {s \in SUBSET S : \E x \in s : Differs(s, x)}
<1>1. SUFFICES F = {}
  BY S \in SUBSET S
<1>2. SUFFICES ASSUME F # {} PROVE FALSE
  OBVIOUS
<1>3. F \subseteq SUBSET S
  OBVIOUS
<1> HIDE DEF F
<1>4. PICK s \in F : \A t \in F : t \subseteq s => t = s
  BY <1>2, <1>3, SmallestPart
<1> HIDE DEF Differs
<1>5. s \in SUBSET S /\ IsFiniteSet(s)
  BY <1>3, <1>4, FS_Subset
<1>6. PICK x \in s : Differs(s, x)
  BY <1>4 DEF F
<1> DEFINE b == First(s)
<1>7. b \in s
  BY <1>6, FirstIsIn
<1>8. SetSum(f, s) = f[b] + SetSum(f, s \ {b})
  BY <1>5, <1>6, SumFirst
<1> HIDE DEF b
<1>9. b # x
  BY <1>6, <1>8 DEF Differs
<1>10. \A t \in SUBSET s : t # s => \A y \in t : ~Differs(t, y)
  BY <1>4, <1>5 DEF F
<1>11. ~Differs(s \ {b}, x) /\ ~Differs(s \ {x}, b)
  BY <1>7, <1>9, <1>10
<1> DEFINE r == (s \ {b}) \ {x}
<1>12. (s \ {x}) \ {b} = r
  OBVIOUS
<1>13. IsFiniteSet(r) /\ \A y \in r : f[y] \in Int
  BY <1>5, FS_Subset
<1>14. SetSum(f, r) \in Int
  <2> HIDE DEF r
  <2>1. QED BY <1>13, SumType
<1>15. f[x] \in Int /\ f[b] \in Int
  BY <1>5, <1>7
<1>16. /\ SetSum(f, s \ {b}) = f[x] + SetSum(f, r)
       /\ SetSum(f, s \ {x}) = f[b] + SetSum(f, r)
  BY <1>11, <1>12 DEF Differs
<1>17. SetSum(f, s) # f[x] + SetSum(f, s \ {x})
  BY <1>6 DEF Differs
<1> HIDE DEF r
<1>18. QED BY <1>8, <1>14, <1>15, <1>16, <1>17

\* A new member adds what it brings.
LEMMA SumAdd ==
  ASSUME NEW S, IsFiniteSet(S), NEW f, NEW a, a \notin S,
         f[a] \in Int, \A x \in S : f[x] \in Int
  PROVE  SetSum(f, S \cup {a}) = SetSum(f, S) + f[a]
<1> DEFINE T == S \cup {a}
<1>1. IsFiniteSet(T)
  BY FS_AddElement
<1>2. a \in T /\ \A x \in T : f[x] \in Int
  OBVIOUS
<1>3. T \ {a} = S
  OBVIOUS
<1>4. SetSum(f, S) \in Int
  BY SumType
<1> HIDE DEF T
<1>5. SetSum(f, T) = f[a] + SetSum(f, T \ {a})
  BY <1>1, <1>2, SumRemove
<1>6. SetSum(f, T) = f[a] + SetSum(f, S)
  BY <1>3, <1>5, Zenon
<1>7. SetSum(f, T) = SetSum(f, S) + f[a]
  BY <1>4, <1>6
<1>8. QED BY <1>7 DEF T

\* If only one member brings anything, the sum is what it brings.
LEMMA SumOfZeros ==
  ASSUME NEW S, IsFiniteSet(S), NEW f, \A x \in S : f[x] = 0
  PROVE  SetSum(f, S) = 0
<1> DEFINE F == {s \in SUBSET S : SetSum(f, s) # 0}
<1>1. SUFFICES ASSUME F # {} PROVE FALSE
  BY S \in SUBSET S
<1>2. F \subseteq SUBSET S
  OBVIOUS
<1> HIDE DEF F
<1>3. PICK s \in F : \A t \in F : t \subseteq s => t = s
  BY <1>1, <1>2, SmallestPart
<1> USE DEF F
<1>4. s \in SUBSET S /\ IsFiniteSet(s) /\ SetSum(f, s) # 0
  BY <1>3, FS_Subset
<1>5. /\ s = {} => SetSum(f, s) = 0
      /\ s # {} => SetSum(f, s) = f[First(s)] + SetSum(f, s \ {First(s)})
  BY <1>4, SumFirst
<1>6. First(s) \in s
  BY <1>4, <1>5, FirstIsIn
<1>7. SetSum(f, s \ {First(s)}) = 0
  BY <1>3, <1>4, <1>6
<1>8. f[First(s)] = 0
  BY <1>4, <1>6
<1>9. QED BY <1>4, <1>5, <1>6, <1>7, <1>8

LEMMA SumOfOne ==
  ASSUME NEW S, IsFiniteSet(S), NEW f, NEW a \in S, f[a] \in Int,
         \A x \in S : x # a => f[x] = 0
  PROVE  SetSum(f, S) = f[a]
<1>1. \A x \in S : f[x] \in Int
  OBVIOUS
<1>2. SetSum(f, S) = f[a] + SetSum(f, S \ {a})
  BY <1>1, SumRemove
<1>3. IsFiniteSet(S \ {a}) /\ \A x \in S \ {a} : f[x] = 0
  BY FS_Subset
<1> DEFINE T == S \ {a}
<1> HIDE DEF T
<1>4. SetSum(f, T) = 0
  BY <1>3, SumOfZeros DEF T
<1>5. QED BY <1>2, <1>4 DEF T

\* A set may be summed in two parts.
LEMMA SumSplit ==
  ASSUME NEW S, IsFiniteSet(S), NEW f, \A x \in S : f[x] \in Int, NEW T, T \subseteq S
  PROVE  SetSum(f, S) = SetSum(f, T) + SetSum(f, S \ T)
<1> DEFINE Parts(s) == SetSum(f, S) = SetSum(f, s) + SetSum(f, S \ s)
           F == {s \in SUBSET S : ~Parts(s)}
<1>1. SUFFICES ASSUME F # {} PROVE FALSE
  OBVIOUS
<1>2. F \subseteq SUBSET S
  OBVIOUS
<1> HIDE DEF F
<1>3. PICK s \in F : \A t \in F : t \subseteq s => t = s
  BY <1>1, <1>2, SmallestPart
<1> HIDE DEF Parts
<1>4. s \in SUBSET S /\ ~Parts(s) /\ IsFiniteSet(s)
  BY <1>3, FS_Subset DEF F
<1>5. s # {}
  <2>1. SetSum(f, {}) = 0 /\ SetSum(f, S) \in Int /\ S \ {} = S
    BY SumEmpty, SumType
  <2>2. Parts({})
    BY <2>1 DEF Parts
  <2>3. QED BY <1>4, <2>2
<1>6. PICK a \in s : TRUE
  BY <1>5
<1> DEFINE t == s \ {a}
           r == S \ s
<1>7. Parts(t)
  BY <1>3, <1>4 DEF F
<1>8. /\ IsFiniteSet(t) /\ IsFiniteSet(r) /\ a \notin r /\ f[a] \in Int /\ S \ t = r \cup {a}
      /\ \A x \in t : f[x] \in Int
      /\ \A x \in r : f[x] \in Int
      /\ \A x \in s : f[x] \in Int
  BY <1>4, FS_Subset
<1>9. SetSum(f, s) = f[a] + SetSum(f, t)
  BY <1>4, <1>8, SumRemove
<1> HIDE DEF t
<1>10. SetSum(f, S) = SetSum(f, t) + SetSum(f, r \cup {a})
  BY <1>7, <1>8 DEF Parts
<1>11. SetSum(f, S) # SetSum(f, s) + SetSum(f, r)
  BY <1>4 DEF Parts
<1> HIDE DEF r
<1>12. SetSum(f, r \cup {a}) = SetSum(f, r) + f[a]
  BY <1>8, SumAdd
<1>13. SetSum(f, r) \in Int /\ SetSum(f, t) \in Int
  BY <1>8, SumType
<1>14. QED BY <1>8, <1>9, <1>10, <1>11, <1>12, <1>13

\* What holds its balance member by member holds it in sum.
LEMMA SumsBalance ==
  ASSUME NEW S, IsFiniteSet(S), NEW f, NEW k,
         \A x \in S : f[x] \in Int /\ k[x] \in Int /\ f[x] + k[x] >= 0
  PROVE  SetSum(f, S) + SetSum(k, S) >= 0
<1> DEFINE Bad(s) == ~(SetSum(f, s) + SetSum(k, s) >= 0)
           F == {s \in SUBSET S : Bad(s)}
<1>1. SUFFICES ASSUME F # {} PROVE FALSE
  BY S \in SUBSET S
<1>2. F \subseteq SUBSET S
  OBVIOUS
<1> HIDE DEF F
<1>3. PICK s \in F : \A t \in F : t \subseteq s => t = s
  BY <1>1, <1>2, SmallestPart
<1> HIDE DEF Bad
<1>4. s \in SUBSET S /\ Bad(s) /\ IsFiniteSet(s)
  BY <1>3, FS_Subset DEF F
<1>5. s # {}
  BY <1>4, SumEmpty DEF Bad
<1>6. PICK a \in s : TRUE
  BY <1>5
<1> DEFINE t == s \ {a}
<1>7. ~Bad(t)
  BY <1>3, <1>4 DEF F
<1>8. /\ IsFiniteSet(t) /\ f[a] \in Int /\ k[a] \in Int /\ f[a] + k[a] >= 0
      /\ \A x \in t : f[x] \in Int
      /\ \A x \in t : k[x] \in Int
      /\ \A x \in s : f[x] \in Int
      /\ \A x \in s : k[x] \in Int
  BY <1>4, FS_Subset
<1>9. SetSum(f, s) = f[a] + SetSum(f, t)
  BY <1>4, <1>8, SumRemove
<1>10. SetSum(k, s) = k[a] + SetSum(k, t)
  BY <1>4, <1>8, SumRemove
<1> HIDE DEF t
<1>11. SetSum(f, t) \in Int /\ SetSum(k, t) \in Int
  BY <1>8, SumType
<1>12. QED BY <1>4, <1>7, <1>8, <1>9, <1>10, <1>11 DEF Bad

\* Members that add nothing negative can be left out of a lower bound.
LEMMA SumMonotone ==
  ASSUME NEW S, IsFiniteSet(S), NEW f, \A x \in S : f[x] \in Int,
         NEW T, T \subseteq S, \A x \in S \ T : f[x] >= 0
  PROVE  SetSum(f, T) <= SetSum(f, S)
<1> DEFINE Bad(s) == T \subseteq s /\ ~(SetSum(f, T) <= SetSum(f, s))
           F == {s \in SUBSET S : Bad(s)}
<1>1. SUFFICES F = {}
  BY S \in SUBSET S
<1>2. SUFFICES ASSUME F # {} PROVE FALSE
  OBVIOUS
<1>3. F \subseteq SUBSET S
  OBVIOUS
<1> HIDE DEF F
<1>4. PICK s \in F : \A t \in F : t \subseteq s => t = s
  BY <1>2, <1>3, SmallestPart
<1> HIDE DEF Bad
<1>5. s \in SUBSET S /\ IsFiniteSet(s) /\ Bad(s)
  BY <1>3, <1>4, FS_Subset DEF F
<1>6. SetSum(f, T) \in Int
  BY FS_Subset, SumType
<1>7. T # s /\ T \subseteq s
  BY <1>5, <1>6 DEF Bad
<1>8. PICK a \in s : a \notin T
  BY <1>7
<1>9. \A x \in s : f[x] \in Int
  BY <1>5
<1>10. SetSum(f, s) = f[a] + SetSum(f, s \ {a})
  BY <1>5, <1>9, SumRemove
<1>11. s \ {a} \in SUBSET S /\ s \ {a} # s /\ s \ {a} \subseteq s
  BY <1>5
<1>12. ~Bad(s \ {a})
  BY <1>4, <1>11 DEF F
<1>13. SetSum(f, T) <= SetSum(f, s \ {a})
  BY <1>7, <1>8, <1>12 DEF Bad
<1>14. IsFiniteSet(s \ {a}) /\ \A x \in s \ {a} : f[x] \in Int
  BY <1>5, FS_Subset
<1>15. SetSum(f, s \ {a}) \in Int
  <2> DEFINE r == s \ {a}
  <2> HIDE DEF r
  <2>1. IsFiniteSet(r) /\ \A x \in r : f[x] \in Int
    BY <1>14 DEF r
  <2>2. SetSum(f, r) \in Int
    BY <2>1, SumType
  <2>3. QED BY <2>2 DEF r
<1>16. f[a] \in Int /\ f[a] >= 0
  BY <1>5, <1>8
<1>17. SetSum(f, T) <= SetSum(f, s)
  BY <1>6, <1>10, <1>13, <1>15, <1>16
<1>18. QED BY <1>5, <1>17 DEF Bad

\* SUM(column * column), and that it is the sum of the products.
ProductSum(f, k, S) == MapThenSumSet(LAMBDA x : f[x] * k[x], S)

LEMMA ProductSumIsSum ==
  ASSUME NEW f, NEW k, NEW S, IsFiniteSet(S)
  PROVE  ProductSum(f, k, S) = SetSum([x \in S |-> f[x] * k[x]], S)
<1> DEFINE e == [x \in S |-> f[x] * k[x]]
           Row(g, s) == IF s = {} THEN 0 ELSE (f[First(s)] * k[First(s)]) + g[s \ {First(s)}]
           IsTable(g) == g = [s \in SUBSET S |-> Row(g, s)]
           c == CHOOSE g : IsTable(g)
<1>1. ProductSum(f, k, S) = c[S]
  BY DEF ProductSum, MapThenSumSet, MapThenFoldSet, First
<1>2. \A s \in SUBSET S : s # {} => e[First(s)] = f[First(s)] * k[First(s)]
  BY FirstIsIn
<1> HIDE DEF e
<1>3. ASSUME NEW g PROVE IsTable(g) <=> IsSumTable(e, S, g)
  <2> DEFINE Cell(s) == IF s = {} THEN 0 ELSE e[First(s)] + g[s \ {First(s)}]
  <2>1. \A s \in SUBSET S : Row(g, s) = Cell(s)
    BY <1>2
  <2> HIDE DEF Row, Cell
  <2>2. [s \in SUBSET S |-> Row(g, s)] = [s \in SUBSET S |-> Cell(s)]
    BY <2>1
  <2>3. IsSumTable(e, S, g) <=> g = [s \in SUBSET S |-> Cell(s)]
    BY DEF IsSumTable, Cell
  <2>4. QED BY <2>2, <2>3
<1> HIDE DEF IsTable
<1>4. \E g : IsTable(g)
  BY <1>3, TableExists
<1>5. IsTable(c)
  BY <1>4
<1> HIDE DEF c
<1>6. IsSumTable(e, S, c) /\ S \in SUBSET S
  BY <1>3, <1>5
<1>7. c[S] = SetSum(e, S)
  BY <1>6, SumOfTable
<1>8. QED BY <1>1, <1>7 DEF e

\* A sum whose members are bounded from below is bounded by their number.
LEMMA SumLowerBound ==
  ASSUME NEW S, IsFiniteSet(S), NEW f, NEW w \in Nat,
         \A x \in S : f[x] \in Int /\ f[x] >= -w
  PROVE  SetSum(f, S) >= -(w * Cardinality(S))
<1> DEFINE Bad(s) == ~(SetSum(f, s) >= -(w * Cardinality(s)))
           F == {s \in SUBSET S : Bad(s)}
<1>1. SUFFICES F = {}
  BY S \in SUBSET S
<1>2. SUFFICES ASSUME F # {} PROVE FALSE
  OBVIOUS
<1>3. F \subseteq SUBSET S
  OBVIOUS
<1> HIDE DEF F
<1>4. PICK s \in F : \A t \in F : t \subseteq s => t = s
  BY <1>2, <1>3, SmallestPart
<1> HIDE DEF Bad
<1>5. s \in SUBSET S /\ IsFiniteSet(s) /\ Bad(s)
  BY <1>3, <1>4, FS_Subset DEF F
<1>6. CASE s = {}
  <2>1. Cardinality(s) = 0 /\ SetSum(f, s) = 0
    BY <1>6, SumEmpty, FS_EmptySet
  <2>2. QED BY <1>5, <2>1 DEF Bad
<1>7. CASE s # {}
  <2>1. PICK a : a \in s
    BY <1>7
  <2> DEFINE r == s \ {a}
             n == Cardinality(r)
  <2>2. r \in SUBSET S /\ r \subseteq s /\ r # s
    BY <1>5, <2>1
  <2>3. ~Bad(r)
    BY <1>4, <2>2 DEF F
  <2>4. IsFiniteSet(r) /\ n \in Nat /\ Cardinality(s) = n + 1
    <3>1. Cardinality(s) \in Nat
      BY <1>5, FS_CardinalityType
    <3>2. IsFiniteSet(r) /\ n = Cardinality(s) - 1
      BY <1>5, <2>1, FS_RemoveElement
    <3>3. n \in Nat
      BY <3>2, FS_CardinalityType
    <3>4. QED BY <3>1, <3>2, <3>3
  <2>5. \A x \in s : f[x] \in Int
    BY <1>5
  <2>6. SetSum(f, s) = f[a] + SetSum(f, r)
    BY <1>5, <2>1, <2>5, SumRemove
  <2> HIDE DEF r
  <2>7. SetSum(f, r) \in Int
    BY <2>2, <2>4, SumType
  <2>8. SetSum(f, r) >= -(w * n)
    BY <2>3 DEF Bad
  <2>9. f[a] \in Int /\ f[a] >= -w
    BY <1>5, <2>1
  <2>10. w * (n + 1) = w * n + w /\ w * n \in Int
    BY <2>4
  <2> HIDE DEF n
  <2>11. SetSum(f, s) >= -(w * (n + 1))
    BY <2>6, <2>7, <2>8, <2>9, <2>10
  <2>12. QED BY <1>5, <2>4, <2>11 DEF Bad
<1>8. QED BY <1>6, <1>7
-----------------------------------------------------------------------------
\* A finite set of integers has a least and a greatest member.
LEMMA MinIsLeast ==
  ASSUME NEW S, S \subseteq Int, S # {}, IsFiniteSet(S)
  PROVE  Min(S) \in S /\ \A y \in S : Min(S) <= y
<1> DEFINE Part(x) == {y \in S : y <= x}
           F == {Part(x) : x \in S}
<1>1. F # {}
  OBVIOUS
<1>2. F \subseteq SUBSET S
  OBVIOUS
<1> HIDE DEF F
<1>3. IsFiniteSet(S)
  OBVIOUS
<1>4. \E s \in F : \A t \in F : t \subseteq s => t = s
  BY ONLY <1>1, <1>2, <1>3, SmallestPart
<1>5. PICK s \in F : \A t \in F : t \subseteq s => t = s
  BY <1>4
<1>6. PICK x \in S : s = Part(x)
  BY DEF F
<1>7. ASSUME NEW y \in S, ~(x <= y) PROVE FALSE
  <2>1. ASSUME NEW z \in Part(y) PROVE z \in Part(x)
    <3>1. x \in Int /\ y \in Int /\ z \in Int /\ z \in S
      OBVIOUS
    <3>2. QED BY <1>7, <3>1
  <2>2. Part(y) \subseteq Part(x) /\ Part(y) \in F
    BY <2>1 DEF F
  <2>3. Part(y) = Part(x)
    BY <1>5, <1>6, <2>2
  <2>4. x \in Part(x)
    OBVIOUS
  <2>5. QED BY <1>7, <2>3, <2>4
<1>8. \E z \in S : \A y \in S : z <= y
  BY <1>7
<1>9. QED BY <1>8 DEF Min

LEMMA MaxIsGreatest ==
  ASSUME NEW S, S \subseteq Int, S # {}, IsFiniteSet(S)
  PROVE  Max(S) \in S /\ \A y \in S : Max(S) >= y
<1> DEFINE Part(x) == {y \in S : y >= x}
           F == {Part(x) : x \in S}
<1>1. F # {}
  OBVIOUS
<1>2. F \subseteq SUBSET S
  OBVIOUS
<1> HIDE DEF F
<1>3. IsFiniteSet(S)
  OBVIOUS
<1>4. \E s \in F : \A t \in F : t \subseteq s => t = s
  BY ONLY <1>1, <1>2, <1>3, SmallestPart
<1>5. PICK s \in F : \A t \in F : t \subseteq s => t = s
  BY <1>4
<1>6. PICK x \in S : s = Part(x)
  BY DEF F
<1>7. ASSUME NEW y \in S, ~(x >= y) PROVE FALSE
  <2>1. ASSUME NEW z \in Part(y) PROVE z \in Part(x)
    <3>1. x \in Int /\ y \in Int /\ z \in Int /\ z \in S
      OBVIOUS
    <3>2. QED BY <1>7, <3>1
  <2>2. Part(y) \subseteq Part(x) /\ Part(y) \in F
    BY <2>1 DEF F
  <2>3. Part(y) = Part(x)
    BY <1>5, <1>6, <2>2
  <2>4. x \in Part(x)
    OBVIOUS
  <2>5. QED BY <1>7, <2>3, <2>4
<1>8. \E z \in S : \A y \in S : z >= y
  BY <1>7
<1>9. QED BY <1>8 DEF Max

\* Among natural numbers, however many, there is a least one.
LEMMA MinOfNaturals ==
  ASSUME NEW S, S \subseteq Nat, S # {}
  PROVE  Min(S) \in S /\ \A y \in S : Min(S) <= y
<1>1. PICK k \in S : k \in Nat
  OBVIOUS
<1> DEFINE T == {x \in S : x <= k}
<1>2. T \subseteq 0..k /\ k \in Nat /\ k \in T
  <2>1. k \in T
    <3>1. k <= k
      BY <1>1
    <3>2. QED BY <3>1
  <2>2. ASSUME NEW x \in S, x <= k PROVE x \in 0..k
    BY <1>1, <2>2
  <2>3. QED BY <1>1, <2>1, <2>2
<1>3. IsFiniteSet(0..k)
  BY <1>2, FS_Interval
<1>4. T \subseteq Int /\ T # {} /\ IsFiniteSet(T)
  BY <1>2, <1>3, FS_Subset
<1> HIDE DEF T
<1>5. Min(T) \in T /\ \A y \in T : Min(T) <= y
  BY <1>4, MinIsLeast
<1>6. ASSUME NEW y \in S PROVE Min(T) <= y
  <2>1. Min(T) <= k /\ Min(T) \in Nat
    BY <1>2, <1>5 DEF T
  <2>2. CASE y <= k
    BY <1>5, <1>6, <2>2 DEF T
  <2>3. CASE ~(y <= k)
    <3>1. y \in Nat
      BY <1>6
    <3>2. QED BY <1>2, <2>1, <2>3, <3>1
  <2>4. QED BY <2>2, <2>3
<1>7. Min(T) \in S
  BY <1>5 DEF T
<1>8. \E x \in S : \A y \in S : x <= y
  BY <1>6, <1>7
<1>9. QED BY <1>8 DEF Min
=============================================================================
