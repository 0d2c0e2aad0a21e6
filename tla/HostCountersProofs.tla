------------------------- MODULE HostCountersProofs --------------------------
(***************************************************************************)
(* That rx_drops is at least what the receive queues dropped, at most what *)
(* the kernel printed, and absent if it printed nothing, and when it is    *)
(* exactly those drops: for any hosts and any finite set of statistics of  *)
(* any kernel.                                                             *)
(*                                                                         *)
(* Total is a fold over a set.  What it needs of induction is derived here *)
(* from the least element of a set of numbers (WFMin), as an induction     *)
(* over a set of subsets.                                                  *)
(***************************************************************************)
EXTENDS HostCounters, FiniteSetTheorems, TLAPS

-----------------------------------------------------------------------------
(* Lemma: a set that has 0, and the successor of each of its numbers, has    *)
(* all numbers.                                                              *)
LEMMA AllNumbers ==
  ASSUME NEW T, 0 \in T, \A n \in Nat : n \in T => n + 1 \in T
  PROVE  Nat \subseteq T
<1> DEFINE Missing == {n \in Nat : n \notin T}
<1> SUFFICES ASSUME Missing # {} PROVE FALSE
  OBVIOUS
<1>1. PICK m \in Missing : \A n \in Missing : <<n, m>> \notin OpToRel(<, Nat)
  BY NatLessThanWellFounded, WFMin
<1>2. m \in Nat /\ m # 0
  OBVIOUS
<1>3. m - 1 \in Nat /\ (m - 1) + 1 = m
  BY <1>2
<1>4. m - 1 \in Missing
  BY <1>2, <1>3
<1>5. <<m - 1, m>> \in OpToRel(<, Nat)
  BY <1>2, <1>3 DEF OpToRel
<1> QED  BY <1>1, <1>4, <1>5

(* Lemma: a set that has the empty set, and every subset of S all of whose   *)
(* smaller-by-one subsets it has, has every subset of S, if S is finite.     *)
LEMMA AllSubsets ==
  ASSUME NEW S, IsFiniteSet(S), NEW P, {} \in P,
         \A s \in SUBSET S : s # {} /\ (\A x \in s : s \ {x} \in P) => s \in P
  PROVE  SUBSET S \subseteq P
<1> DEFINE T == {n \in Nat : \A s \in SUBSET S : Cardinality(s) = n => s \in P}
<1>1. ASSUME NEW s \in SUBSET S PROVE IsFiniteSet(s) /\ Cardinality(s) \in Nat
  BY FS_Subset, FS_CardinalityType
<1>2. 0 \in T
  BY <1>1, FS_EmptySet
<1>3. ASSUME NEW n \in Nat, n \in T PROVE n + 1 \in T
  <2> SUFFICES ASSUME NEW s \in SUBSET S, Cardinality(s) = n + 1 PROVE s \in P
    OBVIOUS
  <2>1. s # {}
    BY FS_EmptySet
  <2>2. ASSUME NEW x \in s PROVE s \ {x} \in P
    <3>1. Cardinality(s \ {x}) = n
      BY <1>1, FS_RemoveElement
    <3> QED  BY <1>3, <3>1
  <2> QED  BY <2>1, <2>2
<1> HIDE DEF T
<1>4. Nat \subseteq T
  BY <1>2, <1>3, AllNumbers
<1> QED  BY <1>1, <1>4 DEF T

-----------------------------------------------------------------------------
(* The element that the fold takes out of a set next, and the functions that *)
(* are the fold, on the subsets of S.                                        *)
Taken(s) == CHOOSE x \in s : TRUE
AddsUp(f, stats, S) ==
    f = [s \in SUBSET S |-> IF s = {} THEN 0 ELSE stats[Taken(s)] + f[s \ {Taken(s)}]]

(* Lemma: one element at a time is taken out. *)
LEMMA TakenOut == \A s : s # {} => Taken(s) \in s
BY DEF Taken

(* Lemma: a total is the value at S of a function that is the fold. *)
LEMMA TotalIsFold ==
  ASSUME NEW stats, NEW S
  PROVE  Total(stats, S) = (CHOOSE f : AddsUp(f, stats, S))[S]
BY DEF Total, AddsUp, Taken, MapThenSumSet, MapThenFoldSet

(* Lemma: on a finite set there is such a function: the definition of the    *)
(* fold is sound.                                                            *)
LEMMA FoldExists ==
  ASSUME NEW stats, NEW S, IsFiniteSet(S)
  PROVE  \E f : AddsUp(f, stats, S)
<1> DEFINE Small(n) == {s \in SUBSET S : Cardinality(s) <= n}
           Turn(f, s) == IF s = {} THEN 0 ELSE stats[Taken(s)] + f[s \ {Taken(s)}]
           Upto(f, n) == f = [s \in Small(n) |-> Turn(f, s)]
           T == {n \in Nat : \E f : Upto(f, n)}
<1>1. ASSUME NEW s \in SUBSET S
      PROVE  /\ IsFiniteSet(s) /\ Cardinality(s) \in Nat
             /\ Cardinality(s) <= Cardinality(S)
             /\ s # {} => Cardinality(s \ {Taken(s)}) = Cardinality(s) - 1
  <2>1. IsFiniteSet(s) /\ Cardinality(s) \in Nat /\ Cardinality(s) <= Cardinality(S)
    BY FS_Subset, FS_CardinalityType
  <2>2. s # {} => Cardinality(s \ {Taken(s)}) = Cardinality(s) - 1
    BY <2>1, TakenOut, FS_RemoveElement
  <2> QED  BY <2>1, <2>2
<1>2. ASSUME NEW n \in Nat, NEW s \in Small(n)
      PROVE  s \in Small(n + 1) /\ (s # {} => n # 0 /\ s \ {Taken(s)} \in Small(n - 1))
  <2>1. s # {} => Cardinality(s) # 0
    BY <1>1, FS_EmptySet
  <2> QED  BY <1>1, <2>1
<1>3. Cardinality(S) \in Nat /\ Small(Cardinality(S)) = SUBSET S
  BY <1>1, FS_CardinalityType
<1>4. \A f, g, s : s # {} /\ f[s \ {Taken(s)}] = g[s \ {Taken(s)}] => Turn(f, s) = Turn(g, s)
  OBVIOUS
<1>5. \A f, g : Turn(f, {}) = Turn(g, {})
  OBVIOUS
<1> HIDE DEF Turn, Small
<1>6. 0 \in T
  <2> DEFINE f == [s \in Small(0) |-> 0]
             g == [s \in Small(0) |-> Turn(f, s)]
  <2>1. ASSUME NEW s \in Small(0) PROVE Turn(f, s) = Turn(g, s)
    BY <1>2, <1>5
  <2>2. g = [s \in Small(0) |-> Turn(g, s)]
    BY <2>1
  <2> QED  BY <2>2
<1>7. ASSUME NEW n \in Nat, n \in T PROVE n + 1 \in T
  <2>1. PICK f : Upto(f, n)
    BY <1>7
  <2> DEFINE g == [s \in Small(n + 1) |-> Turn(f, s)]
  <2>2. ASSUME NEW s \in Small(n) PROVE g[s] = f[s]
    <3>1. f[s] = Turn(f, s)
      BY <2>1
    <3> QED  BY <1>2, <3>1
  <2>3. ASSUME NEW s \in Small(n + 1) PROVE Turn(f, s) = Turn(g, s)
    <3>1. CASE s = {}
      BY <3>1, <1>5
    <3>2. CASE s # {}
      <4>1. s \ {Taken(s)} \in Small(n)
        <5>1. n + 1 \in Nat /\ (n + 1) - 1 = n
          OBVIOUS
        <5> QED  BY <1>2, <3>2, <5>1
      <4>2. f[s \ {Taken(s)}] = g[s \ {Taken(s)}]
        BY <2>2, <4>1
      <4> HIDE DEF g
      <4> QED  BY <1>4, <3>2, <4>2
    <3> QED  BY <3>1, <3>2
  <2>4. g = [s \in Small(n + 1) |-> Turn(g, s)]
    BY <2>3
  <2> HIDE DEF g
  <2>5. n + 1 \in Nat
    OBVIOUS
  <2> QED  BY <2>4, <2>5
<1>8. Cardinality(S) \in T
  <2> HIDE DEF T
  <2> QED  BY <1>3, <1>6, <1>7, AllNumbers
<1>9. PICK f : Upto(f, Cardinality(S))
  BY <1>8
<1> QED  BY <1>3, <1>9 DEF AddsUp, Turn

(* Lemma: the two cases of the fold, and that it is of numbers. *)
LEMMA FoldTurn ==
  ASSUME NEW stats, NEW S, IsFiniteSet(S), \A k \in S : stats[k] \in Nat,
         NEW f, AddsUp(f, stats, S)
  PROVE  /\ f[{}] = 0
         /\ \A s \in SUBSET S : /\ s # {} => f[s] = stats[Taken(s)] + f[s \ {Taken(s)}]
                                /\ f[s] \in Nat
<1> DEFINE P == {s \in SUBSET S : f[s] \in Nat}
<1>1. f[{}] = 0
  BY DEF AddsUp
<1>2. \A s \in SUBSET S : s # {} => f[s] = stats[Taken(s)] + f[s \ {Taken(s)}]
  BY DEF AddsUp
<1>3. ASSUME NEW s \in SUBSET S, s # {}, \A x \in s : s \ {x} \in P
      PROVE  s \in P
  <2>1. Taken(s) \in s
    BY <1>3, TakenOut
  <2>2. stats[Taken(s)] \in Nat /\ f[s \ {Taken(s)}] \in Nat
    BY <1>3, <2>1
  <2>3. f[s] = stats[Taken(s)] + f[s \ {Taken(s)}]
    BY <1>2, <1>3
  <2> QED  BY <2>2, <2>3
<1>4. {} \in P
  BY <1>1
<1> HIDE DEF P
<1>5. SUBSET S \subseteq P
  BY <1>3, <1>4, AllSubsets
<1> QED  BY <1>1, <1>2, <1>5 DEF P

(* Lemma: the fold does not depend on the order: any element may be taken    *)
(* out first.                                                                *)
LEMMA FoldAny ==
  ASSUME NEW stats, NEW S, IsFiniteSet(S), \A k \in S : stats[k] \in Nat,
         NEW f, AddsUp(f, stats, S),
         NEW s \in SUBSET S, NEW x \in s
  PROVE  f[s] = stats[x] + f[s \ {x}]
<1> DEFINE P == {t \in SUBSET S : \A y \in t : f[t] = stats[y] + f[t \ {y}]}
<1>1. \A t \in SUBSET S : /\ t # {} => f[t] = stats[Taken(t)] + f[t \ {Taken(t)}]
                          /\ f[t] \in Nat
  BY FoldTurn
<1>2. ASSUME NEW t \in SUBSET S, t # {}, \A y \in t : t \ {y} \in P
      PROVE  t \in P
  <2> SUFFICES ASSUME NEW y \in t PROVE f[t] = stats[y] + f[t \ {y}]
    OBVIOUS
  <2> DEFINE z == Taken(t)
  <2>1. z \in t /\ f[t] = stats[z] + f[t \ {z}]
    BY <1>1, TakenOut
  <2> HIDE DEF z
  <2>2. CASE y = z
    BY <2>1, <2>2
  <2>3. CASE y # z
    <3> DEFINE r == f[t \ {y, z}]
    <3>1. f[t \ {z}] = stats[y] + r
      <4>1. t \ {z} \in P /\ y \in t \ {z} /\ (t \ {z}) \ {y} = t \ {y, z}
        BY <1>2, <2>1, <2>3
      <4> QED  BY <4>1
    <3>2. f[t \ {y}] = stats[z] + r
      <4>1. t \ {y} \in P /\ z \in t \ {y} /\ (t \ {y}) \ {z} = t \ {y, z}
        BY <1>2, <2>1, <2>3
      <4> QED  BY <4>1
    <3>3. stats[y] \in Nat /\ stats[z] \in Nat /\ r \in Nat
      BY <1>1, <2>1
    <3> HIDE DEF P, r
    <3> QED  BY <2>1, <3>1, <3>2, <3>3
  <2> QED  BY <2>2, <2>3
<1>3. {} \in P
  OBVIOUS
<1> HIDE DEF P
<1>4. SUBSET S \subseteq P
  BY <1>2, <1>3, AllSubsets
<1> QED  BY <1>4 DEF P

(* Lemma: more to add up is no less. *)
LEMMA FoldGrows ==
  ASSUME NEW stats, NEW S, IsFiniteSet(S), \A k \in S : stats[k] \in Nat,
         NEW f, AddsUp(f, stats, S),
         NEW s \in SUBSET S, NEW t \in SUBSET s
  PROVE  f[t] <= f[s]
<1> DEFINE P == {u \in SUBSET S : \A v \in SUBSET u : f[v] <= f[u]}
<1>1. \A u \in SUBSET S : f[u] \in Nat
  BY FoldTurn
<1>2. ASSUME NEW u \in SUBSET S, u # {}, \A x \in u : u \ {x} \in P
      PROVE  u \in P
  <2> SUFFICES ASSUME NEW v \in SUBSET u PROVE f[v] <= f[u]
    OBVIOUS
  <2>1. CASE v = u
    BY <1>1, <2>1
  <2>2. CASE v # u
    <3>1. PICK x \in u : x \notin v
      BY <2>2
    <3>2. f[v] <= f[u \ {x}]
      <4>1. u \ {x} \in P /\ v \in SUBSET (u \ {x})
        BY <1>2, <3>1
      <4> QED  BY <4>1
    <3>3. f[u] = stats[x] + f[u \ {x}]
      BY FoldAny
    <3>4. stats[x] \in Nat /\ f[u \ {x}] \in Nat /\ f[v] \in Nat
      BY <1>1
    <3> HIDE DEF P
    <3> QED  BY <3>2, <3>3, <3>4
  <2> QED  BY <2>1, <2>2
<1>3. {} \in P
  <2>1. {} \in SUBSET S /\ \A v \in SUBSET {} : v = {}
    OBVIOUS
  <2>2. f[{}] \in Nat
    BY <1>1, <2>1
  <2>3. f[{}] <= f[{}]
    BY <2>2
  <2> QED  BY <2>1, <2>3
<1> HIDE DEF P
<1>4. SUBSET S \subseteq P
  BY <1>2, <1>3, AllSubsets
<1> QED  BY <1>4 DEF P

(* Lemma: a part and the rest add up to the whole. *)
LEMMA FoldSplits ==
  ASSUME NEW stats, NEW S, IsFiniteSet(S), \A k \in S : stats[k] \in Nat,
         NEW f, AddsUp(f, stats, S),
         NEW s \in SUBSET S, NEW t \in SUBSET s
  PROVE  f[s] = f[t] + f[s \ t]
<1> DEFINE P == {u \in SUBSET S : \A v \in SUBSET u : f[u] = f[v] + f[u \ v]}
<1>1. f[{}] = 0 /\ \A u \in SUBSET S : f[u] \in Nat
  BY FoldTurn
<1>2. ASSUME NEW u \in SUBSET S, u # {}, \A x \in u : u \ {x} \in P
      PROVE  u \in P
  <2> SUFFICES ASSUME NEW v \in SUBSET u PROVE f[u] = f[v] + f[u \ v]
    OBVIOUS
  <2>1. CASE v = {}
    <3>1. u \ v = u /\ f[u] \in Nat
      BY <1>1, <2>1
    <3> QED  BY <1>1, <2>1, <3>1
  <2>2. CASE v # {}
    <3>1. PICK x \in v : TRUE
      BY <2>2
    <3>2. f[u \ {x}] = f[v \ {x}] + f[u \ v]
      <4>1. u \ {x} \in P /\ v \ {x} \in SUBSET (u \ {x})
            /\ (u \ {x}) \ (v \ {x}) = u \ v
        BY <1>2
      <4> QED  BY <4>1
    <3>3. f[u] = stats[x] + f[u \ {x}] /\ f[v] = stats[x] + f[v \ {x}]
      BY FoldAny
    <3>4. stats[x] \in Nat /\ f[v \ {x}] \in Nat /\ f[u \ v] \in Nat
      BY <1>1
    <3> HIDE DEF P
    <3> QED  BY <3>2, <3>3, <3>4
  <2> QED  BY <2>1, <2>2
<1>3. {} \in P
  <2>1. ASSUME NEW v \in SUBSET {} PROVE f[{}] = f[v] + f[{} \ v]
    <3>1. v = {} /\ {} \ v = {}
      OBVIOUS
    <3>2. f[{}] = f[{}] + f[{}]
      BY <1>1
    <3> QED  BY <3>1, <3>2
  <2> QED  BY <2>1
<1> HIDE DEF P
<1>4. SUBSET S \subseteq P
  BY <1>2, <1>3, AllSubsets
<1> QED  BY <1>4 DEF P

(* Lemma: two folds of the same statistics agree where both are defined. *)
LEMMA FoldUnique ==
  ASSUME NEW stats, NEW S, IsFiniteSet(S), \A k \in S : stats[k] \in Nat,
         NEW R \in SUBSET S, NEW f, AddsUp(f, stats, S), NEW g, AddsUp(g, stats, R)
  PROVE  f[R] = g[R]
<1> DEFINE P == {s \in SUBSET R : f[s] = g[s]}
<1>1. IsFiniteSet(R)
  BY FS_Subset
<1>2. /\ f[{}] = 0 /\ g[{}] = 0
      /\ \A s \in SUBSET R :
           s # {} => /\ f[s] = stats[Taken(s)] + f[s \ {Taken(s)}]
                     /\ g[s] = stats[Taken(s)] + g[s \ {Taken(s)}]
  BY DEF AddsUp
<1>3. ASSUME NEW s \in SUBSET R, s # {}, \A x \in s : s \ {x} \in P
      PROVE  s \in P
  <2>1. f[s \ {Taken(s)}] = g[s \ {Taken(s)}]
    BY <1>3, TakenOut
  <2> QED  BY <1>2, <1>3, <2>1
<1>4. {} \in P
  BY <1>2
<1> HIDE DEF P
<1>5. SUBSET R \subseteq P
  BY <1>1, <1>3, <1>4, AllSubsets
<1> QED  BY <1>5 DEF P

-----------------------------------------------------------------------------
(* Lemma: the total of finitely many numbers is a number, and no less than   *)
(* the total of some of them.                                                *)
LEMMA TotalGrows ==
  ASSUME NEW stats, NEW S, IsFiniteSet(S), \A k \in S : stats[k] \in Nat,
         NEW R \in SUBSET S
  PROVE  /\ Total(stats, S) \in Nat /\ Total(stats, R) \in Nat
         /\ Total(stats, R) <= Total(stats, S)
<1> DEFINE fold(s) == CHOOSE f : AddsUp(f, stats, s)
<1>1. IsFiniteSet(R)
  BY FS_Subset
<1>2. AddsUp(fold(S), stats, S) /\ AddsUp(fold(R), stats, R)
  BY <1>1, FoldExists
<1>3. Total(stats, S) = fold(S)[S] /\ Total(stats, R) = fold(R)[R]
  BY TotalIsFold
<1> HIDE DEF fold
<1>4. fold(S)[R] = fold(R)[R]
  BY <1>2, FoldUnique
<1>5. fold(S)[R] <= fold(S)[S]
  BY <1>2, FoldGrows
<1>6. fold(S)[S] \in Nat /\ fold(S)[R] \in Nat
  BY <1>2, FoldTurn
<1> QED  BY <1>3, <1>4, <1>5, <1>6

(* Lemma: a total is the total of a part and the total of the rest. *)
LEMMA TotalSplits ==
  ASSUME NEW stats, NEW S, IsFiniteSet(S), \A k \in S : stats[k] \in Nat,
         NEW R \in SUBSET S
  PROVE  /\ Total(stats, R) \in Nat /\ Total(stats, S \ R) \in Nat
         /\ Total(stats, S) = Total(stats, R) + Total(stats, S \ R)
<1> DEFINE fold(s) == CHOOSE f : AddsUp(f, stats, s)
<1>1. S \ R \in SUBSET S /\ IsFiniteSet(R) /\ IsFiniteSet(S \ R)
  BY FS_Subset
<1>2. /\ AddsUp(fold(S), stats, S) /\ AddsUp(fold(R), stats, R)
      /\ AddsUp(fold(S \ R), stats, S \ R)
  BY <1>1, FoldExists
<1>3. /\ Total(stats, S) = fold(S)[S] /\ Total(stats, R) = fold(R)[R]
      /\ Total(stats, S \ R) = fold(S \ R)[S \ R]
  BY TotalIsFold
<1> HIDE DEF fold
<1>4. fold(S)[R] = fold(R)[R] /\ fold(S)[S \ R] = fold(S \ R)[S \ R]
  BY <1>1, <1>2, FoldUnique
<1>5. fold(S)[S] = fold(S)[R] + fold(S)[S \ R]
  <2> DEFINE g == fold(S)
  <2>1. AddsUp(g, stats, S) /\ S \in SUBSET S
    BY <1>2
  <2> HIDE DEF g
  <2>2. g[S] = g[R] + g[S \ R]
    BY <2>1, FoldSplits
  <2> QED  BY <2>2 DEF g
<1>6. Total(stats, R) \in Nat /\ Total(stats, S \ R) \in Nat
  BY <1>1, TotalGrows
<1> QED  BY <1>3, <1>4, <1>5, <1>6

(* Lemma: a statistic is no more than a total that it is part of. *)
LEMMA TotalCovers ==
  ASSUME NEW stats, NEW S, IsFiniteSet(S), \A k \in S : stats[k] \in Nat,
         NEW x \in S
  PROVE  stats[x] <= Total(stats, S)
<1> DEFINE fold == CHOOSE f : AddsUp(f, stats, S)
<1>1. AddsUp(fold, stats, S) /\ Total(stats, S) = fold[S]
  BY FoldExists, TotalIsFold
<1> HIDE DEF fold
<1>2. fold[S] = stats[x] + fold[S \ {x}]
  BY <1>1, FoldAny
<1>3. fold[S \ {x}] \in Nat /\ stats[x] \in Nat
  BY <1>1, FoldTurn
<1> QED  BY <1>1, <1>2, <1>3

-----------------------------------------------------------------------------
(* What was read is output of a kernel; the answer is made of all of it. *)
HostInv ==
    /\ \A h \in DOMAIN native : native[h] \in Outputs
    /\ \/ answer = Empty
       \/ unread = {} /\ answer = [h \in DOMAIN native |-> Interface(native[h])]

(* Lemma: reading and translating keep the invariant. *)
LEMMA HostStep == HostInv /\ [Next]_vars => HostInv'
<1> SUFFICES ASSUME HostInv, [Next]_vars PROVE HostInv'
  OBVIOUS
<1>1. ASSUME NEW h \in Hosts, ReadHost(h) PROVE HostInv'
  <2>1. PICK stats \in Outputs :
          native' = [x \in DOMAIN native \cup {h} |-> IF x = h THEN stats ELSE native[x]]
    BY <1>1 DEF ReadHost
  <2>2. answer' = answer /\ answer = Empty
    BY <1>1 DEF ReadHost, HostInv
  <2>3. \A x \in DOMAIN native' : native'[x] \in Outputs
    BY <2>1 DEF HostInv
  <2> QED  BY <2>2, <2>3 DEF HostInv, Empty
<1>2. CASE TranslateHostCounters
  BY <1>2 DEF TranslateHostCounters, HostInv
<1>3. CASE UNCHANGED vars
  BY <1>3 DEF vars, HostInv, Empty
<1> QED  BY <1>1, <1>2, <1>3 DEF Next

(* Lemma: each record of the answer is made of output of a kernel. *)
LEMMA Translated ==
  ASSUME HostInv, NEW h \in DOMAIN answer
  PROVE  native[h] \in Outputs /\ answer[h].rx_drops = RxDrops(native[h])
<1>1. h \in DOMAIN native /\ answer[h] = Interface(native[h])
  BY DEF HostInv, Empty
<1> QED  BY <1>1 DEF HostInv, Interface

(* Lemma: the integer statistics of an output are finitely many numbers. *)
LEMMA IntStats ==
  ASSUME NEW stats \in Outputs
  PROVE  IsFiniteSet(IntKeys(stats)) /\ \A k \in IntKeys(stats) : stats[k] \in Nat
<1>1. IsFiniteSet(DOMAIN stats) /\ IntKeys(stats) \in SUBSET DOMAIN stats
  BY DEF Outputs, IntKeys
<1>2. IsFiniteSet(IntKeys(stats))
  BY <1>1, FS_Subset
<1> QED  BY <1>2 DEF IntKeys

(* Lemma: a sum over some integer statistics is their total, a number; over  *)
(* none it is absent.                                                        *)
LEMMA SumIsTotal ==
  ASSUME NEW stats \in Outputs, NEW keys \in SUBSET IntKeys(stats)
  PROVE  /\ keys # {} => SumDrops(stats, keys) = Total(stats, keys)
         /\ SumDrops(stats, keys) = None <=> keys = {}
         /\ Total(stats, keys) \in Nat
<1>1. Total(stats, keys) \in Nat
  BY IntStats, TotalGrows
<1> QED  BY <1>1, HostAssumption DEF SumDrops

(* Lemma: a total over fewer of the integer statistics is no more. *)
LEMMA FewerIsLess ==
  ASSUME NEW stats \in Outputs, NEW keys \in SUBSET IntKeys(stats),
         NEW fewer \in SUBSET keys
  PROVE  Total(stats, fewer) <= Total(stats, keys)
<1>1. IsFiniteSet(keys) /\ \A k \in keys : stats[k] \in Nat
  BY IntStats, FS_Subset
<1> QED  BY <1>1, TotalGrows

(* Lemma: where rx_drops comes from: the aggregate if the kernel has one, or *)
(* else one of the two sums.                                                 *)
LEMMA RxDropsFrom ==
  ASSUME NEW stats \in Outputs
  PROVE  LET canonical == Key("rx", None, "dropped")
             rx == RxQueueKeys(stats)
             drops == DropKeys(stats)
         IN  /\ canonical \in IntKeys(stats) => RxDrops(stats) = stats[canonical]
             /\ canonical \notin IntKeys(stats) =>
                  \/ /\ rx # {} /\ Total(stats, rx) # 0
                     /\ RxDrops(stats) = Total(stats, rx)
                  \/ /\ rx = {} \/ Total(stats, rx) = 0
                     /\ drops # {} /\ RxDrops(stats) = Total(stats, drops)
                  \/ drops = {} /\ RxDrops(stats) = None
<1> DEFINE canonical == Key("rx", None, "dropped")
           rx == RxQueueKeys(stats)
           drops == DropKeys(stats)
<1>1. rx \in SUBSET IntKeys(stats) /\ drops \in SUBSET IntKeys(stats)
  BY DEF RxQueueKeys, DropKeys
<1>2. canonical \in IntKeys(stats) =>
        IntOf(stats, canonical) = stats[canonical] /\ stats[canonical] # None
  BY HostAssumption DEF IntOf, IntKeys
<1>3. canonical \notin IntKeys(stats) => IntOf(stats, canonical) = None
  BY DEF IntOf
<1>4. RxDrops(stats) = IF IntOf(stats, canonical) # None THEN IntOf(stats, canonical)
                       ELSE Or(SumDrops(stats, rx), SumDrops(stats, drops))
  BY DEF RxDrops
<1>5. /\ rx # {} => SumDrops(stats, rx) = Total(stats, rx)
      /\ SumDrops(stats, rx) = None <=> rx = {}
      /\ drops # {} => SumDrops(stats, drops) = Total(stats, drops)
      /\ SumDrops(stats, drops) = None <=> drops = {}
  BY <1>1, SumIsTotal
<1> HIDE DEF canonical, rx, drops
<1>6. \/ /\ rx # {} /\ Total(stats, rx) # 0
         /\ Or(SumDrops(stats, rx), SumDrops(stats, drops)) = Total(stats, rx)
      \/ /\ rx = {} \/ Total(stats, rx) = 0
         /\ drops # {}
         /\ Or(SumDrops(stats, rx), SumDrops(stats, drops)) = Total(stats, drops)
      \/ drops = {} /\ Or(SumDrops(stats, rx), SumDrops(stats, drops)) = None
  BY <1>5 DEF Or
<1>7. /\ canonical \in IntKeys(stats) => RxDrops(stats) = stats[canonical]
      /\ canonical \notin IntKeys(stats) =>
           RxDrops(stats) = Or(SumDrops(stats, rx), SumDrops(stats, drops))
  BY <1>2, <1>3, <1>4
<1> QED  BY <1>6, <1>7 DEF canonical, rx, drops

(* Lemma: the invariant leaves no drop of a receive queue out. *)
LEMMA DropsCounted == HostInv => NoDropHidden
<1> SUFFICES ASSUME HostInv, NEW h \in DOMAIN answer,
                    IntOf(native[h], Key("rx", None, "dropped")) = None,
                    QueueDropKeys(native[h]) # {}
             PROVE  /\ answer[h].rx_drops # None
                    /\ answer[h].rx_drops >= Total(native[h], QueueDropKeys(native[h]))
  BY DEF NoDropHidden
<1> DEFINE stats == native[h]
           rx == RxQueueKeys(stats)
           drops == DropKeys(stats)
           queues == QueueDropKeys(stats)
<1>1. stats \in Outputs /\ answer[h].rx_drops = RxDrops(stats)
  BY Translated
<1>2. Key("rx", None, "dropped") \notin IntKeys(stats)
  BY HostAssumption DEF IntOf, IntKeys
<1>3. /\ rx \in SUBSET IntKeys(stats) /\ drops \in SUBSET IntKeys(stats)
      /\ queues \in SUBSET rx /\ queues \in SUBSET drops
  BY DEF RxQueueKeys, DropKeys, QueueDropKeys, SaysDrops
<1>4. rx # {} /\ drops # {}
  BY <1>3
<1>5. RxDrops(stats) = Total(stats, rx) \/ RxDrops(stats) = Total(stats, drops)
  BY <1>1, <1>2, <1>4, RxDropsFrom
<1> HIDE DEF stats, rx, drops, queues
<1>6. /\ Total(stats, queues) <= Total(stats, rx)
      /\ Total(stats, queues) <= Total(stats, drops)
  BY <1>1, <1>3, FewerIsLess
<1>7. /\ Total(stats, rx) \in Nat /\ Total(stats, drops) \in Nat
      /\ Total(stats, queues) \in Nat
  BY <1>1, <1>3, SumIsTotal
<1>8. RxDrops(stats) # None /\ RxDrops(stats) >= Total(stats, queues)
  BY <1>5, <1>6, <1>7, HostAssumption
<1> QED  BY <1>1, <1>8 DEF stats, queues

(* Lemma: the invariant gives every count a source that covers it. *)
LEMMA CountsHaveSources == HostInv => OmitNotZero
<1> SUFFICES ASSUME HostInv, NEW h \in DOMAIN answer, answer[h].rx_drops # None
             PROVE  LET sources == RxQueueKeys(native[h]) \cup DropKeys(native[h])
                          \cup (IntKeys(native[h]) \cap {Key("rx", None, "dropped")})
                    IN  /\ sources # {}
                        /\ answer[h].rx_drops <= Total(native[h], sources)
  BY DEF OmitNotZero
<1> DEFINE stats == native[h]
           canonical == Key("rx", None, "dropped")
           rx == RxQueueKeys(stats)
           drops == DropKeys(stats)
           sources == rx \cup drops \cup (IntKeys(stats) \cap {canonical})
<1>1. stats \in Outputs /\ answer[h].rx_drops = RxDrops(stats)
  BY Translated
<1>2. sources \in SUBSET IntKeys(stats) /\ rx \in SUBSET sources /\ drops \in SUBSET sources
  BY DEF RxQueueKeys, DropKeys
<1>3. CASE canonical \in IntKeys(stats)
  <2>1. RxDrops(stats) = stats[canonical] /\ canonical \in sources
    BY <1>1, <1>3, RxDropsFrom
  <2>2. IsFiniteSet(sources) /\ \A k \in sources : stats[k] \in Nat
    BY <1>1, <1>2, IntStats, FS_Subset
  <2> HIDE DEF stats, canonical, rx, drops, sources
  <2>3. stats[canonical] <= Total(stats, sources)
    BY <2>1, <2>2, TotalCovers
  <2> QED  BY <1>1, <2>1, <2>3 DEF stats, canonical, rx, drops, sources
<1>4. CASE canonical \notin IntKeys(stats)
  <2>1. \/ rx # {} /\ RxDrops(stats) = Total(stats, rx)
        \/ drops # {} /\ RxDrops(stats) = Total(stats, drops)
    BY <1>1, <1>4, RxDropsFrom
  <2>2. sources # {}
    BY <1>2, <2>1
  <2> HIDE DEF stats, canonical, rx, drops, sources
  <2>3. Total(stats, rx) <= Total(stats, sources) /\ Total(stats, drops) <= Total(stats, sources)
    BY <1>1, <1>2, FewerIsLess
  <2> QED  BY <1>1, <2>1, <2>2, <2>3 DEF stats, canonical, rx, drops, sources
<1> QED  BY <1>3, <1>4

(* Lemma: the invariant lets rx_drops differ from the receive queues' drops  *)
(* by the other statistics that were added up.                               *)
LEMMA OthersDecide == HostInv => ExactWhenOthersZero
<1> SUFFICES ASSUME HostInv, NEW h \in DOMAIN answer,
                    IntOf(native[h], Key("rx", None, "dropped")) = None,
                    QueueDropKeys(native[h]) # {}
             PROVE  LET stats == native[h]
                        queues == QueueDropKeys(stats)
                    IN  answer[h].rx_drops = Total(stats, queues) <=>
                          /\ Total(stats, RxQueueKeys(stats) \ queues) = 0
                          /\ \/ Total(stats, queues) # 0
                             \/ Total(stats, DropKeys(stats) \ queues) = 0
  BY DEF ExactWhenOthersZero
<1> DEFINE stats == native[h]
           rx == RxQueueKeys(stats)
           drops == DropKeys(stats)
           queues == QueueDropKeys(stats)
<1>1. stats \in Outputs /\ answer[h].rx_drops = RxDrops(stats)
  BY Translated
<1>2. Key("rx", None, "dropped") \notin IntKeys(stats)
  BY HostAssumption DEF IntOf, IntKeys
<1>3. /\ rx \in SUBSET IntKeys(stats) /\ drops \in SUBSET IntKeys(stats)
      /\ queues \in SUBSET rx /\ queues \in SUBSET drops
      /\ rx # {} /\ drops # {}
  BY DEF RxQueueKeys, DropKeys, QueueDropKeys, SaysDrops
<1>4. \/ Total(stats, rx) # 0 /\ RxDrops(stats) = Total(stats, rx)
      \/ Total(stats, rx) = 0 /\ RxDrops(stats) = Total(stats, drops)
  BY <1>1, <1>2, <1>3, RxDropsFrom
<1>5. IsFiniteSet(IntKeys(stats)) /\ \A k \in IntKeys(stats) : stats[k] \in Nat
  BY <1>1, IntStats
<1> HIDE DEF stats, rx, drops, queues
<1>6. IsFiniteSet(rx) /\ IsFiniteSet(drops)
  BY <1>3, <1>5, FS_Subset
<1>7. /\ Total(stats, queues) \in Nat
      /\ Total(stats, rx \ queues) \in Nat /\ Total(stats, drops \ queues) \in Nat
      /\ Total(stats, rx) = Total(stats, queues) + Total(stats, rx \ queues)
      /\ Total(stats, drops) = Total(stats, queues) + Total(stats, drops \ queues)
  <2>1. /\ \A k \in rx : stats[k] \in Nat
        /\ \A k \in drops : stats[k] \in Nat
    BY <1>3, <1>5
  <2>2. /\ Total(stats, queues) \in Nat /\ Total(stats, rx \ queues) \in Nat
        /\ Total(stats, rx) = Total(stats, queues) + Total(stats, rx \ queues)
    BY <1>3, <1>6, <2>1, TotalSplits
  <2>3. /\ Total(stats, drops \ queues) \in Nat
        /\ Total(stats, drops) = Total(stats, queues) + Total(stats, drops \ queues)
    BY <1>3, <1>6, <2>1, TotalSplits
  <2> QED  BY <2>2, <2>3
<1>8. RxDrops(stats) = Total(stats, queues) <=>
        /\ Total(stats, rx \ queues) = 0
        /\ Total(stats, queues) # 0 \/ Total(stats, drops \ queues) = 0
  BY <1>4, <1>7
<1> QED  BY <1>1, <1>8 DEF stats, rx, drops, queues

(* Lemma: the invariant holds throughout. *)
LEMMA HostsKeepInv == Spec => []HostInv
<1>1. Init => HostInv
  BY DEF Init, HostInv, Empty
<1>2. HostInv /\ [Next]_vars => HostInv'
  BY HostStep
<1> QED  BY <1>1, <1>2, PTL DEF Spec

(* Theorem: where the kernel has no aggregate, rx_drops is at least what the *)
(* receive queues dropped.                                                   *)
THEOREM QueueDropsShown == Spec => []NoDropHidden
BY HostsKeepInv, DropsCounted, PTL

(* Theorem: rx_drops is in the answer only if the kernel has an integer      *)
(* statistic that it comes from, and never more than those add up to.        *)
THEOREM AbsentNotZero == Spec => []OmitNotZero
BY HostsKeepInv, CountsHaveSources, PTL

(* Theorem: what the docstring says of rx_drops holds of a host without the  *)
(* aggregate if and only if its other matching statistics add up to 0.       *)
THEOREM SumExactWhen == Spec => []ExactWhenOthersZero
BY HostsKeepInv, OthersDecide, PTL
=============================================================================
