--------------------------- MODULE OperatorProofs ---------------------------
(***************************************************************************)
(* What the operators of Totals and CpuMap return, for every argument: the *)
(* facts that the proofs about the ledger and the pinning rest on.         *)
(* Induction over numbers is by the least element of a set of them.        *)
(***************************************************************************)
EXTENDS Totals, CpuMap, Integers, FiniteSetTheorems, TLAPS

(* The image of a finite set under a function is finite.                   *)
LEMMA ImageIsFinite ==
  ASSUME NEW f, IsFiniteSet(DOMAIN f)
  PROVE  /\ IsFiniteSet({f[x] : x \in DOMAIN f})
         /\ Cardinality({f[x] : x \in DOMAIN f}) <= Cardinality(DOMAIN f)
<1> DEFINE g == [x \in DOMAIN f |-> f[x]]
<1>1. g \in Surjection(DOMAIN f, {f[x] : x \in DOMAIN f})
  BY DEF Surjection
<1> QED
  BY <1>1, FS_Surjection

(* The units of one argument.                                              *)
LEMMA UnitsOfOne ==
  ASSUME NEW x, NEW n \in Nat
  PROVE  IsFiniteSet({x} \X (1..n)) /\ Cardinality({x} \X (1..n)) = n
<1>1. IsFiniteSet({x}) /\ Cardinality({x}) = 1
  BY FS_Singleton
<1>2. IsFiniteSet(1..n) /\ Cardinality(1..n) = n
  BY FS_Interval
<1>3. /\ IsFiniteSet({x} \X (1..n))
      /\ Cardinality({x} \X (1..n)) = Cardinality({x}) * Cardinality(1..n)
  BY <1>1, <1>2, FS_Product
<1> QED
  BY <1>1, <1>2, <1>3

(* A sum of naturals is a natural.                                         *)
LEMMA TotalType ==
  ASSUME NEW f, IsFiniteSet(DOMAIN f), \A x \in DOMAIN f : f[x] \in Nat
  PROVE  IsFiniteSet(Units(f)) /\ Total(f) \in Nat
<1> DEFINE g == [x \in DOMAIN f |-> {x} \X (1..f[x])]
<1>1. IsFiniteSet({g[x] : x \in DOMAIN g})
  BY ImageIsFinite
<1>2. \A T \in {g[x] : x \in DOMAIN g} : IsFiniteSet(T)
  <2>1. \A x \in DOMAIN f : IsFiniteSet({x} \X (1..f[x]))
    BY UnitsOfOne
  <2> QED
    BY <2>1
<1>3. IsFiniteSet(UNION {g[x] : x \in DOMAIN g})
  BY <1>1, <1>2, FS_UNION
<1>4. Units(f) = UNION {g[x] : x \in DOMAIN g}
  BY DEF Units
<1> QED
  BY <1>3, <1>4, FS_CardinalityType DEF Total

(* An empty sum.                                                           *)
LEMMA TotalEmpty == ASSUME NEW f, DOMAIN f = {} PROVE Total(f) = 0
<1>1. Units(f) = {}
  BY DEF Units
<1> QED
  BY <1>1, FS_EmptySet DEF Total

(* One argument more.                                                      *)
LEMMA TotalAdd ==
  ASSUME NEW f, IsFiniteSet(DOMAIN f), \A y \in DOMAIN f : f[y] \in Nat,
         NEW x, x \notin DOMAIN f, NEW n \in Nat
  PROVE  Total([y \in DOMAIN f \cup {x} |-> IF y = x THEN n ELSE f[y]]) = Total(f) + n
<1> DEFINE g == [y \in DOMAIN f \cup {x} |-> IF y = x THEN n ELSE f[y]]
           more == {x} \X (1..n)
<1>1. Units(g) = Units(f) \cup more
  BY DEF Units
<1>2. Units(f) \cap more = {}
  BY DEF Units
<1>3. IsFiniteSet(more) /\ Cardinality(more) = n
  BY UnitsOfOne
<1>4. IsFiniteSet(Units(f)) /\ Total(f) \in Nat
  BY TotalType
<1> HIDE DEF g, more
<1>5. Cardinality(Units(f) \cup more)
        = Cardinality(Units(f)) + Cardinality(more) - Cardinality(Units(f) \cap more)
  BY <1>3, <1>4, FS_Union
<1>6. Total(g) = Total(f) + n
  BY <1>1, <1>2, <1>3, <1>4, <1>5, FS_EmptySet DEF Total
<1> QED
  BY <1>6 DEF g

(* Fewer arguments do not add up to more.                                  *)
LEMMA TotalMonotone ==
  ASSUME NEW f, IsFiniteSet(DOMAIN f), \A x \in DOMAIN f : f[x] \in Nat,
         NEW S, S \subseteq DOMAIN f
  PROVE  Total([x \in S |-> f[x]]) <= Total(f)
<1> DEFINE g == [x \in S |-> f[x]]
<1>1. Units(g) \subseteq Units(f)
  BY DEF Units
<1>2. IsFiniteSet(Units(f))
  BY TotalType
<1> QED
  BY <1>1, <1>2, FS_Subset DEF Total

-----------------------------------------------------------------------------
(* A set of naturals has a least element.                                  *)
LEMMA LeastElement ==
  ASSUME NEW S \in SUBSET Nat, S # {}
  PROVE  \E m \in S : \A x \in S : m <= x
<1> DEFINE R == OpToRel(<, Nat)
<1>1. \A x, m \in Nat : x < m => <<x, m>> \in R
  BY Zenon DEF OpToRel
<1>2. IsWellFoundedOn(R, Nat)
  BY NatLessThanWellFounded
<1> HIDE DEF R
<1>3. \E m \in S : \A x \in S : ~ (<<x, m>> \in R)
  BY <1>2, WFMin
<1>4. \E m \in S : \A x \in S : ~ (x < m)
  BY <1>1, <1>3, Zenon
<1> QED
  BY <1>4

(* The n least of a finite set of n or more are n.                         *)
LEMMA LeastCount ==
  ASSUME NEW S \in SUBSET Nat, IsFiniteSet(S), NEW n \in Nat, n <= Cardinality(S)
  PROVE  Cardinality(Least(n, S)) = n
<1> DEFINE Below(c) == {d \in S : d < c}
           wrong == {k \in Nat : k <= Cardinality(S) /\ Cardinality(Least(k, S)) # k}
<1>0. /\ Cardinality(S) \in Nat
      /\ \A c : IsFiniteSet(Below(c)) /\ Cardinality(Below(c)) \in Nat
  BY FS_CardinalityType, FS_Subset
<1>1. \A k : IsFiniteSet(Least(k, S)) /\ Cardinality(Least(k, S)) \in Nat
  BY FS_CardinalityType, FS_Subset DEF Least
<1> SUFFICES ASSUME wrong # {} PROVE FALSE
  OBVIOUS
<1>2. PICK m \in wrong : \A k \in wrong : m <= k
  BY LeastElement
<1>3. m # 0
  <2>1. Least(0, S) = {}
    BY <1>0 DEF Least
  <2> QED
    BY <2>1, FS_EmptySet
<1> DEFINE k == m - 1
<1>4. k \in Nat /\ k < Cardinality(S) /\ m = k + 1 /\ Cardinality(Least(k, S)) = k
  BY <1>0, <1>2, <1>3
<1> HIDE DEF k
<1>5. S \ Least(k, S) # {}
  <2>1. Least(k, S) \subseteq S
    BY DEF Least
  <2>2. Least(k, S) # S
    BY <1>0, <1>4
  <2> QED
    BY <2>1, <2>2
<1>6. PICK c \in S \ Least(k, S) : \A x \in S \ Least(k, S) : c <= x
  <2>1. S \ Least(k, S) \in SUBSET Nat
    OBVIOUS
  <2> QED
    BY <1>5, <2>1, LeastElement
(* The numbers of S below a greater one are more.                          *)
<1>7. \A x, y \in S : x < y => Cardinality(Below(x)) + 1 <= Cardinality(Below(y))
  <2> SUFFICES ASSUME NEW x \in S, NEW y \in S, x < y
               PROVE  Cardinality(Below(x)) + 1 <= Cardinality(Below(y))
    OBVIOUS
  <2>1. Below(x) \cup {x} \subseteq Below(y) /\ x \notin Below(x)
    <3>1. x \in Nat /\ y \in Nat /\ \A d \in S : d \in Nat
      OBVIOUS
    <3>2. \A d \in Nat : (d < x => d < y) /\ ~(x < x)
      BY <3>1
    <3> QED
      BY <3>1, <3>2, Zenon
  <2>2. Cardinality(Below(x) \cup {x}) = Cardinality(Below(x)) + 1
    BY <1>0, <2>1, FS_AddElement
  <2> QED
    BY <1>0, <2>1, <2>2, FS_Subset
<1>8. Below(c) = Least(k, S)
  <2>1. \A d \in Below(c) : d \in Least(k, S)
    BY <1>6
  <2>2. ASSUME NEW d \in Least(k, S) PROVE d < c
    <3>1. d \in S /\ Cardinality(Below(d)) < k /\ ~(Cardinality(Below(c)) < k)
      BY <1>6 DEF Least
    <3> QED
      BY <1>0, <1>4, <1>7, <3>1
  <2>3. Least(k, S) \subseteq S
    BY DEF Least
  <2> QED
    BY <2>1, <2>2, <2>3
<1>9. Least(m, S) = Least(k, S) \cup {c}
  <2>1. \A d \in S :
          Cardinality(Below(d)) < m <=> Cardinality(Below(d)) < k \/ Cardinality(Below(d)) = k
    BY <1>0, <1>4
  <2>2. Cardinality(Below(c)) = k
    BY <1>4, <1>8
  <2>3. \A d \in S : Cardinality(Below(d)) = k => d = c
    BY <1>0, <1>4, <1>7, <2>2
  <2>4. Least(m, S) = {d \in S : Cardinality(Below(d)) < m}
        /\ Least(k, S) = {d \in S : Cardinality(Below(d)) < k}
    BY DEF Least
  <2> HIDE DEF Below
  <2> QED
    BY <1>6, <2>1, <2>2, <2>3, <2>4
<1>10. Cardinality(Least(m, S)) = m
  BY <1>1, <1>4, <1>6, <1>9, FS_AddElement
<1> QED
  BY <1>2, <1>10

-----------------------------------------------------------------------------
(* Every core of a finite set is in a range of them that cannot be         *)
(* extended.                                                               *)
LEMMA RangeAround ==
  ASSUME NEW S \in SUBSET Nat, IsFiniteSet(S), NEW c \in S
  PROVE  \E r \in FormatCpuset(S) : c \in r[1]..r[2]
<1> DEFINE starts == {a \in Nat : a <= c /\ a..c \subseteq S}
           gaps == {x \in Nat : c < x /\ x \notin S}
<1>1. c \in starts
  OBVIOUS
<1>2. PICK a \in starts : \A x \in starts : a <= x
  <2>1. starts \in SUBSET Nat /\ starts # {}
    BY <1>1
  <2> HIDE DEF starts
  <2> QED
    BY <2>1, LeastElement
<1>3. \A x \in S : x + 1 # a
  <2> SUFFICES ASSUME NEW x \in S, x + 1 = a PROVE FALSE
    OBVIOUS
  <2>1. x \in Nat /\ x..c \subseteq S /\ x <= c
    BY <1>2
  <2> QED
    BY <1>2, <2>1
<1>4. gaps # {}
  <2> SUFFICES ASSUME gaps = {} PROVE FALSE
    OBVIOUS
  <2> DEFINE n == Cardinality(S)
  <2>1. n \in Nat
    BY FS_CardinalityType
  <2>2. (c + 1)..(c + n + 1) \subseteq S
    BY <2>1
  <2>3. Cardinality((c + 1)..(c + n + 1)) = n + 1
    <3>1. c + 1 \in Int /\ c + n + 1 \in Int /\ ~(c + 1 > c + n + 1)
          /\ (c + n + 1) - (c + 1) + 1 = n + 1
      BY <2>1
    <3> QED
      BY <3>1, FS_Interval
  <2>4. Cardinality((c + 1)..(c + n + 1)) <= n
    BY <2>2, FS_Subset
  <2> QED
    BY <2>1, <2>3, <2>4
<1>5. PICK g \in gaps : \A x \in gaps : g <= x
  <2>1. gaps \in SUBSET Nat
    OBVIOUS
  <2> HIDE DEF gaps
  <2> QED
    BY <1>4, <2>1, LeastElement
<1> DEFINE b == g - 1
<1>6. b \in Nat /\ c <= b /\ b + 1 = g /\ g \notin S
  BY <1>5
<1>7. a..b \subseteq S
  <2> SUFFICES ASSUME NEW x \in a..b PROVE x \in S
    OBVIOUS
  <2>1. CASE x <= c
    BY <1>2, <2>1
  <2>2. CASE x > c
    BY <1>5, <2>2
  <2> QED
    BY <1>2, <1>6, <2>1, <2>2
<1>8. a \in S /\ b \in S /\ a <= c
  BY <1>2, <1>6, <1>7
<1>9. \A x \in S : x # b + 1
  BY <1>6
<1> HIDE DEF b
<1>10. <<a, b>> \in FormatCpuset(S)
  BY <1>3, <1>6, <1>7, <1>8, <1>9 DEF FormatCpuset
<1>11. c \in a..b
  BY <1>6, <1>8
<1> QED
  BY <1>10, <1>11

(* _parse_cpu_list reads what _format_cpuset wrote.                        *)
THEOREM CpusetIsReadAsWritten ==
  ASSUME NEW S \in SUBSET Nat, IsFiniteSet(S)
  PROVE  ParseCpuList(FormatCpuset(S)) = S
<1>1. ParseCpuList(FormatCpuset(S)) \subseteq S
  BY DEF ParseCpuList, FormatCpuset
<1>2. ASSUME NEW c \in S PROVE c \in ParseCpuList(FormatCpuset(S))
  BY RangeAround DEF ParseCpuList
<1> QED
  BY <1>1, <1>2

-----------------------------------------------------------------------------
(* The cores of a node are a finite set of naturals, and so are those that *)
(* allocate_cores counts from 0.                                           *)
LEMMA CoresAreFinite ==
  ASSUME NEW h, IsHost(h)
  PROVE  /\ TotalCores(h) \in Nat \ {0}
         /\ DOMAIN NumaCores(h) \subseteq Nat
         /\ \A id \in DOMAIN NumaCores(h) :
              NumaCores(h)[id] \subseteq Nat /\ IsFiniteSet(NumaCores(h)[id])
         /\ \A k \in Nat : 0..(k - 1) \subseteq Nat /\ IsFiniteSet(0..(k - 1))
<1>1. TotalCores(h) \in Nat \ {0}
  <2>1. IsFiniteSet(CpuIds(h)) /\ CpuIds(h) # {}
    BY FS_Singleton DEF CpuIds, IsHost
  <2> QED
    BY <2>1, FS_CardinalityType, FS_EmptySet DEF TotalCores
<1>2. \A k \in Nat : 0..(k - 1) \subseteq Nat /\ IsFiniteSet(0..(k - 1))
  BY FS_Interval
<1>3. CASE DOMAIN h.nodes = {}
  <2>1. NumaCores(h) = [id \in {0} |-> 0..(TotalCores(h) - 1)]
    BY <1>3 DEF NumaCores
  <2> QED
    BY <1>1, <1>2, <2>1
<1>4. CASE DOMAIN h.nodes # {}
  <2>1. NumaCores(h) = [id \in DOMAIN h.nodes |-> ParseCpuList(h.nodes[id])]
    BY <1>4 DEF NumaCores
  <2>2. \A id \in DOMAIN h.nodes : ParseCpuList(h.nodes[id]) \subseteq h.cpus
    BY DEF IsHost
  <2>3. /\ h.cpus \subseteq Nat /\ IsFiniteSet(h.cpus) /\ DOMAIN h.nodes \subseteq Nat
    BY DEF IsHost
  <2>4. \A id \in DOMAIN h.nodes : IsFiniteSet(ParseCpuList(h.nodes[id]))
    BY <2>2, <2>3, FS_Subset
  <2> QED
    BY <1>1, <1>2, <2>1, <2>2, <2>3, <2>4
<1> QED
  BY <1>3, <1>4

Fallback(h, blocked) == (0..(TotalCores(h) - 1)) \ blocked

(* The cores that a call gives: the least of a node with room, or of all.  *)
LEMMA GivenCores ==
  ASSUME NEW h, IsHost(h), NEW n \in Nat, NEW blocked, NEW S \in SUBSET Nat, IsFiniteSet(S),
         n <= Cardinality(S \ blocked)
  PROVE  /\ Cardinality(ParseCpuList(FormatCpuset(Least(n, S \ blocked)))) = n
         /\ ParseCpuList(FormatCpuset(Least(n, S \ blocked))) \subseteq S \ blocked
<1>1. S \ blocked \in SUBSET Nat /\ IsFiniteSet(S \ blocked)
  BY FS_Subset
<1>2. Cardinality(Least(n, S \ blocked)) = n
  BY <1>1, LeastCount
<1>3. Least(n, S \ blocked) \subseteq S \ blocked
  BY DEF Least
<1>4. Least(n, S \ blocked) \in SUBSET Nat /\ IsFiniteSet(Least(n, S \ blocked))
  BY <1>1, <1>3, FS_Subset
<1> QED
  BY <1>2, <1>3, <1>4, CpusetIsReadAsWritten

(* allocate_cores gives as many cores as it was asked for, none of them    *)
(* blocked, all on the node it names if any one node had room for them,    *)
(* and it refuses only where there are too few.                            *)
THEOREM AllocateCoresIsExact ==
  ASSUME NEW h, IsHost(h), NEW n \in Nat \ {0}, NEW reserved, NEW taken
  PROVE  LET given == AllocateCores(h, n, reserved, taken)
             blocked == Blocked(h, reserved, taken)
             cores == ParseCpuList(given.cpuset)
             free(id) == NumaCores(h)[id] \ blocked
         IN  IF given = Refused
             THEN /\ \A id \in DOMAIN NumaCores(h) : Cardinality(free(id)) < n
                  /\ Cardinality(Fallback(h, blocked)) < n
             ELSE /\ Cardinality(cores) = n
                  /\ \/ given.node \in DOMAIN NumaCores(h) /\ cores \subseteq free(given.node)
                     \/ /\ \A id \in DOMAIN NumaCores(h) : Cardinality(free(id)) < n
                        /\ cores \subseteq Fallback(h, blocked)
<1> DEFINE given == AllocateCores(h, n, reserved, taken)
           blocked == Blocked(h, reserved, taken)
           cores == ParseCpuList(given.cpuset)
           roomy == NodesWithRoom(h, n, blocked)
           node == Min(roomy)
           local == NumaCores(h)[node] \ blocked
           all == Fallback(h, blocked)
<1>1. /\ TotalCores(h) \in Nat
      /\ \A id \in DOMAIN NumaCores(h) :
           NumaCores(h)[id] \subseteq Nat /\ IsFiniteSet(NumaCores(h)[id])
      /\ 0..(TotalCores(h) - 1) \subseteq Nat /\ IsFiniteSet(0..(TotalCores(h) - 1))
  BY CoresAreFinite
<1>2. ASSUME NEW id \in DOMAIN NumaCores(h)
      PROVE  Cardinality(NumaCores(h)[id] \ blocked) \in Nat
  BY <1>1, FS_Subset, FS_CardinalityType
<1>3. Cardinality(all) \in Nat
  BY <1>1, FS_Subset, FS_CardinalityType DEF Fallback
<1>4. \A id \in DOMAIN NumaCores(h) :
        id \notin roomy => Cardinality(NumaCores(h)[id] \ blocked) < n
  BY <1>2 DEF NodesWithRoom
<1>5. ParseCpuList(Refused.cpuset) = {}
  BY DEF ParseCpuList, Refused
<1>6. CASE roomy # {}
  <2>1. given = [cpuset |-> FormatCpuset(Least(n, local)), node |-> node]
    BY <1>6 DEF AllocateCores
  <2>2. node \in roomy
    <3>1. roomy \in SUBSET Nat
      BY CoresAreFinite DEF NodesWithRoom
    <3>2. \E x \in roomy : \A y \in roomy : x <= y
      BY <1>6, <3>1, LeastElement
    <3> QED
      BY <3>2 DEF Min
  <2>3. node \in DOMAIN NumaCores(h) /\ n <= Cardinality(local)
    BY <2>2, <1>2 DEF NodesWithRoom
  <2>4. Cardinality(cores) = n /\ cores \subseteq local
    <3> DEFINE S == NumaCores(h)[node]
    <3>1. S \in SUBSET Nat /\ IsFiniteSet(S)
      BY <1>1, <2>3
    <3>2. n \in Nat /\ n <= Cardinality(S \ blocked) /\ local = S \ blocked
      BY <2>3
    <3>3. cores = ParseCpuList(FormatCpuset(Least(n, S \ blocked)))
      BY <2>1
    <3> HIDE DEF S, local, cores, blocked
    <3> QED
      BY <3>1, <3>2, <3>3, GivenCores
  <2>5. given # Refused
    BY <1>5, <2>4, FS_EmptySet
  <2> QED
    BY <2>1, <2>3, <2>4, <2>5
<1>7. CASE roomy = {} /\ Cardinality(all) >= n
  <2>1. given = [cpuset |-> FormatCpuset(Least(n, all)), node |-> 0]
    BY <1>7 DEF AllocateCores, Fallback
  <2>2. Cardinality(cores) = n /\ cores \subseteq all
    <3> DEFINE S == 0..(TotalCores(h) - 1)
    <3>1. S \in SUBSET Nat /\ IsFiniteSet(S) /\ all = S \ blocked
      BY <1>1 DEF Fallback
    <3>2. n \in Nat /\ n <= Cardinality(S \ blocked)
      BY <1>3, <1>7, <3>1
    <3>3. cores = ParseCpuList(FormatCpuset(Least(n, S \ blocked)))
      BY <2>1, <3>1
    <3> HIDE DEF S, all, cores, blocked
    <3> QED
      BY <3>1, <3>2, <3>3, GivenCores
  <2>3. given # Refused
    BY <1>5, <2>2, FS_EmptySet
  <2> QED
    BY <1>4, <1>7, <2>2, <2>3
<1>8. CASE roomy = {} /\ ~(Cardinality(all) >= n)
  <2>1. given = Refused
    BY <1>8 DEF AllocateCores, Fallback
  <2> QED
    BY <1>3, <1>4, <1>8, <2>1
<1> QED
  BY <1>6, <1>7, <1>8
=============================================================================
