-------------------------- MODULE Topology_proofs --------------------------
(***************************************************************************)
(* Facts about the operators of Topology: what a worklist reaches, and the *)
(* enumeration of a set of nodes in the order of a key.  Induction is by a *)
(* least counterexample (WFMin), which needs no operator parameter.        *)
(***************************************************************************)
EXTENDS Topology, TLAPS, FiniteSetTheorems, FunctionTheorems, SequenceTheorems,
        WellFoundedInduction, NaturalsInduction

\* Every set of nodes is finite.
LEMMA NodesFinite ==
    ASSUME NEW S \in SUBSET Nodes
    PROVE  IsFiniteSet(S) /\ Cardinality(S) \in 0 .. N
<1>1. IsFiniteSet(Nodes) /\ Cardinality(Nodes) = N
    BY FS_Interval, NAssumption DEF Nodes
<1>2. IsFiniteSet(S) /\ Cardinality(S) <= Cardinality(Nodes)
    BY <1>1, FS_Subset
<1>3. Cardinality(S) \in Nat
    BY <1>2, FS_CardinalityType
<1> QED
    BY <1>1, <1>2, <1>3, NAssumption

\* Counting nodes: a set and another apart from it, a set without a part of it.
LEMMA NodesCounted ==
    /\ Cardinality({}) = 0
    /\ \A S \in SUBSET Nodes : Cardinality(S) = 0 <=> S = {}
    /\ \A n \in Nodes : Cardinality({n}) = 1
    /\ \A S, T \in SUBSET Nodes :
           S \cap T = {} => Cardinality(S \cup T) = Cardinality(S) + Cardinality(T)
    /\ \A S, T \in SUBSET Nodes :
           T \subseteq S => Cardinality(S \ T) = Cardinality(S) - Cardinality(T)
    /\ \A S \in SUBSET Nodes : \A n \in S : Cardinality(S \ {n}) = Cardinality(S) - 1
<1>1. Cardinality({}) = 0 /\ \A S \in SUBSET Nodes : Cardinality(S) = 0 <=> S = {}
    BY NodesFinite, FS_EmptySet
<1>2. \A n \in Nodes : Cardinality({n}) = 1
    BY FS_Singleton
<1>3. ASSUME NEW S \in SUBSET Nodes, NEW T \in SUBSET Nodes, S \cap T = {}
      PROVE  Cardinality(S \cup T) = Cardinality(S) + Cardinality(T)
    <2>1. Cardinality(S \cup T) = Cardinality(S) + Cardinality(T) - Cardinality(S \cap T)
        BY NodesFinite, FS_Union
    <2>2. Cardinality(S) \in Nat /\ Cardinality(T) \in Nat
        BY NodesFinite
    <2> QED
        BY <1>1, <1>3, <2>1, <2>2
<1>4. ASSUME NEW S \in SUBSET Nodes, NEW T \in SUBSET Nodes, T \subseteq S
      PROVE  Cardinality(S \ T) = Cardinality(S) - Cardinality(T)
    <2>1. Cardinality((S \ T) \cup T) = Cardinality(S \ T) + Cardinality(T)
        BY <1>3
    <2>2. Cardinality((S \ T) \cup T) = Cardinality(S)
        <3>1. (S \ T) \cup T = S
            BY <1>4
        <3> QED
            BY <3>1
    <2>3. Cardinality(S \ T) \in Nat /\ Cardinality(T) \in Nat
        BY NodesFinite
    <2> QED
        BY <2>1, <2>2, <2>3
<1>5. ASSUME NEW S \in SUBSET Nodes, NEW n \in S
      PROVE  Cardinality(S \ {n}) = Cardinality(S) - 1
    <2>1. {n} \in SUBSET Nodes /\ {n} \subseteq S /\ Cardinality({n}) = 1
        BY <1>2
    <2> QED
        BY <1>4, <2>1
<1> QED
    BY <1>1, <1>2, <1>3, <1>4, <1>5

\* A nonempty set of naturals has a least element.
LEMMA LeastNat ==
    ASSUME NEW T \in SUBSET Nat, T # {}
    PROVE  \E x \in T : \A y \in T : x <= y
<1>1. IsWellFoundedOn(OpToRel(<, Nat), Nat)
    BY NatLessThanWellFounded
<1>2. PICK x \in T : \A y \in T : ~ (<<y, x>> \in OpToRel(<, Nat))
    BY <1>1, WFMin
<1>3. ASSUME NEW y \in T PROVE x <= y
    <2>1. <<y, x>> \in Nat \X Nat
        OBVIOUS
    <2>2. ~ (y < x)
        BY <1>2, <2>1, Zenon DEF OpToRel
    <2> QED
        BY <2>2
<1> QED
    BY <1>3

\* Topology::select and the blocking loop of finish: the nodes reached contain
\* the start, are closed under the edges, and lie in every set that is so.
LEMMA ReachProperties ==
    ASSUME NEW start \in SUBSET Nodes, NEW edges \in [Nodes -> SUBSET Nodes]
    PROVE  /\ Reach(start, edges) \subseteq Nodes
           /\ start \subseteq Reach(start, edges)
           /\ ClosedUnder(Reach(start, edges), edges)
           /\ \A C \in SUBSET Nodes :
                 start \subseteq C /\ ClosedUnder(C, edges) => Reach(start, edges) \subseteq C
BY DEF Reach, ClosedUnder

-----------------------------------------------------------------------------
\* A key gives each node a number of its own, as an index or a place in the
\* topological order does.
IsKey(key) == key \in [Nodes -> Nat] /\ \A m, n \in Nodes : key[m] = key[n] => m = n

\* A set of nodes can be listed in ascending order of a key.
LEMMA ListingExists ==
    ASSUME NEW key, IsKey(key), NEW S \in SUBSET Nodes
    PROVE  \E q \in [1 .. Cardinality(S) -> S] : Ascending(q, key)
<1> DEFINE Listable(T) == \E q \in [1 .. Cardinality(T) -> T] : Ascending(q, key)
<1> DEFINE Unlistable == {T \in SUBSET Nodes : ~ Listable(T)}
<1> SUFFICES ASSUME Unlistable # {} PROVE FALSE
    OBVIOUS
<1>1. PICK T \in Unlistable : \A U \in Unlistable : Cardinality(T) <= Cardinality(U)
    <2> DEFINE Sizes == {Cardinality(U) : U \in Unlistable}
    <2>1. Sizes \in SUBSET Nat /\ Sizes # {}
        BY NodesFinite
    <2>2. PICK c \in Sizes : \A d \in Sizes : c <= d
        BY <2>1, LeastNat
    <2> QED
        BY <2>2
<1>2. IsFiniteSet(T) /\ Cardinality(T) \in Nat
    BY NodesFinite
<1>3. T # {}
    <2> SUFFICES ASSUME T = {} PROVE FALSE
        OBVIOUS
    <2>1. Cardinality(T) = 0
        BY FS_EmptySet
    <2>2. [i \in 1 .. 0 |-> i] \in [1 .. Cardinality(T) -> T]
        BY <2>1
    <2>3. Ascending([i \in 1 .. 0 |-> i], key)
        BY DEF Ascending
    <2> HIDE DEF Unlistable
    <2>4. Listable(T)
        BY <2>2, <2>3
    <2> QED
        BY <2>4 DEF Unlistable
<1>4. PICK x \in T : \A y \in T : key[x] <= key[y]
    <2>1. {key[y] : y \in T} \in SUBSET Nat /\ {key[y] : y \in T} # {}
        BY <1>3 DEF IsKey
    <2>2. PICK k \in {key[y] : y \in T} : \A l \in {key[y] : y \in T} : k <= l
        BY <2>1, LeastNat
    <2> QED
        BY <2>2
<1>5. PICK c \in Nat : Cardinality(T \ {x}) = c /\ Cardinality(T) = c + 1
    BY <1>2, FS_RemoveElement, NodesFinite
<1>6. T \ {x} \notin Unlistable
    <2> HIDE DEF Unlistable
    <2>1. T \ {x} \in Unlistable => c + 1 <= c
        BY <1>1, <1>5
    <2> QED
        BY <2>1
<1>7. PICK q \in [1 .. c -> T \ {x}] : Ascending(q, key)
    BY <1>5, <1>6
<1> DEFINE p == [i \in 1 .. c + 1 |-> IF i = 1 THEN x ELSE q[i - 1]]
<1> HIDE DEF Unlistable
<1>8. p \in [1 .. c + 1 -> T]
    <2>1. ASSUME NEW i \in 1 .. c + 1, i # 1 PROVE q[i - 1] \in T
        <3>1. i - 1 \in 1 .. c
            BY <2>1
        <3> QED
            BY <3>1
    <2> QED
        BY <2>1
<1>9. Ascending(p, key)
    <2> SUFFICES ASSUME NEW i \in 1 .. c + 1, NEW j \in 1 .. c + 1, i < j
                 PROVE  key[p[i]] < key[p[j]]
        BY <1>8 DEF Ascending
    <2>1. j - 1 \in 1 .. c /\ p[j] = q[j - 1]
        OBVIOUS
    <2>2. CASE i = 1
        <3>1. q[j - 1] \in T \ {x} /\ p[i] = x
            BY <2>1, <2>2
        <3>2. x \in Nodes /\ q[j - 1] \in Nodes
            BY <3>1 DEF Unlistable
        <3>3. key[x] <= key[q[j - 1]] /\ key[x] # key[q[j - 1]]
            BY <3>1, <3>2, <1>4 DEF IsKey
        <3>4. key[x] \in Nat /\ key[q[j - 1]] \in Nat
            BY <3>2 DEF IsKey
        <3> QED
            BY <3>1, <3>3, <3>4, <2>1
    <2>3. CASE i # 1
        <3>1. i - 1 \in 1 .. c /\ p[i] = q[i - 1] /\ i - 1 < j - 1
            BY <2>3
        <3> QED
            BY <3>1, <2>1, <1>7 DEF Ascending
    <2> QED
        BY <2>2, <2>3
<1>10. Listable(T)
    BY <1>5, <1>8, <1>9
<1> QED
    BY <1>10 DEF Unlistable

\* Listed(S, key) holds every member of S exactly once.
LEMMA ListedProperties ==
    ASSUME NEW key, IsKey(key), NEW S \in SUBSET Nodes
    PROVE  /\ Listed(S, key) \in Seq(Nodes)
           /\ Len(Listed(S, key)) = Cardinality(S)
           /\ DOMAIN Listed(S, key) = 1 .. Cardinality(S)
           /\ Ascending(Listed(S, key), key)
           /\ \A i, j \in 1 .. Cardinality(S) : Listed(S, key)[i] = Listed(S, key)[j] => i = j
           /\ {Listed(S, key)[i] : i \in 1 .. Cardinality(S)} = S
<1> DEFINE q == Listed(S, key)
           c == Cardinality(S)
<1>1. c \in Nat /\ IsFiniteSet(S)
    BY NodesFinite
<1>2. q \in [1 .. c -> S] /\ Ascending(q, key)
    BY ListingExists DEF Listed
<1>3. q \in Seq(Nodes) /\ Len(q) = c
    BY <1>1, <1>2
<1>4. \A i, j \in 1 .. c : q[i] = q[j] => i = j
    <2> SUFFICES ASSUME NEW i \in 1 .. c, NEW j \in 1 .. c, q[i] = q[j], i # j PROVE FALSE
        OBVIOUS
    <2>1. key[q[i]] < key[q[j]] \/ key[q[j]] < key[q[i]]
        BY <1>1, <1>2 DEF Ascending
    <2>2. key[q[i]] \in Nat
        BY <1>2 DEF IsKey
    <2> QED
        BY <2>1, <2>2
<1>5. q \in Injection(1 .. c, S)
    BY <1>2, <1>4 DEF Injection, IsInjective
<1>6. Cardinality(1 .. c) = c
    BY <1>1, FS_Interval
<1>7. q \in Surjection(1 .. c, S)
    BY <1>1, <1>5, <1>6, FS_Injection
<1>8. {q[i] : i \in 1 .. c} = S
    BY <1>7 DEF Surjection
<1> QED
    BY <1>2, <1>3, <1>4, <1>8

\* Dependents are released in the order of their indices: a key.
LEMMA IndexIsKey == IsKey(Index)
BY NAssumption DEF IsKey, Index, Nodes

\* RunState::new queues the sources in topological order: a key.
LEMMA PositionIsKey ==
    ASSUME NEW g, IsTopology(g)
    PROVE  IsKey(g.position)
<1>1. g.position \in [Nodes -> Nodes] /\ \A m, n \in Nodes : g.position[m] = g.position[n] => m = n
    BY DEF IsTopology
<1>2. Nodes \subseteq Nat
    BY NAssumption DEF Nodes
<1> QED
    BY <1>1, <1>2 DEF IsKey

\* A queue with another appended that shares no entry with it: each entry
\* once, and the entries of both.
LEMMA AppendedQueue ==
    ASSUME NEW s \in Seq(Nodes), NEW t \in Seq(Nodes),
           \A i, j \in 1 .. Len(s) : s[i] = s[j] => i = j,
           \A i, j \in 1 .. Len(t) : t[i] = t[j] => i = j,
           {s[i] : i \in 1 .. Len(s)} \cap {t[i] : i \in 1 .. Len(t)} = {}
    PROVE  /\ s \o t \in Seq(Nodes)
           /\ \A i, j \in DOMAIN (s \o t) : (s \o t)[i] = (s \o t)[j] => i = j
           /\ {(s \o t)[i] : i \in DOMAIN (s \o t)} =
                 {s[i] : i \in 1 .. Len(s)} \cup {t[i] : i \in 1 .. Len(t)}
<1> DEFINE u == s \o t
<1>1. Len(s) \in Nat /\ Len(t) \in Nat
    BY LenProperties
<1>2. /\ u \in Seq(Nodes)
      /\ DOMAIN u = 1 .. Len(s) + Len(t)
      /\ \A i \in 1 .. Len(s) + Len(t) : u[i] = IF i <= Len(s) THEN s[i] ELSE t[i - Len(s)]
    BY ConcatProperties, LenProperties
<1> HIDE DEF u
<1>3. ASSUME NEW i \in 1 .. Len(s) PROVE i \in DOMAIN u /\ u[i] = s[i]
    BY <1>1, <1>2
<1>4. ASSUME NEW i \in 1 .. Len(t) PROVE Len(s) + i \in DOMAIN u /\ u[Len(s) + i] = t[i]
    <2>1. /\ Len(s) + i \in 1 .. Len(s) + Len(t) /\ ~ (Len(s) + i <= Len(s))
          /\ (Len(s) + i) - Len(s) = i
        BY <1>1
    <2> QED
        BY <1>2, <2>1
<1>5. ASSUME NEW i \in DOMAIN u
      PROVE  \/ i \in 1 .. Len(s) /\ u[i] = s[i]
             \/ i - Len(s) \in 1 .. Len(t) /\ u[i] = t[i - Len(s)]
    BY <1>1, <1>2
<1>6. ASSUME NEW i \in DOMAIN u, NEW j \in DOMAIN u, u[i] = u[j]
      PROVE  i = j
    <2>1. CASE i \in 1 .. Len(s) /\ u[i] = s[i] /\ j \in 1 .. Len(s) /\ u[j] = s[j]
        BY <1>6, <2>1
    <2>2. CASE /\ i - Len(s) \in 1 .. Len(t) /\ u[i] = t[i - Len(s)]
               /\ j - Len(s) \in 1 .. Len(t) /\ u[j] = t[j - Len(s)]
        <3>1. i - Len(s) = j - Len(s)
            BY <1>6, <2>2
        <3> QED
            BY <1>1, <1>2, <3>1
    <2>3. ASSUME NEW a \in 1 .. Len(s), NEW b \in 1 .. Len(t) PROVE s[a] # t[b]
        OBVIOUS
    <2> QED
        BY <1>5, <1>6, <2>1, <2>2, <2>3
<1>7. {u[i] : i \in DOMAIN u} = {s[i] : i \in 1 .. Len(s)} \cup {t[i] : i \in 1 .. Len(t)}
    <2>1. \A i \in DOMAIN u : u[i] \in {s[k] : k \in 1 .. Len(s)} \cup {t[k] : k \in 1 .. Len(t)}
        BY <1>5
    <2>2. \A i \in 1 .. Len(s) : s[i] \in {u[k] : k \in DOMAIN u}
        BY <1>3
    <2>3. \A i \in 1 .. Len(t) : t[i] \in {u[k] : k \in DOMAIN u}
        BY <1>4
    <2> QED
        BY <2>1, <2>2, <2>3
<1> QED
    BY <1>2, <1>6, <1>7 DEF u

\* A queue without its head.
LEMMA TailOfQueue ==
    ASSUME NEW q \in Seq(Nodes), q # <<>>, Distinct(q)
    PROVE  /\ Head(q) \in Entries(q)
           /\ Tail(q) \in Seq(Nodes)
           /\ Distinct(Tail(q))
           /\ Entries(Tail(q)) = Entries(q) \ {Head(q)}
<1>1. /\ Len(q) \in Nat \ {0} /\ DOMAIN q = 1 .. Len(q) /\ Head(q) = q[1]
      /\ Tail(q) \in Seq(Nodes) /\ Len(Tail(q)) = Len(q) - 1 /\ DOMAIN Tail(q) = 1 .. Len(q) - 1
      /\ \A i \in 1 .. Len(q) - 1 : Tail(q)[i] = q[i + 1]
    BY HeadTailProperties, LenProperties
<1> DEFINE t == Tail(q)
<1> HIDE DEF t
<1>2. /\ t \in Seq(Nodes) /\ DOMAIN t = 1 .. Len(q) - 1
      /\ \A i \in 1 .. Len(q) - 1 : t[i] = q[i + 1]
    BY <1>1 DEF t
<1>3. Distinct(t)
    <2> SUFFICES ASSUME NEW i \in 1 .. Len(q) - 1, NEW j \in 1 .. Len(q) - 1, t[i] = t[j]
                 PROVE  i = j
        BY <1>2 DEF Distinct
    <2>1. i + 1 \in 1 .. Len(q) /\ j + 1 \in 1 .. Len(q) /\ q[i + 1] = q[j + 1]
        BY <1>1, <1>2
    <2>2. i + 1 = j + 1
        BY <1>1, <2>1 DEF Distinct
    <2> QED
        BY <2>2
<1>4. Entries(t) = Entries(q) \ {Head(q)}
    <2>1. ASSUME NEW n \in Entries(t) PROVE n \in Entries(q) \ {Head(q)}
        BY <1>1, <1>2 DEF Entries, Distinct
    <2>2. ASSUME NEW n \in Entries(q) \ {Head(q)} PROVE n \in Entries(t)
        <3>1. PICK i \in 1 .. Len(q) : q[i] = n /\ i # 1
            BY <1>1 DEF Entries
        <3>2. i - 1 \in 1 .. Len(q) - 1 /\ (i - 1) + 1 = i
            BY <1>1, <3>1
        <3> QED
            BY <1>2, <3>1, <3>2 DEF Entries
    <2> QED
        BY <2>1, <2>2
<1>5. Head(q) \in Entries(q)
    BY <1>1 DEF Entries
<1> QED
    BY <1>2, <1>3, <1>4, <1>5 DEF t

\* A queue with one entry more.
LEMMA QueueAppended ==
    ASSUME NEW q \in Seq(Nodes), Distinct(q), NEW n \in Nodes, n \notin Entries(q)
    PROVE  /\ Append(q, n) \in Seq(Nodes)
           /\ Distinct(Append(q, n))
           /\ Entries(Append(q, n)) = Entries(q) \cup {n}
<1>1. /\ Len(q) \in Nat /\ DOMAIN q = 1 .. Len(q)
      /\ Append(q, n) \in Seq(Nodes) /\ DOMAIN Append(q, n) = 1 .. Len(q) + 1
      /\ \A i \in 1 .. Len(q) : Append(q, n)[i] = q[i]
      /\ Append(q, n)[Len(q) + 1] = n
    BY AppendProperties, LenProperties
<1> DEFINE a == Append(q, n)
<1> HIDE DEF a
<1>2. /\ a \in Seq(Nodes) /\ DOMAIN a = 1 .. Len(q) + 1
      /\ \A i \in 1 .. Len(q) : a[i] = q[i]
      /\ a[Len(q) + 1] = n
    BY <1>1 DEF a
<1>3. Distinct(a)
    BY <1>1, <1>2 DEF Distinct, Entries
<1>4. Entries(a) = Entries(q) \cup {n}
    BY <1>1, <1>2 DEF Entries
<1> QED
    BY <1>2, <1>3, <1>4 DEF a
=============================================================================
