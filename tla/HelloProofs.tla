------------------------------ MODULE HelloProofs ------------------------------
(***************************************************************************)
(* Theorems about the hellos of the library, whatever order rand.Shuffle   *)
(* draws and whatever the GREASE values of a connection: two hellos that   *)
(* offer the same extensions have one JA4; a hello offers what its name    *)
(* stands for after the shuffle, the narrowing for a WebSocket, the shape  *)
(* for QUIC and the concealment of a placeholder.                          *)
(***************************************************************************)
EXTENDS StandsProofs, FiniteSetTheorems

------------------------------------------------------------------------------
(* Lists, by their elements.                                                *)

IsList(s) == Len(s) \in Nat /\ s = [i \in 1..Len(s) |-> s[i]]

LEMMA ListOf ==
    ASSUME NEW m \in Nat, NEW f, f = [i \in 1..m |-> f[i]]
    PROVE  IsList(f) /\ Len(f) = m /\ DOMAIN f = 1..m
<1> DEFINE T == {f[i] : i \in 1..m}
<1>1. f \in [1..m -> T]
  <2>1. \A i \in 1..m : f[i] \in T
    OBVIOUS
  <2> HIDE DEF T
  <2> QED BY <2>1
<1>2. f \in Seq(T)
  <2> HIDE DEF T
  <2> QED BY <1>1
<1>3. Len(f) = m
  <2> HIDE DEF T
  <2>1. DOMAIN f = 1..m /\ DOMAIN f = 1..Len(f) /\ Len(f) \in Nat
    BY <1>1, <1>2
  <2> QED BY <2>1
<1> QED BY <1>3 DEF IsList

LEMMA ListIs ==
    ASSUME NEW s, IsList(s)
    PROVE  Len(s) \in Nat /\ DOMAIN s = 1..Len(s)
<1>1. Len(s) \in Nat /\ s = [i \in 1..Len(s) |-> s[i]]
  BY DEF IsList
<1> QED BY <1>1, Zenon

LEMMA SeqIsList == ASSUME NEW T, NEW s \in Seq(T) PROVE IsList(s)
<1>1. Len(s) \in Nat /\ s \in [1..Len(s) -> T]
  OBVIOUS
<1>2. s = [i \in 1..Len(s) |-> s[i]]
  BY <1>1
<1> QED BY <1>1, <1>2 DEF IsList

LEMMA ListIsSeq == ASSUME NEW s, IsList(s) PROVE s \in Seq({s[i] : i \in DOMAIN s})
<1> DEFINE T == {s[i] : i \in DOMAIN s}
<1>1. Len(s) \in Nat /\ s = [i \in 1..Len(s) |-> s[i]] /\ DOMAIN s = 1..Len(s)
  BY ListIs DEF IsList
<1>2. \A i \in 1..Len(s) : s[i] \in T
  BY <1>1
<1> HIDE DEF T
<1>3. s \in [1..Len(s) -> T]
  BY <1>1, <1>2
<1>4. s \in Seq(T)
  BY <1>1, <1>3
<1> QED BY <1>4 DEF T

\* Lists are told apart by their lengths and elements.
LEMMA SameList ==
    ASSUME NEW s, IsList(s), NEW t, IsList(t), Len(s) = Len(t), \A i \in 1..Len(s) : s[i] = t[i]
    PROVE  s = t
<1>1. s = [i \in 1..Len(s) |-> s[i]] /\ t = [i \in 1..Len(s) |-> t[i]]
  BY DEF IsList
<1>2. [i \in 1..Len(s) |-> s[i]] = [i \in 1..Len(s) |-> t[i]]
  OBVIOUS
<1> QED BY <1>1, <1>2, Zenon

Joins(j, s, t) ==
    /\ IsList(j) /\ Len(j) = Len(s) + Len(t) /\ DOMAIN j = 1..(Len(s) + Len(t))
    /\ \A i \in 1..Len(s) : j[i] = s[i]
    /\ \A i \in 1..Len(t) : j[Len(s) + i] = t[i]

LEMMA JoinIs == ASSUME NEW s, IsList(s), NEW t, IsList(t) PROVE Joins(s \o t, s, t)
<1> DEFINE T == {s[i] : i \in DOMAIN s} \cup {t[i] : i \in DOMAIN t}
<1>1. s \in Seq({s[i] : i \in DOMAIN s}) /\ t \in Seq({t[i] : i \in DOMAIN t})
  BY ListIsSeq
<1>2. s \in Seq(T) /\ t \in Seq(T)
  <2>1. Len(s) \in Nat /\ DOMAIN s = 1..Len(s) /\ Len(t) \in Nat /\ DOMAIN t = 1..Len(t)
    BY ListIs
  <2>2. s \in [1..Len(s) -> T] /\ t \in [1..Len(t) -> T]
    BY <1>1, <2>1
  <2> HIDE DEF T
  <2> QED BY <2>1, <2>2
<1> HIDE DEF T
<1>3. s \o t \in Seq(T) /\ Len(s \o t) = Len(s) + Len(t)
  BY <1>2
<1>4. /\ \A i \in 1..Len(s) : (s \o t)[i] = s[i]
      /\ \A i \in 1..Len(t) : (s \o t)[Len(s) + i] = t[i]
  BY <1>2
<1>5. IsList(s \o t)
  BY <1>3, SeqIsList
<1>6. DOMAIN (s \o t) = 1..Len(s \o t)
  BY <1>5, ListIs
<1> QED BY <1>3, <1>4, <1>5, <1>6, Zenon DEF Joins

Appends(j, s, e) ==
    /\ IsList(j) /\ Len(j) = Len(s) + 1 /\ DOMAIN j = 1..(Len(s) + 1)
    /\ \A i \in 1..Len(s) : j[i] = s[i]
    /\ j[Len(s) + 1] = e

LEMMA AppendIs == ASSUME NEW s, IsList(s), NEW e PROVE Appends(Append(s, e), s, e)
<1> DEFINE T == {s[i] : i \in DOMAIN s} \cup {e}
<1>1. s \in Seq({s[i] : i \in DOMAIN s})
  BY ListIsSeq
<1>2. s \in Seq(T) /\ e \in T
  <2>1. Len(s) \in Nat /\ DOMAIN s = 1..Len(s)
    BY ListIs
  <2>2. s \in [1..Len(s) -> T] /\ e \in T
    BY <1>1, <2>1
  <2> HIDE DEF T
  <2> QED BY <2>1, <2>2
<1> HIDE DEF T
<1>3. /\ Append(s, e) \in Seq(T) /\ Len(Append(s, e)) = Len(s) + 1
      /\ \A i \in 1..Len(s) : Append(s, e)[i] = s[i]
      /\ Append(s, e)[Len(s) + 1] = e
  BY <1>2
<1>4. IsList(Append(s, e))
  BY <1>3, SeqIsList
<1>5. DOMAIN Append(s, e) = 1..Len(Append(s, e))
  BY <1>4, ListIs
<1> QED BY <1>3, <1>4, <1>5, Zenon DEF Appends

------------------------------------------------------------------------------
(* The places that a loop keeps.                                            *)

\* One step of the loop, and its steps up to place n.
Step(from, S, i) ==
    IF i = 0 THEN <<>> ELSE IF i \in S THEN Append(from[i - 1], i) ELSE from[i - 1]
Gathers(from, S, n) == from = [i \in 0..n |-> Step(from, S, i)]

Enumerates(p, T) ==
    /\ IsList(p)
    /\ \A k \in DOMAIN p : p[k] \in T
    /\ \A i \in T : \E k \in DOMAIN p : p[k] = i
    /\ \A j, k \in DOMAIN p : j < k => p[j] < p[k]

LEMMA GathersExists == ASSUME NEW S PROVE \A n \in Nat : \E from : Gathers(from, S, n)
<1> DEFINE bad == {n \in Nat : ~\E from : Gathers(from, S, n)}
<1>1. ASSUME bad # {} PROVE FALSE
  <2>1. PICK n \in bad : \A m \in bad : n <= m
    <3>1. bad \in SUBSET Nat
      OBVIOUS
    <3> HIDE DEF bad
    <3> QED BY <1>1, <3>1, LeastOf
  <2>2. n \in Nat /\ ~\E from : Gathers(from, S, n)
    OBVIOUS
  <2>3. CASE n = 0
    <3> DEFINE f == [i \in 0..0 |-> <<>>]
    <3>1. \A i \in 0..0 : Step(f, S, i) = <<>>
      BY DEF Step
    <3>2. Gathers(f, S, 0)
      BY <3>1 DEF Gathers
    <3> QED BY <2>2, <2>3, <3>2
  <2>4. CASE n # 0
    <3>1. n - 1 \in Nat /\ ~(n <= n - 1)
      BY <2>2, <2>4
    <3>2. n - 1 \notin bad
      BY <2>1, <3>1
    <3>3. PICK f : Gathers(f, S, n - 1)
      BY <3>1, <3>2
    <3> DEFINE h == [i \in 0..n |-> IF i = n THEN Step(f, S, n) ELSE f[i]]
    <3>4. \A i \in 0..n - 1 : f[i] = Step(f, S, i)
      BY <3>3 DEF Gathers
    <3>5. \A i \in 0..n : h[i] = Step(h, S, i)
      <4> SUFFICES ASSUME NEW i \in 0..n PROVE h[i] = Step(h, S, i)
        OBVIOUS
      <4>1. i # 0 => h[i - 1] = f[i - 1]
        BY <2>2
      <4>2. Step(h, S, i) = Step(f, S, i)
        <5> HIDE DEF h
        <5> QED BY <4>1 DEF Step
      <4>3. i # n => h[i] = Step(f, S, i)
        BY <2>2, <3>4
      <4> QED BY <2>2, <4>2, <4>3
    <3>6. Gathers(h, S, n)
      <4>1. h = [i \in 0..n |-> h[i]]
        OBVIOUS
      <4> HIDE DEF h
      <4>2. [i \in 0..n |-> h[i]] = [i \in 0..n |-> Step(h, S, i)]
        BY <3>5
      <4> QED BY <4>1, <4>2, Zenon DEF Gathers
    <3> QED BY <2>2, <3>6
  <2> QED BY <2>3, <2>4
<1> QED BY <1>1

LEMMA NoneEnumerated == Enumerates(<<>>, {})
<1>1. IsList(<<>>) /\ DOMAIN <<>> = {}
  <2>1. <<>> \in Seq({}) /\ DOMAIN <<>> = {}
    OBVIOUS
  <2> QED BY <2>1, SeqIsList
<1> QED BY <1>1 DEF Enumerates

LEMMA OneMoreEnumerated ==
    ASSUME NEW n \in Nat, NEW T \in SUBSET (1..n), NEW p, Enumerates(p, T)
    PROVE  Enumerates(Append(p, n + 1), T \cup {n + 1})
<1> DEFINE q == Append(p, n + 1)
<1>1. Appends(q, p, n + 1)
  BY AppendIs DEF Enumerates
<1>2. Len(p) \in Nat /\ DOMAIN p = 1..Len(p)
  BY ListIs DEF Enumerates
<1> HIDE DEF q
<1>3. \A k \in DOMAIN q : (k \in DOMAIN p /\ q[k] = p[k]) \/ (k = Len(p) + 1 /\ q[k] = n + 1)
  BY <1>1, <1>2 DEF Appends
<1>4. \A k \in DOMAIN q : q[k] \in T \cup {n + 1}
  BY <1>3 DEF Enumerates
<1>5. \A i \in T \cup {n + 1} : \E k \in DOMAIN q : q[k] = i
  <2>1. ASSUME NEW i \in T PROVE \E k \in DOMAIN q : q[k] = i
    <3>1. PICK k \in DOMAIN p : p[k] = i
      BY DEF Enumerates
    <3>2. k \in DOMAIN q /\ q[k] = i
      BY <1>1, <1>2, <3>1 DEF Appends
    <3> QED BY <3>2
  <2>2. Len(p) + 1 \in DOMAIN q /\ q[Len(p) + 1] = n + 1
    BY <1>1, <1>2 DEF Appends
  <2> QED BY <2>1, <2>2
<1>6. ASSUME NEW j \in DOMAIN q, NEW k \in DOMAIN q, j < k PROVE q[j] < q[k]
  <2>1. j \in DOMAIN p /\ q[j] = p[j]
    BY <1>1, <1>2, <1>3, <1>6 DEF Appends
  <2>2. p[j] \in 1..n
    BY <2>1 DEF Enumerates
  <2>3. CASE k \in DOMAIN p /\ q[k] = p[k]
    BY <1>6, <2>1, <2>3 DEF Enumerates
  <2>4. CASE q[k] = n + 1
    BY <2>1, <2>2, <2>4
  <2> QED BY <1>3, <2>3, <2>4
<1> QED BY <1>1, <1>4, <1>5, <1>6 DEF Enumerates, Appends, q

LEMMA GathersEnumerates ==
    ASSUME NEW n \in Nat, NEW S, NEW from, Gathers(from, S, n)
    PROVE  \A i \in 0..n : Enumerates(from[i], S \cap (1..i))
<1> DEFINE bad == {i \in 0..n : ~Enumerates(from[i], S \cap (1..i))}
<1>1. \A i \in 0..n : from[i] = Step(from, S, i)
  BY DEF Gathers
<1>2. ASSUME bad # {} PROVE FALSE
  <2>1. PICK i \in bad : \A j \in bad : i <= j
    <3>1. bad \in SUBSET Nat
      OBVIOUS
    <3> HIDE DEF bad
    <3> QED BY <1>2, <3>1, LeastOf
  <2>2. i \in 0..n /\ ~Enumerates(from[i], S \cap (1..i))
    OBVIOUS
  <2>3. CASE i = 0
    <3>1. from[i] = <<>> /\ S \cap (1..i) = {}
      BY <1>1, <2>2, <2>3 DEF Step
    <3> QED BY <2>2, <3>1, NoneEnumerated
  <2>4. CASE i # 0
    <3> DEFINE m == i - 1
    <3>1. m \in Nat /\ m \in 0..n /\ i = m + 1 /\ ~(i <= m)
      BY <2>2, <2>4
    <3>2. m \notin bad
      BY <2>1, <3>1
    <3>3. Enumerates(from[m], S \cap (1..m))
      BY <3>1, <3>2
    <3>4. from[i] = IF i \in S THEN Append(from[m], i) ELSE from[m]
      BY <1>1, <2>2, <2>4 DEF Step
    <3> HIDE DEF m
    <3>5. CASE i \in S
      <4>1. S \cap (1..i) = (S \cap (1..m)) \cup {m + 1}
        BY <3>1, <3>5
      <4>2. S \cap (1..m) \in SUBSET (1..m)
        OBVIOUS
      <4>3. Enumerates(Append(from[m], m + 1), (S \cap (1..m)) \cup {m + 1})
        BY <3>1, <3>3, <4>2, OneMoreEnumerated
      <4> QED BY <2>2, <3>1, <3>4, <3>5, <4>1, <4>3
    <3>6. CASE i \notin S
      <4>1. S \cap (1..i) = S \cap (1..m)
        BY <3>1, <3>6
      <4> QED BY <2>2, <3>3, <3>4, <3>6, <4>1
    <3> QED BY <3>5, <3>6
  <2> QED BY <2>3, <2>4
<1> QED BY <1>2

\* The places of a set are listed in order, each once: what holds of every
\* loop that keeps some elements of a list.
LEMMA PlacesAre ==
    ASSUME NEW n \in Nat, NEW S \in SUBSET (1..n) PROVE Enumerates(Places(n, S), S)
<1> DEFINE all == CHOOSE from : Gathers(from, S, n)
<1>1. Gathers(all, S, n)
  BY GathersExists, Zenon
<1>2. Places(n, S) = all[n]
  BY Zenon DEF Places, Gathers, Step
<1> HIDE DEF all
<1>3. Enumerates(all[n], S \cap (1..n))
  BY <1>1, GathersEnumerates
<1>4. S \cap (1..n) = S
  OBVIOUS
<1> QED BY <1>2, <1>3, <1>4

\* A list of the members of a set, each once, has as many as the set.
LEMMA CountPlaces ==
    ASSUME NEW T \in SUBSET Nat, NEW p, Enumerates(p, T)
    PROVE  IsFiniteSet(T) /\ Cardinality(T) = Len(p)
<1> DEFINE n == Len(p)
<1>1. n \in Nat /\ DOMAIN p = 1..n
  BY ListIs DEF Enumerates
<1>2. \A k \in 1..n : p[k] \in T
  BY <1>1, Zenon DEF Enumerates
<1>3. p \in [1..n -> T]
  <2>1. p = [k \in 1..n |-> p[k]]
    BY DEF Enumerates, IsList
  <2> QED BY <1>2, <2>1
<1>4. ASSUME NEW j \in 1..n, NEW k \in 1..n, p[j] = p[k] PROVE j = k
  <2>1. p[j] \in Nat /\ p[k] \in Nat
    BY <1>2
  <2>2. ~(j < k) /\ ~(k < j)
    BY <1>1, <1>4, <2>1 DEF Enumerates
  <2> QED BY <1>1, <2>2
<1>5. \A t \in T : \E k \in 1..n : p[k] = t
  BY <1>1, Zenon DEF Enumerates
<1> HIDE DEF n
<1>6. p \in Bijection(1..n, T)
  BY <1>3, <1>4, <1>5 DEF Bijection, Injection, Surjection, IsInjective
<1>7. ExistsBijection(1..n, T)
  BY <1>6, Zenon DEF ExistsBijection
<1>8. IsFiniteSet(1..n) /\ Cardinality(1..n) = n
  BY <1>1, FS_Interval
<1> QED BY <1>7, <1>8, FS_Bijection, Zenon DEF n

\* What a loop leaves of the list s that keeps the places S.
Keeps(q, s, S) ==
    /\ IsList(q) /\ IsFiniteSet(S) /\ Len(q) = Cardinality(S)
    /\ \E p : /\ Enumerates(p, S) /\ Len(p) = Len(q) /\ DOMAIN p = DOMAIN q
              /\ \A k \in DOMAIN q : q[k] = s[p[k]]

LEMMA SublistIs ==
    ASSUME NEW s, IsList(s), NEW S \in SUBSET DOMAIN s
    PROVE  Keeps(Sublist(s, S), s, S)
<1> DEFINE p == Places(Len(s), S)
           q == [k \in DOMAIN p |-> s[p[k]]]
<1>1. Len(s) \in Nat /\ S \in SUBSET (1..Len(s)) /\ S \in SUBSET Nat
  <2>1. Len(s) \in Nat /\ DOMAIN s = 1..Len(s)
    BY ListIs
  <2> QED BY <2>1
<1>2. Enumerates(p, S)
  BY <1>1, PlacesAre
<1>3. Sublist(s, S) = q
  BY Zenon DEF Sublist
<1> HIDE DEF p
<1>4. IsFiniteSet(S) /\ Cardinality(S) = Len(p)
  BY <1>1, <1>2, CountPlaces
<1>5. Len(p) \in Nat /\ DOMAIN p = 1..Len(p)
  BY <1>2, ListIs DEF Enumerates
<1>6. q = [k \in 1..Len(p) |-> q[k]] /\ \A k \in DOMAIN p : q[k] = s[p[k]]
  BY <1>5
<1> HIDE DEF q
<1>7. IsList(q) /\ Len(q) = Len(p) /\ DOMAIN q = DOMAIN p
  BY <1>5, <1>6, ListOf, Zenon
<1> QED BY <1>2, <1>3, <1>4, <1>6, <1>7, Zenon DEF Keeps

\* By their elements: each kept place has one, in order.
LEMMA KeptOnce ==
    ASSUME NEW s, NEW S, NEW q, Keeps(q, s, S)
    PROVE  /\ \A i \in S : \E k \in DOMAIN q : q[k] = s[i]
           /\ \A k \in DOMAIN q : \E i \in S : q[k] = s[i]
BY DEF Keeps, Enumerates

LEMMA SameSublists ==
    ASSUME NEW s, IsList(s), NEW t, IsList(t), Len(s) = Len(t), NEW S \in SUBSET DOMAIN s,
           \A i \in S : s[i] = t[i]
    PROVE  Sublist(s, S) = Sublist(t, S)
<1> DEFINE p == Places(Len(s), S)
<1>1. Len(s) \in Nat /\ S \in SUBSET (1..Len(s))
  <2>1. Len(s) \in Nat /\ DOMAIN s = 1..Len(s)
    BY ListIs
  <2> QED BY <2>1
<1>2. \A k \in DOMAIN p : p[k] \in S
  BY <1>1, PlacesAre, Zenon DEF Enumerates
<1>3. Sublist(s, S) = [k \in DOMAIN p |-> s[p[k]]] /\ Sublist(t, S) = [k \in DOMAIN p |-> t[p[k]]]
  BY Zenon DEF Sublist
<1> HIDE DEF p
<1> QED BY <1>2, <1>3

\* The beginning of a list.
LEMMA BeginningIs ==
    ASSUME NEW s, IsList(s), NEW m \in 0..Len(s)
    PROVE  LET q == Sublist(s, 1..m)
           IN IsList(q) /\ Len(q) = m /\ \A k \in 1..m : q[k] = s[k]
<1> DEFINE q == Sublist(s, 1..m)
<1>1. Len(s) \in Nat /\ DOMAIN s = 1..Len(s) /\ (1..m) \in SUBSET DOMAIN s
  BY ListIs
<1>2. Keeps(q, s, 1..m)
  BY <1>1, SublistIs
<1> HIDE DEF q
<1>3. PICK p : /\ Enumerates(p, 1..m) /\ Len(p) = Len(q) /\ DOMAIN p = DOMAIN q
               /\ \A k \in DOMAIN q : q[k] = s[p[k]]
  BY <1>2 DEF Keeps
<1>4. IsList(q) /\ Len(q) = m /\ DOMAIN q = 1..m
  <2>1. Cardinality(1..m) = m
    BY <1>1, FS_Interval
  <2> QED BY <1>2, <2>1, ListIs DEF Keeps
<1> DEFINE off == {k \in 1..m : p[k] # k}
<1>5. ASSUME off # {} PROVE FALSE
  <2>1. PICK k \in off : \A j \in off : k <= j
    <3>1. off \in SUBSET Nat
      OBVIOUS
    <3> HIDE DEF off
    <3> QED BY <1>5, <3>1, LeastOf
  <2>2. k \in 1..m /\ p[k] # k /\ \A j \in 1..m : j < k => p[j] = j
    BY <2>1
  <2>3. p[k] \in 1..m /\ p[k] > k
    <3>1. p[k] \in 1..m
      BY <1>3, <1>4, <2>2 DEF Enumerates
    <3>2. \A j \in 1..m : j < k => p[j] < p[k]
      BY <1>3, <1>4, <2>2 DEF Enumerates
    <3>3. p[k] < k => p[p[k]] = p[k] /\ p[p[k]] < p[k]
      BY <2>2, <3>1, <3>2
    <3> QED BY <2>2, <3>1, <3>3
  <2>4. PICK j \in 1..m : p[j] = k
    BY <1>3, <1>4, <2>2 DEF Enumerates
  <2>5. j > k
    BY <2>2, <2>4
  <2>6. p[k] < p[j]
    BY <1>3, <1>4, <2>2, <2>5 DEF Enumerates
  <2> QED BY <2>3, <2>4, <2>6
<1>6. \A k \in 1..m : q[k] = s[k]
  BY <1>3, <1>4, <1>5
<1> QED BY <1>4, <1>6 DEF q

------------------------------------------------------------------------------
(* What a fingerprint reads of a list of extensions, whatever their order.  *)

\* Of a GREASE extension nothing; of the others the id, and the data that are
\* read.
Named(X) == {i \in DOMAIN X : ~isGREASE(X[i].id)}
Mark(e) ==
    IF e.id \in {0, 13, 16} THEN e.data.list
    ELSE IF e.id = 43 THEN stripGREASE(e.data.list) ELSE <<>>
Said(X) == {<<X[i].id, Mark(X[i])>> : i \in Named(X)}
Once(X) == IsList(X) /\ \A i, j \in Named(X) : X[i].id = X[j].id => i = j

\* Two lists that say the same: each place has a place of the other.
LEMMA SaidAlike ==
    ASSUME NEW X, NEW Y, Said(X) = Said(Y), NEW i \in Named(X)
    PROVE  \E j \in Named(Y) : Y[j].id = X[i].id /\ Mark(Y[j]) = Mark(X[i])
<1>1. <<X[i].id, Mark(X[i])>> \in Said(Y)
  BY Zenon DEF Said
<1>2. PICK j \in Named(Y) : <<X[i].id, Mark(X[i])>> = <<Y[j].id, Mark(Y[j])>>
  BY <1>1, Zenon DEF Said
<1> HIDE DEF Mark, Named
<1> QED BY <1>2

\* Places that name the same ids are as many.
LEMMA SameIds ==
    ASSUME NEW X, Once(X), NEW Y, Once(Y), NEW S \in SUBSET Named(X), NEW T \in SUBSET Named(Y),
           \A i \in S : \E j \in T : Y[j].id = X[i].id, \A j \in T : \E i \in S : X[i].id = Y[j].id
    PROVE  IsFiniteSet(S) /\ IsFiniteSet(T) /\ Cardinality(S) = Cardinality(T)
<1> DEFINE f == [i \in S |-> CHOOSE j \in T : Y[j].id = X[i].id]
<1>1. \A i \in S : f[i] \in T /\ Y[f[i]].id = X[i].id
  OBVIOUS
<1>2. f \in [S -> T]
  <2>1. f = [i \in S |-> f[i]]
    OBVIOUS
  <2> HIDE DEF f
  <2> QED BY <1>1, <2>1
<1> HIDE DEF f
<1>3. \A i, j \in S : f[i] = f[j] => i = j
  BY <1>1 DEF Once
<1>4. \A j \in T : \E i \in S : f[i] = j
  <2> SUFFICES ASSUME NEW j \in T PROVE \E i \in S : f[i] = j
    OBVIOUS
  <2>1. PICK i \in S : X[i].id = Y[j].id
    OBVIOUS
  <2>2. f[i] = j
    BY <1>1, <2>1 DEF Once
  <2> QED BY <2>2
<1>5. f \in Bijection(S, T)
  BY <1>2, <1>3, <1>4, Zenon DEF Bijection, Injection, Surjection, IsInjective
<1>6. IsFiniteSet(S)
  <2>1. Len(X) \in Nat /\ DOMAIN X = 1..Len(X)
    BY ListIs DEF Once
  <2>2. IsFiniteSet(1..Len(X)) /\ S \in SUBSET (1..Len(X))
    BY <2>1, FS_Interval DEF Named
  <2> QED BY <2>2, FS_Subset
<1> QED BY <1>5, <1>6, FS_Bijection, Zenon DEF ExistsBijection

LEMMA SameNumber ==
    ASSUME NEW X, Once(X), NEW Y, Once(Y), Said(X) = Said(Y)
    PROVE  Cardinality(Named(X)) = Cardinality(Named(Y))
<1>1. ASSUME NEW i \in Named(X) PROVE \E j \in Named(Y) : Y[j].id = X[i].id
  BY SaidAlike, ZenonT(40)
<1>2. ASSUME NEW j \in Named(Y) PROVE \E i \in Named(X) : X[i].id = Y[j].id
  BY SaidAlike, ZenonT(40)
<1> QED BY <1>1, <1>2, SameIds

\* An extension that comes once: its data are what is read under its id.
LEMMA SameListed ==
    ASSUME NEW wire, NEW id
    PROVE  Lib!ListOf(wire, id) =
             LET places == {i \in DOMAIN wire.exts : wire.exts[i].id = id}
             IN IF places = {} THEN <<>> ELSE wire.exts[Max(places)].data.list
BY Zenon DEF Lib!ListOf, Max, Lib!Max

LEMMA DataIs ==
    ASSUME NEW wire, Once(wire.exts), NEW id, ~isGREASE(id)
    PROVE  \/ \E i \in Named(wire.exts) : wire.exts[i].id = id /\ Lib!ListOf(wire, id) = wire.exts[i].data.list
           \/ Lib!ListOf(wire, id) = <<>> /\ \A i \in Named(wire.exts) : wire.exts[i].id # id
<1> DEFINE X == wire.exts
           places == {i \in DOMAIN X : X[i].id = id}
<1>1. Lib!ListOf(wire, id) = IF places = {} THEN <<>> ELSE X[Max(places)].data.list
  BY SameListed, Zenon
<1>2. Len(X) \in Nat /\ DOMAIN X = 1..Len(X) /\ places \in SUBSET (0..Len(X))
  BY ListIs DEF Once
<1>3. places \in SUBSET Named(X)
  BY DEF Named
<1>4. CASE places = {}
  <2>1. \A i \in Named(X) : X[i].id # id
    BY <1>4 DEF Named
  <2> QED BY <1>1, <1>4, <2>1
<1>5. CASE places # {}
  <2>1. Max(places) \in places
    <3> HIDE DEF places
    <3> QED BY <1>2, <1>5, MaxIs
  <2>2. Max(places) \in Named(X) /\ X[Max(places)].id = id
    BY <1>3, <2>1
  <2> HIDE DEF places
  <2> QED BY <1>1, <1>5, <2>2
<1> QED BY <1>4, <1>5

LEMMA SameData ==
    ASSUME NEW v, NEW w, Once(v.exts), Once(w.exts), Said(v.exts) = Said(w.exts)
    PROVE  /\ \A id \in {0, 13, 16} : Lib!ListOf(v, id) = Lib!ListOf(w, id)
           /\ stripGREASE(Lib!ListOf(v, 43)) = stripGREASE(Lib!ListOf(w, 43))
<1> DEFINE Read0(x, id) == IF id = 43 THEN stripGREASE(Lib!ListOf(x, id)) ELSE Lib!ListOf(x, id)
<1> DEFINE V == Named(v.exts)
           W == Named(w.exts)
<1>1. ASSUME NEW id \in {0, 13, 16, 43} PROVE Read0(v, id) = Read0(w, id)
  <2>1. ~isGREASE(id)
    BY DEF isGREASE
  <2>2. \/ \E i \in V : v.exts[i].id = id /\ Lib!ListOf(v, id) = v.exts[i].data.list
        \/ Lib!ListOf(v, id) = <<>> /\ \A i \in V : v.exts[i].id # id
    BY <2>1, DataIs
  <2>3. \/ \E i \in W : w.exts[i].id = id /\ Lib!ListOf(w, id) = w.exts[i].data.list
        \/ Lib!ListOf(w, id) = <<>> /\ \A i \in W : w.exts[i].id # id
    BY <2>1, DataIs
  <2>4. CASE \E i \in V : v.exts[i].id = id /\ Lib!ListOf(v, id) = v.exts[i].data.list
    <3>1. PICK i \in V : v.exts[i].id = id /\ Lib!ListOf(v, id) = v.exts[i].data.list
      BY <2>4
    <3>2. PICK j \in W : w.exts[j].id = id /\ Mark(w.exts[j]) = Mark(v.exts[i])
      BY <3>1, SaidAlike
    <3>3. PICK k \in W : w.exts[k].id = id /\ Lib!ListOf(w, id) = w.exts[k].data.list
      BY <2>3, <3>2
    <3>4. k = j
      BY <3>2, <3>3 DEF Once
    <3>5. Mark(w.exts[k]) = Mark(v.exts[i])
      BY <3>2, <3>4
    <3> HIDE DEF V, W
    <3>6. CASE id = 43
      <4>1. /\ Mark(w.exts[k]) = stripGREASE(w.exts[k].data.list)
            /\ Mark(v.exts[i]) = stripGREASE(v.exts[i].data.list)
        BY <3>1, <3>3, <3>6 DEF Mark
      <4> QED BY <3>1, <3>3, <3>5, <3>6, <4>1, Zenon
    <3>7. CASE id # 43
      <4>1. Mark(w.exts[k]) = w.exts[k].data.list /\ Mark(v.exts[i]) = v.exts[i].data.list
        BY <3>1, <3>3, <3>7 DEF Mark
      <4> QED BY <3>1, <3>3, <3>5, <3>7, <4>1, Zenon
    <3> QED BY <3>6, <3>7
  <2>5. CASE Lib!ListOf(v, id) = <<>> /\ \A i \in V : v.exts[i].id # id
    <3>1. \A j \in W : w.exts[j].id # id
      BY <2>5, SaidAlike
    <3>2. Lib!ListOf(w, id) = <<>>
      BY <2>3, <3>1
    <3> QED BY <2>5, <3>2
  <2> QED BY <2>2, <2>4, <2>5
<1>2. \A id \in {0, 13, 16} : Lib!ListOf(v, id) = Lib!ListOf(w, id)
  BY <1>1
<1>3. stripGREASE(Lib!ListOf(v, 43)) = stripGREASE(Lib!ListOf(w, 43))
  BY <1>1
<1> QED BY <1>2, <1>3, Zenon

Distinct(q) == \A j, k \in DOMAIN q : q[j] = q[k] => j = k

\* A loop keeps lists without repetitions so.
LEMMA KeptDistinct ==
    ASSUME NEW s, NEW S, NEW q, Keeps(q, s, S), S \subseteq Nat,
           \A i, j \in S : s[i] = s[j] => i = j
    PROVE  Distinct(q)
<1>1. PICK p : /\ Enumerates(p, S) /\ Len(p) = Len(q) /\ DOMAIN p = DOMAIN q
               /\ \A k \in DOMAIN q : q[k] = s[p[k]]
  BY DEF Keeps
<1>2. DOMAIN q = 1..Len(q) /\ Len(q) \in Nat
  BY ListIs DEF Keeps
<1> SUFFICES ASSUME NEW j \in DOMAIN q, NEW k \in DOMAIN q, q[j] = q[k], j # k PROVE FALSE
  BY DEF Distinct
<1>3. p[j] \in S /\ p[k] \in S /\ p[j] = p[k]
  BY <1>1 DEF Enumerates
<1>4. (j < k => p[j] < p[k]) /\ (k < j => p[k] < p[j])
  BY <1>1 DEF Enumerates
<1>5. ~(p[j] < p[j])
  <2>1. p[j] \in Nat
    BY <1>3, Zenon
  <2>2. \A n \in Nat : ~(n < n)
    OBVIOUS
  <2> QED BY <2>1, <2>2, Zenon
<1> QED BY <1>2, <1>3, <1>4, <1>5

LEMMA SortedDistinct ==
    ASSUME NEW q, NEW r, Distinct(q), Distinct(r), ToSet(q) = ToSet(r)
    PROVE  Sorted(q) = Sorted(r)
<1>1. ASSUME NEW s, Distinct(s) PROVE Sorted(s) = [v \in ToSet(s) |-> 1]
  <2>1. ASSUME NEW v \in ToSet(s) PROVE Cardinality({i \in DOMAIN s : s[i] = v}) = 1
    <3>1. PICK i \in DOMAIN s : s[i] = v
      BY DEF ToSet
    <3>2. {k \in DOMAIN s : s[k] = v} = {i}
      BY <1>1, <3>1 DEF Distinct
    <3> QED BY <3>2, FS_Singleton
  <2> QED BY <2>1 DEF Sorted
<1> QED BY <1>1, Zenon

\* The ids that a fingerprint lists.
IdsOf(X) == [i \in DOMAIN X |-> X[i].id]

LEMMA IdsKept ==
    ASSUME NEW X, Once(X)
    PROVE  LET kept == stripGREASE(IdsOf(X))
           IN /\ IsList(kept) /\ Len(kept) = Cardinality(Named(X)) /\ Distinct(kept)
              /\ ToSet(kept) = {X[i].id : i \in Named(X)}
<1> DEFINE ids == IdsOf(X)
           kept == stripGREASE(ids)
<1>1. Len(X) \in Nat /\ DOMAIN X = 1..Len(X)
  BY ListIs DEF Once
<1>2. ids = [i \in 1..Len(X) |-> ids[i]] /\ \A i \in DOMAIN X : ids[i] = X[i].id
  BY <1>1 DEF IdsOf
<1>3. {i \in DOMAIN ids : ~isGREASE(ids[i])} = Named(X)
  BY <1>2 DEF Named, IdsOf
<1>4. kept = Sublist(ids, Named(X))
  BY <1>3, Zenon DEF stripGREASE
<1> HIDE DEF ids, kept
<1>5. IsList(ids) /\ DOMAIN ids = DOMAIN X
  BY <1>1, <1>2, ListOf
<1>6. Named(X) \in SUBSET DOMAIN ids /\ Named(X) \subseteq Nat
  BY <1>1, <1>5 DEF Named
<1>7. Keeps(kept, ids, Named(X))
  BY <1>4, <1>5, <1>6, SublistIs
<1>8. \A i \in Named(X) : ids[i] = X[i].id
  BY <1>2 DEF Named
<1>9. Distinct(kept)
  <2>1. \A i, j \in Named(X) : ids[i] = ids[j] => i = j
    BY <1>8 DEF Once
  <2> QED BY <1>6, <1>7, <2>1, KeptDistinct, Zenon
<1>10. ToSet(kept) = {X[i].id : i \in Named(X)}
  <2>1. /\ \A i \in Named(X) : \E k \in DOMAIN kept : kept[k] = X[i].id
        /\ \A k \in DOMAIN kept : \E i \in Named(X) : kept[k] = X[i].id
    BY <1>7, <1>8, KeptOnce
  <2> QED BY <2>1 DEF ToSet
<1>11. IsList(kept) /\ Len(kept) = Cardinality(Named(X))
  BY <1>7 DEF Keeps
<1> QED BY <1>9, <1>10, <1>11, Zenon DEF kept, ids

\* The ids that are hashed, in the order of their numbers.
Hashed(ids) == Sublist(ids, {i \in DOMAIN ids : ids[i] # 0 /\ ids[i] # 16})

LEMMA HashedIs ==
    ASSUME NEW q, IsList(q), Distinct(q)
    PROVE  Distinct(Hashed(q)) /\ ToSet(Hashed(q)) = ToSet(q) \ {0, 16}
<1> DEFINE S == {i \in DOMAIN q : q[i] # 0 /\ q[i] # 16}
           r == Hashed(q)
<1>1. DOMAIN q = 1..Len(q) /\ Len(q) \in Nat
  BY ListIs
<1>2. S \in SUBSET DOMAIN q /\ S \subseteq Nat
  BY <1>1
<1>3. Keeps(r, q, S)
  BY <1>2, SublistIs, Zenon DEF Hashed
<1>4. \A i, j \in S : q[i] = q[j] => i = j
  BY DEF Distinct
<1>5. /\ \A i \in S : \E k \in DOMAIN r : r[k] = q[i]
      /\ \A k \in DOMAIN r : \E i \in S : r[k] = q[i]
  <2> HIDE DEF S, r
  <2> QED BY <1>3, KeptOnce
<1>6. ToSet(r) = ToSet(q) \ {0, 16}
  <2> HIDE DEF r
  <2> QED BY <1>5 DEF ToSet
<1>7. Distinct(r)
  <2> HIDE DEF S, r
  <2> QED BY <1>2, <1>3, <1>4, KeptDistinct, Zenon
<1> QED BY <1>6, <1>7

\* Two hellos that say the same have one JA4: in whatever order their
\* extensions are, wherever their GREASE extensions are and whatever the GREASE
\* values, which is why Chrome may shuffle (spec152.go:129-137, fingerprint.go:227-296).
THEOREM JA4IgnoresOrder ==
    ASSUME NEW v, NEW w, Once(v.exts), Once(w.exts), Said(v.exts) = Said(w.exts),
           ~Lib!Fails(v), ~Lib!Fails(w), v.version = w.version,
           stripGREASE(v.ciphers) = stripGREASE(w.ciphers)
    PROVE  /\ Lib!JA4(Lib!ParseClientHello(v)) = Lib!JA4(Lib!ParseClientHello(w))
           /\ Lib!JA4QUIC(Lib!ParseClientHello(v)) = Lib!JA4QUIC(Lib!ParseClientHello(w))
<1> DEFINE c == Lib!ParseClientHello(v)
           d == Lib!ParseClientHello(w)
<1>1. /\ c.version = v.version /\ d.version = w.version
      /\ c.ciphers = v.ciphers /\ d.ciphers = w.ciphers
      /\ c.exts = IdsOf(v.exts) /\ d.exts = IdsOf(w.exts)
      /\ c.sni = Lib!parseSNI(Lib!ListOf(v, 0)) /\ d.sni = Lib!parseSNI(Lib!ListOf(w, 0))
      /\ c.sigalgs = Lib!ListOf(v, 13) /\ d.sigalgs = Lib!ListOf(w, 13)
      /\ c.alpn = Lib!ListOf(v, 16) /\ d.alpn = Lib!ListOf(w, 16)
      /\ c.versions = Lib!ListOf(v, 43) /\ d.versions = Lib!ListOf(w, 43)
  BY DEF Lib!ParseClientHello, Lib!Fields, Lib!Ids, IdsOf, Lib!ServerName,
         Lib!SignatureAlgorithms, Lib!ALPN, Lib!SupportedVersions
<1> HIDE DEF c, d
<1>2. /\ c.version = d.version /\ c.sni = d.sni /\ c.sigalgs = d.sigalgs /\ c.alpn = d.alpn
      /\ stripGREASE(c.versions) = stripGREASE(d.versions)
      /\ stripGREASE(c.ciphers) = stripGREASE(d.ciphers)
  <2>1. /\ \A id \in {0, 13, 16} : Lib!ListOf(v, id) = Lib!ListOf(w, id)
        /\ stripGREASE(Lib!ListOf(v, 43)) = stripGREASE(Lib!ListOf(w, 43))
    BY SameData
  <2> QED BY <1>1, <2>1
<1> DEFINE C == stripGREASE(c.exts)
           D == stripGREASE(d.exts)
<1>3. /\ IsList(C) /\ Len(C) = Cardinality(Named(v.exts)) /\ Distinct(C)
      /\ ToSet(C) = {v.exts[i].id : i \in Named(v.exts)}
  BY <1>1, IdsKept
<1>4. /\ IsList(D) /\ Len(D) = Cardinality(Named(w.exts)) /\ Distinct(D)
      /\ ToSet(D) = {w.exts[i].id : i \in Named(w.exts)}
  BY <1>1, IdsKept
<1>5. Len(C) = Len(D)
  BY <1>3, <1>4, SameNumber
<1>6. ToSet(C) = ToSet(D)
  <2>1. ASSUME NEW i \in Named(v.exts) PROVE \E j \in Named(w.exts) : w.exts[j].id = v.exts[i].id
    BY SaidAlike, ZenonT(40)
  <2>2. ASSUME NEW j \in Named(w.exts) PROVE \E i \in Named(v.exts) : v.exts[i].id = w.exts[j].id
    BY SaidAlike, ZenonT(40)
  <2>3. {v.exts[i].id : i \in Named(v.exts)} = {w.exts[i].id : i \in Named(w.exts)}
    BY <2>1, <2>2
  <2> QED BY <1>3, <1>4, <2>3, Zenon
<1> HIDE DEF C, D
<1>7. Sorted(Hashed(C)) = Sorted(Hashed(D))
  <2>1. Distinct(Hashed(C)) /\ ToSet(Hashed(C)) = ToSet(C) \ {0, 16}
    BY <1>3, HashedIs
  <2>2. Distinct(Hashed(D)) /\ ToSet(Hashed(D)) = ToSet(D) \ {0, 16}
    BY <1>4, HashedIs
  <2>3. ToSet(Hashed(C)) = ToSet(Hashed(D))
    BY <1>6, <2>1, <2>2, Zenon
  <2> QED BY <2>1, <2>2, <2>3, SortedDistinct
<1>8. Lib!ja4C(c) = Lib!ja4C(d)
  <2>1. ASSUME NEW x
        PROVE  Lib!ja4C(x) = <<Sorted(Hashed(stripGREASE(x.exts))), stripGREASE(x.sigalgs)>>
    <3> DEFINE ids == stripGREASE(x.exts)
    <3>1. Lib!ja4C(x) = <<Lib!Sorted(Lib!Sublist(ids, {i \in DOMAIN ids : ids[i] # 0 /\ ids[i] # 16})),
                          stripGREASE(x.sigalgs)>>
      BY SameStrip, Zenon DEF Lib!ja4C, Lib!ServerName, Lib!ALPN
    <3> HIDE DEF ids
    <3>2. Lib!ja4C(x) = <<Sorted(Hashed(ids)), stripGREASE(x.sigalgs)>>
      BY <3>1, SameSublist, SameSorted, Zenon DEF Hashed
    <3> QED BY <3>2 DEF ids
  <2> QED BY <1>2, <1>7, <2>1, Zenon DEF C, D
<1>9. Lib!ja4B(c) = Lib!ja4B(d)
  BY <1>2, SameStrip, Zenon DEF Lib!ja4B
<1>10. Lib!ja4VersionToken(c) = Lib!ja4VersionToken(d)
  BY <1>2, SameStrip, Zenon DEF Lib!ja4VersionToken
<1>11. \A protocol : Lib!ja4A(c, protocol) = Lib!ja4A(d, protocol)
  <2>1. Len(Lib!stripGREASE(c.exts)) = Len(Lib!stripGREASE(d.exts))
    BY <1>5, SameStrip, Zenon DEF C, D
  <2>2. Lib!stripGREASE(c.ciphers) = Lib!stripGREASE(d.ciphers)
    BY <1>2, SameStrip, Zenon
  <2>3. Lib!ja4SNIToken(c) = Lib!ja4SNIToken(d) /\ Lib!ja4ALPNToken(c) = Lib!ja4ALPNToken(d)
    BY <1>2, Zenon DEF Lib!ja4SNIToken, Lib!ja4ALPNToken
  <2> QED BY <1>10, <2>1, <2>2, <2>3, Zenon DEF Lib!ja4A
<1>12. Lib!JA4(c) = Lib!JA4(d) /\ Lib!JA4QUIC(c) = Lib!JA4QUIC(d)
  BY <1>8, <1>9, <1>11, Zenon DEF Lib!JA4, Lib!JA4QUIC
<1> QED BY <1>12 DEF c, d

------------------------------------------------------------------------------
(* The hellos of the library, from the spec of a name to the wire.          *)

Whole(data) == ~data.short /\ data.len = Len(data.list) /\ IsRow(data.list)
Ours(e) ==
    /\ Whole(e.data)
    /\ isGREASE(e.id) <=> e.kind = "grease"
    /\ e.kind = "alpn" <=> e.id = 16
    /\ e.kind = "psk" => e.id = 41
    /\ e.id = 41 => e.kind \in {"psk", "generic"}
    /\ e.id = 0 => e.data.list = <<[type |-> 0, name |-> <<97>>]>>
    /\ e.id = 16 => e.data.list \in {<<Own!h2, Own!http11>>, <<Own!http11>>, <<Own!h3>>}

\* uTLS writes lists as long as it says.
LEMMA ListedIs ==
    ASSUME NEW list, IsRow(list)
    PROVE  Whole(Own!Listed(list)) /\ Own!Listed(list).list = list
BY DEF Own!Listed, Whole

LEMMA ShortRows ==
    /\ IsRow(<<>>)
    /\ \A a : IsRow(<<a>>) /\ \A b : IsRow(<<a, b>>)
    /\ \A a, b, c : IsRow(<<a, b, c>>) /\ \A d : IsRow(<<a, b, c, d>>)
BY DEF IsRow

Offer(e) == <<e.id, e.kind, Mark(e)>>
Offers(X) == {Offer(X[i]) : i \in Named(X)}

\* An id comes once, and a pre_shared_key last.
Good(X) ==
    /\ Once(X)
    /\ \A i \in DOMAIN X : Ours(X[i]) /\ (X[i].id = 41 => i = Len(X))

LEMMA SaidOfOffers ==
    ASSUME NEW X, NEW Y, Offers(X) = Offers(Y) PROVE Said(X) = Said(Y)
<1>1. ASSUME NEW A PROVE Said(A) = {<<o[1], o[3]>> : o \in Offers(A)}
  <2>1. \A i \in Named(A) : Offer(A[i])[1] = A[i].id /\ Offer(A[i])[3] = Mark(A[i])
    BY DEF Offer
  <2> HIDE DEF Mark, Named
  <2>2. \A x \in Said(A) : x \in {<<o[1], o[3]>> : o \in Offers(A)}
    BY <2>1, Zenon DEF Said, Offers
  <2>3. \A o \in Offers(A) : <<o[1], o[3]>> \in Said(A)
    BY <2>1, ZenonT(40) DEF Said, Offers
  <2> QED BY <2>2, <2>3
<1> QED BY <1>1, Zenon

LEMMA OwnSublist == \A s, S : Own!Sublist(s, S) = Sublist(s, S)
BY Zenon DEF Sublist, Own!Sublist, Places, Own!Places

LEMMA OwnPSK == ASSUME NEW e, Ours(e) PROVE Own!IsPSK(e) <=> e.id = 41
BY DEF Own!IsPSK, Ours

\* A loop that keeps some of the extensions.
LEMMA KeptOffers ==
    ASSUME NEW X, Good(X), NEW S \in SUBSET DOMAIN X, NEW Y, Keeps(Y, X, S)
    PROVE  /\ Good(Y)
           /\ \A i \in S : \E k \in DOMAIN Y : Y[k] = X[i]
           /\ \A k \in DOMAIN Y : \E i \in S : Y[k] = X[i]
           /\ Offers(Y) = {Offer(X[i]) : i \in S \cap Named(X)}
<1>1. PICK p : /\ Enumerates(p, S) /\ Len(p) = Len(Y) /\ DOMAIN p = DOMAIN Y
               /\ \A k \in DOMAIN Y : Y[k] = X[p[k]]
  BY DEF Keeps
<1>2. /\ DOMAIN X = 1..Len(X) /\ Len(X) \in Nat /\ DOMAIN Y = 1..Len(Y) /\ Len(Y) \in Nat
      /\ IsList(Y)
  BY ListIs DEF Good, Once, Keeps
<1>3. \A k \in DOMAIN Y : p[k] \in S /\ p[k] \in DOMAIN X
  BY <1>1 DEF Enumerates
<1>4. \A i \in S : \E k \in DOMAIN Y : p[k] = i /\ Y[k] = X[i]
  BY <1>1 DEF Enumerates
<1>5. \A j, k \in DOMAIN Y : p[j] = p[k] => j = k
  <2> SUFFICES ASSUME NEW j \in DOMAIN Y, NEW k \in DOMAIN Y, p[j] = p[k], j # k PROVE FALSE
    OBVIOUS
  <2>1. p[j] \in Nat /\ p[k] \in Nat
    BY <1>2, <1>3
  <2>2. (j < k => p[j] < p[k]) /\ (k < j => p[k] < p[j])
    BY <1>1 DEF Enumerates
  <2> QED BY <1>2, <2>1, <2>2
<1>6. \A k \in DOMAIN Y : k \in Named(Y) <=> p[k] \in Named(X)
  BY <1>1, <1>3 DEF Named
<1>7. Once(Y)
  <2>1. \A j, k \in Named(Y) : Y[j].id = Y[k].id => p[j] = p[k]
    <3>1. \A k \in Named(Y) : k \in DOMAIN Y /\ p[k] \in Named(X) /\ Y[k] = X[p[k]]
      BY <1>1, <1>6 DEF Named
    <3> QED BY <3>1 DEF Good, Once
  <2>2. \A j, k \in Named(Y) : Y[j].id = Y[k].id => j = k
    BY <1>5, <2>1 DEF Named
  <2> QED BY <1>2, <2>2 DEF Once
<1>8. ASSUME NEW k \in DOMAIN Y PROVE Ours(Y[k]) /\ (Y[k].id = 41 => k = Len(Y))
  <2>1. Ours(Y[k])
    BY <1>1, <1>3 DEF Good
  <2>2. ASSUME Y[k].id = 41, k # Len(Y) PROVE FALSE
    <3>1. p[k] = Len(X)
      BY <1>1, <1>3, <2>2 DEF Good
    <3>2. k + 1 \in DOMAIN Y /\ k < k + 1
      BY <1>2, <2>2
    <3>3. p[k] < p[k + 1] /\ p[k + 1] \in 1..Len(X)
      BY <1>1, <1>2, <1>3, <3>2 DEF Enumerates
    <3> QED BY <1>2, <3>1, <3>3
  <2> QED BY <2>1, <2>2
<1>9. Offers(Y) = {Offer(X[i]) : i \in S \cap Named(X)}
  <2> HIDE DEF Offer
  <2>1. \A k \in Named(Y) : p[k] \in S \cap Named(X) /\ Y[k] = X[p[k]]
    BY <1>1, <1>3, <1>6 DEF Named
  <2>2. \A i \in S \cap Named(X) : \E k \in Named(Y) : Y[k] = X[i]
    BY <1>4, <1>6 DEF Named
  <2> QED BY <2>1, <2>2 DEF Offers
<1> QED BY <1>1, <1>3, <1>4, <1>7, <1>8, <1>9 DEF Good

\* A list in another order, the last one where it was.
LEMMA MovedOffers ==
    ASSUME NEW X, Good(X), Len(X) > 0, NEW Y, IsList(Y), Len(Y) = Len(X),
           NEW move \in [DOMAIN X -> DOMAIN X], move[Len(X)] = Len(X),
           \A i, j \in DOMAIN X : move[i] = move[j] => i = j,
           \A i \in DOMAIN X : \E j \in DOMAIN X : move[j] = i,
           \A i \in DOMAIN X : Y[i] = X[move[i]]
    PROVE  Good(Y) /\ Offers(Y) = Offers(X)
<1>1. DOMAIN X = 1..Len(X) /\ Len(X) \in Nat /\ DOMAIN Y = DOMAIN X /\ Len(X) \in DOMAIN X
  BY ListIs DEF Good, Once
<1>2. \A k \in DOMAIN Y : k \in Named(Y) <=> move[k] \in Named(X)
  BY <1>1 DEF Named
<1>3. Once(Y)
  <2>1. \A k \in Named(Y) : k \in DOMAIN X /\ move[k] \in Named(X) /\ Y[k] = X[move[k]]
    BY <1>1, <1>2 DEF Named
  <2>2. ASSUME NEW j \in Named(Y), NEW k \in Named(Y), Y[j].id = Y[k].id PROVE move[j] = move[k]
    <3>1. X[move[j]].id = X[move[k]].id /\ move[j] \in Named(X) /\ move[k] \in Named(X)
      BY <2>1, <2>2, Zenon
    <3>2. \A a, b \in Named(X) : X[a].id = X[b].id => a = b
      BY DEF Good, Once
    <3> QED BY <3>1, <3>2, Zenon
  <2>3. \A j, k \in Named(Y) : Y[j].id = Y[k].id => j = k
    BY <2>1, <2>2
  <2> QED BY <2>3 DEF Once
<1>4. \A k \in DOMAIN Y : Ours(Y[k]) /\ (Y[k].id = 41 => k = Len(Y))
  <2> SUFFICES ASSUME NEW k \in DOMAIN Y PROVE Ours(Y[k]) /\ (Y[k].id = 41 => k = Len(Y))
    OBVIOUS
  <2>1. Ours(Y[k])
    BY <1>1 DEF Good
  <2>2. Y[k].id = 41 => move[k] = move[Len(X)]
    BY <1>1 DEF Good
  <2> QED BY <1>1, <2>1, <2>2
<1>5. Offers(Y) = Offers(X)
  <2> HIDE DEF Offer
  <2>1. \A k \in Named(Y) : move[k] \in Named(X) /\ Y[k] = X[move[k]]
    BY <1>1, <1>2 DEF Named
  <2>2. \A i \in Named(X) : \E k \in Named(Y) : Y[k] = X[i]
    BY <1>1, <1>2 DEF Named
  <2> QED BY <2>1, <2>2 DEF Offers
<1> QED BY <1>3, <1>4, <1>5 DEF Good

LEMMA RemoveLast ==
    ASSUME NEW B, IsList(B), NEW e
    PROVE  Own!RemoveAt(Append(B, e), Len(B) + 1) = B
<1> DEFINE X == Append(B, e)
           n == Len(B)
           T == {X[i] : i \in DOMAIN X}
<1>1. n \in Nat /\ DOMAIN B = 1..n
  BY ListIs
<1>2. Appends(X, B, e)
  BY AppendIs
<1> HIDE DEF X
<1>3. X \in Seq(T) /\ Len(X) = n + 1
  BY <1>2, ListIsSeq DEF Appends
<1> HIDE DEF T
<1>4. /\ SubSeq(X, 1, n) \in Seq(T) /\ Len(SubSeq(X, 1, n)) = n
      /\ \A i \in 1..n : SubSeq(X, 1, n)[i] = X[i]
  BY <1>1, <1>3
<1>5. SubSeq(X, n + 2, n + 1) = <<>>
  BY <1>1, <1>3
<1>6. Own!RemoveAt(X, n + 1) = SubSeq(X, 1, (n + 1) - 1) \o SubSeq(X, (n + 1) + 1, Len(X))
  BY Zenon DEF Own!RemoveAt
<1>7. (n + 1) - 1 = n /\ (n + 1) + 1 = n + 2
  BY <1>1
<1>8. Own!RemoveAt(X, n + 1) = SubSeq(X, 1, n)
  BY <1>3, <1>4, <1>5, <1>6, <1>7
<1>9. SubSeq(X, 1, n) = B
  <2>1. IsList(SubSeq(X, 1, n))
    BY <1>4, SeqIsList
  <2>2. \A i \in 1..n : SubSeq(X, 1, n)[i] = B[i]
    BY <1>2, <1>4 DEF Appends
  <2> QED BY <1>4, <2>1, <2>2, SameList
<1> QED BY <1>8, <1>9 DEF X

LEMMA WithoutLastPSK ==
    ASSUME NEW B, NEW e, Good(Append(B, e)), IsList(B), e.id = 41
    PROVE  /\ {i \in DOMAIN Append(B, e) : Own!IsPSK(Append(B, e)[i])} = {Len(B) + 1}
           /\ Own!Min({Len(B) + 1}) = Len(B) + 1
           /\ Own!WithoutPSK(Append(B, e)) = B
<1> DEFINE X == Append(B, e)
           key == {i \in DOMAIN X : Own!IsPSK(X[i])}
           n == Len(B)
<1>1. n \in Nat /\ DOMAIN B = 1..n /\ Appends(X, B, e)
  BY AppendIs, ListIs
<1>2. key = {n + 1}
  <2>1. \A i \in DOMAIN X : Own!IsPSK(X[i]) <=> X[i].id = 41
    BY OwnPSK DEF Good
  <2>2. \A i \in DOMAIN X : X[i].id = 41 => i = Len(X)
    BY DEF Good
  <2>3. n + 1 \in DOMAIN X /\ Len(X) = n + 1 /\ X[n + 1] = e
    BY <1>1 DEF Appends
  <2> HIDE DEF X
  <2> QED BY <2>1, <2>2, <2>3
<1>3. Own!Min({n + 1}) = n + 1
  <2>1. Own!Min({n + 1}) = Min({n + 1})
    BY Zenon DEF Own!Min, Min
  <2>2. {n + 1} \in SUBSET Nat /\ {n + 1} # {}
    BY <1>1
  <2>3. Min({n + 1}) \in {n + 1}
    BY <2>2, MinIs, Zenon
  <2> QED BY <2>1, <2>3
<1>4. Own!WithoutPSK(X) = IF key = {} THEN X ELSE Own!RemoveAt(X, Own!Min(key))
  BY Zenon DEF Own!WithoutPSK
<1>5. Own!WithoutPSK(X) = Own!RemoveAt(X, n + 1)
  <2> HIDE DEF key, X, n
  <2> QED BY <1>2, <1>3, <1>4
<1>6. Own!RemoveAt(X, n + 1) = B
  BY RemoveLast
<1> QED BY <1>2, <1>3, <1>5, <1>6, Zenon

\* The shuffle: the pre_shared_key stays last, and the hello offers what it did.
LEMMA ShuffledOffers ==
    ASSUME NEW B, NEW e, IsList(B), Good(Append(B, e)), e.id = 41,
           NEW order, Own!Permutes(order, Own!Movable(B))
    PROVE  LET Y == Own!shuffleExtensions(Append(B, e), order)
           IN Good(Y) /\ Offers(Y) = Offers(Append(B, e)) /\ Len(Y) = Len(B) + 1
<1> DEFINE X == Append(B, e)
           Y == Own!shuffleExtensions(X, order)
           n == Len(B)
           M == Own!Movable(B)
           mixed == [i \in DOMAIN B |-> IF i \in M THEN B[order[i]] ELSE B[i]]
           move == [i \in 1..n + 1 |-> IF i \in M THEN order[i] ELSE i]
<1>1. n \in Nat /\ DOMAIN B = 1..n /\ Appends(X, B, e)
  BY AppendIs, ListIs
<1>2. Y = mixed \o <<X[n + 1]>>
  <2> DEFINE key == {i \in DOMAIN X : Own!IsPSK(X[i])}
             rest == Own!WithoutPSK(X)
  <2>1. Y = [i \in DOMAIN rest |-> IF i \in Own!Movable(rest) THEN rest[order[i]] ELSE rest[i]]
            \o (IF key = {} THEN <<>> ELSE <<X[Own!Min(key)]>>)
    BY Zenon DEF Own!shuffleExtensions
  <2>2. key = {n + 1} /\ Own!Min(key) = n + 1 /\ rest = B
    BY WithoutLastPSK, Zenon
  <2>3. key # {}
    BY <2>2
  <2> HIDE DEF key, rest, X, n
  <2> QED BY <2>1, <2>2, <2>3, Zenon
<1>3. M \in SUBSET (1..n)
  BY <1>1 DEF Own!Movable
<1>4. /\ order \in [M -> M] /\ \A i, j \in M : order[i] = order[j] => i = j
      /\ \A i \in M : \E j \in M : order[j] = i
  <2>1. order \in [M -> M] /\ Own!IsInjective(order) /\ \A i \in M : \E j \in M : order[j] = i
    BY Zenon DEF Own!Permutes
  <2> HIDE DEF M
  <2>2. DOMAIN order = M
    BY <2>1
  <2> QED BY <2>1, <2>2, Zenon DEF Own!IsInjective
<1> HIDE DEF X, Y, M
<1>5. mixed = [i \in 1..n |-> mixed[i]]
  BY <1>1
<1>6. \A i \in 1..n : mixed[i] = X[move[i]]
  <2>1. \A i \in 1..n : X[i] = B[i]
    BY <1>1 DEF Appends
  <2>2. \A i \in M : order[i] \in 1..n
    BY <1>3, <1>4
  <2>3. \A i \in 1..n : i \in 1..n + 1
    BY <1>1
  <2> QED BY <1>1, <2>1, <2>2, <2>3
<1>7. Joins(Y, mixed, <<X[n + 1]>>) /\ Len(mixed) = n
  <2> HIDE DEF mixed
  <2>1. IsList(mixed) /\ Len(mixed) = n
    BY <1>1, <1>5, ListOf
  <2>2. <<X[n + 1]>> \in Seq({X[n + 1]})
    OBVIOUS
  <2>3. IsList(<<X[n + 1]>>)
    BY <2>2, SeqIsList
  <2> QED BY <1>2, <2>1, <2>3, JoinIs
<1>8. IsList(Y) /\ Len(Y) = n + 1 /\ \A i \in 1..n + 1 : Y[i] = X[move[i]]
  <2>1. Y[n + 1] = X[n + 1] /\ move[n + 1] = n + 1
    <3>1. Y[Len(mixed) + 1] = <<X[n + 1]>>[1]
      BY <1>7 DEF Joins
    <3> HIDE DEF mixed
    <3> QED BY <1>1, <1>3, <1>7, <3>1
  <2>2. \A i \in 1..n : Y[i] = mixed[i]
    <3> HIDE DEF mixed
    <3> QED BY <1>7 DEF Joins
  <2> HIDE DEF mixed, move
  <2>3. IsList(Y) /\ Len(Y) = n + 1
    BY <1>1, <1>7 DEF Joins
  <2>4. \A i \in 1..n + 1 : i \in 1..n \/ i = n + 1
    BY <1>1
  <2> QED BY <1>6, <2>1, <2>2, <2>3, <2>4, Zenon
<1>9. Len(X) = n + 1 /\ DOMAIN X = 1..n + 1
  BY <1>1 DEF Appends
<1>10. /\ move \in [1..n + 1 -> 1..n + 1] /\ move[n + 1] = n + 1
       /\ \A i, j \in 1..n + 1 : move[i] = move[j] => i = j
       /\ \A i \in 1..n + 1 : \E j \in 1..n + 1 : move[j] = i
  <2>1. \A i \in 1..n + 1 : move[i] = (IF i \in M THEN order[i] ELSE i) /\ (i \in M <=> move[i] \in M)
    BY <1>4
  <2>2. ASSUME NEW i \in 1..n + 1 PROVE move[i] \in 1..n + 1
    <3>1. i \in M => order[i] \in M
      BY <1>4
    <3>2. M \subseteq 1..n + 1
      BY <1>1, <1>3
    <3> HIDE DEF move
    <3> QED BY <2>1, <3>1, <3>2, Zenon
  <2>3. move \in [1..n + 1 -> 1..n + 1]
    <3>1. move = [i \in 1..n + 1 |-> move[i]]
      OBVIOUS
    <3> HIDE DEF move
    <3> QED BY <2>2, <3>1
  <2> HIDE DEF move
  <2>4. move[n + 1] = n + 1
    BY <1>1, <1>3, <2>1
  <2>5. \A i, j \in 1..n + 1 : move[i] = move[j] => i = j
    BY <1>4, <2>1
  <2>6. \A i \in 1..n + 1 : \E j \in 1..n + 1 : move[j] = i
    <3> SUFFICES ASSUME NEW i \in 1..n + 1 PROVE \E j \in 1..n + 1 : move[j] = i
      OBVIOUS
    <3>1. CASE i \in M
      <4>1. PICK j \in M : order[j] = i
        BY <1>4, <3>1
      <4>2. j \in 1..n + 1
        BY <1>1, <1>3
      <4>3. move[j] = i
        BY <2>1, <4>1, <4>2
      <4> QED BY <4>2, <4>3
    <3>2. CASE i \notin M
      BY <2>1, <3>2
    <3> QED BY <3>1, <3>2
  <2> QED BY <2>3, <2>4, <2>5, <2>6
<1> HIDE DEF move
<1>11. Good(X)
  BY DEF X
<1>12. Good(Y) /\ Offers(Y) = Offers(X)
  <2>1. Len(X) > 0
    BY <1>1, <1>9
  <2>2. /\ move \in [DOMAIN X -> DOMAIN X] /\ move[Len(X)] = Len(X) /\ Len(Y) = Len(X)
        /\ \A i, j \in DOMAIN X : move[i] = move[j] => i = j
        /\ \A i \in DOMAIN X : \E j \in DOMAIN X : move[j] = i
        /\ \A i \in DOMAIN X : Y[i] = X[move[i]]
    BY <1>8, <1>9, <1>10, Zenon
  <2>3. IsList(Y)
    BY <1>8
  <2> QED BY <1>11, <2>1, <2>2, <2>3, MovedOffers, ZenonT(40)
<1> QED BY <1>8, <1>12 DEF X, Y

\* What an offer becomes on a WebSocket.
Narrowed(o) == IF o[2] = "alpn" THEN <<16, "alpn", <<Own!http11>> >> ELSE o

LEMMA NarrowedOffers ==
    ASSUME NEW X, Good(X)
    PROVE  LET Y == Own!narrowALPN(X, <<Own!http11>>)
           IN Good(Y) /\ Offers(Y) = {Narrowed(o) : o \in {p \in Offers(X) : p[2] # "alps"}}
<1> DEFINE one == <<Own!http11>>
           Y == Own!narrowALPN(X, one)
           S == {i \in DOMAIN X : Own!h2 \in Own!ToSet(one) \/ X[i].kind # "alps"}
           K == Sublist(X, S)
           P == Own!Protocols(one)
<1>1. Own!h2 \notin Own!ToSet(one)
  <2>1. Own!h2[2] = 50 /\ Own!http11[2] = 116
    BY DEF Own!h2, Own!http11
  <2>2. Own!h2 # Own!http11
    BY <2>1
  <2>3. DOMAIN one = {1} /\ one[1] = Own!http11
    OBVIOUS
  <2>4. Own!ToSet(one) = {Own!http11}
    <3> HIDE DEF one
    <3> QED BY <2>3 DEF Own!ToSet
  <2> QED BY <2>2, <2>4
<1>2. S = {i \in DOMAIN X : X[i].kind # "alps"}
  BY <1>1
<1>3. Y = [i \in DOMAIN K |-> IF K[i].kind = "alpn" THEN P ELSE K[i]]
  BY OwnSublist, Zenon DEF Own!narrowALPN
<1>4. Keeps(K, X, S)
  <2>1. IsList(X) /\ S \in SUBSET DOMAIN X
    BY DEF Good, Once
  <2> HIDE DEF S
  <2> QED BY <2>1, SublistIs
<1> HIDE DEF K, Y, S
<1>5. /\ Good(K) /\ Offers(K) = {Offer(X[i]) : i \in S \cap Named(X)}
      /\ \A k \in DOMAIN K : \E i \in S : K[k] = X[i]
  <2>1. S \in SUBSET DOMAIN X
    BY <1>2
  <2> QED BY <1>4, <2>1, KeptOffers
<1>6. Len(K) \in Nat /\ DOMAIN K = 1..Len(K)
  BY <1>5, ListIs DEF Good, Once
<1>7. P.id = 16 /\ P.kind = "alpn" /\ P.data.list = one /\ Whole(P.data) /\ Mark(P) = one
  <2>1. Whole(Own!Listed(one)) /\ Own!Listed(one).list = one
    BY ShortRows, ListedIs
  <2>2. P.id = 16 /\ P.kind = "alpn" /\ P.data = Own!Listed(one)
    BY DEF Own!Protocols, Own!Ext
  <2> HIDE DEF P, one
  <2> QED BY <2>1, <2>2 DEF Mark
<1> HIDE DEF P
<1>8. IsList(Y) /\ Len(Y) = Len(K) /\ DOMAIN Y = DOMAIN K
  <2>1. Y = [i \in 1..Len(K) |-> Y[i]]
    BY <1>3, <1>6
  <2> QED BY <1>6, <2>1, ListOf
<1>9. \A k \in DOMAIN K : Y[k] = IF K[k].kind = "alpn" THEN P ELSE K[k]
  BY <1>3
<1>10. \A k \in DOMAIN K : Y[k].id = K[k].id /\ Y[k].kind = K[k].kind
  BY <1>5, <1>7, <1>9 DEF Good, Ours
<1>11. Named(Y) = Named(K)
  BY <1>8, <1>10 DEF Named
<1>12. Once(Y)
  <2>1. \A j, k \in Named(K) : K[j].id = K[k].id => j = k
    BY <1>5 DEF Good, Once
  <2>2. \A k \in Named(K) : Y[k].id = K[k].id
    BY <1>10 DEF Named
  <2> QED BY <1>8, <1>11, <2>1, <2>2 DEF Once
<1>13. \A k \in DOMAIN Y : Ours(Y[k]) /\ (Y[k].id = 41 => k = Len(Y))
  <2>1. Ours(P)
    BY <1>7 DEF Ours, isGREASE
  <2> QED BY <1>5, <1>8, <1>9, <1>10, <2>1 DEF Good
<1>14. ASSUME NEW k \in Named(K) PROVE Offer(Y[k]) = Narrowed(Offer(K[k]))
  <2>1. k \in DOMAIN K /\ Offer(K[k])[2] = K[k].kind
    BY DEF Named, Offer
  <2>2. CASE K[k].kind = "alpn"
    <3>1. Narrowed(Offer(K[k])) = <<16, "alpn", one>>
      BY <2>1, <2>2 DEF Narrowed
    <3>2. Y[k] = P
      BY <1>9, <2>1, <2>2
    <3> QED BY <1>7, <3>1, <3>2 DEF Offer
  <2>3. CASE K[k].kind # "alpn"
    <3>1. Narrowed(Offer(K[k])) = Offer(K[k])
      BY <2>1, <2>3, Zenon DEF Narrowed
    <3> QED BY <1>9, <2>1, <2>3, <3>1
  <2> QED BY <2>2, <2>3
<1>15. Offers(Y) = {Narrowed(o) : o \in Offers(K)}
  <2> HIDE DEF Named
  <2> QED BY <1>11, <1>14, Zenon DEF Offers
<1>16. Offers(K) = {p \in Offers(X) : p[2] # "alps"}
  <2>1. \A i \in DOMAIN X : Offer(X[i])[2] = X[i].kind
    BY DEF Offer
  <2>2. S \cap Named(X) = {i \in Named(X) : X[i].kind # "alps"}
    BY <1>2 DEF Named
  <2>3. Named(X) \subseteq DOMAIN X
    BY DEF Named
  <2> HIDE DEF Named, Offer
  <2> QED BY <1>5, <2>1, <2>2, <2>3 DEF Offers
<1> QED BY <1>8, <1>12, <1>13, <1>15, <1>16 DEF Good, Y

\* The placeholder is concealed without a ticket.
LEMMA ConcealedOffers ==
    ASSUME NEW X, Good(X), NEW t
    PROVE  LET Y == Sublist(X, {i \in DOMAIN X : t \/ X[i].kind # "psk"})
           IN Good(Y) /\ Offers(Y) = {o \in Offers(X) : t \/ o[2] # "psk"}
<1> DEFINE S == {i \in DOMAIN X : t \/ X[i].kind # "psk"}
           Y == Sublist(X, S)
<1>1. IsList(X) /\ S \in SUBSET DOMAIN X
  BY DEF Good, Once
<1>2. Keeps(Y, X, S)
  <2> HIDE DEF S
  <2> QED BY <1>1, SublistIs
<1>3. Good(Y) /\ Offers(Y) = {Offer(X[i]) : i \in S \cap Named(X)}
  <2> HIDE DEF S, Y
  <2> QED BY <1>1, <1>2, KeptOffers
<1>4. Offers(Y) = {o \in Offers(X) : t \/ o[2] # "psk"}
  <2>1. \A i \in DOMAIN X : Offer(X[i])[2] = X[i].kind
    BY DEF Offer
  <2>2. S \cap Named(X) = {i \in Named(X) : t \/ X[i].kind # "psk"}
    BY DEF Named
  <2>3. Named(X) \subseteq DOMAIN X
    BY DEF Named
  <2> HIDE DEF S, Named, Offer, Y
  <2> QED BY <1>3, <2>1, <2>2, <2>3, Zenon DEF Offers
<1> QED BY <1>3, <1>4

------------------------------------------------------------------------------
(* The specs, element by element.                                           *)

\* An extension by what it offers, if it is not a GREASE extension.
Bears(e, offer) == Ours(e) /\ ~isGREASE(e.id) /\ Offer(e) = offer
Drawn(e) == Ours(e) /\ isGREASE(e.id)

\* The first n offers of a table, and GREASE extensions at the places G.
Follows(B, table, n, G) ==
    /\ IsList(B) /\ Len(B) = n
    /\ \A i \in 1..n : IF i \in G THEN Drawn(B[i]) ELSE Bears(B[i], table[i])

\* No id comes twice in a table, nor pre_shared_key at all.
Tabled(table, n, G) ==
    /\ \A i, j \in (1..n) \ G : table[i][1] = table[j][1] => i = j
    /\ \A i \in (1..n) \ G : table[i][1] # 41

\* What the extensions of B offer then.
TableOffered(B, table, n, G) ==
    /\ Good(B) /\ Named(B) = (1..n) \ G
    /\ Offers(B) = {table[i] : i \in (1..n) \ G}
    /\ \A i \in DOMAIN B : B[i].id # 41

LEMMA FollowsOffers ==
    ASSUME NEW B, NEW table, NEW n \in Nat, NEW G, Follows(B, table, n, G), Tabled(table, n, G)
    PROVE  TableOffered(B, table, n, G)
<1>1. IsList(B) /\ DOMAIN B = 1..n /\ Len(B) = n
  BY ListIs DEF Follows
<1>2. Named(B) = (1..n) \ G
  BY <1>1 DEF Follows, Named, Bears, Drawn
<1>3. \A i \in Named(B) : Offer(B[i]) = table[i]
  BY <1>2 DEF Follows, Bears
<1>4. \A i \in Named(B) : B[i].id = table[i][1]
  <2>1. \A i \in Named(B) : Offer(B[i])[1] = B[i].id
    BY DEF Offer
  <2> HIDE DEF Named, Offer
  <2> QED BY <1>3, <2>1
<1>5. Once(B)
  BY <1>1, <1>2, <1>4 DEF Once, Tabled
<1>6. \A i \in DOMAIN B : Ours(B[i])
  BY <1>1 DEF Follows, Bears, Drawn
<1>7. \A i \in DOMAIN B : B[i].id # 41
  <2>1. ~isGREASE(41)
    BY DEF isGREASE
  <2>2. \A i \in DOMAIN B : B[i].id = 41 => i \in Named(B)
    BY <2>1 DEF Named
  <2> QED BY <1>2, <1>4, <2>2 DEF Tabled
<1>8. Offers(B) = {table[i] : i \in (1..n) \ G}
  <2> HIDE DEF Named, Offer
  <2> QED BY <1>2, <1>3 DEF Offers
<1> QED BY <1>2, <1>5, <1>6, <1>7, <1>8 DEF Good, TableOffered

\* With a pre_shared_key after it.
TableKeyed(X, table, n, G, e) ==
    /\ Good(X) /\ Len(X) = n + 1
    /\ Offers(X) = {table[i] : i \in (1..n) \ G} \cup {<<41, e.kind, <<>> >>}
LEMMA KeyedOffers ==
    ASSUME NEW B, NEW table, NEW n \in Nat, NEW G, Follows(B, table, n, G), Tabled(table, n, G),
           NEW e, Ours(e), e.id = 41
    PROVE  TableKeyed(Append(B, e), table, n, G, e)
<1> DEFINE X == Append(B, e)
<1>1. /\ Good(B) /\ Named(B) = (1..n) \ G /\ Offers(B) = {table[i] : i \in (1..n) \ G}
      /\ \A i \in DOMAIN B : B[i].id # 41
  <2>1. TableOffered(B, table, n, G)
    BY FollowsOffers, Zenon
  <2> QED BY <2>1, Zenon DEF TableOffered
<1>2. IsList(B) /\ DOMAIN B = 1..n /\ Len(B) = n
  BY ListIs DEF Follows
<1>3. Appends(X, B, e)
  BY <1>2, AppendIs
<1> HIDE DEF X
<1>4. /\ IsList(X) /\ Len(X) = n + 1 /\ DOMAIN X = 1..n + 1 /\ X[n + 1] = e
      /\ \A i \in 1..n : X[i] = B[i]
  BY <1>2, <1>3 DEF Appends
<1>5. ~isGREASE(e.id)
  BY DEF isGREASE
<1>6. Named(X) = Named(B) \cup {n + 1}
  BY <1>2, <1>4, <1>5 DEF Named
<1>7. Named(B) \subseteq 1..n
  BY <1>1
<1>8. Once(X)
  <2>1. \A i, j \in Named(B) : X[i].id = X[j].id => i = j
    BY <1>1, <1>4, <1>7 DEF Good, Once
  <2>2. \A i \in Named(B) : X[i].id # X[n + 1].id
    BY <1>1, <1>2, <1>4, <1>7
  <2> QED BY <1>4, <1>6, <2>1, <2>2 DEF Once
<1>9. \A i \in DOMAIN X : Ours(X[i]) /\ (X[i].id = 41 => i = Len(X))
  <2>1. \A i \in 1..n : Ours(X[i]) /\ X[i].id # 41
    BY <1>1, <1>2, <1>4 DEF Good
  <2>2. \A i \in 1..n + 1 : i \in 1..n \/ i = n + 1
    OBVIOUS
  <2> QED BY <1>4, <2>1, <2>2
<1>10. Offers(X) = Offers(B) \cup {<<41, e.kind, <<>> >>}
  <2>1. Offer(e) = <<41, e.kind, <<>> >>
    BY DEF Offer, Mark
  <2>2. \A i \in Named(B) : Offer(X[i]) = Offer(B[i])
    BY <1>4, <1>7
  <2>3. Offer(X[n + 1]) = Offer(e)
    BY <1>4
  <2> HIDE DEF Offer, Named
  <2> QED BY <1>6, <2>1, <2>2, <2>3 DEF Offers
<1>11. TableKeyed(X, table, n, G, e)
  BY <1>1, <1>4, <1>8, <1>9, <1>10 DEF Good, TableKeyed
<1> QED BY <1>11 DEF X

\* The versions of a hello with GREASE are those without.
ChromeVersions == stripGREASE(<<2570, 772, 771>>)

LEMMA ExtensionsBear ==
    /\ \A id \in Nat : ~isGREASE(id) /\ id \notin {0, 16, 43} =>
         Bears(Own!Plain(id), <<id, "generic", <<>> >>)
    /\ Bears(Own!SNI, <<0, "sni", <<[type |-> 0, name |-> <<97>>]>> >>)
    /\ \A list : IsRow(list) => Bears(Own!Groups(list), <<10, "groups", <<>> >>)
    /\ Bears(Own!Points, <<11, "points", <<>> >>)
    /\ \A list : IsRow(list) => Bears(Own!Algorithms(list), <<13, "sigalgs", list>>)
    /\ \A list \in {<<Own!h2, Own!http11>>, <<Own!http11>>, <<Own!h3>>} :
         Bears(Own!Protocols(list), <<16, "alpn", list>>)
    /\ \A list : IsRow(list) => Bears(Own!Versions(list), <<43, "versions", stripGREASE(list)>>)
    /\ Bears(Own!ALPS, <<17613, "alps", <<>> >>)
    /\ Bears(Own!Padding, <<21, "padding", <<>> >>)
    /\ \A g \in Own!Pairs : Drawn(Own!GREASE(g[1])) /\ Drawn(Own!GREASE(g[2]))
<1> USE DEF Bears, Drawn, Ours, Offer, Mark, Own!Ext, isGREASE
<1>0. /\ Whole(Own!Listed(<<>>)) /\ Own!Listed(<<>>).list = <<>>
      /\ \A a : Whole(Own!Listed(<<a>>)) /\ Own!Listed(<<a>>).list = <<a>>
      /\ \A a, b : Whole(Own!Listed(<<a, b>>)) /\ Own!Listed(<<a, b>>).list = <<a, b>>
  BY ShortRows, ListedIs
<1>1. \A id \in Nat : ~isGREASE(id) /\ id \notin {0, 16, 43} =>
         Bears(Own!Plain(id), <<id, "generic", <<>> >>)
  BY <1>0 DEF Own!Plain
<1>2. Bears(Own!SNI, <<0, "sni", <<[type |-> 0, name |-> <<97>>]>> >>)
  BY <1>0 DEF Own!SNI
<1>3. \A list : IsRow(list) => Bears(Own!Groups(list), <<10, "groups", <<>> >>)
  BY ListedIs DEF Own!Groups
<1>4. Bears(Own!Points, <<11, "points", <<>> >>)
  BY <1>0 DEF Own!Points
<1>5. \A list : IsRow(list) => Bears(Own!Algorithms(list), <<13, "sigalgs", list>>)
  BY ListedIs DEF Own!Algorithms
<1>6. \A list \in {<<Own!h2, Own!http11>>, <<Own!http11>>, <<Own!h3>>} :
         Bears(Own!Protocols(list), <<16, "alpn", list>>)
  BY <1>0 DEF Own!Protocols
<1>7. \A list : IsRow(list) => Bears(Own!Versions(list), <<43, "versions", stripGREASE(list)>>)
  BY ListedIs DEF Own!Versions
<1>8. Bears(Own!ALPS, <<17613, "alps", <<>> >>)
  BY <1>0 DEF Own!ALPS
<1>9. Bears(Own!Padding, <<21, "padding", <<>> >>)
  BY <1>0 DEF Own!Padding
<1>10. \A g \in Own!Pairs : Drawn(Own!GREASE(g[1])) /\ Drawn(Own!GREASE(g[2]))
  BY <1>0 DEF Own!GREASE, Own!Pairs
<1> HIDE DEF Bears, Drawn
<1> QED BY <1>1, <1>2, <1>3, <1>4, <1>5, <1>6, <1>7, <1>8, <1>9, <1>10

Says(id, kind, mark) == <<id, kind, mark>>
SNIOffer == Says(0, "sni", <<[type |-> 0, name |-> <<97>>]>>)
PlainOffer(id) == Says(id, "generic", <<>>)
BothProtocols == <<Own!h2, Own!http11>>

ChromeList(g, algorithms) ==
    <<Own!GREASE(g[1]), Own!SNI, Own!Plain(23), Own!Plain(65281),
      Own!Groups(<<g[2], 4588, 29, 23, 24>>), Own!Points, Own!Plain(35),
      Own!Protocols(BothProtocols), Own!Plain(5), Own!Algorithms(algorithms), Own!Plain(18),
      Own!Plain(51), Own!Plain(45), Own!Versions(<<g[2], 772, 771>>), Own!Plain(27), Own!ALPS,
      Own!Plain(65037), Own!GREASE(g[2]), Own!Plain(51764), Own!Plain(4832)>>
ChromeOffers(algorithms) ==
    << <<>>, SNIOffer, PlainOffer(23), PlainOffer(65281), Says(10, "groups", <<>>),
       Says(11, "points", <<>>), PlainOffer(35), Says(16, "alpn", BothProtocols), PlainOffer(5),
       Says(13, "sigalgs", algorithms), PlainOffer(18), PlainOffer(51), PlainOffer(45),
       Says(43, "versions", ChromeVersions), PlainOffer(27), Says(17613, "alps", <<>>),
       PlainOffer(65037), <<>>, PlainOffer(51764), PlainOffer(4832)>>
ChromeIds ==
    <<0, 0, 23, 65281, 10, 11, 35, 16, 5, 13, 18, 51, 45, 43, 27, 17613, 65037, 0, 51764, 4832>>

LEMMA ChromeElements ==
    ASSUME NEW g \in Own!Pairs, NEW algorithms, IsRow(algorithms)
    PROVE  \A i \in 1..20 : IF i \in {1, 18} THEN Drawn(ChromeList(g, algorithms)[i])
                            ELSE Bears(ChromeList(g, algorithms)[i], ChromeOffers(algorithms)[i])
<1>1. Drawn(Own!GREASE(g[1])) /\ Drawn(Own!GREASE(g[2]))
  BY ExtensionsBear
<1>2. \A id \in {23, 65281, 35, 5, 18, 51, 45, 27, 65037, 51764, 4832} : Bears(Own!Plain(id), PlainOffer(id))
  <2>1. \A id \in {23, 65281, 35, 5, 18, 51, 45, 27, 65037, 51764, 4832} :
          id \in Nat /\ ~isGREASE(id) /\ id \notin {0, 16, 43}
    BY DEF isGREASE
  <2> SUFFICES ASSUME NEW id \in {23, 65281, 35, 5, 18, 51, 45, 27, 65037, 51764, 4832}
               PROVE  Bears(Own!Plain(id), PlainOffer(id))
    OBVIOUS
  <2>2. Bears(Own!Plain(id), <<id, "generic", <<>> >>)
    BY <2>1, ExtensionsBear
  <2> QED BY <2>2 DEF PlainOffer, Says
<1>3. stripGREASE(<<g[2], 772, 771>>) = ChromeVersions
  <2> DEFINE s == <<g[2], 772, 771>>
             t == <<2570, 772, 771>>
  <2>1. \A i \in 1..3 : isGREASE(s[i]) <=> i = 1
    BY DEF Own!Pairs, isGREASE
  <2>2. \A i \in 1..3 : isGREASE(t[i]) <=> i = 1
    BY DEF isGREASE
  <2>3. s \in Seq({g[2], 772, 771}) /\ Len(s) = 3 /\ DOMAIN s = 1..3
    OBVIOUS
  <2>4. t \in Seq({2570, 772, 771}) /\ Len(t) = 3 /\ DOMAIN t = 1..3
    OBVIOUS
  <2>5. \A i \in {2, 3} : s[i] = t[i]
    OBVIOUS
  <2> HIDE DEF s, t
  <2>6. IsList(s) /\ IsList(t)
    <3>1. IsList(s)
      BY <2>3, SeqIsList
    <3>2. IsList(t)
      BY <2>4, SeqIsList
    <3> QED BY <3>1, <3>2
  <2>7. {i \in DOMAIN s : ~isGREASE(s[i])} = {2, 3} /\ {i \in DOMAIN t : ~isGREASE(t[i])} = {2, 3}
    BY <2>1, <2>2, <2>3, <2>4
  <2>8. stripGREASE(s) = Sublist(s, {2, 3}) /\ stripGREASE(t) = Sublist(t, {2, 3})
    BY <2>7, Zenon DEF stripGREASE
  <2>9. Sublist(s, {2, 3}) = Sublist(t, {2, 3})
    BY <2>3, <2>4, <2>5, <2>6, SameSublists
  <2> QED BY <2>8, <2>9 DEF ChromeVersions, s, t
<1>4. /\ Bears(Own!SNI, SNIOffer)
      /\ Bears(Own!Groups(<<g[2], 4588, 29, 23, 24>>), Says(10, "groups", <<>>))
      /\ Bears(Own!Points, Says(11, "points", <<>>))
      /\ Bears(Own!Protocols(BothProtocols), Says(16, "alpn", BothProtocols))
      /\ Bears(Own!Algorithms(algorithms), Says(13, "sigalgs", algorithms))
      /\ Bears(Own!Versions(<<g[2], 772, 771>>), Says(43, "versions", ChromeVersions))
      /\ Bears(Own!ALPS, Says(17613, "alps", <<>>))
  <2>1. BothProtocols \in {<<Own!h2, Own!http11>>, <<Own!http11>>, <<Own!h3>>}
    BY DEF BothProtocols
  <2>2. Bears(Own!Protocols(BothProtocols), <<16, "alpn", BothProtocols>>)
    BY <2>1, ExtensionsBear, SMTT(40)
  <2>7. IsRow(<<g[2], 772, 771>>) /\ IsRow(<<g[2], 4588, 29, 23, 24>>)
    BY DEF IsRow
  <2>3. Bears(Own!Versions(<<g[2], 772, 771>>), <<43, "versions", stripGREASE(<<g[2], 772, 771>>)>>)
    BY <2>7, ExtensionsBear
  <2>4. Bears(Own!Versions(<<g[2], 772, 771>>), Says(43, "versions", ChromeVersions))
    BY <1>3, <2>3, Zenon DEF Says
  <2>5. Bears(Own!SNI, SNIOffer)
    BY ExtensionsBear DEF SNIOffer, Says
  <2>6. /\ Bears(Own!Groups(<<g[2], 4588, 29, 23, 24>>), <<10, "groups", <<>> >>)
        /\ Bears(Own!Points, <<11, "points", <<>> >>)
        /\ Bears(Own!Algorithms(algorithms), <<13, "sigalgs", algorithms>>)
        /\ Bears(Own!ALPS, <<17613, "alps", <<>> >>)
    BY <2>7, ExtensionsBear
  <2> QED BY <2>2, <2>4, <2>5, <2>6 DEF Says
<1> HIDE DEF Bears, Drawn
<1> QED BY <1>1, <1>2, <1>4, SMTT(40) DEF ChromeList, ChromeOffers

LEMMA ChromeTabled ==
    ASSUME NEW algorithms, NEW n \in 18..20 PROVE Tabled(ChromeOffers(algorithms), n, {1, 18})
<1>1. \A i \in (1..20) \ {1, 18} : ChromeOffers(algorithms)[i][1] = ChromeIds[i]
  <2>1. \A id, kind, mark : Says(id, kind, mark)[1] = id
    BY DEF Says
  <2>2. SNIOffer[1] = 0 /\ \A id : PlainOffer(id)[1] = id
    BY <2>1, Zenon DEF SNIOffer, PlainOffer
  <2> DEFINE table == ChromeOffers(algorithms)
  <2>3. /\ table[2] = SNIOffer
        /\ table[3] = PlainOffer(23)
        /\ table[4] = PlainOffer(65281)
        /\ table[5] = Says(10, "groups", <<>>)
        /\ table[6] = Says(11, "points", <<>>)
        /\ table[7] = PlainOffer(35)
        /\ table[8] = Says(16, "alpn", BothProtocols)
        /\ table[9] = PlainOffer(5)
        /\ table[10] = Says(13, "sigalgs", algorithms)
        /\ table[11] = PlainOffer(18)
        /\ table[12] = PlainOffer(51)
        /\ table[13] = PlainOffer(45)
        /\ table[14] = Says(43, "versions", ChromeVersions)
        /\ table[15] = PlainOffer(27)
        /\ table[16] = Says(17613, "alps", <<>>)
        /\ table[17] = PlainOffer(65037)
        /\ table[19] = PlainOffer(51764)
        /\ table[20] = PlainOffer(4832)
    BY DEF ChromeOffers
  <2>4. ChromeIds[2] = 0 /\ ChromeIds[3] = 23 /\ ChromeIds[4] = 65281 /\ ChromeIds[5] = 10 /\ ChromeIds[6] = 11 /\ ChromeIds[7] = 35 /\ ChromeIds[8] = 16 /\ ChromeIds[9] = 5 /\ ChromeIds[10] = 13
        /\ ChromeIds[11] = 18 /\ ChromeIds[12] = 51 /\ ChromeIds[13] = 45 /\ ChromeIds[14] = 43 /\ ChromeIds[15] = 27 /\ ChromeIds[16] = 17613 /\ ChromeIds[17] = 65037 /\ ChromeIds[19] = 51764 /\ ChromeIds[20] = 4832
    BY DEF ChromeIds
  <2> HIDE DEF table
  <2>5. /\ Says(10, "groups", <<>>)[1] = 10 /\ Says(11, "points", <<>>)[1] = 11
        /\ Says(16, "alpn", BothProtocols)[1] = 16 /\ Says(13, "sigalgs", algorithms)[1] = 13
        /\ Says(43, "versions", ChromeVersions)[1] = 43 /\ Says(17613, "alps", <<>>)[1] = 17613
    BY DEF Says
  <2>6. /\ table[2][1] = 0 /\ table[3][1] = 23 /\ table[4][1] = 65281 /\ table[5][1] = 10
        /\ table[6][1] = 11 /\ table[7][1] = 35 /\ table[8][1] = 16 /\ table[9][1] = 5
        /\ table[10][1] = 13 /\ table[11][1] = 18 /\ table[12][1] = 51 /\ table[13][1] = 45
        /\ table[14][1] = 43 /\ table[15][1] = 27 /\ table[16][1] = 17613 /\ table[17][1] = 65037
        /\ table[19][1] = 51764 /\ table[20][1] = 4832
    BY <2>2, <2>3, <2>5, SMTT(40)
  <2>7. \A i \in (1..20) \ {1, 18} :
          i = 2 \/ i = 3 \/ i = 4 \/ i = 5 \/ i = 6 \/ i = 7 \/ i = 8 \/ i = 9 \/ i = 10
          \/ i = 11 \/ i = 12 \/ i = 13 \/ i = 14 \/ i = 15 \/ i = 16 \/ i = 17 \/ i = 19 \/ i = 20
    OBVIOUS
  <2> QED BY <2>4, <2>6, <2>7 DEF table
<1>2. \A i, j \in (1..20) \ {1, 18} : ChromeIds[i] = ChromeIds[j] => i = j
  BY DEF ChromeIds
<1>3. \A i \in (1..20) \ {1, 18} : ChromeIds[i] # 41
  BY DEF ChromeIds
<1>4. (1..n) \ {1, 18} \subseteq (1..20) \ {1, 18}
  OBVIOUS
<1> QED BY <1>1, <1>2, <1>3, <1>4 DEF Tabled

PresetAlgorithms == <<1027, 2052, 1025, 1283, 2053, 1281, 2054, 1537>>
NewAlgorithms == Own!PostQuantum \o PresetAlgorithms

LEMMA AlgorithmsAre == IsRow(PresetAlgorithms) /\ IsRow(NewAlgorithms) /\ IsRow(Own!OldAlgorithms)
<1>1. /\ PresetAlgorithms \in Seq(Nat) /\ Own!PostQuantum \in Seq(Nat) /\ Own!OldAlgorithms \in Seq(Nat)
  BY DEF PresetAlgorithms, Own!PostQuantum, Own!OldAlgorithms
<1>2. NewAlgorithms \in Seq(Nat)
  BY <1>1 DEF NewAlgorithms
<1> QED BY <1>1, <1>2 DEF IsRow

LEMMA LayoutIs ==
    \A c, x : LET spec == Own!Layout(c, x)
              IN /\ spec.version = 771 /\ spec.ciphers = c /\ spec.exts = x /\ spec.tail = FALSE
BY DEF Own!Layout

\* Other extensions in the same layout.
LEMMA Relaid ==
    ASSUME NEW c, NEW x, NEW y
    PROVE  [Own!Layout(c, x) EXCEPT !.exts = y] = Own!Layout(c, y)
<1> DEFINE S == {"version", "ciphers", "exts", "tail"}
           v == [Own!Layout(c, x) EXCEPT !.exts = y]
           w == Own!Layout(c, y)
<1>1. DOMAIN v = S /\ v = [k \in S |-> v[k]]
  BY DEF Own!Layout
<1>2. DOMAIN w = S /\ w = [k \in S |-> w[k]]
  BY DEF Own!Layout
<1>3. /\ v["version"] = w["version"] /\ v["ciphers"] = w["ciphers"] /\ v["exts"] = w["exts"]
      /\ v["tail"] = w["tail"]
  BY DEF Own!Layout
<1> HIDE DEF v, w
<1>4. \A k \in S : v[k] = w[k]
  BY <1>3
<1> QED BY <1>1, <1>2, <1>4 DEF v, w

LEMMA PresetIs ==
    ASSUME NEW g \in Own!Pairs
    PROVE  LET exts == Own!ChromePreset(g).exts
           IN /\ IsList(exts) /\ Len(exts) = 18
              /\ \A i \in 1..18 : exts[i] = ChromeList(g, PresetAlgorithms)[i]
<1> DEFINE exts == Own!ChromePreset(g).exts
           list == ChromeList(g, PresetAlgorithms)
<1>1. exts = <<Own!GREASE(g[1]), Own!SNI, Own!Plain(23), Own!Plain(65281),
               Own!Groups(<<g[2], 4588, 29, 23, 24>>), Own!Points, Own!Plain(35),
               Own!Protocols(BothProtocols), Own!Plain(5), Own!Algorithms(PresetAlgorithms),
               Own!Plain(18), Own!Plain(51), Own!Plain(45), Own!Versions(<<g[2], 772, 771>>),
               Own!Plain(27), Own!ALPS, Own!Plain(65037), Own!GREASE(g[2])>>
  BY DEF Own!ChromePreset, Own!Layout, BothProtocols, PresetAlgorithms
<1>2. Len(exts) = 18 /\ exts = [i \in 1..18 |-> exts[i]]
  <2> HIDE DEF exts
  <2> QED BY <1>1
<1>3. \A i \in 1..18 : exts[i] = list[i]
  <2> HIDE DEF exts
  <2> QED BY <1>1 DEF ChromeList
<1> HIDE DEF exts, list
<1>4. IsList(exts)
  BY <1>2, ListOf
<1> QED BY <1>2, <1>3, <1>4 DEF exts, list

ChromeKinds ==
    <<"grease", "sni", "generic", "generic", "groups", "points", "generic", "alpn", "generic", "sigalgs",
      "generic", "generic", "generic", "versions", "generic", "alps", "generic", "grease", "generic",
      "generic">>

LEMMA ChromeKindsAre ==
    ASSUME NEW g \in Own!Pairs, NEW algorithms
    PROVE  \A i \in 1..20 : ChromeList(g, algorithms)[i].kind = ChromeKinds[i]
<1>1. /\ \A v : Own!GREASE(v).kind = "grease"
      /\ \A id : Own!Plain(id).kind = "generic"
      /\ Own!SNI.kind = "sni" /\ Own!Points.kind = "points" /\ Own!ALPS.kind = "alps"
      /\ \A list : /\ Own!Groups(list).kind = "groups" /\ Own!Protocols(list).kind = "alpn"
                   /\ Own!Algorithms(list).kind = "sigalgs" /\ Own!Versions(list).kind = "versions"
  BY DEF Own!GREASE, Own!Plain, Own!SNI, Own!Points, Own!ALPS, Own!Groups, Own!Protocols,
         Own!Algorithms, Own!Versions, Own!Ext
<1> QED BY <1>1 DEF ChromeList, ChromeKinds

Unregistered == {<<>>, <<Own!CA34>>, <<Own!CA34, Own!X12E0>>}

\* What chromeBaseSpec has before the pre_shared_key.
LEMMA ChromeBase ==
    ASSUME NEW g \in Own!Pairs, NEW unregistered \in Unregistered
    PROVE  LET base == Own!chromeBaseSpec(g, unregistered, FALSE)
               n == 18 + Len(unregistered)
           IN /\ Follows(base.exts, ChromeOffers(NewAlgorithms), n, {1, 18}) /\ n \in 18..20
              /\ base = Own!Layout(Own!ChromePreset(g).ciphers, base.exts)
              /\ Own!chromeBaseSpec(g, unregistered, TRUE) = Own!With(base, Own!Placeholder)
<1> DEFINE preset == Own!ChromePreset(g)
           exts == preset.exts
           mapped == [i \in DOMAIN exts |-> Own!mergeAlgorithms(exts[i])]
           added == Own!PlainAll(unregistered)
           B == mapped \o added
           base == [preset EXCEPT !.exts = B]
           list == ChromeList(g, NewAlgorithms)
           m == Len(unregistered)
<1>1. /\ IsList(exts) /\ Len(exts) = 18 /\ DOMAIN exts = 1..18
      /\ \A i \in 1..18 : exts[i] = ChromeList(g, PresetAlgorithms)[i]
  <2>1. IsList(exts) /\ Len(exts) = 18 /\ \A i \in 1..18 : exts[i] = ChromeList(g, PresetAlgorithms)[i]
    BY PresetIs
  <2> HIDE DEF exts
  <2> QED BY <2>1, ListIs
<1> HIDE DEF exts
<1>2. mapped = [i \in 1..18 |-> mapped[i]] /\ \A i \in 1..18 : mapped[i] = list[i]
  <2>1. mapped = [i \in 1..18 |-> mapped[i]]
    BY <1>1
  <2>2. \A i \in 1..18 : exts[i].kind = "sigalgs" <=> i = 10
    <3>1. \A i \in 1..18 : exts[i].kind = ChromeKinds[i]
      BY <1>1, ChromeKindsAre
    <3>2. \A i \in 1..18 : ChromeKinds[i] = "sigalgs" <=> i = 10
      BY DEF ChromeKinds
    <3> QED BY <3>1, <3>2
  <2>3. \A i \in 1..18 : i # 10 => mapped[i] = exts[i]
    BY <1>1, <2>2 DEF Own!mergeAlgorithms
  <2>4. mapped[10] = Own!Algorithms(NewAlgorithms)
    <3>1. exts[10] = Own!Algorithms(PresetAlgorithms)
      BY <1>1 DEF ChromeList
    <3>2. mapped[10] = Own!mergeAlgorithms(exts[10])
      BY <1>1
    <3>3. \A had : Own!mergeAlgorithms(Own!Algorithms(had)) = Own!Algorithms(Own!PostQuantum \o had)
      BY DEF Own!mergeAlgorithms, Own!Algorithms, Own!Ext, Own!Listed
    <3> HIDE DEF mapped
    <3> QED BY <3>1, <3>2, <3>3, Zenon DEF NewAlgorithms
  <2>5. \A i \in 1..18 : i # 10 => ChromeList(g, PresetAlgorithms)[i] = list[i]
    BY DEF ChromeList
  <2>6. list[10] = Own!Algorithms(NewAlgorithms)
    BY DEF ChromeList
  <2> HIDE DEF mapped, list
  <2> QED BY <1>1, <2>1, <2>3, <2>4, <2>5, <2>6
<1>3. /\ IsList(added) /\ Len(added) = m /\ m \in 0..2
      /\ \A i \in 1..m : added[i] = list[18 + i]
  <2>1. /\ IsList(unregistered) /\ m \in 0..2 /\ DOMAIN unregistered = 1..m
        /\ \A i \in 1..m : unregistered[i] = <<Own!CA34, Own!X12E0>>[i]
    <3>1. CASE unregistered = <<>>
      <4>1. <<>> \in Seq({}) /\ Len(<<>>) = 0 /\ DOMAIN <<>> = 1..0
        OBVIOUS
      <4>2. IsList(<<>>)
        BY <4>1, SeqIsList
      <4> QED BY <3>1, <4>1, <4>2
    <3>2. CASE unregistered = <<Own!CA34>>
      <4>1. unregistered \in Seq({Own!CA34}) /\ Len(unregistered) = 1 /\ DOMAIN unregistered = 1..1
            /\ unregistered[1] = Own!CA34
        BY <3>2
      <4>2. IsList(unregistered)
        BY <4>1, SeqIsList
      <4> QED BY <4>1, <4>2
    <3>3. CASE unregistered = <<Own!CA34, Own!X12E0>>
      <4>1. /\ unregistered \in Seq({Own!CA34, Own!X12E0}) /\ Len(unregistered) = 2
            /\ DOMAIN unregistered = 1..2
        BY <3>3
      <4>2. IsList(unregistered)
        BY <4>1, SeqIsList
      <4> QED BY <3>3, <4>1, <4>2
    <3> QED BY <3>1, <3>2, <3>3 DEF Unregistered
  <2>2. added = [i \in 1..m |-> Own!Plain(unregistered[i])]
    BY <2>1, Zenon DEF Own!PlainAll
  <2>3. added = [i \in 1..m |-> added[i]] /\ \A i \in 1..m : added[i] = Own!Plain(unregistered[i])
    BY <2>2
  <2>4. list[19] = Own!Plain(51764) /\ list[20] = Own!Plain(4832)
    BY DEF ChromeList
  <2> HIDE DEF added, list
  <2>5. IsList(added) /\ Len(added) = m
    BY <2>1, <2>3, ListOf
  <2>6. \A i \in 1..m : added[i] = list[18 + i]
    <3>1. <<Own!CA34, Own!X12E0>>[1] = 51764 /\ <<Own!CA34, Own!X12E0>>[2] = 4832
      BY DEF Own!CA34, Own!X12E0
    <3>2. \A i \in 1..m : i = 1 \/ i = 2
      BY <2>1
    <3> QED BY <2>1, <2>3, <2>4, <3>1, <3>2
  <2> QED BY <2>1, <2>5, <2>6
<1> HIDE DEF mapped, added
<1>4. IsList(mapped) /\ Len(mapped) = 18
  BY <1>2, ListOf
<1>5. Joins(B, mapped, added)
  BY <1>3, <1>4, JoinIs
<1> HIDE DEF B
<1>6. IsList(B) /\ Len(B) = 18 + m /\ \A i \in 1..18 + m : B[i] = list[i]
  <2>1. \A i \in 1..18 + m : i \in 1..18 \/ ((i - 18) \in 1..m /\ i = 18 + (i - 18))
    BY <1>3
  <2>2. \A i \in 1..18 : B[i] = list[i]
    BY <1>2, <1>4, <1>5 DEF Joins
  <2>3. \A i \in 1..m : B[18 + i] = list[18 + i]
    BY <1>3, <1>4, <1>5 DEF Joins
  <2> HIDE DEF list
  <2>4. IsList(B) /\ Len(B) = 18 + m
    BY <1>3, <1>4, <1>5 DEF Joins
  <2> QED BY <2>1, <2>2, <2>3, <2>4
<1>7. Follows(B, ChromeOffers(NewAlgorithms), 18 + m, {1, 18}) /\ 18 + m \in 18..20
  <2>1. \A i \in 1..20 : IF i \in {1, 18} THEN Drawn(list[i])
                         ELSE Bears(list[i], ChromeOffers(NewAlgorithms)[i])
    BY AlgorithmsAre, ChromeElements
  <2> HIDE DEF list
  <2>2. 18 + m \in 18..20 /\ \A i \in 1..18 + m : i \in 1..20
    <3>1. m \in 0..2
      BY <1>3
    <3> HIDE DEF m
    <3> QED BY <3>1
  <2> QED BY <1>6, <2>1, <2>2 DEF Follows
<1>8. preset = Own!Layout(preset.ciphers, preset.exts)
  <2>1. PICK c, x : preset = Own!Layout(c, x)
    BY DEF Own!ChromePreset
  <2> HIDE DEF preset
  <2>2. preset.ciphers = c /\ preset.exts = x
    BY <2>1, LayoutIs
  <2> QED BY <2>1, <2>2, Zenon
<1> HIDE DEF preset, m
<1>9. /\ Own!chromeBaseSpec(g, unregistered, FALSE) = base
      /\ Own!chromeBaseSpec(g, unregistered, TRUE) = Own!withResumptionPSK(base)
  <2>1. ASSUME NEW r \in BOOLEAN
        PROVE  Own!chromeBaseSpec(g, unregistered, r) = IF r THEN Own!withResumptionPSK(base) ELSE base
    BY Zenon DEF Own!chromeBaseSpec, B, mapped, added, exts, preset
  <2> HIDE DEF base
  <2> QED BY <2>1, Zenon
<1>10. base.exts = B /\ base = Own!Layout(preset.ciphers, base.exts)
  <2>1. preset = Own!Layout(preset.ciphers, preset.exts)
    BY <1>8 DEF preset
  <2>2. \A c, x : [Own!Layout(c, x) EXCEPT !.exts = B] = Own!Layout(c, B)
    BY Relaid
  <2>3. base = Own!Layout(preset.ciphers, B)
    BY <2>1, <2>2, Zenon
  <2> HIDE DEF base
  <2> QED BY <2>3, LayoutIs
<1>11. Own!withResumptionPSK(base) = Own!With(base, Own!Placeholder)
  <2>1. \A i \in DOMAIN B : B[i].kind # "psk"
    <3>1. DOMAIN B = 1..18 + m
      BY <1>6, ListIs
    <3>2. \A i \in 1..20 : list[i].kind # "psk"
      <4>1. \A i \in 1..20 : list[i].kind = ChromeKinds[i]
        BY ChromeKindsAre
      <4>2. \A i \in 1..20 : ChromeKinds[i] # "psk"
        BY DEF ChromeKinds
      <4> QED BY <4>1, <4>2
    <3>3. \A i \in 1..18 + m : i \in 1..20
      BY <1>7
    <3> HIDE DEF list
    <3> QED BY <1>6, <3>1, <3>2, <3>3
  <2>2. ~Own!HasPlaceholder(B)
    BY <2>1, Zenon DEF Own!HasPlaceholder
  <2> HIDE DEF base
  <2> QED BY <1>10, <2>2, Zenon DEF Own!withResumptionPSK
<1> HIDE DEF base
<1> QED BY <1>7, <1>9, <1>10, <1>11, Zenon DEF preset, m

OneProtocol == <<Own!http11>>
QUICProtocol == <<Own!h3>>
PlainIds == {23, 65281, 35, 5, 18, 51, 45, 27, 65037, 51764, 4832, 34, 28, 57}

LEMMA Bearing ==
    /\ \A id \in PlainIds : Bears(Own!Plain(id), PlainOffer(id)) /\ PlainOffer(id)[1] = id
    /\ Bears(Own!SNI, SNIOffer) /\ SNIOffer[1] = 0
    /\ \A list : IsRow(list) => Bears(Own!Groups(list), Says(10, "groups", <<>>))
    /\ Bears(Own!Points, Says(11, "points", <<>>))
    /\ \A list : IsRow(list) => Bears(Own!Algorithms(list), Says(13, "sigalgs", list))
    /\ \A list \in {BothProtocols, OneProtocol, QUICProtocol} :
         Bears(Own!Protocols(list), Says(16, "alpn", list))
    /\ \A list : IsRow(list) => Bears(Own!Versions(list), Says(43, "versions", stripGREASE(list)))
    /\ Bears(Own!ALPS, Says(17613, "alps", <<>>))
    /\ Bears(Own!Padding, Says(21, "padding", <<>>))
    /\ \A id, kind, mark : Says(id, kind, mark)[1] = id
<1>1. \A id, kind, mark : Says(id, kind, mark)[1] = id
  BY DEF Says
<1>2. ASSUME NEW id \in PlainIds PROVE Bears(Own!Plain(id), PlainOffer(id)) /\ PlainOffer(id)[1] = id
  <2>1. id \in Nat /\ ~isGREASE(id) /\ id \notin {0, 16, 43}
    BY DEF isGREASE, PlainIds
  <2>2. Bears(Own!Plain(id), <<id, "generic", <<>> >>)
    BY <2>1, ExtensionsBear
  <2> QED BY <2>2 DEF PlainOffer, Says
<1>3. Bears(Own!SNI, SNIOffer) /\ SNIOffer[1] = 0
  BY ExtensionsBear DEF SNIOffer, Says
<1>4. ASSUME NEW list, IsRow(list)
      PROVE  /\ Bears(Own!Groups(list), Says(10, "groups", <<>>))
             /\ Bears(Own!Algorithms(list), Says(13, "sigalgs", list))
             /\ Bears(Own!Versions(list), Says(43, "versions", stripGREASE(list)))
  <2>1. /\ Bears(Own!Groups(list), <<10, "groups", <<>> >>)
        /\ Bears(Own!Algorithms(list), <<13, "sigalgs", list>>)
        /\ Bears(Own!Versions(list), <<43, "versions", stripGREASE(list)>>)
    BY <1>4, ExtensionsBear
  <2> QED BY <2>1 DEF Says
<1>5. ASSUME NEW list \in {BothProtocols, OneProtocol, QUICProtocol}
      PROVE  Bears(Own!Protocols(list), Says(16, "alpn", list))
  <2>1. list \in {<<Own!h2, Own!http11>>, <<Own!http11>>, <<Own!h3>>}
    BY DEF BothProtocols, OneProtocol, QUICProtocol
  <2>2. Bears(Own!Protocols(list), <<16, "alpn", list>>)
    BY <2>1, ExtensionsBear
  <2> QED BY <2>2 DEF Says
<1>6. /\ Bears(Own!Points, Says(11, "points", <<>>)) /\ Bears(Own!ALPS, Says(17613, "alps", <<>>))
      /\ Bears(Own!Padding, Says(21, "padding", <<>>))
  <2>1. /\ Bears(Own!Points, <<11, "points", <<>> >>) /\ Bears(Own!ALPS, <<17613, "alps", <<>> >>)
        /\ Bears(Own!Padding, <<21, "padding", <<>> >>)
    BY ExtensionsBear
  <2> QED BY <2>1 DEF Says
<1> QED BY <1>1, <1>2, <1>3, <1>4, <1>5, <1>6

NodeList ==
    <<Own!SNI, Own!Plain(23), Own!Plain(65281), Own!Groups(<<29, 23, 24>>), Own!Points,
      Own!Plain(35), Own!Protocols(OneProtocol), Own!Algorithms(Own!OldAlgorithms),
      Own!Plain(51), Own!Plain(45), Own!Versions(<<772, 771>>), Own!Padding>>
NodeOffers ==
    <<SNIOffer, PlainOffer(23), PlainOffer(65281), Says(10, "groups", <<>>),
      Says(11, "points", <<>>), PlainOffer(35), Says(16, "alpn", OneProtocol),
      Says(13, "sigalgs", Own!OldAlgorithms), PlainOffer(51), PlainOffer(45),
      Says(43, "versions", stripGREASE(<<772, 771>>)), Says(21, "padding", <<>>)>>
NodeIds == <<0, 23, 65281, 10, 11, 35, 16, 13, 51, 45, 43, 21>>

LEMMA NodeElements == \A i \in 1..12 : Bears(NodeList[i], NodeOffers[i])
<1>1. \A id \in {23, 65281, 35, 51, 45} : Bears(Own!Plain(id), PlainOffer(id))
  BY Bearing DEF PlainIds
<1>3. IsRow(<<29, 23, 24>>) /\ IsRow(<<772, 771>>) /\ IsRow(Own!OldAlgorithms)
  BY AlgorithmsAre DEF IsRow
<1>2. /\ Bears(Own!SNI, SNIOffer)
      /\ Bears(Own!Groups(<<29, 23, 24>>), Says(10, "groups", <<>>))
      /\ Bears(Own!Points, Says(11, "points", <<>>))
      /\ Bears(Own!Protocols(OneProtocol), Says(16, "alpn", OneProtocol))
      /\ Bears(Own!Algorithms(Own!OldAlgorithms), Says(13, "sigalgs", Own!OldAlgorithms))
      /\ Bears(Own!Versions(<<772, 771>>), Says(43, "versions", stripGREASE(<<772, 771>>)))
      /\ Bears(Own!Padding, Says(21, "padding", <<>>))
  BY <1>3, Bearing
<1> QED BY <1>1, <1>2 DEF NodeList, NodeOffers

LEMMA NodeTabled == ASSUME NEW m \in 0..12 PROVE Tabled(NodeOffers, m, {})
<1> DEFINE table == NodeOffers
<1>1. /\ table[1] = SNIOffer /\ table[2] = PlainOffer(23)
      /\ table[3] = PlainOffer(65281) /\ table[4] = Says(10, "groups", <<>>)
      /\ table[5] = Says(11, "points", <<>>) /\ table[6] = PlainOffer(35)
      /\ table[7] = Says(16, "alpn", OneProtocol) /\ table[8] = Says(13, "sigalgs", Own!OldAlgorithms)
      /\ table[9] = PlainOffer(51) /\ table[10] = PlainOffer(45)
      /\ table[11] = Says(43, "versions", stripGREASE(<<772, 771>>)) /\ table[12] = Says(21, "padding", <<>>)
  BY DEF NodeOffers
<1> HIDE DEF table
<1>2. \A id \in {23, 65281, 35, 51, 45} : PlainOffer(id)[1] = id
  BY Bearing DEF PlainIds
<1>3. /\ SNIOffer[1] = 0 /\ Says(10, "groups", <<>>)[1] = 10
      /\ Says(11, "points", <<>>)[1] = 11 /\ Says(16, "alpn", OneProtocol)[1] = 16
      /\ Says(13, "sigalgs", Own!OldAlgorithms)[1] = 13 /\ Says(43, "versions", stripGREASE(<<772, 771>>))[1] = 43
      /\ Says(21, "padding", <<>>)[1] = 21
  BY Bearing
<1>4. /\ table[1][1] = 0 /\ table[2][1] = 23 /\ table[3][1] = 65281 /\ table[4][1] = 10
      /\ table[5][1] = 11 /\ table[6][1] = 35 /\ table[7][1] = 16 /\ table[8][1] = 13
      /\ table[9][1] = 51 /\ table[10][1] = 45 /\ table[11][1] = 43 /\ table[12][1] = 21
  BY <1>1, <1>2, <1>3
<1>5. /\ NodeIds[1] = 0 /\ NodeIds[2] = 23 /\ NodeIds[3] = 65281 /\ NodeIds[4] = 10
      /\ NodeIds[5] = 11 /\ NodeIds[6] = 35 /\ NodeIds[7] = 16 /\ NodeIds[8] = 13
      /\ NodeIds[9] = 51 /\ NodeIds[10] = 45 /\ NodeIds[11] = 43 /\ NodeIds[12] = 21
  BY DEF NodeIds
<1>6. \A i \in 1..12 :
        i = 1 \/ i = 2 \/ i = 3 \/ i = 4 \/ i = 5 \/ i = 6 \/ i = 7 \/ i = 8 \/ i = 9 \/
        i = 10 \/ i = 11 \/ i = 12
  OBVIOUS
<1>7. \A i \in 1..12 : table[i][1] = NodeIds[i]
  BY <1>4, <1>5, <1>6
<1>8. \A i, j \in 1..12 : (NodeIds[i] = NodeIds[j] => i = j) /\ NodeIds[i] # 41
  BY DEF NodeIds
<1>9. (1..m) \ {} \subseteq 1..12
  OBVIOUS
<1>10. Tabled(table, m, {})
  BY <1>7, <1>8, <1>9 DEF Tabled
<1> QED BY <1>10 DEF table

MaxList ==
    <<Own!SNI, Own!Plain(23), Own!Plain(65281), Own!Groups(<<29, 23, 24>>), Own!Points,
      Own!Plain(35), Own!Plain(5), Own!Algorithms(Own!OldAlgorithms), Own!Plain(51),
      Own!Plain(45), Own!Versions(<<772, 771>>)>>
MaxOffers ==
    <<SNIOffer, PlainOffer(23), PlainOffer(65281), Says(10, "groups", <<>>),
      Says(11, "points", <<>>), PlainOffer(35), PlainOffer(5),
      Says(13, "sigalgs", Own!OldAlgorithms), PlainOffer(51), PlainOffer(45),
      Says(43, "versions", stripGREASE(<<772, 771>>))>>
MaxIds == <<0, 23, 65281, 10, 11, 35, 5, 13, 51, 45, 43>>

LEMMA MaxElements == \A i \in 1..11 : Bears(MaxList[i], MaxOffers[i])
<1>1. \A id \in {23, 65281, 35, 5, 51, 45} : Bears(Own!Plain(id), PlainOffer(id))
  BY Bearing DEF PlainIds
<1>3. IsRow(<<29, 23, 24>>) /\ IsRow(<<772, 771>>) /\ IsRow(Own!OldAlgorithms)
  BY AlgorithmsAre DEF IsRow
<1>2. /\ Bears(Own!SNI, SNIOffer)
      /\ Bears(Own!Groups(<<29, 23, 24>>), Says(10, "groups", <<>>))
      /\ Bears(Own!Points, Says(11, "points", <<>>))
      /\ Bears(Own!Algorithms(Own!OldAlgorithms), Says(13, "sigalgs", Own!OldAlgorithms))
      /\ Bears(Own!Versions(<<772, 771>>), Says(43, "versions", stripGREASE(<<772, 771>>)))
  BY <1>3, Bearing
<1> QED BY <1>1, <1>2 DEF MaxList, MaxOffers

LEMMA MaxTabled == ASSUME NEW m \in 0..11 PROVE Tabled(MaxOffers, m, {})
<1> DEFINE table == MaxOffers
<1>1. /\ table[1] = SNIOffer /\ table[2] = PlainOffer(23)
      /\ table[3] = PlainOffer(65281) /\ table[4] = Says(10, "groups", <<>>)
      /\ table[5] = Says(11, "points", <<>>) /\ table[6] = PlainOffer(35)
      /\ table[7] = PlainOffer(5) /\ table[8] = Says(13, "sigalgs", Own!OldAlgorithms)
      /\ table[9] = PlainOffer(51) /\ table[10] = PlainOffer(45)
      /\ table[11] = Says(43, "versions", stripGREASE(<<772, 771>>))
  BY DEF MaxOffers
<1> HIDE DEF table
<1>2. \A id \in {23, 65281, 35, 5, 51, 45} : PlainOffer(id)[1] = id
  BY Bearing DEF PlainIds
<1>3. /\ SNIOffer[1] = 0 /\ Says(10, "groups", <<>>)[1] = 10
      /\ Says(11, "points", <<>>)[1] = 11 /\ Says(13, "sigalgs", Own!OldAlgorithms)[1] = 13
      /\ Says(43, "versions", stripGREASE(<<772, 771>>))[1] = 43
  BY Bearing
<1>4. /\ table[1][1] = 0 /\ table[2][1] = 23 /\ table[3][1] = 65281 /\ table[4][1] = 10
      /\ table[5][1] = 11 /\ table[6][1] = 35 /\ table[7][1] = 5 /\ table[8][1] = 13
      /\ table[9][1] = 51 /\ table[10][1] = 45 /\ table[11][1] = 43
  BY <1>1, <1>2, <1>3
<1>5. /\ MaxIds[1] = 0 /\ MaxIds[2] = 23 /\ MaxIds[3] = 65281 /\ MaxIds[4] = 10
      /\ MaxIds[5] = 11 /\ MaxIds[6] = 35 /\ MaxIds[7] = 5 /\ MaxIds[8] = 13
      /\ MaxIds[9] = 51 /\ MaxIds[10] = 45 /\ MaxIds[11] = 43
  BY DEF MaxIds
<1>6. \A i \in 1..11 :
        i = 1 \/ i = 2 \/ i = 3 \/ i = 4 \/ i = 5 \/ i = 6 \/ i = 7 \/ i = 8 \/ i = 9 \/
        i = 10 \/ i = 11
  OBVIOUS
<1>7. \A i \in 1..11 : table[i][1] = MaxIds[i]
  BY <1>4, <1>5, <1>6
<1>8. \A i, j \in 1..11 : (MaxIds[i] = MaxIds[j] => i = j) /\ MaxIds[i] # 41
  BY DEF MaxIds
<1>9. (1..m) \ {} \subseteq 1..11
  OBVIOUS
<1>10. Tabled(table, m, {})
  BY <1>7, <1>8, <1>9 DEF Tabled
<1> QED BY <1>10 DEF table

StackList ==
    <<Own!SNI, Own!Groups(<<4588, 29, 23, 24>>), Own!Protocols(QUICProtocol),
      Own!Algorithms(Own!OldAlgorithms), Own!Plain(51), Own!Plain(45), Own!Versions(<<772>>),
      Own!Plain(27), Own!ALPS, Own!Plain(57), Own!Plain(65037), Own!Plain(51764), Own!Plain(4832)>>
StackOffers ==
    <<SNIOffer, Says(10, "groups", <<>>), Says(16, "alpn", QUICProtocol),
      Says(13, "sigalgs", Own!OldAlgorithms), PlainOffer(51), PlainOffer(45),
      Says(43, "versions", stripGREASE(<<772>>)), PlainOffer(27), Says(17613, "alps", <<>>),
      PlainOffer(57), PlainOffer(65037), PlainOffer(51764), PlainOffer(4832)>>
StackIds == <<0, 10, 16, 13, 51, 45, 43, 27, 17613, 57, 65037, 51764, 4832>>

LEMMA StackElements == \A i \in 1..13 : Bears(StackList[i], StackOffers[i])
<1>1. \A id \in {51, 45, 27, 57, 65037, 51764, 4832} : Bears(Own!Plain(id), PlainOffer(id))
  BY Bearing DEF PlainIds
<1>3. IsRow(<<4588, 29, 23, 24>>) /\ IsRow(<<772>>) /\ IsRow(Own!OldAlgorithms)
  BY AlgorithmsAre DEF IsRow
<1>2. /\ Bears(Own!SNI, SNIOffer)
      /\ Bears(Own!Groups(<<4588, 29, 23, 24>>), Says(10, "groups", <<>>))
      /\ Bears(Own!Protocols(QUICProtocol), Says(16, "alpn", QUICProtocol))
      /\ Bears(Own!Algorithms(Own!OldAlgorithms), Says(13, "sigalgs", Own!OldAlgorithms))
      /\ Bears(Own!Versions(<<772>>), Says(43, "versions", stripGREASE(<<772>>)))
      /\ Bears(Own!ALPS, Says(17613, "alps", <<>>))
  BY <1>3, Bearing
<1> QED BY <1>1, <1>2, SMTT(40) DEF StackList, StackOffers

LEMMA StackTabled == ASSUME NEW m \in 0..13 PROVE Tabled(StackOffers, m, {})
<1> DEFINE table == StackOffers
<1>1. /\ table[1] = SNIOffer /\ table[2] = Says(10, "groups", <<>>)
      /\ table[3] = Says(16, "alpn", QUICProtocol) /\ table[4] = Says(13, "sigalgs", Own!OldAlgorithms)
      /\ table[5] = PlainOffer(51) /\ table[6] = PlainOffer(45)
      /\ table[7] = Says(43, "versions", stripGREASE(<<772>>)) /\ table[8] = PlainOffer(27)
      /\ table[9] = Says(17613, "alps", <<>>) /\ table[10] = PlainOffer(57)
      /\ table[11] = PlainOffer(65037) /\ table[12] = PlainOffer(51764)
      /\ table[13] = PlainOffer(4832)
  BY DEF StackOffers
<1> HIDE DEF table
<1>2. \A id \in {51, 45, 27, 57, 65037, 51764, 4832} : PlainOffer(id)[1] = id
  BY Bearing DEF PlainIds
<1>3. /\ SNIOffer[1] = 0 /\ Says(10, "groups", <<>>)[1] = 10
      /\ Says(16, "alpn", QUICProtocol)[1] = 16 /\ Says(13, "sigalgs", Own!OldAlgorithms)[1] = 13
      /\ Says(43, "versions", stripGREASE(<<772>>))[1] = 43 /\ Says(17613, "alps", <<>>)[1] = 17613
  BY Bearing
<1>4. /\ table[1][1] = 0 /\ table[2][1] = 10 /\ table[3][1] = 16 /\ table[4][1] = 13
      /\ table[5][1] = 51 /\ table[6][1] = 45 /\ table[7][1] = 43 /\ table[8][1] = 27
      /\ table[9][1] = 17613 /\ table[10][1] = 57 /\ table[11][1] = 65037 /\ table[12][1] = 51764
      /\ table[13][1] = 4832
  BY <1>1, <1>2, <1>3
<1>5. /\ StackIds[1] = 0 /\ StackIds[2] = 10 /\ StackIds[3] = 16 /\ StackIds[4] = 13
      /\ StackIds[5] = 51 /\ StackIds[6] = 45 /\ StackIds[7] = 43 /\ StackIds[8] = 27
      /\ StackIds[9] = 17613 /\ StackIds[10] = 57 /\ StackIds[11] = 65037 /\ StackIds[12] = 51764
      /\ StackIds[13] = 4832
  BY DEF StackIds
<1>6. \A i \in 1..13 :
        i = 1 \/ i = 2 \/ i = 3 \/ i = 4 \/ i = 5 \/ i = 6 \/ i = 7 \/ i = 8 \/ i = 9 \/
        i = 10 \/ i = 11 \/ i = 12 \/ i = 13
  OBVIOUS
<1>7. \A i \in 1..13 : table[i][1] = StackIds[i]
  BY <1>4, <1>5, <1>6
<1>8. \A i, j \in 1..13 : (StackIds[i] = StackIds[j] => i = j) /\ StackIds[i] # 41
  BY DEF StackIds
<1>9. (1..m) \ {} \subseteq 1..13
  OBVIOUS
<1>10. Tabled(table, m, {})
  BY <1>7, <1>8, <1>9 DEF Tabled
<1> QED BY <1>10 DEF table

FirefoxList ==
    <<Own!SNI, Own!Plain(23), Own!Plain(65281), Own!Groups(<<29, 23, 24, 25>>), Own!Points,
      Own!Plain(35), Own!Protocols(BothProtocols), Own!Plain(5), Own!Plain(34), Own!Plain(51),
      Own!Versions(<<772, 771>>), Own!Algorithms(Own!OldAlgorithms), Own!Plain(45),
      Own!Plain(28), Own!Plain(65037)>>
FirefoxOffers ==
    <<SNIOffer, PlainOffer(23), PlainOffer(65281), Says(10, "groups", <<>>),
      Says(11, "points", <<>>), PlainOffer(35), Says(16, "alpn", BothProtocols), PlainOffer(5),
      PlainOffer(34), PlainOffer(51), Says(43, "versions", stripGREASE(<<772, 771>>)),
      Says(13, "sigalgs", Own!OldAlgorithms), PlainOffer(45), PlainOffer(28), PlainOffer(65037)>>
FirefoxIds == <<0, 23, 65281, 10, 11, 35, 16, 5, 34, 51, 43, 13, 45, 28, 65037>>

LEMMA FirefoxElements == \A i \in 1..15 : Bears(FirefoxList[i], FirefoxOffers[i])
<1>1. \A id \in {23, 65281, 35, 5, 34, 51, 45, 28, 65037} : Bears(Own!Plain(id), PlainOffer(id))
  BY Bearing DEF PlainIds
<1>3. IsRow(<<29, 23, 24, 25>>) /\ IsRow(<<772, 771>>) /\ IsRow(Own!OldAlgorithms)
  BY AlgorithmsAre DEF IsRow
<1>2. /\ Bears(Own!SNI, SNIOffer)
      /\ Bears(Own!Groups(<<29, 23, 24, 25>>), Says(10, "groups", <<>>))
      /\ Bears(Own!Points, Says(11, "points", <<>>))
      /\ Bears(Own!Protocols(BothProtocols), Says(16, "alpn", BothProtocols))
      /\ Bears(Own!Versions(<<772, 771>>), Says(43, "versions", stripGREASE(<<772, 771>>)))
      /\ Bears(Own!Algorithms(Own!OldAlgorithms), Says(13, "sigalgs", Own!OldAlgorithms))
  BY <1>3, Bearing
<1> QED BY <1>1, <1>2, SMTT(40) DEF FirefoxList, FirefoxOffers

LEMMA FirefoxTabled == ASSUME NEW m \in 0..15 PROVE Tabled(FirefoxOffers, m, {})
<1> DEFINE table == FirefoxOffers
<1>1. /\ table[1] = SNIOffer /\ table[2] = PlainOffer(23)
      /\ table[3] = PlainOffer(65281) /\ table[4] = Says(10, "groups", <<>>)
      /\ table[5] = Says(11, "points", <<>>) /\ table[6] = PlainOffer(35)
      /\ table[7] = Says(16, "alpn", BothProtocols) /\ table[8] = PlainOffer(5)
      /\ table[9] = PlainOffer(34) /\ table[10] = PlainOffer(51)
      /\ table[11] = Says(43, "versions", stripGREASE(<<772, 771>>)) /\ table[12] = Says(13, "sigalgs", Own!OldAlgorithms)
      /\ table[13] = PlainOffer(45) /\ table[14] = PlainOffer(28)
      /\ table[15] = PlainOffer(65037)
  BY DEF FirefoxOffers
<1> HIDE DEF table
<1>2. \A id \in {23, 65281, 35, 5, 34, 51, 45, 28, 65037} : PlainOffer(id)[1] = id
  BY Bearing DEF PlainIds
<1>3. /\ SNIOffer[1] = 0 /\ Says(10, "groups", <<>>)[1] = 10
      /\ Says(11, "points", <<>>)[1] = 11 /\ Says(16, "alpn", BothProtocols)[1] = 16
      /\ Says(43, "versions", stripGREASE(<<772, 771>>))[1] = 43 /\ Says(13, "sigalgs", Own!OldAlgorithms)[1] = 13
  BY Bearing
<1>4. /\ table[1][1] = 0 /\ table[2][1] = 23 /\ table[3][1] = 65281 /\ table[4][1] = 10
      /\ table[5][1] = 11 /\ table[6][1] = 35 /\ table[7][1] = 16 /\ table[8][1] = 5
      /\ table[9][1] = 34 /\ table[10][1] = 51 /\ table[11][1] = 43 /\ table[12][1] = 13
      /\ table[13][1] = 45 /\ table[14][1] = 28 /\ table[15][1] = 65037
  BY <1>1, <1>2, <1>3
<1>5. /\ FirefoxIds[1] = 0 /\ FirefoxIds[2] = 23 /\ FirefoxIds[3] = 65281 /\ FirefoxIds[4] = 10
      /\ FirefoxIds[5] = 11 /\ FirefoxIds[6] = 35 /\ FirefoxIds[7] = 16 /\ FirefoxIds[8] = 5
      /\ FirefoxIds[9] = 34 /\ FirefoxIds[10] = 51 /\ FirefoxIds[11] = 43 /\ FirefoxIds[12] = 13
      /\ FirefoxIds[13] = 45 /\ FirefoxIds[14] = 28 /\ FirefoxIds[15] = 65037
  BY DEF FirefoxIds
<1>6. \A i \in 1..15 :
        i = 1 \/ i = 2 \/ i = 3 \/ i = 4 \/ i = 5 \/ i = 6 \/ i = 7 \/ i = 8 \/ i = 9 \/
        i = 10 \/ i = 11 \/ i = 12 \/ i = 13 \/ i = 14 \/ i = 15
  OBVIOUS
<1>7. \A i \in 1..15 : table[i][1] = FirefoxIds[i]
  BY <1>4, <1>5, <1>6
<1>8. \A i, j \in 1..15 : (FirefoxIds[i] = FirefoxIds[j] => i = j) /\ FirefoxIds[i] # 41
  BY DEF FirefoxIds
<1>9. (1..m) \ {} \subseteq 1..15
  OBVIOUS
<1>10. Tabled(table, m, {})
  BY <1>7, <1>8, <1>9 DEF Tabled
<1> QED BY <1>10 DEF table

LEMMA WithIs ==
    \A c, x, e : Own!With(Own!Layout(c, x), e) = Own!Layout(c, Append(x, e))
<1> TAKE c, x, e
<1> DEFINE spec == Own!Layout(c, x)
<1>1. spec.exts = x
  BY LayoutIs
<1>2. Own!With(spec, e) = [spec EXCEPT !.exts = Append(spec.exts, e)]
  BY DEF Own!With
<1>3. Own!With(spec, e) = [spec EXCEPT !.exts = Append(x, e)]
  BY <1>1, <1>2
<1>4. [Own!Layout(c, x) EXCEPT !.exts = Append(x, e)] = Own!Layout(c, Append(x, e))
  BY Relaid, Zenon
<1> QED BY <1>3, <1>4, Zenon

\* A hello without a placeholder gets one.
LEMMA Resumes ==
    ASSUME NEW spec, spec = Own!Layout(spec.ciphers, spec.exts),
           \A i \in DOMAIN spec.exts : spec.exts[i].kind # "psk"
    PROVE  Own!withResumptionPSK(spec) = Own!Layout(spec.ciphers, Append(spec.exts, Own!Placeholder))
<1>1. Own!withResumptionPSK(spec) = Own!With(spec, Own!Placeholder)
  BY Zenon DEF Own!withResumptionPSK, Own!HasPlaceholder
<1>2. \A e : Own!With(spec, e) = Own!Layout(spec.ciphers, Append(spec.exts, e))
  BY WithIs
<1> QED BY <1>1, <1>2

LEMMA NoPlaceholder ==
    ASSUME NEW B, NEW table, NEW n \in Nat, NEW G, Follows(B, table, n, G), Tabled(table, n, G)
    PROVE  \A i \in DOMAIN B : B[i].kind # "psk"
<1>1. Good(B) /\ \A i \in DOMAIN B : B[i].id # 41
  <2>1. TableOffered(B, table, n, G)
    BY FollowsOffers, Zenon
  <2> QED BY <2>1, Zenon DEF TableOffered
<1> QED BY <1>1 DEF Good, Ours

\* The lists without GREASE.
LEMMA ListsFollow ==
    /\ Follows(NodeList, NodeOffers, 12, {}) /\ Follows(MaxList, MaxOffers, 11, {})
    /\ Follows(StackList, StackOffers, 13, {}) /\ Follows(FirefoxList, FirefoxOffers, 15, {})
<1>1. Follows(NodeList, NodeOffers, 12, {})
  <2>1. NodeList = [i \in 1..12 |-> NodeList[i]]
    BY DEF NodeList
  <2>2. IsList(NodeList) /\ Len(NodeList) = 12
    BY <2>1, ListOf
  <2> QED BY <2>2, NodeElements DEF Follows
<1>2. Follows(MaxList, MaxOffers, 11, {})
  <2>1. MaxList = [i \in 1..11 |-> MaxList[i]]
    BY DEF MaxList
  <2>2. IsList(MaxList) /\ Len(MaxList) = 11
    BY <2>1, ListOf
  <2> QED BY <2>2, MaxElements DEF Follows
<1>3. Follows(StackList, StackOffers, 13, {})
  <2>1. StackList = [i \in 1..13 |-> StackList[i]]
    BY DEF StackList
  <2>2. IsList(StackList) /\ Len(StackList) = 13
    BY <2>1, ListOf
  <2> QED BY <2>2, StackElements DEF Follows
<1>4. Follows(FirefoxList, FirefoxOffers, 15, {})
  <2>1. FirefoxList = [i \in 1..15 |-> FirefoxList[i]]
    BY DEF FirefoxList
  <2>2. IsList(FirefoxList) /\ Len(FirefoxList) = 15
    BY <2>1, ListOf
  <2> QED BY <2>2, FirefoxElements DEF Follows
<1> QED BY <1>1, <1>2, <1>3, <1>4

NodeCiphers ==
    <<4865, 4866, 4867, 49199, 49195, 49200, 49196, 49191, 52393, 52392, 49161, 49171, 49162, 49172,
      156, 157, 47, 53>>
MaxCiphers ==
    <<4865, 4866, 4867, 49195, 49196, 52393, 49199, 49200, 52392, 49161, 49162, 49171, 49172, 156, 157,
      47, 53>>
ChromeCiphers(g) ==
    <<g[1], 4865, 4866, 4867, 49195, 49199, 49196, 49200, 52393, 52392, 49171, 49172, 156, 157, 47, 53>>
StackCiphers == <<4865, 4866, 4867>>

LEMMA PlainSpecs ==
    /\ Own!node24Spec = Own!Layout(NodeCiphers, NodeList)
    /\ Own!node24ResumptionSpec = Own!Layout(NodeCiphers, Append(NodeList, Own!Placeholder))
    /\ Own!maxAppSpec = Own!Layout(MaxCiphers, Append(MaxList, Own!Placeholder))
    /\ Own!maxAppPSKSpec = Own!Layout(MaxCiphers, Append(MaxList, Own!CapturedPSK))
    /\ Own!StackSpec = Own!Layout(StackCiphers, Append(StackList, Own!Placeholder))
    /\ Own!FirefoxPreset = Own!Layout(Own!FirefoxPreset.ciphers, FirefoxList)
<1>1. Own!node24Spec = Own!Layout(NodeCiphers, NodeList)
  BY DEF Own!node24Spec, NodeCiphers, NodeList, OneProtocol, Own!Layout
<1>2. Own!maxAppBaseSpec(FALSE) = Own!Layout(MaxCiphers, MaxList)
  <2>1. \A r : Own!maxAppBaseSpec(r) = IF r THEN Own!withResumptionPSK(Own!Layout(MaxCiphers, MaxList))
                                       ELSE Own!Layout(MaxCiphers, MaxList)
    BY DEF Own!maxAppBaseSpec, MaxCiphers, MaxList, Own!Layout
  <2> QED BY <2>1
<1>3. Own!maxAppBaseSpec(TRUE) = Own!withResumptionPSK(Own!Layout(MaxCiphers, MaxList))
  <2>1. \A r : Own!maxAppBaseSpec(r) = IF r THEN Own!withResumptionPSK(Own!Layout(MaxCiphers, MaxList))
                                       ELSE Own!Layout(MaxCiphers, MaxList)
    BY DEF Own!maxAppBaseSpec, MaxCiphers, MaxList, Own!Layout
  <2> QED BY <2>1
<1>4. Own!StackSpec = Own!Layout(StackCiphers, Append(StackList, Own!Placeholder))
  <2> DEFINE full == Append(StackList, Own!Placeholder)
             list == <<Own!SNI, Own!Groups(<<4588, 29, 23, 24>>), Own!Protocols(QUICProtocol),
                       Own!Algorithms(Own!OldAlgorithms), Own!Plain(51), Own!Plain(45),
                       Own!Versions(<<772>>), Own!Plain(27), Own!ALPS, Own!Plain(57),
                       Own!Plain(65037), Own!Plain(51764), Own!Plain(4832), Own!Placeholder>>
  <2>1. Own!StackSpec = Own!Layout(StackCiphers, list)
    BY DEF Own!StackSpec, StackCiphers, QUICProtocol, Own!CA34, Own!X12E0
  <2>2. list = [i \in 1..14 |-> list[i]] /\ list[14] = Own!Placeholder
    OBVIOUS
  <2>3. \A i \in 1..13 : list[i] = StackList[i]
    BY DEF StackList
  <2> HIDE DEF list
  <2>4. IsList(list) /\ Len(list) = 14
    BY <2>2, ListOf
  <2>5. IsList(StackList) /\ Len(StackList) = 13
    BY ListsFollow DEF Follows
  <2>6. Appends(full, StackList, Own!Placeholder)
    BY <2>5, AppendIs
  <2> HIDE DEF full
  <2>7. /\ IsList(full) /\ Len(full) = 14 /\ full[14] = Own!Placeholder
        /\ \A i \in 1..13 : full[i] = StackList[i]
    BY <2>5, <2>6 DEF Appends
  <2>8. \A i \in 1..14 : i \in 1..13 \/ i = 14
    OBVIOUS
  <2>9. list = full
    BY <2>2, <2>3, <2>4, <2>7, <2>8, SameList
  <2> QED BY <2>1, <2>9 DEF full
<1>5. Own!FirefoxPreset = Own!Layout(Own!FirefoxPreset.ciphers, FirefoxList)
  BY DEF Own!FirefoxPreset, FirefoxList, BothProtocols, Own!Layout
<1>6. ASSUME NEW c, NEW B, \A i \in DOMAIN B : B[i].kind # "psk"
      PROVE  Own!withResumptionPSK(Own!Layout(c, B)) = Own!Layout(c, Append(B, Own!Placeholder))
  <2>1. Own!Layout(c, B).ciphers = c /\ Own!Layout(c, B).exts = B
    BY LayoutIs
  <2> QED BY <1>6, <2>1, Resumes, Zenon
<1>7. \A i \in DOMAIN NodeList : NodeList[i].kind # "psk"
  BY ListsFollow, NodeTabled, NoPlaceholder
<1>8. \A i \in DOMAIN MaxList : MaxList[i].kind # "psk"
  BY ListsFollow, MaxTabled, NoPlaceholder
<1>9. Own!node24ResumptionSpec = Own!Layout(NodeCiphers, Append(NodeList, Own!Placeholder))
  BY <1>1, <1>6, <1>7, Zenon DEF Own!node24ResumptionSpec
<1>10. Own!maxAppSpec = Own!Layout(MaxCiphers, Append(MaxList, Own!Placeholder))
  BY <1>3, <1>6, <1>8, Zenon DEF Own!maxAppSpec
<1>11. Own!maxAppPSKSpec = Own!Layout(MaxCiphers, Append(MaxList, Own!CapturedPSK))
  BY <1>2, WithIs, Zenon DEF Own!maxAppPSKSpec
<1> QED BY <1>1, <1>4, <1>5, <1>9, <1>10, <1>11, Zenon

KeyedNames == Own!Shuffled \cup {"node_24", "max_app", "max_app_psk", "chrome_auto"}
SizeOf(n) ==
    CASE n = "node_24"                    -> 12
      [] n \in {"max_app", "max_app_psk"} -> 11
      [] n \in {"chrome_auto", "yandex_browser"} -> 18
      [] n = "chrome_156"                 -> 20
      [] OTHER                            -> 19
TableOf(n) ==
    CASE n = "node_24"                    -> NodeOffers
      [] n \in {"max_app", "max_app_psk"} -> MaxOffers
      [] n = "chrome_auto"                -> ChromeOffers(PresetAlgorithms)
      [] OTHER                            -> ChromeOffers(NewAlgorithms)
GapsOf(n) == IF n \in {"node_24", "max_app", "max_app_psk"} THEN {} ELSE {1, 18}
TailOf(n) == IF n \in {"max_app_psk", "chrome_152_psk"} THEN Own!CapturedPSK ELSE Own!Placeholder
CiphersOf(n, g) ==
    CASE n = "node_24"                    -> NodeCiphers
      [] n \in {"max_app", "max_app_psk"} -> MaxCiphers
      [] OTHER                            -> ChromeCiphers(g)

\* The spec of a name: what its table says, and a pre_shared_key last.
Specified(n, g, B) ==
    /\ Own!SpecOf(n, g) = Own!Layout(CiphersOf(n, g), Append(B, TailOf(n)))
    /\ Follows(B, TableOf(n), SizeOf(n), GapsOf(n))

LEMMA ChromeSpec ==
    ASSUME NEW g \in Own!Pairs, NEW unregistered \in Unregistered, NEW n,
           SizeOf(n) = 18 + Len(unregistered), TableOf(n) = ChromeOffers(NewAlgorithms),
           GapsOf(n) = {1, 18}, CiphersOf(n, g) = ChromeCiphers(g),
           \/ /\ Own!SpecOf(n, g) = Own!chromeBaseSpec(g, unregistered, TRUE)
              /\ TailOf(n) = Own!Placeholder
           \/ /\ Own!SpecOf(n, g) = Own!With(Own!chromeBaseSpec(g, unregistered, FALSE), Own!CapturedPSK)
              /\ TailOf(n) = Own!CapturedPSK
    PROVE  \E B : Specified(n, g, B)
<1> DEFINE base == Own!chromeBaseSpec(g, unregistered, FALSE)
<1>1. /\ Follows(base.exts, ChromeOffers(NewAlgorithms), 18 + Len(unregistered), {1, 18})
      /\ base = Own!Layout(Own!ChromePreset(g).ciphers, base.exts)
      /\ Own!chromeBaseSpec(g, unregistered, TRUE) = Own!With(base, Own!Placeholder)
  BY ChromeBase, Zenon
<1>2. Own!ChromePreset(g).ciphers = ChromeCiphers(g)
  BY DEF Own!ChromePreset, Own!Layout, ChromeCiphers
<1> HIDE DEF base
<1>3. Own!SpecOf(n, g) = Own!With(base, TailOf(n))
  <2>1. CASE /\ Own!SpecOf(n, g) = Own!chromeBaseSpec(g, unregistered, TRUE)
             /\ TailOf(n) = Own!Placeholder
    BY <1>1, <2>1, Zenon
  <2>2. CASE /\ Own!SpecOf(n, g) = Own!With(Own!chromeBaseSpec(g, unregistered, FALSE), Own!CapturedPSK)
             /\ TailOf(n) = Own!CapturedPSK
    BY <2>2, Zenon DEF base
  <2> QED BY <2>1, <2>2
<1>4. Own!SpecOf(n, g) = Own!Layout(ChromeCiphers(g), Append(base.exts, TailOf(n)))
  <2> DEFINE x == base.exts
  <2>1. base = Own!Layout(ChromeCiphers(g), x)
    BY <1>1, <1>2, Zenon
  <2>2. Own!With(Own!Layout(ChromeCiphers(g), x), TailOf(n))
        = Own!Layout(ChromeCiphers(g), Append(x, TailOf(n)))
    BY WithIs
  <2> HIDE DEF x
  <2>3. Own!SpecOf(n, g) = Own!Layout(ChromeCiphers(g), Append(x, TailOf(n)))
    BY <1>3, <2>1, <2>2
  <2> QED BY <2>3 DEF x
<1> QED BY <1>1, <1>4, Zenon DEF Specified

LEMMA SpecIs == ASSUME NEW n \in KeyedNames, NEW g \in Own!Pairs PROVE \E B : Specified(n, g, B)
<1>1. CASE n = "node_24"
  <2>1. /\ Own!SpecOf(n, g) = Own!node24ResumptionSpec /\ TailOf(n) = Own!Placeholder
        /\ CiphersOf(n, g) = NodeCiphers /\ TableOf(n) = NodeOffers /\ SizeOf(n) = 12 /\ GapsOf(n) = {}
    BY <1>1 DEF Own!SpecOf, TailOf, CiphersOf, TableOf, SizeOf, GapsOf
  <2>2. Specified(n, g, NodeList)
    BY <2>1, PlainSpecs, ListsFollow, Zenon DEF Specified
  <2> QED BY <2>2
<1>2. CASE n = "max_app"
  <2>1. /\ Own!SpecOf(n, g) = Own!maxAppSpec /\ TailOf(n) = Own!Placeholder
        /\ CiphersOf(n, g) = MaxCiphers /\ TableOf(n) = MaxOffers /\ SizeOf(n) = 11 /\ GapsOf(n) = {}
    BY <1>2 DEF Own!SpecOf, TailOf, CiphersOf, TableOf, SizeOf, GapsOf
  <2>2. Specified(n, g, MaxList)
    BY <2>1, PlainSpecs, ListsFollow, Zenon DEF Specified
  <2> QED BY <2>2
<1>3. CASE n = "max_app_psk"
  <2>1. /\ Own!SpecOf(n, g) = Own!maxAppPSKSpec /\ TailOf(n) = Own!CapturedPSK
        /\ CiphersOf(n, g) = MaxCiphers /\ TableOf(n) = MaxOffers /\ SizeOf(n) = 11 /\ GapsOf(n) = {}
    BY <1>3 DEF Own!SpecOf, TailOf, CiphersOf, TableOf, SizeOf, GapsOf
  <2>2. Specified(n, g, MaxList)
    BY <2>1, PlainSpecs, ListsFollow, Zenon DEF Specified
  <2> QED BY <2>2
<1>4. CASE n = "chrome_auto"
  <2> DEFINE preset == Own!ChromePreset(g)
  <2>1. /\ Own!SpecOf(n, g) = Own!withResumptionPSK(preset) /\ TailOf(n) = Own!Placeholder
        /\ CiphersOf(n, g) = ChromeCiphers(g) /\ TableOf(n) = ChromeOffers(PresetAlgorithms)
        /\ SizeOf(n) = 18 /\ GapsOf(n) = {1, 18}
    BY <1>4 DEF Own!SpecOf, TailOf, CiphersOf, TableOf, SizeOf, GapsOf
  <2>2. preset = Own!Layout(preset.ciphers, preset.exts) /\ preset.ciphers = ChromeCiphers(g)
    BY DEF Own!ChromePreset, Own!Layout, ChromeCiphers
  <2>3. /\ IsList(preset.exts) /\ Len(preset.exts) = 18
        /\ \A i \in 1..18 : preset.exts[i] = ChromeList(g, PresetAlgorithms)[i]
    BY PresetIs
  <2> HIDE DEF preset
  <2>4. Follows(preset.exts, ChromeOffers(PresetAlgorithms), 18, {1, 18})
    <3>1. \A i \in 1..20 : IF i \in {1, 18} THEN Drawn(ChromeList(g, PresetAlgorithms)[i])
                           ELSE Bears(ChromeList(g, PresetAlgorithms)[i], ChromeOffers(PresetAlgorithms)[i])
      BY AlgorithmsAre, ChromeElements
    <3>2. \A i \in 1..18 : i \in 1..20
      OBVIOUS
    <3> QED BY <2>3, <3>1, <3>2 DEF Follows
  <2>5. \A i \in DOMAIN preset.exts : preset.exts[i].kind # "psk"
    <3>1. Tabled(ChromeOffers(PresetAlgorithms), 18, {1, 18})
      BY ChromeTabled
    <3> QED BY <2>4, <3>1, NoPlaceholder
  <2>6. Own!withResumptionPSK(preset) = Own!Layout(ChromeCiphers(g), Append(preset.exts, Own!Placeholder))
    BY <2>2, <2>5, Resumes, Zenon
  <2>7. Specified(n, g, preset.exts)
    BY <2>1, <2>4, <2>6, Zenon DEF Specified, preset
  <2> QED BY <2>7
<1>5. CASE n \in {"chrome_152", "chrome_155"}
  <2>1. /\ Own!SpecOf(n, g) = Own!chromeBaseSpec(g, <<Own!CA34>>, TRUE) /\ TailOf(n) = Own!Placeholder
        /\ CiphersOf(n, g) = ChromeCiphers(g) /\ TableOf(n) = ChromeOffers(NewAlgorithms)
        /\ SizeOf(n) = 19 /\ GapsOf(n) = {1, 18}
    BY <1>5 DEF Own!SpecOf, TailOf, CiphersOf, TableOf, SizeOf, GapsOf, Own!chrome152Spec
  <2>2. <<Own!CA34>> \in Unregistered /\ 18 + Len(<<Own!CA34>>) = 19
    BY DEF Unregistered
  <2> QED BY <2>1, <2>2, ChromeSpec
<1>6. CASE n = "chrome_152_psk"
  <2>1. /\ Own!SpecOf(n, g) = Own!With(Own!chromeBaseSpec(g, <<Own!CA34>>, FALSE), Own!CapturedPSK)
        /\ TailOf(n) = Own!CapturedPSK
        /\ CiphersOf(n, g) = ChromeCiphers(g) /\ TableOf(n) = ChromeOffers(NewAlgorithms)
        /\ SizeOf(n) = 19 /\ GapsOf(n) = {1, 18}
    BY <1>6 DEF Own!SpecOf, TailOf, CiphersOf, TableOf, SizeOf, GapsOf, Own!chrome152PSKSpec
  <2>2. <<Own!CA34>> \in Unregistered /\ 18 + Len(<<Own!CA34>>) = 19
    BY DEF Unregistered
  <2> QED BY <2>1, <2>2, ChromeSpec
<1>7. CASE n = "chrome_156"
  <2>1. /\ Own!SpecOf(n, g) = Own!chromeBaseSpec(g, <<Own!CA34, Own!X12E0>>, TRUE)
        /\ TailOf(n) = Own!Placeholder
        /\ CiphersOf(n, g) = ChromeCiphers(g) /\ TableOf(n) = ChromeOffers(NewAlgorithms)
        /\ SizeOf(n) = 20 /\ GapsOf(n) = {1, 18}
    BY <1>7 DEF Own!SpecOf, TailOf, CiphersOf, TableOf, SizeOf, GapsOf, Own!chrome156Spec
  <2>2. <<Own!CA34, Own!X12E0>> \in Unregistered /\ 18 + Len(<<Own!CA34, Own!X12E0>>) = 20
    BY DEF Unregistered
  <2> QED BY <2>1, <2>2, ChromeSpec
<1>8. CASE n = "yandex_browser"
  <2>1. /\ Own!SpecOf(n, g) = Own!chromeBaseSpec(g, <<>>, TRUE) /\ TailOf(n) = Own!Placeholder
        /\ CiphersOf(n, g) = ChromeCiphers(g) /\ TableOf(n) = ChromeOffers(NewAlgorithms)
        /\ SizeOf(n) = 18 /\ GapsOf(n) = {1, 18}
    BY <1>8 DEF Own!SpecOf, TailOf, CiphersOf, TableOf, SizeOf, GapsOf, Own!yandexBrowserSpec
  <2>2. <<>> \in Unregistered /\ 18 + Len(<<>>) = 18
    BY DEF Unregistered
  <2> QED BY <2>1, <2>2, ChromeSpec
<1> QED BY <1>1, <1>2, <1>3, <1>4, <1>5, <1>6, <1>7, <1>8 DEF KeyedNames, Own!Shuffled

LEMMA TailIs ==
    ASSUME NEW n
    PROVE  /\ Ours(TailOf(n)) /\ TailOf(n).id = 41
           /\ TailOf(n).kind = IF n \in {"max_app_psk", "chrome_152_psk"} THEN "generic" ELSE "psk"
<1>1. /\ Ours(Own!CapturedPSK) /\ Own!CapturedPSK.id = 41 /\ Own!CapturedPSK.kind = "generic"
      /\ Ours(Own!Placeholder) /\ Own!Placeholder.id = 41 /\ Own!Placeholder.kind = "psk"
  <2>1. Whole(Own!Listed(<<>>))
    BY ShortRows, ListedIs
  <2> QED BY <2>1 DEF Own!CapturedPSK, Own!Placeholder, Own!Plain, Own!Ext, Ours, isGREASE
<1> QED BY <1>1 DEF TailOf

LEMMA TableIs ==
    ASSUME NEW n \in KeyedNames
    PROVE  SizeOf(n) \in 11..20 /\ Tabled(TableOf(n), SizeOf(n), GapsOf(n))
<1>1. Tabled(NodeOffers, 12, {}) /\ Tabled(MaxOffers, 11, {})
  BY NodeTabled, MaxTabled
<1>2. \A algorithms : \A m \in 18..20 : Tabled(ChromeOffers(algorithms), m, {1, 18})
  BY ChromeTabled
<1>3. CASE n = "node_24"
  BY <1>1, <1>3 DEF SizeOf, TableOf, GapsOf
<1>4. CASE n \in {"max_app", "max_app_psk"}
  BY <1>1, <1>4 DEF SizeOf, TableOf, GapsOf
<1>5. CASE n \notin {"node_24", "max_app", "max_app_psk"}
  <2>1. GapsOf(n) = {1, 18} /\ SizeOf(n) \in 18..20 /\ SizeOf(n) \in 11..20
    BY <1>5 DEF SizeOf, GapsOf
  <2>2. \E algorithms : TableOf(n) = ChromeOffers(algorithms)
    BY <1>5 DEF TableOf
  <2> QED BY <1>2, <2>1, <2>2
<1> QED BY <1>3, <1>4, <1>5

\* What the hello of a name offers before the handshake.
AllOffers(n) ==
    {TableOf(n)[i] : i \in (1..SizeOf(n)) \ GapsOf(n)} \cup {<<41, TailOf(n).kind, <<>> >>}

\* Whatever the GREASE values, and whatever the order.
LEMMA ConnOffers ==
    ASSUME NEW n \in KeyedNames, NEW g \in Own!Pairs, NEW order, Own!Permutes(order, Own!Slots(n, g))
    PROVE  LET conn == Own!newUConn(n, g, order)
           IN /\ conn = Own!Layout(CiphersOf(n, g), conn.exts) /\ conn.exts # <<>>
              /\ Good(conn.exts) /\ Offers(conn.exts) = AllOffers(n)
<1> DEFINE conn == Own!newUConn(n, g, order)
           e == TailOf(n)
<1>1. PICK B : Specified(n, g, B)
  BY SpecIs
<1> DEFINE X == Append(B, e)
<1>2. Own!SpecOf(n, g) = Own!Layout(CiphersOf(n, g), X) /\ Follows(B, TableOf(n), SizeOf(n), GapsOf(n))
  BY <1>1, Zenon DEF Specified
<1>3. /\ SizeOf(n) \in Nat /\ Tabled(TableOf(n), SizeOf(n), GapsOf(n))
      /\ Ours(e) /\ e.id = 41
  BY TableIs, TailIs
<1> HIDE DEF e
<1>4. Good(X) /\ Len(X) = SizeOf(n) + 1 /\ Offers(X) = AllOffers(n)
  <2>1. /\ Good(X) /\ Len(X) = SizeOf(n) + 1
        /\ Offers(X) = {TableOf(n)[i] : i \in (1..SizeOf(n)) \ GapsOf(n)} \cup {<<41, e.kind, <<>> >>}
    <3> DEFINE table == TableOf(n)
               size == SizeOf(n)
               G == GapsOf(n)
    <3>1. Follows(B, table, size, G) /\ size \in Nat /\ Tabled(table, size, G)
      BY <1>2, <1>3
    <3> HIDE DEF table, size, G
    <3>2. TableKeyed(X, table, size, G, e)
      BY <1>3, <3>1, KeyedOffers, Zenon
    <3> QED BY <3>2, Zenon DEF TableKeyed, table, size, G
  <2> QED BY <2>1, Zenon DEF AllOffers, e
<1>5. IsList(B) /\ Len(B) = SizeOf(n)
  BY <1>2 DEF Follows
<1>6. Own!SpecOf(n, g).exts = X
  <2> HIDE DEF X
  <2>1. Own!Layout(CiphersOf(n, g), X).exts = X
    BY LayoutIs
  <2> QED BY <1>2, <2>1
<1>7. \A x : Len(x) = SizeOf(n) + 1 => x # <<>>
  BY <1>3
<1> HIDE DEF X
<1>8. CASE n \in Own!Shuffled
  <2> DEFINE Y == Own!shuffleExtensions(X, order)
  <2>1. Own!WithoutPSK(X) = B
    BY <1>3, <1>4, <1>5, WithoutLastPSK DEF X
  <2>2. Own!Permutes(order, Own!Movable(B))
    BY <1>6, <1>8, <2>1, Zenon DEF Own!Slots
  <2>3. Good(Y) /\ Offers(Y) = Offers(X) /\ Len(Y) = SizeOf(n) + 1
    BY <1>3, <1>4, <1>5, <2>2, ShuffledOffers DEF X
  <2>4. conn = [Own!SpecOf(n, g) EXCEPT !.exts = Y]
    <3>1. conn = [Own!SpecOf(n, g) EXCEPT !.exts = Own!shuffleExtensions(Own!SpecOf(n, g).exts, order)]
      BY <1>8, Zenon DEF Own!newUConn
    <3> QED BY <1>6, <3>1, Zenon
  <2> HIDE DEF Y
  <2>5. \A c, x : [Own!Layout(c, x) EXCEPT !.exts = Y] = Own!Layout(c, Y)
    BY Relaid
  <2>6. conn = Own!Layout(CiphersOf(n, g), Y)
    BY <1>2, <2>4, <2>5, Zenon
  <2> HIDE DEF conn
  <2>7. conn.exts = Y
    BY <2>6, LayoutIs
  <2>8. conn.exts # <<>>
    BY <1>7, <2>3, <2>7
  <2> QED BY <1>4, <2>3, <2>6, <2>7, <2>8, Zenon DEF conn
<1>9. CASE n \notin Own!Shuffled
  <2>1. conn = Own!Layout(CiphersOf(n, g), X)
    BY <1>2, <1>9, Zenon DEF Own!newUConn
  <2> HIDE DEF conn
  <2>2. conn.exts = X
    BY <2>1, LayoutIs
  <2>3. conn.exts # <<>>
    BY <1>4, <1>7, <2>2
  <2> QED BY <1>4, <2>1, <2>2, <2>3, Zenon DEF conn
<1> QED BY <1>8, <1>9

\* What the handshake makes of a layout.
Shown(h, c, offers, t) ==
    /\ h.version = 771 /\ h.ciphers = c /\ h.tail = FALSE
    /\ Good(h.exts) /\ Offers(h.exts) = {o \in offers : t \/ o[2] # "psk"}

LEMMA WireIs ==
    ASSUME NEW c, NEW X, Good(X), X # <<>>, NEW t
    PROVE  Shown(Own!OnTheWire(Own!Layout(c, X), t), c, Offers(X), t)
<1> DEFINE Y == Sublist(X, {i \in DOMAIN X : t \/ X[i].kind # "psk"})
           L == Own!Layout(c, X)
<1>1. Good(Y) /\ Offers(Y) = {o \in Offers(X) : t \/ o[2] # "psk"}
  BY ConcealedOffers
<1>2. L.exts = X /\ L.exts # <<>>
  BY LayoutIs
<1>3. Own!OnTheWire(L, t) = [L EXCEPT !.exts = Y]
  <2>1. Own!OnTheWire(L, t) =
           [L EXCEPT !.exts = Own!Sublist(L.exts, {i \in DOMAIN L.exts : t \/ L.exts[i].kind # "psk"})]
    BY <1>2, Zenon DEF Own!OnTheWire
  <2> HIDE DEF L
  <2> QED BY <1>2, <2>1, OwnSublist, Zenon
<1> HIDE DEF Y
<1>4. [L EXCEPT !.exts = Y] = Own!Layout(c, Y)
  BY Relaid
<1>5. Own!OnTheWire(L, t) = Own!Layout(c, Y)
  BY <1>3, <1>4, Zenon
<1>6. Own!Layout(c, Y).version = 771 /\ Own!Layout(c, Y).ciphers = c /\ Own!Layout(c, Y).exts = Y
      /\ Own!Layout(c, Y).tail = FALSE
  BY LayoutIs
<1>7. Shown(Own!Layout(c, Y), c, Offers(X), t)
  BY <1>1, <1>6 DEF Shown
<1> QED BY <1>5, <1>7, Zenon DEF L

\* What a hello offers over TCP, with a ticket.
Offered(n, p) ==
    IF n \notin KeyedNames THEN Offers(FirefoxList)
    ELSE IF p = "ws" THEN {Narrowed(o) : o \in {q \in AllOffers(n) : q[2] # "alps"}}
    ELSE AllOffers(n)

LEMMA HelloOfName ==
    ASSUME NEW n \in KeyedNames, NEW p \in {"tcp", "ws"}, NEW t, NEW g \in Own!Pairs,
           NEW order, Own!Permutes(order, Own!Slots(n, g))
    PROVE  Shown(Own!Hello(n, p, t, g, order), CiphersOf(n, g), Offered(n, p), t)
<1> DEFINE conn == Own!newUConn(n, g, order)
           X == conn.exts
           c == CiphersOf(n, g)
           h == Own!Hello(n, p, t, g, order)
           Y == Own!narrowALPN(X, <<Own!http11>>)
<1>1. conn = Own!Layout(c, X) /\ X # <<>> /\ Good(X) /\ Offers(X) = AllOffers(n)
  BY ConnOffers
<1> HIDE DEF c
<1>2. CASE p = "tcp"
  <2>1. h = Own!OnTheWire(conn, t)
    BY <1>2, Zenon DEF Own!Hello
  <2>2. Offered(n, p) = Offers(X)
    BY <1>1, <1>2, Zenon DEF Offered
  <2> HIDE DEF conn, X, h
  <2>3. h = Own!OnTheWire(Own!Layout(c, X), t)
    BY <1>1, <2>1
  <2>4. Shown(h, c, Offers(X), t)
    <3>1. Shown(Own!OnTheWire(Own!Layout(c, X), t), c, Offers(X), t)
      BY <1>1, WireIs, Zenon
    <3> QED BY <2>3, <3>1, Zenon
  <2> QED BY <2>2, <2>4, Zenon DEF h, c
<1>3. CASE p = "ws"
  <2>1. h = Own!OnTheWire([conn EXCEPT !.exts = Y], t)
    BY <1>3, Zenon DEF Own!Hello
  <2>2. Good(Y) /\ Offers(Y) = {Narrowed(o) : o \in {q \in Offers(X) : q[2] # "alps"}}
    <3> HIDE DEF X
    <3> QED BY <1>1, NarrowedOffers
  <2>3. Offered(n, p) = Offers(Y)
    BY <1>1, <1>3, <2>2, Zenon DEF Offered
  <2> HIDE DEF h, Y
  <2>4. \A x : [Own!Layout(c, x) EXCEPT !.exts = Y] = Own!Layout(c, Y)
    BY Relaid
  <2> HIDE DEF conn, X
  <2>5. [conn EXCEPT !.exts = Y] = Own!Layout(c, Y)
    BY <1>1, <2>4
  <2>6. Y # <<>>
    <3> DEFINE o == <<41, TailOf(n).kind, <<>> >>
    <3>1. o \in Offers(X) /\ o[2] # "alps"
      BY <1>1, TailIs DEF AllOffers
    <3> HIDE DEF o
    <3>2. Narrowed(o) \in Offers(Y)
      BY <2>2, <3>1
    <3>3. \E i \in DOMAIN Y : TRUE
      BY <3>2, Zenon DEF Offers, Named
    <3> QED BY <3>3
  <2>7. h = Own!OnTheWire(Own!Layout(c, Y), t)
    BY <2>1, <2>5
  <2>8. Shown(h, c, Offers(Y), t)
    <3>1. Good(Y)
      BY <2>2
    <3>2. Shown(Own!OnTheWire(Own!Layout(c, Y), t), c, Offers(Y), t)
      BY <2>6, <3>1, WireIs, Zenon
    <3> QED BY <2>7, <3>2, Zenon
  <2> QED BY <2>3, <2>8, Zenon DEF h, c
<1> QED BY <1>2, <1>3

\* A name that is a uTLS id.
LEMMA HelloOfOther ==
    ASSUME NEW n, n \notin KeyedNames, NEW p \in {"tcp", "ws"}, NEW t, NEW g, NEW order
    PROVE  Shown(Own!Hello(n, p, t, g, order), Own!FirefoxPreset.ciphers, Offered(n, p), t)
<1> DEFINE conn == Own!newUConn(n, g, order)
           h == Own!Hello(n, p, t, g, order)
           Z == Sublist(FirefoxList, {i \in DOMAIN FirefoxList : t \/ FirefoxList[i].kind # "psk"})
           c == Own!FirefoxPreset.ciphers
<1>1. conn = Own!Layout(<<>>, <<>>)
  <2>1. Own!SpecOf(n, g) = Own!Layout(<<>>, <<>>) /\ n \notin Own!Shuffled
    BY DEF Own!SpecOf, KeyedNames, Own!Shuffled
  <2> QED BY <2>1, Zenon DEF Own!newUConn
<1>2. Own!narrowALPN(<<>>, <<Own!http11>>) = <<>>
  <2>1. Own!narrowALPN(<<>>, <<Own!http11>>) =
          LET S == {i \in DOMAIN <<>> : Own!h2 \in Own!ToSet(<<Own!http11>>) \/ <<>>[i].kind # "alps"}
              kept == Sublist(<<>>, S)
          IN [i \in DOMAIN kept |-> IF kept[i].kind = "alpn" THEN Own!Protocols(<<Own!http11>>) ELSE kept[i]]
    BY OwnSublist, Zenon DEF Own!narrowALPN
  <2> DEFINE S == {i \in DOMAIN <<>> : Own!h2 \in Own!ToSet(<<Own!http11>>) \/ <<>>[i].kind # "alps"}
             kept == Sublist(<<>>, S)
  <2>2. S = {} /\ IsList(<<>>)
    BY DEF IsList
  <2>3. Keeps(kept, <<>>, {})
    <3>1. Keeps(Sublist(<<>>, {}), <<>>, {})
      BY <2>2, SublistIs
    <3> QED BY <2>2, <3>1, Zenon
  <2> HIDE DEF kept
  <2>4. DOMAIN kept = {}
    <3>1. Len(kept) = 0 /\ IsList(kept)
      BY <2>3, FS_EmptySet DEF Keeps
    <3> QED BY <3>1, ListIs
  <2>5. [i \in DOMAIN kept |-> IF kept[i].kind = "alpn" THEN Own!Protocols(<<Own!http11>>) ELSE kept[i]] = <<>>
    BY <2>4
  <2> QED BY <2>1, <2>5 DEF kept
<1>3. h = Own!OnTheWire(Own!Layout(<<>>, <<>>), t)
  <2>1. CASE p = "tcp"
    BY <1>1, <2>1, Zenon DEF Own!Hello
  <2>2. CASE p = "ws"
    <3>1. h = Own!OnTheWire([conn EXCEPT !.exts = Own!narrowALPN(conn.exts, <<Own!http11>>)], t)
      BY <2>2, Zenon DEF Own!Hello
    <3>2. conn.exts = <<>>
      BY <1>1, LayoutIs
    <3>3. [Own!Layout(<<>>, <<>>) EXCEPT !.exts = <<>>] = Own!Layout(<<>>, <<>>)
      BY Relaid
    <3> QED BY <1>1, <1>2, <3>1, <3>2, <3>3, Zenon
  <2> QED BY <2>1, <2>2
<1>4. Own!FirefoxPreset = Own!Layout(c, FirefoxList)
  BY PlainSpecs
<1> HIDE DEF c, h, conn
<1>5. h = [Own!FirefoxPreset EXCEPT !.exts = Z]
  <2>1. Own!Layout(<<>>, <<>>).exts = <<>>
    BY LayoutIs
  <2>2. Own!FirefoxPreset.exts = FirefoxList
    BY <1>4, LayoutIs
  <2> DEFINE built == Own!FirefoxPreset
  <2>3. Own!OnTheWire(Own!Layout(<<>>, <<>>), t) =
          [built EXCEPT !.exts = Own!Sublist(built.exts, {i \in DOMAIN built.exts : t \/ built.exts[i].kind # "psk"})]
    BY <2>1, Zenon DEF Own!OnTheWire
  <2> HIDE DEF built
  <2>4. built.exts = FirefoxList
    BY <2>2 DEF built
  <2> QED BY <1>3, <2>3, <2>4, OwnSublist, Zenon DEF built
<1>6. Good(FirefoxList)
  <2>1. Follows(FirefoxList, FirefoxOffers, 15, {}) /\ Tabled(FirefoxOffers, 15, {})
    BY ListsFollow, FirefoxTabled
  <2>2. TableOffered(FirefoxList, FirefoxOffers, 15, {})
    BY <2>1, FollowsOffers
  <2> QED BY <2>2, Zenon DEF TableOffered
<1>7. Good(Z) /\ Offers(Z) = {o \in Offers(FirefoxList) : t \/ o[2] # "psk"}
  BY <1>6, ConcealedOffers
<1> HIDE DEF Z
<1>8. \A x : [Own!Layout(c, x) EXCEPT !.exts = Z] = Own!Layout(c, Z)
  BY Relaid
<1>9. h = Own!Layout(c, Z)
  BY <1>4, <1>5, <1>8
<1>10. h.version = 771 /\ h.ciphers = c /\ h.exts = Z /\ h.tail = FALSE
  BY <1>9, LayoutIs
<1>11. Offered(n, p) = Offers(FirefoxList)
  BY Zenon DEF Offered
<1> QED BY <1>7, <1>10, <1>11, Zenon DEF Shown, h, c

\* The beginning of a list.
LEMMA EmptySublist ==
    ASSUME NEW s, IsList(s) PROVE IsList(Sublist(s, {})) /\ Len(Sublist(s, {})) = 0
<1>1. Keeps(Sublist(s, {}), s, {})
  BY SublistIs
<1> QED BY <1>1, FS_EmptySet DEF Keeps

\* There is one way to list the members of a set in order.
LEMMA OneListing ==
    ASSUME NEW S \in SUBSET Nat, NEW p, Enumerates(p, S), NEW q, Enumerates(q, S)
    PROVE  Len(p) = Len(q) /\ \A k \in 1..Len(q) : p[k] = q[k]
<1>1. Len(p) = Len(q)
  BY CountPlaces
<1> DEFINE n == Len(q)
<1>2. n \in Nat /\ DOMAIN p = 1..n /\ DOMAIN q = 1..n
  BY <1>1, ListIs DEF Enumerates
<1>3. /\ \A k \in 1..n : p[k] \in S /\ q[k] \in S /\ p[k] \in Nat /\ q[k] \in Nat
      /\ \A i \in S : (\E k \in 1..n : p[k] = i) /\ (\E k \in 1..n : q[k] = i)
      /\ \A j, k \in 1..n : j < k => p[j] < p[k] /\ q[j] < q[k]
  BY <1>2 DEF Enumerates
<1> DEFINE off == {k \in 1..n : p[k] # q[k]}
<1> HIDE DEF n
<1>4. ASSUME off # {} PROVE FALSE
  <2>1. PICK k \in off : \A j \in off : k <= j
    <3>1. off \in SUBSET Nat
      BY <1>2
    <3> HIDE DEF off
    <3> QED BY <1>4, <3>1, LeastOf
  <2>2. k \in 1..n /\ p[k] # q[k] /\ \A j \in 1..n : j < k => p[j] = q[j]
    BY <1>2, <2>1
  <2>3. PICK i \in 1..n : q[i] = p[k]
    BY <1>3, <2>2
  <2>4. PICK j \in 1..n : p[j] = q[k]
    BY <1>3, <2>2
  <2>5. ~(i < k)
    BY <1>3, <2>2, <2>3
  <2>6. ~(j < k)
    BY <1>3, <2>2, <2>4
  <2>7. k < i /\ k < j
    BY <1>2, <2>2, <2>3, <2>4, <2>5, <2>6
  <2>8. q[k] < p[k] /\ p[k] < q[k]
    BY <1>3, <2>2, <2>3, <2>4, <2>7
  <2> QED BY <1>3, <2>2, <2>8
<1> QED BY <1>1, <1>4 DEF n

\* A list without the elements at places a + 1 to b.
Skips(q, s, a, b) ==
    /\ IsList(q) /\ Len(q) = Len(s) - (b - a)
    /\ \A i \in 1..a : q[i] = s[i]
    /\ \A i \in b + 1..Len(s) : q[i - (b - a)] = s[i]

LEMMA SkipIs ==
    ASSUME NEW s, IsList(s), NEW a \in Nat, NEW b \in a..Len(s), NEW S,
           S = (1..Len(s)) \ (a + 1..b)
    PROVE  Skips(Sublist(s, S), s, a, b)
<1> DEFINE q == Sublist(s, S)
           n == Len(s)
           d == b - a
           r == [i \in 1..n - d |-> IF i <= a THEN i ELSE i + d]
<1>1. n \in Nat /\ DOMAIN s = 1..n /\ d \in 0..n /\ b \in Nat /\ S \in SUBSET DOMAIN s /\ S \subseteq Nat
  BY ListIs
<1>2. Keeps(q, s, S)
  BY <1>1, SublistIs
<1>3. PICK p : /\ Enumerates(p, S) /\ Len(p) = Len(q) /\ DOMAIN p = DOMAIN q
               /\ \A k \in DOMAIN q : q[k] = s[p[k]]
  BY <1>2 DEF Keeps
<1> HIDE DEF q
<1>4. Enumerates(r, S) /\ Len(r) = n - d
  <2>1. n - d \in Nat /\ r = [i \in 1..n - d |-> r[i]]
    BY <1>1
  <2>2. \A i \in 1..n - d : r[i] = IF i <= a THEN i ELSE i + d
    OBVIOUS
  <2> HIDE DEF r
  <2>3. IsList(r) /\ Len(r) = n - d
    BY <2>1, ListOf
  <2>4. DOMAIN r = 1..n - d
    BY <2>3, ListIs
  <2>5. \A k \in 1..n - d : r[k] \in S
    BY <1>1, <2>2
  <2>6. ASSUME NEW i \in S PROVE \E k \in 1..n - d : r[k] = i
    <3>1. CASE i <= a
      BY <1>1, <2>2, <3>1
    <3>2. CASE i > a
      <4>1. i > b /\ i - d \in 1..n - d /\ i - d > a
        BY <1>1, <3>2
      <4>2. r[i - d] = i
        BY <1>1, <2>2, <4>1
      <4> QED BY <4>1, <4>2
    <3> QED BY <1>1, <3>1, <3>2
  <2>7. \A j, k \in 1..n - d : j < k => r[j] < r[k]
    BY <1>1, <2>2
  <2> HIDE DEF n, d
  <2> QED BY <2>3, <2>4, <2>5, <2>6, <2>7 DEF Enumerates
<1>5. Len(p) = n - d /\ \A k \in 1..n - d : p[k] = r[k]
  <2>1. Len(p) = Len(r) /\ \A k \in 1..Len(r) : p[k] = r[k]
    <3>1. S \in SUBSET Nat /\ Enumerates(p, S) /\ Enumerates(r, S)
      BY <1>1, <1>3, <1>4
    <3> HIDE DEF r
    <3> QED BY <3>1, OneListing
  <2> HIDE DEF r
  <2> QED BY <1>4, <2>1
<1>6. IsList(q) /\ Len(q) = n - d /\ DOMAIN q = 1..n - d
  BY <1>2, <1>3, <1>5, ListIs DEF Keeps
<1>7. \A k \in 1..n - d : q[k] = s[r[k]]
  <2> HIDE DEF r
  <2> QED BY <1>3, <1>5, <1>6
<1>8. \A i \in 1..a : q[i] = s[i]
  BY <1>1, <1>7
<1>9. ASSUME NEW i \in b + 1..n PROVE q[i - d] = s[i]
  <2>1. i - d \in 1..n - d /\ ~(i - d <= a) /\ (i - d) + d = i
    BY <1>1
  <2>2. r[i - d] = i
    BY <2>1
  <2> HIDE DEF r
  <2> QED BY <1>7, <2>1, <2>2
<1> QED BY <1>6, <1>8, <1>9 DEF Skips, q

LEMMA WholeSublist == ASSUME NEW s, IsList(s) PROVE Sublist(s, DOMAIN s) = s
<1> DEFINE q == Sublist(s, DOMAIN s)
<1>1. Len(s) \in Nat /\ DOMAIN s = 1..Len(s) /\ Len(s) \in 0..Len(s)
  BY ListIs
<1>2. IsList(q) /\ Len(q) = Len(s) /\ \A k \in 1..Len(s) : q[k] = s[k]
  BY <1>1, BeginningIs
<1> HIDE DEF q
<1>3. q = s
  BY <1>1, <1>2, SameList
<1> QED BY <1>3 DEF q

Shapes == {<<>>, <<Own!CA34>>, <<Own!CA34, Own!X12E0>>}
Shaped(e) == e.kind = "generic" /\ e.id \in {Own!CA34, Own!X12E0}

LEMMA StackShaped ==
    /\ {i \in DOMAIN StackList : ~Shaped(StackList[i])} = 1..11
    /\ {StackList[i].id : i \in {j \in DOMAIN StackList : Shaped(StackList[j])}} = {Own!CA34, Own!X12E0}
    /\ \A i \in 1..13 : Shaped(StackList[i]) <=> i \in {12, 13}
    /\ DOMAIN StackList = 1..13 /\ StackList[12] = Own!Plain(Own!CA34) /\ StackList[13] = Own!Plain(Own!X12E0)
<1>1. /\ \A id : Own!Plain(id).id = id /\ Own!Plain(id).kind = "generic"
      /\ Own!SNI.id = 0 /\ Own!ALPS.id = 17613
      /\ \A list : /\ Own!Groups(list).id = 10 /\ Own!Protocols(list).id = 16
                   /\ Own!Algorithms(list).id = 13 /\ Own!Versions(list).id = 43
  BY DEF Own!Plain, Own!SNI, Own!ALPS, Own!Groups, Own!Protocols, Own!Algorithms, Own!Versions, Own!Ext
<1>2. \A i \in 1..13 : StackList[i].id = StackIds[i]
  BY <1>1 DEF StackList, StackIds
<1>3. /\ DOMAIN StackList = 1..13
      /\ StackList[12] = Own!Plain(Own!CA34) /\ StackList[13] = Own!Plain(Own!X12E0)
  BY DEF StackList, Own!CA34, Own!X12E0
<1>4. \A i \in 1..13 : StackIds[i] \in {51764, 4832} <=> i \in {12, 13}
  BY DEF StackIds
<1>5. \A i \in 1..13 : Shaped(StackList[i]) <=> i \in {12, 13}
  BY <1>1, <1>2, <1>3, <1>4 DEF Shaped, Own!CA34, Own!X12E0
<1>6. {i \in DOMAIN StackList : ~Shaped(StackList[i])} = 1..11
  BY <1>3, <1>5
<1>7. {j \in DOMAIN StackList : Shaped(StackList[j])} = {12, 13}
  BY <1>3, <1>5
<1>8. StackList[12].id = Own!CA34 /\ StackList[13].id = Own!X12E0
  BY <1>1, <1>3
<1> QED BY <1>3, <1>5, <1>6, <1>7, <1>8

\* The stack's own extensions, with its placeholder.
StackFull == Append(StackList, Own!Placeholder)

LEMMA StackFullIs ==
    /\ IsList(StackFull) /\ Len(StackFull) = 14 /\ DOMAIN StackFull = 1..14
    /\ \A i \in 1..13 : StackFull[i] = StackList[i]
    /\ StackFull[14] = Own!Placeholder /\ Own!Placeholder.kind = "psk"
    /\ {i \in DOMAIN StackFull : ~Shaped(StackFull[i])} = (1..14) \ (11 + 1..13)
    /\ {StackFull[i].id : i \in {j \in DOMAIN StackFull : Shaped(StackFull[j])}} = {Own!CA34, Own!X12E0}
<1>1. IsList(StackList) /\ Len(StackList) = 13
  BY ListsFollow DEF Follows
<1>2. Appends(StackFull, StackList, Own!Placeholder)
  BY <1>1, AppendIs DEF StackFull
<1>3. /\ IsList(StackFull) /\ Len(StackFull) = 14 /\ DOMAIN StackFull = 1..14
      /\ \A i \in 1..13 : StackFull[i] = StackList[i]
      /\ StackFull[14] = Own!Placeholder
  BY <1>1, <1>2 DEF Appends
<1>4. Own!Placeholder.kind = "psk"
  BY DEF Own!Placeholder, Own!Ext
<1>5. \A i \in 1..13 : Shaped(StackList[i]) <=> i \in {12, 13}
  BY StackShaped
<1>6. \A i \in 1..14 : Shaped(StackFull[i]) <=> i \in {12, 13}
  <2>1. ~Shaped(StackFull[14])
    BY <1>3, <1>4 DEF Shaped
  <2>2. \A i \in 1..14 : i \in 1..13 \/ i = 14
    OBVIOUS
  <2> QED BY <1>3, <1>5, <2>1, <2>2
<1>7. {i \in DOMAIN StackFull : ~Shaped(StackFull[i])} = (1..14) \ (11 + 1..13)
  BY <1>3, <1>6
<1>8. {j \in DOMAIN StackFull : Shaped(StackFull[j])} = {12, 13}
  BY <1>3, <1>6
<1>9. StackFull[12].id = Own!CA34 /\ StackFull[13].id = Own!X12E0
  <2>1. \A id : Own!Plain(id).id = id
    BY DEF Own!Plain, Own!Ext
  <2>2. StackFull[12] = Own!Plain(Own!CA34) /\ StackFull[13] = Own!Plain(Own!X12E0)
    BY <1>3, StackShaped
  <2> QED BY <2>1, <2>2, Zenon
<1> QED BY <1>3, <1>4, <1>7, <1>8, <1>9

\* What the stack sends when its own extensions are laid out as in K.
StackLaid(spec, K) == spec = Own!Layout(StackCiphers, Append(K, Own!Placeholder))

\* The measured extensions of a name after the others, and the placeholder after
\* them all.
LEMMA ShapedStack ==
    ASSUME NEW shape \in Shapes
    PROVE  /\ Len(shape) \in 0..2
           /\ \E K : /\ StackLaid(Own!applyQUICShape(Own!StackSpec, shape), K)
                     /\ Follows(K, StackOffers, 11 + Len(shape), {})
<1> DEFINE A == Sublist(StackFull, (1..14) \ (11 + 1..13))
           P == Own!PlainAll(shape)
           K == A \o P
           m == Len(shape)
           F == Sublist(K, {i \in DOMAIN K : K[i].kind # "psk"})
           L == Sublist(K, {i \in DOMAIN K : K[i].kind = "psk"})
           spec == Own!applyQUICShape(Own!StackSpec, shape)
<1>1. Own!StackSpec = Own!Layout(StackCiphers, StackFull) /\ Own!Layout(StackCiphers, StackFull).exts = StackFull
  <2>1. Own!StackSpec = Own!Layout(StackCiphers, StackFull)
    BY PlainSpecs, Zenon DEF StackFull
  <2>2. Own!Layout(StackCiphers, StackFull).exts = StackFull
    BY LayoutIs
  <2> QED BY <2>1, <2>2
<1>2. IsList(shape) /\ m \in 0..2 /\ DOMAIN shape = 1..m
      /\ \A i \in 1..m : shape[i] = <<Own!CA34, Own!X12E0>>[i]
  <2>1. CASE shape = <<>>
    BY <2>1, SeqIsList DEF IsList
  <2>2. CASE shape = <<Own!CA34>>
    <3>1. /\ shape \in Seq({Own!CA34}) /\ Len(shape) = 1 /\ DOMAIN shape = 1..1
          /\ shape[1] = Own!CA34
      BY <2>2
    <3>2. IsList(shape)
      BY <3>1, SeqIsList
    <3> QED BY <3>1, <3>2
  <2>3. CASE shape = <<Own!CA34, Own!X12E0>>
    <3>1. shape \in Seq({Own!CA34, Own!X12E0}) /\ Len(shape) = 2 /\ DOMAIN shape = 1..2
      BY <2>3
    <3>2. IsList(shape)
      BY <3>1, SeqIsList
    <3> QED BY <2>3, <3>1, <3>2
  <2> QED BY <2>1, <2>2, <2>3 DEF Shapes
<1>3. spec = [Own!StackSpec EXCEPT !.exts = F \o L]
  <2> DEFINE offered == {StackFull[i].id : i \in {j \in DOMAIN StackFull : Shaped(StackFull[j])}}
             S == {i \in DOMAIN shape : shape[i] \in offered}
  <2>1. S = DOMAIN shape
    <3>1. offered = {Own!CA34, Own!X12E0}
      BY StackFullIs
    <3>2. \A i \in 1..m : i = 1 \/ i = 2
      BY <1>2
    <3> HIDE DEF offered
    <3> QED BY <1>2, <3>1, <3>2
  <2>2. Sublist(shape, S) = shape
    BY <1>2, <2>1, WholeSublist
  <2>3. {i \in DOMAIN StackFull : ~Shaped(StackFull[i])} = (1..14) \ (11 + 1..13)
    BY StackFullIs
  <2> DEFINE stack == Own!StackSpec
             kept == Sublist(stack.exts, {i \in DOMAIN stack.exts : ~Shaped(stack.exts[i])})
                     \o Own!PlainAll(Sublist(shape, {i \in DOMAIN shape : shape[i] \in
                          {stack.exts[k].id : k \in {j \in DOMAIN stack.exts : Shaped(stack.exts[j])}}}))
  <2>4. spec = [stack EXCEPT !.exts = Sublist(kept, {i \in DOMAIN kept : kept[i].kind # "psk"})
                                      \o Sublist(kept, {i \in DOMAIN kept : kept[i].kind = "psk"})]
    BY OwnSublist, Zenon DEF Own!applyQUICShape, Shaped
  <2>5. stack.exts = StackFull
    BY <1>1, Zenon
  <2> HIDE DEF stack
  <2>6. kept = K
    BY <2>2, <2>3, <2>5
  <2> HIDE DEF kept, K, spec
  <2>7. spec = [stack EXCEPT !.exts = F \o L]
    BY <2>4, <2>6
  <2> QED BY <2>7 DEF stack
<1>4. /\ IsList(StackList) /\ Len(StackList) = 13
      /\ \A i \in 1..13 : Bears(StackList[i], StackOffers[i])
  BY ListsFollow DEF Follows
<1>5. IsList(P) /\ Len(P) = m /\ \A i \in 1..m : P[i] = StackList[11 + i]
  <2>1. P = [i \in 1..m |-> Own!Plain(shape[i])]
    BY <1>2, Zenon DEF Own!PlainAll
  <2>2. P = [i \in 1..m |-> P[i]] /\ \A i \in 1..m : P[i] = Own!Plain(shape[i])
    BY <2>1
  <2> HIDE DEF P
  <2>3. IsList(P) /\ Len(P) = m
    BY <1>2, <2>2, ListOf
  <2>4. \A i \in 1..m : i = 1 \/ i = 2
    BY <1>2
  <2>5. <<Own!CA34, Own!X12E0>>[1] = Own!CA34 /\ <<Own!CA34, Own!X12E0>>[2] = Own!X12E0
    OBVIOUS
  <2>6. \A i \in 1..m : P[i] = StackList[11 + i]
    BY <1>2, <2>2, <2>4, <2>5, StackShaped
  <2> QED BY <2>3, <2>6
<1>6. IsList(A) /\ Len(A) = 12 /\ (\A k \in 1..11 : A[k] = StackList[k]) /\ A[12] = Own!Placeholder
  <2>1. Skips(A, StackFull, 11, 13)
    <3>1. /\ IsList(StackFull) /\ 11 \in Nat /\ 13 \in 11..Len(StackFull)
          /\ (1..14) \ (11 + 1..13) = (1..Len(StackFull)) \ (11 + 1..13)
      BY StackFullIs
    <3> QED BY <3>1, SkipIs, Zenon
  <2> HIDE DEF A
  <2>2. /\ IsList(A) /\ Len(A) = 14 - (13 - 11) /\ \A k \in 1..11 : A[k] = StackFull[k]
        /\ \A i \in 13 + 1..14 : A[i - (13 - 11)] = StackFull[i]
    BY <2>1, StackFullIs DEF Skips
  <2> QED BY <2>2, StackFullIs
<1> HIDE DEF A, P
<1>7. Joins(K, A, P)
  BY <1>5, <1>6, JoinIs
<1> HIDE DEF K
<1>8. /\ IsList(K) /\ Len(K) = 12 + m /\ DOMAIN K = 1..12 + m
      /\ \A i \in 1..11 : K[i] = StackList[i]
      /\ K[12] = Own!Placeholder
      /\ \A i \in 13..12 + m : K[i] = StackList[i - 1]
  <2>1. /\ IsList(K) /\ Len(K) = 12 + m /\ DOMAIN K = 1..12 + m
        /\ (\A i \in 1..12 : K[i] = A[i]) /\ \A i \in 1..m : K[12 + i] = P[i]
    BY <1>5, <1>6, <1>7 DEF Joins
  <2>2. \A i \in 13..12 + m : i - 12 \in 1..m /\ 12 + (i - 12) = i /\ 11 + (i - 12) = i - 1
    BY <1>2
  <2> HIDE DEF m
  <2> QED BY <1>5, <1>6, <2>1, <2>2
<1>9. \A i \in 1..12 + m : K[i].kind = "psk" <=> i = 12
  <2>1. \A i \in 1..13 : StackList[i].kind # "psk"
    <3>1. \A i \in DOMAIN StackList : StackList[i].kind # "psk"
      BY ListsFollow, StackTabled, NoPlaceholder
    <3> QED BY <3>1, StackShaped
  <2>2. \A i \in 1..12 + m : i \in 1..11 \/ i = 12 \/ (i \in 13..12 + m /\ i - 1 \in 1..13)
    BY <1>2
  <2> HIDE DEF m
  <2> QED BY <1>8, <2>1, <2>2, StackFullIs
<1>10. /\ IsList(F) /\ Len(F) = 11 + m /\ \A i \in 1..11 + m : F[i] = StackList[i]
  <2>1. {i \in DOMAIN K : K[i].kind # "psk"} = (1..Len(K)) \ (11 + 1..12)
    BY <1>2, <1>8, <1>9
  <2>2. Skips(F, K, 11, 12)
    <3>1. 12 \in 11..Len(K)
      BY <1>2, <1>8
    <3> QED BY <1>8, <2>1, <3>1, SkipIs, Zenon
  <2> HIDE DEF F
  <2>3. /\ IsList(F) /\ Len(F) = 11 + m /\ \A i \in 1..11 : F[i] = K[i]
        /\ \A i \in 13..12 + m : F[i - 1] = K[i]
    BY <1>2, <1>8, <2>2 DEF Skips
  <2>4. \A i \in 1..11 + m : i \in 1..11 \/ (i + 1 \in 13..12 + m /\ (i + 1) - 1 = i)
    BY <1>2
  <2> HIDE DEF m
  <2> QED BY <1>8, <2>3, <2>4
<1>11. IsList(L) /\ Len(L) = 1 /\ L[1] = Own!Placeholder
  <2>1. {i \in DOMAIN K : K[i].kind = "psk"} = {12}
    BY <1>2, <1>8, <1>9
  <2>2. Keeps(L, K, {12})
    <3>1. {12} \in SUBSET DOMAIN K
      BY <1>2, <1>8
    <3> QED BY <1>8, <2>1, <3>1, SublistIs
  <2> HIDE DEF L
  <2>3. IsList(L) /\ Len(L) = 1
    BY <2>2, FS_Singleton DEF Keeps
  <2>4. 1 \in DOMAIN L
    BY <2>3, ListIs
  <2> QED BY <1>8, <2>2, <2>3, <2>4, KeptOnce
<1> HIDE DEF F, L
<1>12. F \o L = Append(F, Own!Placeholder)
  <2> DEFINE J == F \o L
             B == Append(F, Own!Placeholder)
  <2>1. Joins(J, F, L) /\ Appends(B, F, Own!Placeholder)
    BY <1>10, <1>11, JoinIs, AppendIs
  <2> HIDE DEF J, B
  <2> DEFINE n == Len(F)
  <2>2. n \in Nat
    BY <1>10 DEF IsList
  <2>3. /\ IsList(J) /\ Len(J) = n + 1 /\ (\A i \in 1..n : J[i] = F[i]) /\ J[n + 1] = Own!Placeholder
    BY <1>11, <2>1, <2>2 DEF Joins
  <2>4. /\ IsList(B) /\ Len(B) = n + 1 /\ (\A i \in 1..n : B[i] = F[i]) /\ B[n + 1] = Own!Placeholder
    BY <2>1 DEF Appends
  <2> HIDE DEF n
  <2>5. \A i \in 1..Len(J) : J[i] = B[i]
    BY <2>2, <2>3, <2>4
  <2>6. J = B
    BY <2>3, <2>4, <2>5, SameList
  <2> QED BY <2>6 DEF J, B
<1>13. Follows(F, StackOffers, 11 + m, {})
  <2>1. \A i \in 1..11 + m : i \in 1..13
    BY <1>2
  <2> HIDE DEF m
  <2> QED BY <1>4, <1>10, <2>1 DEF Follows
<1>14. StackLaid(spec, F)
  <2>1. [Own!Layout(StackCiphers, StackFull) EXCEPT !.exts = Append(F, Own!Placeholder)]
        = Own!Layout(StackCiphers, Append(F, Own!Placeholder))
    BY Relaid, Zenon
  <2> HIDE DEF spec
  <2>2. spec = [Own!Layout(StackCiphers, StackFull) EXCEPT !.exts = Append(F, Own!Placeholder)]
    BY <1>1, <1>3, <1>12, Zenon
  <2> QED BY <2>1, <2>2, Zenon DEF StackLaid
<1> HIDE DEF spec, m
<1> QED BY <1>2, <1>13, <1>14, Zenon DEF spec, m

\* How many of the extensions of the stack a name keeps.
StackSize(n) ==
    IF n = "chrome_155" THEN 12 ELSE IF n \in {"chrome_152", "yandex_browser"} THEN 11 ELSE 13

LEMMA QUICSpec ==
    ASSUME NEW n
    PROVE  /\ StackSize(n) \in 11..13
           /\ \E K : StackLaid(Own!chromeQUICConfig(n), K) /\ Follows(K, StackOffers, StackSize(n), {})
<1> DEFINE spec == Own!chromeQUICConfig(n)
           named == {"chrome_156", "chrome_155", "chrome_152", "yandex_browser"}
<1>1. StackSize(n) \in 11..13
  BY DEF StackSize
<1>2. DOMAIN Own!quicShapes = named
  BY DEF Own!quicShapes
<1>3. CASE n \notin named
  <2>1. spec = Own!StackSpec
    BY <1>2, <1>3, Zenon DEF Own!chromeQUICConfig
  <2>2. StackSize(n) = 13
    BY <1>3 DEF StackSize
  <2> HIDE DEF spec
  <2>3. StackLaid(spec, StackList) /\ Follows(StackList, StackOffers, 13, {})
    BY <2>1, PlainSpecs, ListsFollow, Zenon DEF StackLaid
  <2> QED BY <1>1, <2>2, <2>3, Zenon DEF spec
<1>4. CASE n \in named
  <2> DEFINE shape == Own!quicShapes[n]
  <2>1. /\ shape = IF n = "chrome_156" THEN <<Own!CA34, Own!X12E0>>
                   ELSE IF n = "chrome_155" THEN <<Own!CA34>> ELSE <<>>
    BY <1>4 DEF Own!quicShapes
  <2>2. shape \in Shapes /\ StackSize(n) = 11 + Len(shape)
    <3>1. CASE n = "chrome_156"
      BY <2>1, <3>1 DEF Shapes, StackSize
    <3>2. CASE n = "chrome_155"
      BY <2>1, <3>2 DEF Shapes, StackSize
    <3>3. CASE n \in {"chrome_152", "yandex_browser"}
      BY <2>1, <3>3 DEF Shapes, StackSize
    <3> QED BY <1>4, <3>1, <3>2, <3>3
  <2>3. spec = Own!applyQUICShape(Own!StackSpec, shape)
    BY <1>2, <1>4, Zenon DEF Own!chromeQUICConfig
  <2> HIDE DEF spec, shape
  <2>4. \E K : /\ StackLaid(Own!applyQUICShape(Own!StackSpec, shape), K)
               /\ Follows(K, StackOffers, 11 + Len(shape), {})
    BY <2>2, ShapedStack, Zenon
  <2> QED BY <1>1, <2>2, <2>3, <2>4, Zenon DEF spec
<1> QED BY <1>3, <1>4

StackAll(n) == {StackOffers[i] : i \in 1..StackSize(n)} \cup {<<41, "psk", <<>> >>}

\* The placeholder goes unless there is a ticket for it.
LEMMA QUICHello ==
    ASSUME NEW n, NEW t
    PROVE  Shown(Own!OnTheWire(Own!chromeQUICConfig(n), t), StackCiphers, StackAll(n), t)
<1> DEFINE spec == Own!chromeQUICConfig(n)
           m == StackSize(n)
<1>1. PICK K : StackLaid(spec, K) /\ Follows(K, StackOffers, m, {})
  BY QUICSpec, Zenon
<1> DEFINE X == Append(K, Own!Placeholder)
<1>2. Tabled(StackOffers, m, {}) /\ m \in Nat
  <2>1. m \in 0..13
    BY QUICSpec
  <2> HIDE DEF m
  <2> QED BY <2>1, StackTabled
<1>3. Ours(Own!Placeholder) /\ Own!Placeholder.id = 41 /\ Own!Placeholder.kind = "psk"
  <2>1. Whole(Own!Listed(<<>>))
    BY ShortRows, ListedIs
  <2> QED BY <2>1 DEF Own!Placeholder, Own!Ext, Ours, isGREASE
<1> HIDE DEF m
<1>4. /\ Good(X) /\ Len(X) = m + 1
      /\ Offers(X) = {StackOffers[i] : i \in (1..m) \ {}} \cup {<<41, Own!Placeholder.kind, <<>> >>}
  <2>1. Follows(K, StackOffers, m, {}) /\ Tabled(StackOffers, m, {}) /\ m \in Nat
    BY <1>1, <1>2 DEF m
  <2>2. TableKeyed(X, StackOffers, m, {}, Own!Placeholder)
    BY <1>3, <2>1, KeyedOffers, Zenon
  <2> QED BY <2>2, Zenon DEF TableKeyed
<1> HIDE DEF X
<1>5. Offers(X) = StackAll(n)
  <2>1. (1..m) \ {} = 1..m
    OBVIOUS
  <2> QED BY <1>3, <1>4, <2>1, Zenon DEF StackAll, m
<1>6. X # <<>>
  BY <1>2, <1>4
<1>7. Shown(Own!OnTheWire(Own!Layout(StackCiphers, X), t), StackCiphers, Offers(X), t)
  BY <1>4, <1>6, WireIs, Zenon
<1>8. spec = Own!Layout(StackCiphers, X)
  BY <1>1, Zenon DEF StackLaid, X
<1> QED BY <1>5, <1>7, <1>8, Zenon DEF spec

------------------------------------------------------------------------------
(* A hello of ours, on any path.                                            *)

\* What it offers with a ticket.
OfferedOn(n, p) == IF p = "quic" THEN StackAll(n) ELSE Offered(n, p)
Offering(n, p, t) == {o \in OfferedOn(n, p) : t \/ o[2] # "psk"}
Suites(n, p, g) ==
    IF p = "quic" THEN StackCiphers
    ELSE IF n \in KeyedNames THEN CiphersOf(n, g) ELSE Own!FirefoxPreset.ciphers

LEMMA OurHello ==
    ASSUME NEW n, NEW p \in {"tcp", "ws", "quic"}, NEW t, NEW g \in Own!Pairs,
           NEW order, Own!Permutes(order, Own!Slots(n, g))
    PROVE  Shown(Own!Hello(n, p, t, g, order), Suites(n, p, g), OfferedOn(n, p), t)
<1> DEFINE h == Own!Hello(n, p, t, g, order)
<1>1. CASE p = "quic"
  <2>1. h = Own!OnTheWire(Own!chromeQUICConfig(n), t)
    BY <1>1, Zenon DEF Own!Hello
  <2>2. Suites(n, p, g) = StackCiphers /\ OfferedOn(n, p) = StackAll(n)
    BY <1>1, Zenon DEF Suites, OfferedOn
  <2> QED BY <2>1, <2>2, QUICHello, Zenon
<1>2. CASE p # "quic" /\ n \in KeyedNames
  <2>1. p \in {"tcp", "ws"} /\ n \in KeyedNames
    BY <1>2
  <2>2. Shown(h, CiphersOf(n, g), Offered(n, p), t)
    BY <2>1, HelloOfName
  <2> QED BY <1>2, <2>2, Zenon DEF Suites, OfferedOn
<1>3. CASE p # "quic" /\ n \notin KeyedNames
  <2>1. p \in {"tcp", "ws"}
    BY <1>3
  <2>2. Shown(h, Own!FirefoxPreset.ciphers, Offered(n, p), t)
    BY <1>3, <2>1, HelloOfOther, Zenon
  <2> QED BY <1>3, <2>2, Zenon DEF Suites, OfferedOn
<1> QED BY <1>1, <1>2, <1>3

\* What TLS allows, and both programs can read.
LEMMA GoodIsReadable ==
    ASSUME NEW wire, Good(wire.exts), wire.tail = FALSE
    PROVE  Readable(wire) /\ WellFormed(wire) /\ ~Lib!Fails(wire)
<1> DEFINE X == wire.exts
<1>1. Len(X) \in Nat /\ DOMAIN X = 1..Len(X)
  BY ListIs DEF Good, Once
<1>2. ASSUME NEW i \in DOMAIN X PROVE Ours(X[i]) /\ Whole(X[i].data)
  BY DEF Good, Ours
<1>3. ASSUME NEW i \in DOMAIN X, X[i].id = 0 PROVE X[i].data.list[1].type = 0
  <2>1. X[i].data.list = <<[type |-> 0, name |-> <<97>>]>>
    BY <1>2, <1>3 DEF Ours
  <2> DEFINE d == <<[type |-> 0, name |-> <<97>>]>>
  <2>2. d[1].type = 0
    OBVIOUS
  <2> HIDE DEF d
  <2>3. X[i].data.list = d
    BY <2>1 DEF d
  <2> QED BY <2>2, <2>3
<1>4. ASSUME NEW i \in DOMAIN X, X[i].id = 16 PROVE X[i].data.list \in Seq(Seq(Nat))
  <2>1. X[i].data.list \in {<<Own!h2, Own!http11>>, <<Own!http11>>, <<Own!h3>>}
    BY <1>2, <1>4 DEF Ours
  <2>2. Own!h2 \in Seq(Nat) /\ Own!h3 \in Seq(Nat) /\ Own!http11 \in Seq(Nat)
    BY DEF Own!h2, Own!h3, Own!http11
  <2>3. \A a, b \in Seq(Nat) : <<a, b>> \in Seq(Seq(Nat)) /\ <<a>> \in Seq(Seq(Nat))
    OBVIOUS
  <2> QED BY <2>1, <2>2, <2>3
<1>5. ASSUME NEW i \in DOMAIN X
      PROVE  /\ ~X[i].data.short /\ X[i].data.len = Len(X[i].data.list) /\ X[i].data.len \in Nat
             /\ DOMAIN X[i].data.list = 1..Len(X[i].data.list)
  BY <1>2 DEF Whole, IsRow
<1>6. Readable(wire)
  <2> HIDE DEF X
  <2> QED BY <1>1, <1>3, <1>4, <1>5 DEF Readable, X
<1>7. WellFormed(wire)
  BY <1>5 DEF WellFormed
<1>8. ~Lib!Fails(wire)
  BY <1>5 DEF Lib!Fails
<1> QED BY <1>6, <1>7, <1>8

KeyPlaces(X) == {i \in DOMAIN X : X[i].id = 41}

LEMMA KeysAre ==
    ASSUME NEW X, Good(X)
    PROVE  /\ Cardinality(KeyPlaces(X)) = IF \E o \in Offers(X) : o[1] = 41 THEN 1 ELSE 0
           /\ IsFiniteSet(Named(X)) /\ Cardinality(KeyPlaces(X)) \in {0, 1}
           /\ Cardinality(Named(X)) = Cardinality(Named(X) \ KeyPlaces(X)) + Cardinality(KeyPlaces(X))
<1> DEFINE key == KeyPlaces(X)
           n == Len(X)
<1>1. n \in Nat /\ DOMAIN X = 1..n
  BY ListIs DEF Good, Once
<1>2. key \subseteq Named(X) /\ key \subseteq {n}
  <2>1. ~isGREASE(41)
    BY DEF isGREASE
  <2> QED BY <2>1 DEF Good, Named, KeyPlaces
<1>3. key = {} \/ key = {n}
  BY <1>2
<1>4. IsFiniteSet(Named(X))
  <2>1. IsFiniteSet(1..n) /\ Named(X) \in SUBSET (1..n)
    BY <1>1, FS_Interval DEF Named
  <2> QED BY <2>1, FS_Subset
<1>5. (\E o \in Offers(X) : o[1] = 41) <=> key # {}
  <2>1. \A i \in DOMAIN X : Offer(X[i])[1] = X[i].id
    BY DEF Offer
  <2>2. \A i \in key : i \in Named(X) /\ Offer(X[i])[1] = 41
    BY <1>2, <2>1 DEF KeyPlaces
  <2>3. \A i \in Named(X) : Offer(X[i])[1] = 41 => i \in key
    BY <2>1 DEF KeyPlaces, Named
  <2> HIDE DEF key
  <2> QED BY <2>2, <2>3, Zenon DEF Offers
<1>6. Cardinality({n}) = 1 /\ Cardinality({}) = 0
  BY FS_Singleton, FS_EmptySet
<1>7. Cardinality(Named(X)) \in Nat
  BY <1>4, FS_CardinalityType
<1>8. Cardinality(Named(X) \ {n}) = IF n \in Named(X) THEN Cardinality(Named(X)) - 1 ELSE Cardinality(Named(X))
  BY <1>4, FS_RemoveElement
<1> HIDE DEF key, n
<1>9. CASE key = {}
  <2>1. Named(X) \ key = Named(X)
    BY <1>9
  <2> QED BY <1>4, <1>5, <1>6, <1>7, <1>9, <2>1 DEF key
<1>10. CASE key = {n}
  <2>1. n \in Named(X) /\ key # {}
    BY <1>2, <1>10
  <2> QED BY <1>4, <1>5, <1>6, <1>7, <1>8, <1>10, <2>1 DEF key
<1> QED BY <1>3, <1>9, <1>10

\* The extensions but for the pre_shared_key are as many as the ids of a table.
LEMMA CountIds ==
    ASSUME NEW X, Good(X), NEW ids, NEW T, IsFiniteSet(T), \A i, j \in T : ids[i] = ids[j] => i = j,
           {o[1] : o \in Offers(X)} \ {41} = {ids[i] : i \in T}
    PROVE  Cardinality(Named(X) \ KeyPlaces(X)) = Cardinality(T)
<1> DEFINE S == Named(X) \ KeyPlaces(X)
           f == [i \in T |-> CHOOSE k \in S : X[k].id = ids[i]]
<1>1. \A k \in S : X[k].id \in {ids[i] : i \in T}
  <2> SUFFICES ASSUME NEW k \in S PROVE X[k].id \in {o[1] : o \in Offers(X)} \ {41}
    OBVIOUS
  <2>1. Offer(X[k]) \in Offers(X) /\ Offer(X[k])[1] = X[k].id
    <3>1. Offer(X[k])[1] = X[k].id
      BY DEF Offer
    <3>2. Offer(X[k]) \in Offers(X)
      BY Zenon DEF Offers
    <3> QED BY <3>1, <3>2
  <2>2. X[k].id # 41
    BY DEF KeyPlaces, Named
  <2> QED BY <2>1, <2>2
<1>2. \A i \in T : \E k \in S : X[k].id = ids[i]
  <2> SUFFICES ASSUME NEW i \in T PROVE \E k \in S : X[k].id = ids[i]
    OBVIOUS
  <2>1. ids[i] \in {o[1] : o \in Offers(X)} /\ ids[i] # 41
    BY Zenon
  <2>2. PICK o \in Offers(X) : o[1] = ids[i]
    BY <2>1
  <2>3. PICK k \in Named(X) : Offer(X[k]) = o
    BY <2>2, Zenon DEF Offers
  <2>4. X[k].id = ids[i]
    <3>1. Offer(X[k])[1] = X[k].id
      BY DEF Offer
    <3> QED BY <2>2, <2>3, <3>1
  <2>5. k \in S
    BY <2>1, <2>4 DEF KeyPlaces
  <2> QED BY <2>4, <2>5
<1>3. \A i \in T : f[i] \in S /\ X[f[i]].id = ids[i]
  <2> HIDE DEF S
  <2> QED BY <1>2
<1>4. f \in [T -> S]
  <2>1. f = [i \in T |-> f[i]]
    OBVIOUS
  <2> HIDE DEF f, S
  <2> QED BY <1>3, <2>1
<1> HIDE DEF f
<1>5. \A i, j \in T : f[i] = f[j] => i = j
  BY <1>3
<1>6. \A k \in S : \E i \in T : f[i] = k
  <2> SUFFICES ASSUME NEW k \in S PROVE \E i \in T : f[i] = k
    OBVIOUS
  <2>1. PICK i \in T : ids[i] = X[k].id
    BY <1>1
  <2>2. f[i] = k
    BY <1>3, <2>1 DEF Good, Once
  <2> QED BY <2>2
<1>7. f \in Bijection(T, S)
  BY <1>4, <1>5, <1>6, Zenon DEF Bijection, Injection, Surjection, IsInjective
<1> QED BY <1>7, FS_Bijection, Zenon DEF ExistsBijection

\* The protocols of a list, whose offer is alone with its id.
LEMMA ProtocolsAre ==
    ASSUME NEW wire, Good(wire.exts), ~Lib!Fails(wire), NEW list,
           \A o \in Offers(wire.exts) : o[1] = 16 => o[3] = list,
           (\E o \in Offers(wire.exts) : o[1] = 16) \/ list = <<>>
    PROVE  Lib!ParseClientHello(wire).alpn = list
<1> DEFINE X == wire.exts
           c == Lib!ParseClientHello(wire)
<1>1. c.alpn = Lib!ListOf(wire, 16)
  BY DEF Lib!ParseClientHello, Lib!Fields, Lib!ALPN
<1> HIDE DEF c
<1>2. \/ \E i \in Named(X) : X[i].id = 16 /\ Lib!ListOf(wire, 16) = X[i].data.list
      \/ Lib!ListOf(wire, 16) = <<>> /\ \A i \in Named(X) : X[i].id # 16
  <2>1. ~isGREASE(16)
    BY DEF isGREASE
  <2>2. Once(wire.exts)
    BY DEF Good
  <2> QED BY <2>1, <2>2, DataIs
<1>3. \A e : e.id = 16 => Offer(e)[1] = 16 /\ Offer(e)[3] = e.data.list
  BY DEF Offer, Mark
<1>4. \A i \in Named(X) : Offer(X[i]) \in Offers(X)
  BY Zenon DEF Offers
<1>5. CASE \E i \in Named(X) : X[i].id = 16 /\ Lib!ListOf(wire, 16) = X[i].data.list
  BY <1>1, <1>3, <1>4, <1>5 DEF c
<1>6. CASE Lib!ListOf(wire, 16) = <<>> /\ \A i \in Named(X) : X[i].id # 16
  <2>1. \A o \in Offers(X) : o[1] # 16
    <3>1. \A e : Offer(e)[1] = e.id
      BY DEF Offer
    <3>2. ASSUME NEW o \in Offers(X) PROVE o[1] # 16
      <4>1. PICK i \in Named(X) : o = Offer(X[i])
        BY <3>2, Zenon DEF Offers
      <4> QED BY <1>6, <3>1, <4>1
    <3> QED BY <3>2
  <2> QED BY <1>1, <1>6, <2>1 DEF c
<1> QED BY <1>2, <1>5, <1>6

\* The first part of a fingerprint counts.
LEMMA PartIs ==
    ASSUME NEW wire, Good(wire.exts), ~Lib!Fails(wire), NEW protocol,
           Len(stripGREASE(wire.ciphers)) \in 0..99, Cardinality(Named(wire.exts)) \in 0..99
    PROVE  LET c == Lib!ParseClientHello(wire)
               part == Lib!ja4A(c, protocol)
           IN /\ part[4] = Len(stripGREASE(wire.ciphers)) /\ part[5] = Cardinality(Named(wire.exts))
              /\ part[6] = Lib!ja4ALPNToken(c)
<1> DEFINE c == Lib!ParseClientHello(wire)
<1>1. c.ciphers = wire.ciphers /\ c.exts = IdsOf(wire.exts)
  BY DEF Lib!ParseClientHello, Lib!Fields, Lib!Ids, IdsOf
<1> HIDE DEF c
<1>2. Len(stripGREASE(IdsOf(wire.exts))) = Cardinality(Named(wire.exts))
  BY IdsKept DEF Good
<1>3. Len(Lib!stripGREASE(c.ciphers)) = Len(stripGREASE(wire.ciphers))
  BY <1>1, SameStrip, Zenon
<1>4. Len(Lib!stripGREASE(c.exts)) = Cardinality(Named(wire.exts))
  BY <1>1, <1>2, SameStrip, Zenon
<1>5. \A k \in 0..99 : Lib!pad2(k) = k
  BY DEF Lib!pad2
<1>6. Lib!ja4A(c, protocol)[4] = Lib!pad2(Len(Lib!stripGREASE(c.ciphers)))
  BY DEF Lib!ja4A
<1>7. Lib!ja4A(c, protocol)[5] = Lib!pad2(Len(Lib!stripGREASE(c.exts)))
  BY DEF Lib!ja4A
<1>8. Lib!ja4A(c, protocol)[6] = Lib!ja4ALPNToken(c)
  BY DEF Lib!ja4A
<1> QED BY <1>3, <1>4, <1>5, <1>6, <1>7, <1>8 DEF c

\* The suites of a name, whatever the GREASE value before them.
LEMMA SuitesAre ==
    /\ Len(stripGREASE(NodeCiphers)) = 18 /\ Len(stripGREASE(MaxCiphers)) = 17
    /\ Len(stripGREASE(StackCiphers)) = 3
    /\ \A g, h \in Own!Pairs : /\ stripGREASE(ChromeCiphers(g)) = stripGREASE(ChromeCiphers(h))
                               /\ Len(stripGREASE(ChromeCiphers(g))) = 15
<1>1. ASSUME NEW s, IsList(s), \A i \in DOMAIN s : ~isGREASE(s[i]) PROVE stripGREASE(s) = s
  <2>1. {i \in DOMAIN s : ~isGREASE(s[i])} = DOMAIN s
    BY <1>1
  <2> QED BY <1>1, <2>1, WholeSublist, Zenon DEF stripGREASE
<1>2. Len(stripGREASE(NodeCiphers)) = 18
  <2>1. NodeCiphers \in Seq(Nat) /\ Len(NodeCiphers) = 18 /\ \A i \in DOMAIN NodeCiphers : ~isGREASE(NodeCiphers[i])
    BY DEF NodeCiphers, isGREASE
  <2> QED BY <1>1, <2>1, SeqIsList
<1>3. Len(stripGREASE(MaxCiphers)) = 17
  <2>1. MaxCiphers \in Seq(Nat) /\ Len(MaxCiphers) = 17 /\ \A i \in DOMAIN MaxCiphers : ~isGREASE(MaxCiphers[i])
    BY DEF MaxCiphers, isGREASE
  <2> QED BY <1>1, <2>1, SeqIsList
<1>4. Len(stripGREASE(StackCiphers)) = 3
  <2>1. StackCiphers \in Seq(Nat) /\ Len(StackCiphers) = 3 /\ \A i \in DOMAIN StackCiphers : ~isGREASE(StackCiphers[i])
    BY DEF StackCiphers, isGREASE
  <2> QED BY <1>1, <2>1, SeqIsList
<1>5. ASSUME NEW g \in Own!Pairs
      PROVE  /\ IsList(ChromeCiphers(g)) /\ Len(ChromeCiphers(g)) = 16 /\ DOMAIN ChromeCiphers(g) = 1..16
             /\ {i \in DOMAIN ChromeCiphers(g) : ~isGREASE(ChromeCiphers(g)[i])} = 2..16
  <2> DEFINE s == ChromeCiphers(g)
  <2>1. g[1] \in Nat /\ isGREASE(g[1])
    BY DEF Own!Pairs, isGREASE
  <2>2. s \in Seq(Nat) /\ Len(s) = 16 /\ DOMAIN s = 1..16
    BY <2>1 DEF ChromeCiphers
  <2>3. s[1] = g[1] /\ \A i \in 2..16 : ~isGREASE(s[i])
    BY DEF ChromeCiphers, isGREASE
  <2> HIDE DEF s
  <2>4. {i \in DOMAIN s : ~isGREASE(s[i])} = 2..16
    <3>1. \A i \in 1..16 : i = 1 \/ i \in 2..16
      OBVIOUS
    <3>2. \A i \in 2..16 : i \in 1..16 /\ i # 1
      OBVIOUS
    <3> QED BY <2>1, <2>2, <2>3, <3>1, <3>2
  <2>5. IsList(s)
    BY <2>2, SeqIsList
  <2> QED BY <2>2, <2>4, <2>5 DEF s
<1>6. ASSUME NEW g \in Own!Pairs, NEW h \in Own!Pairs
      PROVE  /\ stripGREASE(ChromeCiphers(g)) = stripGREASE(ChromeCiphers(h))
             /\ Len(stripGREASE(ChromeCiphers(g))) = 15
  <2> DEFINE s == ChromeCiphers(g)
             u == ChromeCiphers(h)
  <2>1. \A i \in 2..16 : s[i] = u[i]
    BY DEF ChromeCiphers
  <2>2. /\ IsList(s) /\ Len(s) = 16 /\ DOMAIN s = 1..16
        /\ {i \in DOMAIN s : ~isGREASE(s[i])} = 2..16
    BY <1>5
  <2>3. /\ IsList(u) /\ Len(u) = 16 /\ DOMAIN u = 1..16
        /\ {i \in DOMAIN u : ~isGREASE(u[i])} = 2..16
    BY <1>5
  <2> HIDE DEF s, u
  <2>4. (2..16) \in SUBSET DOMAIN s
    BY <2>2
  <2>5. Sublist(s, 2..16) = Sublist(u, 2..16)
    BY <2>1, <2>2, <2>3, <2>4, SameSublists
  <2>6. Len(Sublist(s, 2..16)) = Cardinality(2..16)
    <3>1. Keeps(Sublist(s, 2..16), s, 2..16)
      BY <2>2, <2>4, SublistIs
    <3> QED BY <3>1 DEF Keeps
  <2>7. Cardinality(2..16) = 15
    <3>1. 2 \in Int /\ 16 \in Int
      OBVIOUS
    <3>2. Cardinality(2..16) = IF 2 > 16 THEN 0 ELSE 16 - 2 + 1
      BY <3>1, FS_Interval, Zenon
    <3> QED BY <3>2
  <2>8. stripGREASE(s) = Sublist(s, 2..16) /\ stripGREASE(u) = Sublist(u, 2..16)
    BY <2>2, <2>3, Zenon DEF stripGREASE
  <2> QED BY <2>5, <2>6, <2>7, <2>8 DEF s, u
<1> QED BY <1>2, <1>3, <1>4, <1>6

\* The entries of a table.
LEMMA EntriesAre ==
    ASSUME NEW n \in KeyedNames, NEW i \in (1..SizeOf(n)) \ GapsOf(n)
    PROVE  /\ TableOf(n)[i][2] # "psk" /\ TableOf(n)[i][1] # 41
           /\ TableOf(n)[i][2] = "alpn" <=> TableOf(n)[i][1] = 16
<1>1. <<2570, 6682>> \in Own!Pairs
  BY DEF Own!Pairs
<1>2. PICK B : Specified(n, <<2570, 6682>>, B)
  BY <1>1, SpecIs
<1>3. Bears(B[i], TableOf(n)[i])
  BY <1>2 DEF Specified, Follows
<1>4. TableOf(n)[i][1] = B[i].id /\ TableOf(n)[i][2] = B[i].kind /\ Ours(B[i])
  <2>1. \A e : Offer(e)[1] = e.id /\ Offer(e)[2] = e.kind
    BY DEF Offer
  <2> QED BY <1>3, <2>1, Zenon DEF Bears
<1>5. TableOf(n)[i][1] # 41
  BY TableIs DEF Tabled
<1>6. B[i].kind = "psk" => B[i].id = 41
  BY <1>4 DEF Ours
<1>7. B[i].kind = "alpn" <=> B[i].id = 16
  BY <1>4 DEF Ours
<1> QED BY <1>4, <1>5, <1>6, <1>7

\* The protocols that a table offers, and ALPS.
ProtocolsOf(n) ==
    CASE n = "node_24"                    -> OneProtocol
      [] n \in {"max_app", "max_app_psk"} -> <<>>
      [] OTHER                            -> BothProtocols

LEMMA TableProtocols ==
    ASSUME NEW n \in KeyedNames
    PROVE  LET T == (1..SizeOf(n)) \ GapsOf(n)
           IN /\ \A i \in T : TableOf(n)[i][1] = 16 => TableOf(n)[i][3] = ProtocolsOf(n)
              /\ ProtocolsOf(n) # <<>> => \E i \in T : TableOf(n)[i][1] = 16
              /\ GapsOf(n) = {1, 18} => \A i \in T : TableOf(n)[i][2] = "alps" <=> i = 16
<1> DEFINE T == (1..SizeOf(n)) \ GapsOf(n)
           table == TableOf(n)
<1>1. /\ \A id, kind, mark : Says(id, kind, mark)[1] = id
      /\ \A id, kind, mark : Says(id, kind, mark)[2] = kind
      /\ \A id, kind, mark : Says(id, kind, mark)[3] = mark
  BY DEF Says
<1>2. \A i, j \in T : table[i][1] = table[j][1] => i = j
  BY TableIs DEF Tabled
<1>3. CASE n = "node_24"
  <2>1. table = NodeOffers /\ T = 1..12 /\ ProtocolsOf(n) = OneProtocol /\ GapsOf(n) = {}
    BY <1>3 DEF TableOf, SizeOf, GapsOf, ProtocolsOf
  <2>2. NodeOffers[7] = Says(16, "alpn", OneProtocol)
    BY DEF NodeOffers
  <2> HIDE DEF table, T
  <2>3. 7 \in T /\ table[7][1] = 16 /\ table[7][3] = OneProtocol
    BY <1>1, <2>1, <2>2
  <2>4. \A i \in T : table[i][1] = 16 => i = 7
    BY <1>2, <2>3
  <2> QED BY <2>1, <2>3, <2>4 DEF table, T
<1>4. CASE n \in {"max_app", "max_app_psk"}
  <2>1. table = MaxOffers /\ T = 1..11 /\ ProtocolsOf(n) = <<>> /\ GapsOf(n) = {}
    BY <1>4 DEF TableOf, SizeOf, GapsOf, ProtocolsOf
  <2> DEFINE list == MaxOffers
  <2>2. /\ list[1] = SNIOffer /\ list[2] = PlainOffer(23) /\ list[3] = PlainOffer(65281)
        /\ list[4] = Says(10, "groups", <<>>) /\ list[5] = Says(11, "points", <<>>)
        /\ list[6] = PlainOffer(35) /\ list[7] = PlainOffer(5)
        /\ list[8] = Says(13, "sigalgs", Own!OldAlgorithms) /\ list[9] = PlainOffer(51)
        /\ list[10] = PlainOffer(45) /\ list[11] = Says(43, "versions", stripGREASE(<<772, 771>>))
    BY DEF MaxOffers
  <2>3. SNIOffer[1] = 0 /\ \A id : PlainOffer(id)[1] = id
    BY DEF SNIOffer, PlainOffer, Says
  <2> HIDE DEF list
  <2>4. /\ list[1][1] # 16 /\ list[2][1] # 16 /\ list[3][1] # 16 /\ list[4][1] # 16
        /\ list[5][1] # 16 /\ list[6][1] # 16 /\ list[7][1] # 16 /\ list[8][1] # 16
        /\ list[9][1] # 16 /\ list[10][1] # 16 /\ list[11][1] # 16
    BY <1>1, <2>2, <2>3, SMTT(40)
  <2>5. \A i \in 1..11 : i = 1 \/ i = 2 \/ i = 3 \/ i = 4 \/ i = 5 \/ i = 6 \/ i = 7 \/ i = 8 \/
                         i = 9 \/ i = 10 \/ i = 11
    OBVIOUS
  <2>6. \A i \in 1..11 : list[i][1] # 16
    BY <2>4, <2>5
  <2> QED BY <2>1, <2>6 DEF list
<1>5. CASE n \notin {"node_24", "max_app", "max_app_psk"}
  <2>1. PICK algorithms : table = ChromeOffers(algorithms)
    BY <1>5 DEF TableOf
  <2>2. T = (1..SizeOf(n)) \ {1, 18} /\ SizeOf(n) \in 18..20 /\ ProtocolsOf(n) = BothProtocols
    BY <1>5 DEF SizeOf, GapsOf, ProtocolsOf
  <2> DEFINE list == ChromeOffers(algorithms)
  <2>3. /\ list[2] = SNIOffer /\ list[3] = PlainOffer(23) /\ list[4] = PlainOffer(65281)
        /\ list[5] = Says(10, "groups", <<>>) /\ list[6] = Says(11, "points", <<>>)
        /\ list[7] = PlainOffer(35) /\ list[8] = Says(16, "alpn", BothProtocols)
        /\ list[9] = PlainOffer(5) /\ list[10] = Says(13, "sigalgs", algorithms)
        /\ list[11] = PlainOffer(18) /\ list[12] = PlainOffer(51) /\ list[13] = PlainOffer(45)
        /\ list[14] = Says(43, "versions", ChromeVersions) /\ list[15] = PlainOffer(27)
        /\ list[16] = Says(17613, "alps", <<>>) /\ list[17] = PlainOffer(65037)
        /\ list[19] = PlainOffer(51764) /\ list[20] = PlainOffer(4832)
    BY DEF ChromeOffers
  <2>4. SNIOffer[2] = "sni" /\ \A id : PlainOffer(id)[2] = "generic"
    BY DEF SNIOffer, PlainOffer, Says
  <2> HIDE DEF list
  <2>5. /\ list[2][2] = "sni" /\ list[3][2] = "generic" /\ list[4][2] = "generic"
        /\ list[5][2] = "groups" /\ list[6][2] = "points" /\ list[7][2] = "generic"
        /\ list[8][2] = "alpn" /\ list[9][2] = "generic" /\ list[10][2] = "sigalgs"
        /\ list[11][2] = "generic" /\ list[12][2] = "generic" /\ list[13][2] = "generic"
        /\ list[14][2] = "versions" /\ list[15][2] = "generic" /\ list[16][2] = "alps"
        /\ list[17][2] = "generic" /\ list[19][2] = "generic" /\ list[20][2] = "generic"
    <3>1. /\ Says(10, "groups", <<>>)[2] = "groups" /\ Says(11, "points", <<>>)[2] = "points"
          /\ Says(16, "alpn", BothProtocols)[2] = "alpn"
          /\ Says(13, "sigalgs", algorithms)[2] = "sigalgs"
          /\ Says(43, "versions", ChromeVersions)[2] = "versions"
          /\ Says(17613, "alps", <<>>)[2] = "alps"
      BY <1>1
    <3> QED BY <2>3, <2>4, <3>1, SMTT(90)
  <2>14. /\ ChromeKinds[2] = "sni" /\ ChromeKinds[3] = "generic" /\ ChromeKinds[4] = "generic"
        /\ ChromeKinds[5] = "groups" /\ ChromeKinds[6] = "points"
        /\ ChromeKinds[7] = "generic" /\ ChromeKinds[8] = "alpn"
        /\ ChromeKinds[9] = "generic" /\ ChromeKinds[10] = "sigalgs"
        /\ ChromeKinds[11] = "generic" /\ ChromeKinds[12] = "generic"
        /\ ChromeKinds[13] = "generic" /\ ChromeKinds[14] = "versions"
        /\ ChromeKinds[15] = "generic" /\ ChromeKinds[16] = "alps"
        /\ ChromeKinds[17] = "generic" /\ ChromeKinds[19] = "generic"
        /\ ChromeKinds[20] = "generic"
    BY DEF ChromeKinds
  <2>6. \A i \in (1..20) \ {1, 18} :
           i = 2 \/ i = 3 \/ i = 4 \/ i = 5 \/ i = 6 \/ i = 7 \/ i = 8 \/ i = 9 \/ i = 10 \/ i = 11 \/
           i = 12 \/ i = 13 \/ i = 14 \/ i = 15 \/ i = 16 \/ i = 17 \/ i = 19 \/ i = 20
    OBVIOUS
  <2>7. \A i \in (1..20) \ {1, 18} : list[i][2] = "alps" <=> i = 16
    <3>1. \A i \in (1..20) \ {1, 18} : list[i][2] = ChromeKinds[i]
      BY <2>5, <2>6, <2>14
    <3>2. \A i \in 1..20 : ChromeKinds[i] = "alps" <=> i = 16
      BY DEF ChromeKinds
    <3> QED BY <3>1, <3>2
  <2>8. 8 \in T /\ T \subseteq (1..20) \ {1, 18}
    BY <2>2
  <2>9. list[8][1] = 16 /\ list[8][3] = BothProtocols
    BY <1>1, <2>3
  <2>10. table = list
    BY <2>1 DEF list
  <2> HIDE DEF table, T
  <2>11. table[8][1] = 16 /\ table[8][3] = BothProtocols
    BY <2>9, <2>10
  <2>12. \A i \in T : table[i][1] = 16 => i = 8
    BY <1>2, <2>8, <2>11
  <2>13. \A i \in T : table[i][2] = "alps" <=> i = 16
    BY <2>7, <2>8, <2>10
  <2> QED BY <2>2, <2>8, <2>11, <2>12, <2>13 DEF table, T
<1> QED BY <1>3, <1>4, <1>5

LEMMA OneLess ==
    ASSUME NEW S, IsFiniteSet(S), NEW x \in S, NEW k \in Nat, Cardinality(S) = k
    PROVE  IsFiniteSet(S \ {x}) /\ Cardinality(S \ {x}) = k - 1
BY FS_RemoveElement

LEMMA TableSizes ==
    ASSUME NEW n \in KeyedNames
    PROVE  LET T == (1..SizeOf(n)) \ GapsOf(n)
           IN /\ IsFiniteSet(T)
              /\ n = "node_24" => Cardinality(T) = 12
              /\ n \in {"max_app", "max_app_psk"} => Cardinality(T) = 11
              /\ n \in {"chrome_auto", "yandex_browser"} => Cardinality(T) = 16
              /\ n \in {"chrome_152", "chrome_152_psk", "chrome_155"} => Cardinality(T) = 17
              /\ n = "chrome_156" => Cardinality(T) = 18
<1> DEFINE T == (1..SizeOf(n)) \ GapsOf(n)
<1>1. ASSUME NEW m \in Nat PROVE IsFiniteSet(1..m) /\ Cardinality(1..m) = m
  BY FS_Interval
<1>2. ASSUME NEW m \in 18..20
      PROVE  IsFiniteSet((1..m) \ {1, 18}) /\ Cardinality((1..m) \ {1, 18}) = m - 2
  <2>1. m \in Nat /\ 1 \in 1..m /\ 18 \in (1..m) \ {1}
    OBVIOUS
  <2>2. IsFiniteSet((1..m) \ {1}) /\ Cardinality((1..m) \ {1}) = m - 1
    BY <1>1, <2>1, OneLess, Zenon
  <2>3. IsFiniteSet(((1..m) \ {1}) \ {18}) /\ Cardinality(((1..m) \ {1}) \ {18}) = (m - 1) - 1
    <3>1. m - 1 \in Nat
      OBVIOUS
    <3> QED BY <2>1, <2>2, <3>1, OneLess, Zenon
  <2>4. ((1..m) \ {1}) \ {18} = (1..m) \ {1, 18}
    OBVIOUS
  <2> QED BY <2>3, <2>4
<1>3. CASE n = "node_24"
  <2>1. T = 1..12
    BY <1>3 DEF SizeOf, GapsOf
  <2> HIDE DEF T
  <2>2. IsFiniteSet(T) /\ Cardinality(T) = 12
    BY <1>1, <2>1
  <2> QED BY <1>3, <2>2 DEF T
<1>4. CASE n \in {"max_app", "max_app_psk"}
  <2>1. T = 1..11
    BY <1>4 DEF SizeOf, GapsOf
  <2> HIDE DEF T
  <2>2. IsFiniteSet(T) /\ Cardinality(T) = 11
    BY <1>1, <2>1
  <2> QED BY <1>4, <2>2 DEF T
<1>5. CASE n \notin {"node_24", "max_app", "max_app_psk"}
  <2>1. T = (1..SizeOf(n)) \ {1, 18} /\ SizeOf(n) \in 18..20
    BY <1>5 DEF SizeOf, GapsOf
  <2>2. /\ n \in {"chrome_auto", "yandex_browser"} => SizeOf(n) = 18
        /\ n \in {"chrome_152", "chrome_152_psk", "chrome_155"} => SizeOf(n) = 19
        /\ n = "chrome_156" => SizeOf(n) = 20
    BY DEF SizeOf
  <2> HIDE DEF T
  <2>3. IsFiniteSet(T) /\ Cardinality(T) = SizeOf(n) - 2
    BY <1>2, <2>1
  <2> QED BY <1>5, <2>2, <2>3 DEF T
<1> QED BY <1>3, <1>4, <1>5

\* What a list of extensions has, but for the pre_shared_key: so many
\* extensions, and the protocols.
Has(X, number, protocols) ==
    /\ Cardinality(Named(X) \ KeyPlaces(X)) = number
    /\ \A o \in Offers(X) : o[1] = 16 => o[3] = protocols
    /\ (\E o \in Offers(X) : o[1] = 16) \/ protocols = <<>>

LEMMA TCPShape ==
    ASSUME NEW n \in KeyedNames, NEW t, NEW X, Good(X), Offers(X) = Offering(n, "tcp", t)
    PROVE  /\ Has(X, Cardinality((1..SizeOf(n)) \ GapsOf(n)), ProtocolsOf(n))
           /\ n \in {"max_app_psk", "chrome_152_psk"} => \E o \in Offers(X) : o[1] = 41
           /\ ~t /\ n \notin {"max_app_psk", "chrome_152_psk"} => \A o \in Offers(X) : o[1] # 41
<1> DEFINE T == (1..SizeOf(n)) \ GapsOf(n)
           table == TableOf(n)
           k == <<41, TailOf(n).kind, <<>> >>
<1>1. Offers(X) = {o \in {table[i] : i \in T} \cup {k} : t \/ o[2] # "psk"}
  <2>1. OfferedOn(n, "tcp") = Offered(n, "tcp")
    BY DEF OfferedOn
  <2> QED BY <2>1, Zenon DEF Offering, Offered, AllOffers
<1>2. \A i \in T : table[i][2] # "psk" /\ table[i][1] # 41
  BY EntriesAre
<1>3. \A i, j \in T : table[i][1] = table[j][1] => i = j
  BY TableIs DEF Tabled
<1>4. IsFiniteSet(T)
  BY TableSizes
<1>5. /\ \A i \in T : table[i][1] = 16 => table[i][3] = ProtocolsOf(n)
      /\ ProtocolsOf(n) # <<>> => \E i \in T : table[i][1] = 16
  BY TableProtocols
<1>6. k[1] = 41 /\ k[2] = TailOf(n).kind
  OBVIOUS
<1>7. n \in {"max_app_psk", "chrome_152_psk"} <=> k[2] # "psk"
  BY <1>6, TailIs
<1> HIDE DEF T, table, k
<1>8. \A i \in T : table[i] \in Offers(X)
  BY <1>1, <1>2
<1>9. \A o \in Offers(X) : o = k \/ \E i \in T : o = table[i]
  BY <1>1
<1>10. {o[1] : o \in Offers(X)} \ {41} = {table[i][1] : i \in T}
  <2>1. \A i \in T : table[i][1] \in {o[1] : o \in Offers(X)} \ {41}
    BY <1>2, <1>8
  <2>2. \A o \in Offers(X) : o[1] # 41 => o[1] \in {table[i][1] : i \in T}
    BY <1>6, <1>9
  <2> QED BY <2>1, <2>2
<1>11. Cardinality(Named(X) \ KeyPlaces(X)) = Cardinality(T)
  <2> DEFINE ids == [i \in T |-> table[i][1]]
  <2>1. \A i \in T : ids[i] = table[i][1]
    OBVIOUS
  <2> HIDE DEF ids
  <2>2. \A i, j \in T : ids[i] = ids[j] => i = j
    BY <1>3, <2>1
  <2>3. {o[1] : o \in Offers(X)} \ {41} = {ids[i] : i \in T}
    BY <1>10, <2>1
  <2> QED BY <1>4, <2>2, <2>3, CountIds
<1>12. \A o \in Offers(X) : o[1] = 16 => o[3] = ProtocolsOf(n)
  BY <1>5, <1>6, <1>9
<1>13. (\E o \in Offers(X) : o[1] = 16) \/ ProtocolsOf(n) = <<>>
  BY <1>5, <1>8
<1>14. n \in {"max_app_psk", "chrome_152_psk"} => \E o \in Offers(X) : o[1] = 41
  BY <1>1, <1>6, <1>7
<1>15. ~t /\ n \notin {"max_app_psk", "chrome_152_psk"} => \A o \in Offers(X) : o[1] # 41
  BY <1>1, <1>2, <1>7
<1> QED BY <1>11, <1>12, <1>13, <1>14, <1>15, Zenon DEF Has, T

\* On a WebSocket there is one protocol, and no ALPS.
LEMMA WSShape ==
    ASSUME NEW t, NEW X, Good(X), Offers(X) = Offering("chrome_152", "ws", t)
    PROVE  Has(X, 16, OneProtocol) /\ (~t => \A o \in Offers(X) : o[1] # 41)
<1> DEFINE n == "chrome_152"
           T == (1..19) \ {1, 18}
           table == TableOf(n)
           k == <<41, TailOf(n).kind, <<>> >>
<1>1. n \in KeyedNames /\ SizeOf(n) = 19 /\ GapsOf(n) = {1, 18} /\ ProtocolsOf(n) = BothProtocols
  BY DEF KeyedNames, Own!Shuffled, SizeOf, GapsOf, ProtocolsOf
<1>2. Offers(X) = {o \in {Narrowed(q) : q \in {r \in {table[i] : i \in T} \cup {k} : r[2] # "alps"}} :
                     t \/ o[2] # "psk"}
  <2>1. AllOffers(n) = {table[i] : i \in T} \cup {k}
    BY <1>1, Zenon DEF AllOffers
  <2>2. Offered(n, "ws") = {Narrowed(o) : o \in {q \in AllOffers(n) : q[2] # "alps"}}
    BY <1>1, Zenon DEF Offered
  <2>3. Offers(X) = {o \in Offered(n, "ws") : t \/ o[2] # "psk"}
    <3>1. OfferedOn(n, "ws") = Offered(n, "ws")
      BY DEF OfferedOn
    <3> QED BY <3>1, Zenon DEF Offering
  <2> HIDE DEF T, table, k, n
  <2> QED BY <2>1, <2>2, <2>3
<1>3. /\ \A i \in T : table[i][2] # "psk" /\ table[i][1] # 41 /\ (table[i][2] = "alpn" <=> table[i][1] = 16)
      /\ \A i, j \in T : table[i][1] = table[j][1] => i = j
      /\ \A i \in T : table[i][2] = "alps" <=> i = 16
      /\ \E i \in T : table[i][1] = 16
  <2>1. BothProtocols # <<>>
    BY DEF BothProtocols
  <2>2. \A i \in (1..SizeOf(n)) \ GapsOf(n) :
           table[i][2] # "psk" /\ table[i][1] # 41 /\ (table[i][2] = "alpn" <=> table[i][1] = 16)
    BY <1>1, EntriesAre
  <2>3. \A i, j \in (1..SizeOf(n)) \ GapsOf(n) : table[i][1] = table[j][1] => i = j
    BY <1>1, TableIs DEF Tabled
  <2>4. /\ \A i \in (1..SizeOf(n)) \ GapsOf(n) : table[i][2] = "alps" <=> i = 16
        /\ \E i \in (1..SizeOf(n)) \ GapsOf(n) : table[i][1] = 16
    BY <1>1, <2>1, TableProtocols
  <2> HIDE DEF table
  <2> QED BY <1>1, <2>2, <2>3, <2>4
<1> DEFINE U == T \ {16}
<1>4. IsFiniteSet(U) /\ Cardinality(U) = 16
  <2>1. IsFiniteSet(T) /\ Cardinality(T) = 17
    <3>1. (1..SizeOf(n)) \ GapsOf(n) = T
      BY <1>1
    <3> QED BY <1>1, <3>1, TableSizes
  <2>2. 16 \in T
    OBVIOUS
  <2> HIDE DEF T
  <2> QED BY <2>1, <2>2, FS_RemoveElement
<1>5. k[1] = 41 /\ k[2] = "psk"
  BY TailIs
<1>6. /\ \A o : o[2] # "alpn" => Narrowed(o) = o
      /\ \A o : o[2] = "alpn" => Narrowed(o)[1] = 16 /\ Narrowed(o)[2] = "alpn" /\ Narrowed(o)[3] = OneProtocol
  BY DEF Narrowed, OneProtocol
<1> HIDE DEF T, table, k, n
<1>7. \A i \in U : table[i][2] # "alps" /\ table[i] \in {table[j] : j \in T}
  BY <1>3
<1>8. \A i \in U : /\ Narrowed(table[i])[1] = table[i][1] /\ Narrowed(table[i])[2] # "psk"
                   /\ table[i][1] = 16 => Narrowed(table[i])[3] = OneProtocol
  BY <1>3, <1>6
<1>9. Narrowed(k) = k
  BY <1>5, <1>6
<1>10. \A i \in U : Narrowed(table[i]) \in Offers(X)
  BY <1>2, <1>7, <1>8
<1>11. \A o \in Offers(X) : o = k \/ \E i \in U : o = Narrowed(table[i])
  <2> SUFFICES ASSUME NEW o \in Offers(X) PROVE o = k \/ \E i \in U : o = Narrowed(table[i])
    OBVIOUS
  <2>1. PICK q \in {table[i] : i \in T} \cup {k} : q[2] # "alps" /\ o = Narrowed(q)
    BY <1>2
  <2>2. CASE q = k
    BY <1>9, <2>1, <2>2
  <2>3. CASE q \in {table[i] : i \in T}
    <3>1. PICK i \in T : q = table[i]
      BY <2>3
    <3>2. i \in U
      BY <1>3, <2>1, <3>1
    <3> QED BY <2>1, <3>1, <3>2
  <2> QED BY <2>1, <2>2, <2>3
<1>12. {o[1] : o \in Offers(X)} \ {41} = {table[i][1] : i \in U}
  <2>1. \A i \in U : table[i][1] \in {o[1] : o \in Offers(X)} \ {41}
    BY <1>3, <1>8, <1>10
  <2>2. \A o \in Offers(X) : o[1] # 41 => o[1] \in {table[i][1] : i \in U}
    BY <1>5, <1>8, <1>11
  <2> QED BY <2>1, <2>2
<1>13. Cardinality(Named(X) \ KeyPlaces(X)) = 16
  <2> DEFINE ids == [i \in U |-> table[i][1]]
  <2>1. \A i \in U : ids[i] = table[i][1]
    OBVIOUS
  <2> HIDE DEF ids
  <2>2. \A i, j \in U : ids[i] = ids[j] => i = j
    BY <1>3, <2>1
  <2>3. {o[1] : o \in Offers(X)} \ {41} = {ids[i] : i \in U}
    BY <1>12, <2>1
  <2> HIDE DEF U
  <2>4. IsFiniteSet(U)
    BY <1>4
  <2>5. Cardinality(Named(X) \ KeyPlaces(X)) = Cardinality(U)
    BY <2>2, <2>3, <2>4, CountIds
  <2> QED BY <1>4, <2>5
<1>14. \A o \in Offers(X) : o[1] = 16 => o[3] = OneProtocol
  BY <1>5, <1>8, <1>11
<1>15. \E o \in Offers(X) : o[1] = 16
  <2>1. PICK i \in T : table[i][1] = 16
    BY <1>3
  <2>2. i \in U
    BY <1>3, <2>1
  <2> QED BY <1>8, <1>10, <2>1, <2>2
<1>16. ~t => \A o \in Offers(X) : o[1] # 41
  <2>1. \A o \in Offers(X) : t \/ o[2] # "psk"
    BY <1>2
  <2>2. \A i \in U : Narrowed(table[i])[1] # 41
    BY <1>3, <1>8
  <2> QED BY <1>5, <1>11, <2>1, <2>2
<1> QED BY <1>13, <1>14, <1>15, <1>16, Zenon DEF Has

LEMMA QUICShape ==
    ASSUME NEW n, NEW t, NEW X, Good(X), Offers(X) = Offering(n, "quic", t)
    PROVE  Has(X, StackSize(n), QUICProtocol) /\ (~t => \A o \in Offers(X) : o[1] # 41)
<1> DEFINE m == StackSize(n)
           T == 1..m
           list == StackOffers
           k == <<41, "psk", <<>> >>
<1>1. Offers(X) = {o \in {list[i] : i \in T} \cup {k} : t \/ o[2] # "psk"}
  <2>1. OfferedOn(n, "quic") = StackAll(n)
    BY DEF OfferedOn
  <2> QED BY <2>1, Zenon DEF Offering, StackAll
<1>2. m \in 11..13
  BY DEF StackSize
<1>3. list[3] = Says(16, "alpn", QUICProtocol)
  BY DEF StackOffers
<1>10. k[1] = 41 /\ k[2] = "psk"
  OBVIOUS
<1> HIDE DEF m, list, k
<1>4. /\ \A i, j \in T : list[i][1] = list[j][1] => i = j
      /\ \A i \in T : list[i][1] # 41
  <2>1. Tabled(list, m, {})
    BY <1>2, StackTabled DEF list
  <2> QED BY <2>1 DEF Tabled
<1>5. list[3][1] = 16 /\ list[3][3] = QUICProtocol /\ 3 \in T
  BY <1>2, <1>3 DEF Says
<1>11. \A i \in T : list[i][2] # "psk"
  <2> SUFFICES ASSUME NEW i \in T PROVE list[i][2] # "psk"
    OBVIOUS
  <2>1. i \in 1..13
    BY <1>2
  <2>2. Bears(StackList[i], list[i])
    BY <2>1, StackElements, Zenon DEF list
  <2>3. list[i][1] = StackList[i].id /\ list[i][2] = StackList[i].kind /\ Ours(StackList[i])
    <3>1. \A e : Offer(e)[1] = e.id /\ Offer(e)[2] = e.kind
      BY DEF Offer
    <3> QED BY <2>2, <3>1, Zenon DEF Bears
  <2>4. StackList[i].kind = "psk" => StackList[i].id = 41
    BY <2>3 DEF Ours
  <2> QED BY <1>4, <2>3, <2>4
<1>6. IsFiniteSet(T) /\ Cardinality(T) = m
  <2>1. ASSUME NEW j \in Nat PROVE IsFiniteSet(1..j) /\ Cardinality(1..j) = j
    BY FS_Interval
  <2>2. m \in Nat
    BY <1>2
  <2> QED BY <2>1, <2>2
<1> HIDE DEF T
<1>7. Cardinality(Named(X) \ KeyPlaces(X)) = m
  <2> DEFINE ids == [i \in T |-> list[i][1]]
  <2>1. \A i \in T : ids[i] = list[i][1]
    OBVIOUS
  <2> HIDE DEF ids
  <2>2. \A i, j \in T : ids[i] = ids[j] => i = j
    BY <1>4, <2>1
  <2>3. {o[1] : o \in Offers(X)} \ {41} = {ids[i] : i \in T}
    <3>1. \A i \in T : list[i] \in Offers(X)
      BY <1>1, <1>11
    <3>2. \A o \in Offers(X) : o = k \/ \E i \in T : o = list[i]
      BY <1>1
    <3>3. \A i \in T : ids[i] \in {o[1] : o \in Offers(X)} \ {41}
      BY <1>4, <2>1, <3>1
    <3>4. \A o \in Offers(X) : o[1] # 41 => o[1] \in {ids[i] : i \in T}
      BY <1>10, <2>1, <3>2
    <3> QED BY <3>3, <3>4
  <2> QED BY <1>6, <2>2, <2>3, CountIds
<1>8. \A o \in Offers(X) : o[1] = 16 => o[3] = QUICProtocol
  BY <1>1, <1>4, <1>5, <1>10
<1>9. \E o \in Offers(X) : o[1] = 16
  BY <1>1, <1>5, <1>11
<1>12. ~t => \A o \in Offers(X) : o[1] # 41
  BY <1>1, <1>4, <1>10
<1> QED BY <1>7, <1>8, <1>9, <1>12, Zenon DEF Has, m

\* The captures, name by name.
LEMMA CapturedIs ==
    /\ DOMAIN Captured["tcp"] = KeyedNames
    /\ Captured["tcp"]["node_24"] = <<18, 12, h1>>
    /\ \A n \in {"max_app", "max_app_psk"} : Captured["tcp"][n] = <<17, 11, h0>>
    /\ \A n \in {"chrome_auto", "yandex_browser"} : Captured["tcp"][n] = <<15, 16, h2>>
    /\ \A n \in {"chrome_152", "chrome_152_psk", "chrome_155"} : Captured["tcp"][n] = <<15, 17, h2>>
    /\ Captured["tcp"]["chrome_156"] = <<15, 18, h2>>
    /\ DOMAIN Captured["ws"] = {"chrome_152"} /\ Captured["ws"]["chrome_152"] = <<15, 16, h1>>
    /\ DOMAIN Captured["quic"] = {"chrome_156", "chrome_155", "chrome_152", "yandex_browser"}
    /\ \A n \in DOMAIN Captured["quic"] : Captured["quic"][n] = <<3, StackSize(n), h3>>
<1> DEFINE tcp == [node_24 |-> <<18, 12, h1>>, max_app |-> <<17, 11, h0>>,
              max_app_psk |-> <<17, 11, h0>>, chrome_auto |-> <<15, 16, h2>>,
              chrome_152 |-> <<15, 17, h2>>, chrome_152_psk |-> <<15, 17, h2>>,
              chrome_155 |-> <<15, 17, h2>>, chrome_156 |-> <<15, 18, h2>>,
              yandex_browser |-> <<15, 16, h2>>]
           ws == [chrome_152 |-> <<15, 16, h1>>]
           quic == [chrome_156 |-> <<3, 13, h3>>, chrome_155 |-> <<3, 12, h3>>,
                    chrome_152 |-> <<3, 11, h3>>, yandex_browser |-> <<3, 11, h3>>]
<1>1. /\ DOMAIN tcp = KeyedNames /\ tcp["node_24"] = <<18, 12, h1>>
      /\ tcp["max_app"] = <<17, 11, h0>> /\ tcp["max_app_psk"] = <<17, 11, h0>>
      /\ tcp["chrome_auto"] = <<15, 16, h2>> /\ tcp["yandex_browser"] = <<15, 16, h2>>
      /\ tcp["chrome_152"] = <<15, 17, h2>> /\ tcp["chrome_152_psk"] = <<15, 17, h2>>
      /\ tcp["chrome_155"] = <<15, 17, h2>> /\ tcp["chrome_156"] = <<15, 18, h2>>
  BY DEF KeyedNames, Own!Shuffled
<1>2. DOMAIN ws = {"chrome_152"} /\ ws["chrome_152"] = <<15, 16, h1>>
  OBVIOUS
<1>3. /\ DOMAIN quic = {"chrome_156", "chrome_155", "chrome_152", "yandex_browser"}
      /\ quic["chrome_156"] = <<3, 13, h3>> /\ quic["chrome_155"] = <<3, 12, h3>>
      /\ quic["chrome_152"] = <<3, 11, h3>> /\ quic["yandex_browser"] = <<3, 11, h3>>
  OBVIOUS
<1>4. Captured["tcp"] = tcp /\ Captured["ws"] = ws /\ Captured["quic"] = quic
  BY DEF Captured
<1> HIDE DEF tcp, ws, quic
<1>5. /\ StackSize("chrome_156") = 13 /\ StackSize("chrome_155") = 12
      /\ StackSize("chrome_152") = 11 /\ StackSize("yandex_browser") = 11
  BY DEF StackSize
<1>6. \A n \in DOMAIN quic : quic[n] = <<3, StackSize(n), h3>>
  BY <1>3, <1>5
<1> QED BY <1>1, <1>2, <1>3, <1>4, <1>6

\* Two characters of the first protocol.
LEMMA TokensAre ==
    ASSUME NEW c
    PROVE  /\ c.alpn = <<>> => Lib!ja4ALPNToken(c) = h0
           /\ c.alpn = OneProtocol => Lib!ja4ALPNToken(c) = h1
           /\ c.alpn = BothProtocols => Lib!ja4ALPNToken(c) = h2
           /\ c.alpn = QUICProtocol => Lib!ja4ALPNToken(c) = h3
<1>1. ASSUME NEW one, Len(one) # 1, one # <<>>, c.alpn # <<>>, c.alpn[1] = one,
             Lib!AlphaNumeric(one[1]), Lib!AlphaNumeric(one[Len(one)])
      PROVE  Lib!ja4ALPNToken(c) = <<one[1], one[Len(one)]>>
  BY <1>1, Zenon DEF Lib!ja4ALPNToken
<1>2. CASE c.alpn = <<>>
  BY <1>2 DEF Lib!ja4ALPNToken, h0, OneProtocol, BothProtocols, QUICProtocol
<1>3. CASE c.alpn = OneProtocol
  <2> DEFINE one == Own!http11
  <2>1. one[1] = 104 /\ Len(one) = 8 /\ one[8] = 49 /\ one # <<>>
    BY DEF Own!http11
  <2>2. c.alpn # <<>> /\ c.alpn[1] = one
    BY <1>3 DEF OneProtocol
  <2>3. Lib!AlphaNumeric(104) /\ Lib!AlphaNumeric(49)
    BY DEF Lib!AlphaNumeric
  <2> HIDE DEF one
  <2>4. Lib!ja4ALPNToken(c) = <<104, 49>>
    <3>1. one[1] = 104 /\ one[Len(one)] = 49 /\ Len(one) # 1
      BY <2>1
    <3>2. Lib!ja4ALPNToken(c) = <<one[1], one[Len(one)]>>
      BY <1>1, <2>1, <2>2, <2>3, <3>1
    <3> QED BY <3>1, <3>2
  <2>5. OneProtocol # BothProtocols /\ OneProtocol # QUICProtocol
    BY DEF OneProtocol, BothProtocols, QUICProtocol, Own!http11, Own!h2, Own!h3
  <2> QED BY <1>3, <2>2, <2>4, <2>5 DEF h1
<1>4. CASE c.alpn = BothProtocols
  <2> DEFINE one == Own!h2
  <2>1. one[1] = 104 /\ Len(one) = 2 /\ one[2] = 50 /\ one # <<>>
    BY DEF Own!h2
  <2>2. c.alpn # <<>> /\ c.alpn[1] = one
    BY <1>4 DEF BothProtocols
  <2>3. Lib!AlphaNumeric(104) /\ Lib!AlphaNumeric(50)
    BY DEF Lib!AlphaNumeric
  <2> HIDE DEF one
  <2>4. Lib!ja4ALPNToken(c) = <<104, 50>>
    BY <1>1, <2>1, <2>2, <2>3
  <2>5. BothProtocols # OneProtocol /\ BothProtocols # QUICProtocol
    BY DEF OneProtocol, BothProtocols, QUICProtocol, Own!http11, Own!h2, Own!h3
  <2> QED BY <1>4, <2>2, <2>4, <2>5 DEF h2
<1>5. CASE c.alpn = QUICProtocol
  <2> DEFINE one == Own!h3
  <2>1. one[1] = 104 /\ Len(one) = 2 /\ one[2] = 51 /\ one # <<>>
    BY DEF Own!h3
  <2>2. c.alpn # <<>> /\ c.alpn[1] = one
    BY <1>5 DEF QUICProtocol
  <2>3. Lib!AlphaNumeric(104) /\ Lib!AlphaNumeric(51)
    BY DEF Lib!AlphaNumeric
  <2> HIDE DEF one
  <2>4. Lib!ja4ALPNToken(c) = <<104, 51>>
    BY <1>1, <2>1, <2>2, <2>3
  <2>5. QUICProtocol # BothProtocols /\ QUICProtocol # OneProtocol
    BY DEF OneProtocol, BothProtocols, QUICProtocol, Own!http11, Own!h2, Own!h3
  <2> QED BY <1>5, <2>2, <2>4, <2>5 DEF h3
<1> QED BY <1>2, <1>3, <1>4, <1>5

\* What the first part of a fingerprint says, but for the pre_shared_key.
FirstPart(wire, protocol) ==
    LET part == Lib!ja4A(Lib!ParseClientHello(wire), protocol)
    IN <<part[4], part[5] - Cardinality(KeyPlaces(wire.exts)), part[6]>>
Writes(list, token) == \A c : c.alpn = list => Lib!ja4ALPNToken(c) = token

LEMMA PartSays ==
    ASSUME NEW wire, Good(wire.exts), ~Lib!Fails(wire), NEW protocol, NEW number \in 0..98,
           NEW list, NEW token, Len(stripGREASE(wire.ciphers)) \in 0..99, Has(wire.exts, number, list),
           Writes(list, token)
    PROVE  FirstPart(wire, protocol) = <<Len(stripGREASE(wire.ciphers)), number, token>>
<1> DEFINE suites == Len(stripGREASE(wire.ciphers))
           c == Lib!ParseClientHello(wire)
           part == Lib!ja4A(c, protocol)
           X == wire.exts
           psk == Cardinality(KeyPlaces(X))
<1>1. c.alpn = list
  BY ProtocolsAre DEF Has
<1>2. psk \in {0, 1} /\ Cardinality(Named(X)) = number + psk
  <2>1. psk \in {0, 1} /\ Cardinality(Named(X)) = Cardinality(Named(X) \ KeyPlaces(X)) + psk
    BY KeysAre
  <2>2. Cardinality(Named(X) \ KeyPlaces(X)) = number
    BY DEF Has
  <2> QED BY <2>1, <2>2
<1> HIDE DEF psk, suites
<1>3. Cardinality(Named(X)) \in 0..99 /\ Cardinality(Named(X)) - psk = number
  BY <1>2
<1>4. part[4] = suites /\ part[5] = Cardinality(Named(X)) /\ part[6] = Lib!ja4ALPNToken(c)
  BY <1>3, PartIs DEF suites
<1>5. Lib!ja4ALPNToken(c) = token
  BY <1>1 DEF Writes
<1> HIDE DEF part, c, X
<1>6. <<part[4], part[5] - psk, part[6]>> = <<suites, number, token>>
  BY <1>3, <1>4, <1>5
<1> QED BY <1>6, Zenon DEF suites, part, psk, X, c, FirstPart

------------------------------------------------------------------------------
(* HelloKeepsShape.                                                         *)

\* Whatever a connection draws; a ticket that was used is still there.
Drawable(n, g, order) == g \in Own!Pairs /\ Own!Permutes(order, Own!Slots(n, g))
OneOfOurs(n, p, k, wire) ==
    \E t \in BOOLEAN :
        (t => k) /\ \E g, order : Drawable(n, g, order) /\ wire = Own!Hello(n, p, t, g, order)

Paths == {"tcp", "ws", "quic"}

\* Two hellos with one fingerprint; what was captured for a name, where part is
\* the first part of the fingerprint of the hello.
SameJA4(v, w) == Lib!JA4(Lib!ParseClientHello(v)) = Lib!JA4(Lib!ParseClientHello(w))
Keyed(n, k, psk) ==
    psk \in IF n \in {"max_app_psk", "chrome_152_psk"} THEN {1} ELSE IF k THEN {0, 1} ELSE {0}
Matches(n, p, k, wire, part) ==
    LET psk == Cardinality(KeyPlaces(wire.exts))
    IN Keyed(n, k, psk) /\ <<part[4], part[5] - psk, part[6]>> = Captured[p][n]

LEMMA SuitesDrawn ==
    ASSUME NEW n, NEW p, NEW g \in Own!Pairs, NEW h \in Own!Pairs
    PROVE  stripGREASE(Suites(n, p, g)) = stripGREASE(Suites(n, p, h))
<1>1. CASE p = "quic" \/ n \notin KeyedNames \/ n \in {"node_24", "max_app", "max_app_psk"}
  BY <1>1, Zenon DEF Suites, CiphersOf
<1>2. CASE p # "quic" /\ n \in KeyedNames /\ n \notin {"node_24", "max_app", "max_app_psk"}
  <2>1. Suites(n, p, g) = ChromeCiphers(g) /\ Suites(n, p, h) = ChromeCiphers(h)
    BY <1>2 DEF Suites, CiphersOf
  <2> QED BY <2>1, SuitesAre, Zenon
<1> QED BY <1>1, <1>2

LEMMA SameFingerprint ==
    ASSUME NEW n, NEW p \in Paths, NEW t, NEW g, NEW order, Drawable(n, g, order),
           NEW h, NEW other, Drawable(n, h, other)
    PROVE  SameJA4(Own!Hello(n, p, t, g, order), Own!Hello(n, p, t, h, other))
<1> DEFINE v == Own!Hello(n, p, t, g, order)
           w == Own!Hello(n, p, t, h, other)
<1>1. /\ g \in Own!Pairs /\ Own!Permutes(order, Own!Slots(n, g)) /\ p \in {"tcp", "ws", "quic"}
      /\ h \in Own!Pairs /\ Own!Permutes(other, Own!Slots(n, h))
  BY Zenon DEF Drawable, Paths
<1>2. /\ v.version = 771 /\ v.ciphers = Suites(n, p, g) /\ v.tail = FALSE
      /\ Good(v.exts) /\ Offers(v.exts) = Offering(n, p, t)
  <2>1. Shown(v, Suites(n, p, g), OfferedOn(n, p), t)
    BY <1>1, OurHello
  <2> QED BY <2>1, Zenon DEF Shown, Offering
<1>3. /\ w.version = 771 /\ w.ciphers = Suites(n, p, h) /\ w.tail = FALSE
      /\ Good(w.exts) /\ Offers(w.exts) = Offering(n, p, t)
  <2>1. Shown(w, Suites(n, p, h), OfferedOn(n, p), t)
    BY <1>1, OurHello
  <2> QED BY <2>1, Zenon DEF Shown, Offering
<1> HIDE DEF v, w
<1>4. Said(v.exts) = Said(w.exts)
  BY <1>2, <1>3, SaidOfOffers
<1>5. stripGREASE(v.ciphers) = stripGREASE(w.ciphers)
  <2>1. stripGREASE(Suites(n, p, g)) = stripGREASE(Suites(n, p, h))
    BY <1>1, SuitesDrawn
  <2> QED BY <1>2, <1>3, <2>1
<1>6. Once(v.exts) /\ Once(w.exts) /\ v.version = w.version
  BY <1>2, <1>3 DEF Good
<1>8. ~Lib!Fails(v) /\ ~Lib!Fails(w)
  BY <1>2, <1>3, GoodIsReadable
<1>7. SameJA4(v, w)
  BY <1>4, <1>5, <1>6, <1>8, JA4IgnoresOrder DEF SameJA4
<1> QED BY <1>7, Zenon DEF v, w

LEMMA CapturedShape ==
    ASSUME NEW p \in Paths, NEW n \in DOMAIN Captured[p], NEW t \in BOOLEAN, NEW k, t => k,
           NEW wire, Good(wire.exts), ~Lib!Fails(wire),
           NEW g \in Own!Pairs, Offers(wire.exts) = Offering(n, p, t), wire.ciphers = Suites(n, p, g),
           NEW protocol
    PROVE  Matches(n, p, k, wire, Lib!ja4A(Lib!ParseClientHello(wire), protocol))
<1> DEFINE c == Lib!ParseClientHello(wire)
           X == wire.exts
           part == Lib!ja4A(c, protocol)
           psk == Cardinality(KeyPlaces(X))
           T == (1..SizeOf(n)) \ GapsOf(n)
           Holds(a, b, token) == FirstPart(wire, protocol) = <<a, b, token>>
           lone == {"max_app_psk", "chrome_152_psk"}
<1>1. ASSUME NEW a \in 0..99, NEW b \in 0..98, NEW list, NEW token, Len(stripGREASE(wire.ciphers)) = a,
             Has(X, b, list), Writes(list, token)
      PROVE  Holds(a, b, token)
  <2>1. FirstPart(wire, protocol) = <<a, b, token>>
    <3> HIDE DEF c, X, part, psk, T, Holds
    <3>1. Has(wire.exts, b, list)
      BY <1>1 DEF X
    <3>2. Len(stripGREASE(wire.ciphers)) \in 0..99 /\ Writes(list, token)
      BY <1>1
    <3>3. FirstPart(wire, protocol) = <<Len(stripGREASE(wire.ciphers)), b, token>>
      BY <3>1, <3>2, PartSays, Zenon
    <3> QED BY <1>1, <3>3
  <2> QED BY <2>1
<1>9. FirstPart(wire, protocol) = <<part[4], part[5] - psk, part[6]>>
  BY Zenon DEF FirstPart
<1>2. psk = (IF \E o \in Offers(X) : o[1] = 41 THEN 1 ELSE 0) /\ psk \in {0, 1}
  BY KeysAre
<1> HIDE DEF Holds, psk
<1>3. Writes(<<>>, h0) /\ Writes(OneProtocol, h1) /\ Writes(BothProtocols, h2) /\ Writes(QUICProtocol, h3)
  BY TokensAre DEF Writes
<1>13. ASSUME p = "tcp" PROVE psk \in IF n \in lone THEN {1} ELSE IF t THEN {0, 1} ELSE {0}
  <2>1. n \in KeyedNames
    BY <1>13, CapturedIs
  <2>2. /\ n \in lone => \E o \in Offers(X) : o[1] = 41
        /\ ~t /\ n \notin lone => \A o \in Offers(X) : o[1] # 41
    BY <1>13, <2>1, TCPShape
  <2>3. psk \in IF n \in lone THEN {1} ELSE IF t THEN {0, 1} ELSE {0}
    BY <1>2, <2>2
  <2> QED BY <2>3
<1>4. ASSUME p = "tcp"
      PROVE  FirstPart(wire, protocol) = Captured[p][n]
  <2>1. n \in KeyedNames
    BY <1>4, CapturedIs
  <2>2. Has(X, Cardinality(T), ProtocolsOf(n))
    BY <1>4, <2>1, TCPShape
  <2>3. Suites(n, p, g) = CiphersOf(n, g)
    BY <1>4, <2>1 DEF Suites
  <2> HIDE DEF T
  <2>4. CASE n = "node_24"
    <3>1. Cardinality(T) = 12 /\ ProtocolsOf(n) = OneProtocol /\ CiphersOf(n, g) = NodeCiphers
      BY <2>1, <2>4, TableSizes DEF T, ProtocolsOf, CiphersOf
    <3>2. Has(X, 12, OneProtocol) /\ Len(stripGREASE(wire.ciphers)) = 18
      BY <2>2, <2>3, <3>1, SuitesAre
    <3>3. Holds(18, 12, h1)
      BY <1>1, <1>3, <3>2
    <3>4. Captured[p][n] = <<18, 12, h1>>
      BY <1>4, <2>4, CapturedIs
    <3> QED BY <3>3, <3>4 DEF Holds
  <2>5. CASE n \in {"max_app", "max_app_psk"}
    <3>1. Cardinality(T) = 11 /\ ProtocolsOf(n) = <<>> /\ CiphersOf(n, g) = MaxCiphers
      BY <2>1, <2>5, TableSizes DEF T, ProtocolsOf, CiphersOf
    <3>2. Has(X, 11, <<>>) /\ Len(stripGREASE(wire.ciphers)) = 17
      BY <2>2, <2>3, <3>1, SuitesAre
    <3>3. Holds(17, 11, h0)
      BY <1>1, <1>3, <3>2
    <3>4. Captured[p][n] = <<17, 11, h0>>
      BY <1>4, <2>5, CapturedIs
    <3> QED BY <3>3, <3>4 DEF Holds
  <2>6. CASE n \in {"chrome_auto", "yandex_browser", "chrome_152", "chrome_152_psk", "chrome_155", "chrome_156"}
    <3>1. ProtocolsOf(n) = BothProtocols /\ CiphersOf(n, g) = ChromeCiphers(g)
      BY <2>6 DEF ProtocolsOf, CiphersOf
    <3>2. Len(stripGREASE(wire.ciphers)) = 15
      BY <2>3, <3>1, SuitesAre
    <3>3. ASSUME NEW b \in 0..98, Cardinality(T) = b PROVE Holds(15, b, h2)
      <4>1. Has(X, b, BothProtocols)
        BY <2>2, <3>1, <3>3
      <4>2. 15 \in 0..99
        OBVIOUS
      <4> QED BY <1>1, <1>3, <3>2, <4>1, <4>2, Zenon
    <3>4. CASE n \in {"chrome_auto", "yandex_browser"}
      <4>1. Cardinality(T) = 16
        BY <2>1, <3>4, TableSizes DEF T
      <4>2. Holds(15, 16, h2)
        BY <3>3, <4>1
      <4>3. Captured[p][n] = <<15, 16, h2>>
        BY <1>4, <3>4, CapturedIs
      <4> QED BY <4>2, <4>3 DEF Holds
    <3>5. CASE n \in {"chrome_152", "chrome_152_psk", "chrome_155"}
      <4>1. Cardinality(T) = 17
        BY <2>1, <3>5, TableSizes DEF T
      <4>2. Holds(15, 17, h2)
        BY <3>3, <4>1
      <4>3. Captured[p][n] = <<15, 17, h2>>
        BY <1>4, <3>5, CapturedIs
      <4> QED BY <4>2, <4>3 DEF Holds
    <3>6. CASE n = "chrome_156"
      <4>1. Cardinality(T) = 18
        BY <2>1, <3>6, TableSizes DEF T
      <4>2. Holds(15, 18, h2)
        BY <3>3, <4>1
      <4>3. Captured[p][n] = <<15, 18, h2>>
        BY <1>4, <3>6, CapturedIs
      <4> QED BY <4>2, <4>3 DEF Holds
    <3> QED BY <2>6, <3>4, <3>5, <3>6
  <2> QED BY <2>1, <2>4, <2>5, <2>6 DEF KeyedNames, Own!Shuffled
<1>5. ASSUME p = "ws"
      PROVE  (t \/ psk = 0) /\ n \notin lone /\ FirstPart(wire, protocol) = Captured[p][n]
  <2>1. n = "chrome_152" /\ Captured[p][n] = <<15, 16, h1>>
    BY <1>5, CapturedIs
  <2>2. Has(X, 16, OneProtocol) /\ (~t => \A o \in Offers(X) : o[1] # 41)
    BY <1>5, <2>1, WSShape
  <2>3. Suites(n, p, g) = ChromeCiphers(g)
    BY <1>5, <2>1 DEF Suites, CiphersOf, KeyedNames, Own!Shuffled
  <2>4. Len(stripGREASE(wire.ciphers)) = 15
    BY <2>3, SuitesAre
  <2>5. Holds(15, 16, h1)
    BY <1>1, <1>3, <2>2, <2>4
  <2> QED BY <1>2, <2>1, <2>2, <2>5 DEF Holds
<1>6. ASSUME p = "quic"
      PROVE  (t \/ psk = 0) /\ n \notin lone /\ FirstPart(wire, protocol) = Captured[p][n]
  <2>1. n \in {"chrome_156", "chrome_155", "chrome_152", "yandex_browser"} /\ Captured[p][n] = <<3, StackSize(n), h3>>
    BY <1>6, CapturedIs
  <2>2. Has(X, StackSize(n), QUICProtocol) /\ (~t => \A o \in Offers(X) : o[1] # 41)
    BY <1>6, QUICShape
  <2>3. Suites(n, p, g) = StackCiphers
    BY <1>6 DEF Suites
  <2>4. Len(stripGREASE(wire.ciphers)) = 3
    BY <2>3, SuitesAre
  <2>5. StackSize(n) \in 0..98
    BY DEF StackSize
  <2>6. Holds(3, StackSize(n), h3)
    <3>1. 3 \in 0..99
      OBVIOUS
    <3> QED BY <1>1, <1>3, <2>2, <2>4, <2>5, <3>1, Zenon
  <2> QED BY <1>2, <2>1, <2>2, <2>6 DEF Holds
<1>7. p = "tcp" \/ p = "ws" \/ p = "quic"
  BY DEF Paths
<1>8. psk \in IF n \in lone THEN {1} ELSE IF k THEN {0, 1} ELSE {0}
  <2>1. psk \in IF n \in lone THEN {1} ELSE IF t THEN {0, 1} ELSE {0}
    BY <1>2, <1>5, <1>6, <1>7, <1>13
  <2> QED BY <2>1
<1>11. <<part[4], part[5] - psk, part[6]>> = Captured[p][n]
  BY <1>4, <1>5, <1>6, <1>7, <1>9
<1>10. Keyed(n, k, psk)
  BY <1>8, Zenon DEF Keyed, lone
<1> QED BY <1>10, <1>11, Zenon DEF Matches, part, psk, X, c

\* The hello of the order of the spec, and of the first pair of GREASE values.
FirstPair == <<2570, 6682>>
InOrder(n) == [i \in Own!Slots(n, FirstPair) |-> i]
AsUnshuffled(n, p, t, wire) == SameJA4(Own!Hello(n, p, t, FirstPair, InOrder(n)), wire)

LEMMA SameOrder == ASSUME NEW S PROVE Own!Permutes([i \in S |-> i], S)
<1> DEFINE same == [i \in S |-> i]
<1>1. same \in [S -> S] /\ DOMAIN same = S /\ \A i \in S : same[i] = i
  OBVIOUS
<1> HIDE DEF same
<1>2. Own!IsInjective(same) /\ \A i \in S : \E j \in S : same[j] = i
  BY <1>1 DEF Own!IsInjective
<1>3. Own!Permutes(same, S)
  BY <1>1, <1>2, Zenon DEF Own!Permutes
<1> QED BY <1>3, Zenon DEF same

LEMMA Unshuffled ==
    ASSUME NEW n, NEW p \in Paths, NEW t, NEW g, NEW order, Drawable(n, g, order)
    PROVE  AsUnshuffled(n, p, t, Own!Hello(n, p, t, g, order))
<1>1. FirstPair \in Own!Pairs
  BY DEF Own!Pairs, FirstPair
<1>2. Own!Permutes(InOrder(n), Own!Slots(n, FirstPair))
  BY SameOrder, Zenon DEF InOrder
<1>3. Drawable(n, FirstPair, InOrder(n))
  BY <1>1, <1>2, Zenon DEF Drawable
<1>4. SameJA4(Own!Hello(n, p, t, FirstPair, InOrder(n)), Own!Hello(n, p, t, g, order))
  BY <1>3, SameFingerprint, Zenon
<1> QED BY <1>4, Zenon DEF AsUnshuffled

\* A hello that is written keeps the shape of its name, on every path.
AsCaptured(n, p, k, wire) ==
    n \in DOMAIN Captured[p] =>
        Matches(n, p, k, wire, IF p = "quic" THEN Lib!JA4QUIC(Lib!ParseClientHello(wire))[1]
                            ELSE Lib!JA4(Lib!ParseClientHello(wire))[1])

LEMMA WrittenShape ==
    ASSUME NEW n, NEW p \in Paths, NEW t \in BOOLEAN, NEW k, t => k,
           NEW g, NEW order, Drawable(n, g, order), NEW wire, wire = Own!Hello(n, p, t, g, order)
    PROVE  /\ Readable(wire) /\ WellFormed(wire) /\ Good(wire.exts)
           /\ AsUnshuffled(n, p, t, wire) /\ AsCaptured(n, p, k, wire)
<1>1. g \in Own!Pairs /\ Own!Permutes(order, Own!Slots(n, g)) /\ p \in {"tcp", "ws", "quic"}
  BY Zenon DEF Drawable, Paths
<1>2. /\ wire.ciphers = Suites(n, p, g) /\ wire.tail = FALSE
      /\ Good(wire.exts) /\ Offers(wire.exts) = Offering(n, p, t)
  <2>1. Shown(wire, Suites(n, p, g), OfferedOn(n, p), t)
    BY <1>1, OurHello
  <2> QED BY <2>1, Zenon DEF Shown, Offering
<1>3. Readable(wire) /\ WellFormed(wire) /\ ~Lib!Fails(wire)
  BY <1>2, GoodIsReadable
<1>4. AsUnshuffled(n, p, t, wire)
  BY Unshuffled, Zenon
<1>5. ASSUME n \in DOMAIN Captured[p] PROVE AsCaptured(n, p, k, wire)
  <2> DEFINE c == Lib!ParseClientHello(wire)
  <2>1. ASSUME NEW protocol PROVE Matches(n, p, k, wire, Lib!ja4A(c, protocol))
    BY <1>1, <1>2, <1>3, <1>5, CapturedShape, Zenon
  <2>2. Lib!JA4QUIC(c)[1] = Lib!ja4A(c, "q") /\ Lib!JA4(c)[1] = Lib!ja4A(c, "t")
    <3> HIDE DEF c
    <3> QED BY DEF Lib!JA4QUIC, Lib!JA4
  <2> HIDE DEF c
  <2>3. Matches(n, p, k, wire, Lib!JA4QUIC(c)[1]) /\ Matches(n, p, k, wire, Lib!JA4(c)[1])
    <3>1. Matches(n, p, k, wire, Lib!ja4A(c, "q")) /\ Matches(n, p, k, wire, Lib!ja4A(c, "t"))
      BY <2>1
    <3> QED BY <2>2, <3>1, Zenon
  <2>4. Matches(n, p, k, wire, IF p = "quic" THEN Lib!JA4QUIC(c)[1] ELSE Lib!JA4(c)[1])
    BY <2>3, Zenon
  <2> QED BY <2>4, Zenon DEF AsCaptured, c
<1>6. AsCaptured(n, p, k, wire)
  BY <1>5, Zenon DEF AsCaptured
<1> QED BY <1>2, <1>3, <1>4, <1>6, Zenon

\* The last hello is a stranger's, or one that a connection of this name writes.
OursInv ==
    program = "hello" =>
        /\ name \in Names /\ path \in Paths /\ ticket \in BOOLEAN
        /\ hello \in Strangers \/ OneOfOurs(name, path, ticket, hello)

LEMMA OursInit == StandsInit => OursInv
<1> SUFFICES ASSUME StandsInit, program = "hello" PROVE OursInv
  BY DEF OursInv
<1>1. Own!Init
  BY DEF StandsInit
<1> QED BY <1>1 DEF Own!Init, OursInv, Paths

LEMMA OursNext == OursInv /\ [StandsNext]_standsVars => OursInv'
<1> SUFFICES ASSUME OursInv, [StandsNext]_standsVars PROVE OursInv'
  OBVIOUS
<1>1. CASE HelloNext
  <2>1. program = "hello" /\ program' = "hello"
    BY <1>1 DEF HelloNext
  <2>2. PICK g \in Own!Pairs : \E order \in Orders[Own!Slots(name, g)] : Own!Connect(g, order)
    BY <1>1 DEF HelloNext, Own!Next
  <2>3. PICK order \in Orders[Own!Slots(name, g)] : Own!Connect(g, order)
    BY <2>2
  <2>4. name \in Names /\ path \in Paths /\ ticket \in BOOLEAN
    BY <2>1 DEF OursInv
  <2>5. Drawable(name, g, order)
    BY <2>4, OrdersAssumption, Zenon DEF Drawable
  <2>6. hello' = Own!Hello(name, path, ticket, g, order)
    BY <2>3, Zenon DEF Own!Connect
  <2>7. name' = name /\ path' = path /\ ticket' \in BOOLEAN /\ (ticket => ticket')
    BY <2>3, <2>4 DEF Own!Connect
  <2>8. OneOfOurs(name, path, ticket', hello')
    BY <2>4, <2>5, <2>6, <2>7, Zenon DEF OneOfOurs
  <2>9. OneOfOurs(name', path', ticket', hello')
    BY <2>7, <2>8, Zenon
  <2> QED BY <2>4, <2>7, <2>9, Zenon DEF OursInv
<1>2. CASE FpdNext \/ H3Next
  BY <1>2 DEF FpdNext, H3Next, OursInv
<1>3. CASE UNCHANGED standsVars
  BY <1>3 DEF standsVars, helloOnly, OursInv, OneOfOurs
<1> QED BY <1>1, <1>2, <1>3 DEF StandsNext

\* A hello of ours can be read, has the shape that was captured for its name,
\* with its pre_shared_key at the end, which is there only with a ticket (or was
\* captured), and on every connection the fingerprint of the name, for every
\* order that rand.Shuffle may draw and each pair of GREASE values (spec152.go,
\* spec_*.go, quic_shape.go, websocket.go:183, http3.go:149-152).
THEOREM HelloShape == StandsSpec => []HelloKeepsShape
<1>1. OursInv => HelloKeepsShape
  <2> SUFFICES ASSUME OursInv, program = "hello", hello \notin Strangers PROVE HelloKeepsShape
    BY DEF HelloKeepsShape, Own!Own
  <2>1. /\ path \in Paths /\ OneOfOurs(name, path, ticket, hello)
    BY DEF OursInv
  <2>2. PICK t \in BOOLEAN : \E g, order :
            (t => ticket) /\ Drawable(name, g, order) /\ hello = Own!Hello(name, path, t, g, order)
    BY <2>1, Zenon DEF OneOfOurs
  <2>3. PICK g, order : (t => ticket) /\ Drawable(name, g, order) /\ hello = Own!Hello(name, path, t, g, order)
    BY <2>2
  <2>4. /\ Readable(hello) /\ WellFormed(hello) /\ Good(hello.exts)
        /\ AsUnshuffled(name, path, t, hello) /\ AsCaptured(name, path, ticket, hello)
    BY <2>1, <2>3, WrittenShape, Zenon
  <2>5. Own!PSKIsLast
    BY <2>4, Zenon DEF Own!PSKIsLast, Good
  <2>6. \E u \in BOOLEAN : AsUnshuffled(name, path, u, hello)
    BY <2>4
  <2>7. HelloKeepsShape <=>
          (program = "hello" /\ Own!Own =>
             /\ Readable(hello) /\ WellFormed(hello) /\ Own!PSKIsLast
             /\ \E u \in BOOLEAN : AsUnshuffled(name, path, u, hello)
             /\ AsCaptured(name, path, ticket, hello))
    BY Zenon DEF HelloKeepsShape, AsUnshuffled, AsCaptured, SameJA4, Matches, Keyed, KeyPlaces, Read,
                 FirstPair, InOrder
  <2> QED BY <2>4, <2>5, <2>6, <2>7, Zenon
<1> QED BY <1>1, OursInit, OursNext, PTL DEF StandsSpec

==============================================================================
