----------------------------- MODULE CallersProofs -----------------------------
(***************************************************************************)
(* What is proved of the calls. For any number of handlers, any requests   *)
(* and timeouts and any bound of fetchd's pool, it is the clients made     *)
(* last; a call runs with the settings it asked for, where the fields of a *)
(* request hold no separator of the key; and a client leaves the pool      *)
(* without its idle connections, unless its profile is exact. For every    *)
(* bound of a dial and of a context a call on its own connection lets go   *)
(* of it; for every body of a forward the upstream's answer is closed      *)
(* once; for every plan, however many sessions walk it over one cache, a   *)
(* page is asked for as a browser asks for it.                             *)
(***************************************************************************)
EXTENDS Callers, TLAPS, SequenceTheorems, FiniteSetTheorems, WellFoundedInduction

------------------------------------------------------------------------------
(* The pool of fetchd.                                                       *)

\* The pool is well formed: the keys of the order are keys of the map.
PoolTyped ==
    /\ made \in Nat
    /\ clientOrder \in Seq(DOMAIN clients)
    /\ PoolIsLatest

\* Appending to the order and dropping its head, by their elements.
LEMMA AppendTail ==
    ASSUME NEW S, NEW s \in Seq(S), NEW e
    PROVE  /\ Append(s, e) \in Seq(S \cup {e})
           /\ Len(Append(s, e)) = Len(s) + 1
           /\ \A j \in 1..Len(s) : Append(s, e)[j] = s[j]
           /\ Append(s, e)[Len(s) + 1] = e
           /\ Tail(Append(s, e)) \in Seq(S \cup {e})
           /\ Len(Tail(Append(s, e))) = Len(s)
           /\ \A j \in 1..Len(s) : Tail(Append(s, e))[j] = Append(s, e)[j + 1]
           /\ Head(Append(s, e)) = Append(s, e)[1]
<1> DEFINE a == Append(s, e)
<1>1. s \in Seq(S \cup {e}) /\ Len(s) \in Nat
  OBVIOUS
<1>2. a \in Seq(S \cup {e}) /\ Len(a) = Len(s) + 1
  BY <1>1
<1>3. (\A j \in 1..Len(s) : a[j] = s[j]) /\ a[Len(s) + 1] = e
  BY <1>1
<1>4. Tail(a) \in Seq(S \cup {e}) /\ Len(Tail(a)) = Len(s)
  <2> HIDE DEF a
  <2>1. a # <<>>
    BY <1>1, <1>2
  <2> QED BY <1>1, <1>2, <2>1
<1>5. \A j \in 1..Len(s) : Tail(a)[j] = a[j + 1]
  <2> HIDE DEF a
  <2> QED BY <1>1, <1>2, <1>4
<1>6. Head(a) = a[1]
  <2> HIDE DEF a
  <2> QED BY <1>2
<1> QED BY <1>2, <1>3, <1>4, <1>5, <1>6

\* A new client leaves the pool the clients made last.
LEMMA MissKeepsPool ==
    ASSUME PoolTyped, NEW c \in Calls, NEW r \in Requests, Miss(c, r)
    PROVE  PoolTyped'
<1> DEFINE key == CacheKey(r)
           n == Len(clientOrder)
           order == Append(clientOrder, key)
<1>1. /\ made \in Nat /\ n \in Nat /\ MaxPooled \in Nat /\ MaxPooled >= 1
      /\ clientOrder \in Seq(DOMAIN clients)
      /\ key \notin DOMAIN clients
      /\ made' = made + 1
  BY PoolAssumption DEF PoolTyped, Miss
<1>2. /\ n = (IF made < MaxPooled THEN made ELSE MaxPooled)
      /\ DOMAIN clients = {clientOrder[j] : j \in 1..n}
      /\ \A j \in 1..n : clients[clientOrder[j]] = made - n + j
      /\ \A j \in 1..n : clientOrder[j] \in DOMAIN clients
  BY DEF PoolTyped, PoolIsLatest
<1>3. /\ order \in Seq(DOMAIN clients \cup {key})
      /\ Len(order) = n + 1
      /\ \A j \in 1..n : order[j] = clientOrder[j]
      /\ order[n + 1] = key
      /\ Tail(order) \in Seq(DOMAIN clients \cup {key})
      /\ Len(Tail(order)) = n
      /\ \A j \in 1..n : Tail(order)[j] = order[j + 1]
      /\ Head(order) = order[1]
  <2> HIDE DEF key
  <2> QED BY <1>1, AppendTail
<1>4. PoolClient(key)
  BY DEF Miss
<1> HIDE DEF key, order
<1>5. CASE n < MaxPooled
  <2>1. /\ clientOrder' = order
        /\ clients' = [k \in DOMAIN clients \cup {key} |->
                         IF k = key THEN made + 1 ELSE clients[k]]
    BY <1>1, <1>3, <1>4, <1>5 DEF PoolClient, order
  <2>2. n = made
    BY <1>1, <1>2, <1>5
  <2>3. Len(clientOrder') = made'
    BY <1>1, <1>3, <2>1, <2>2
  <2>4. DOMAIN clients' = {clientOrder'[j] : j \in 1..(n + 1)}
    <3>1. DOMAIN clients' = DOMAIN clients \cup {key}
      BY <2>1
    <3>2. ASSUME NEW k \in DOMAIN clients \cup {key}
          PROVE  \E j \in 1..(n + 1) : k = order[j]
      <4>1. CASE k = key
        BY <1>1, <1>3, <4>1
      <4>2. CASE k # key
        <5>1. PICK j \in 1..n : k = clientOrder[j]
          BY <1>2, <3>2, <4>2
        <5>2. j \in 1..(n + 1) /\ order[j] = clientOrder[j]
          BY <1>1, <1>3, <5>1
        <5> QED BY <5>1, <5>2
      <4> QED BY <4>1, <4>2
    <3>3. ASSUME NEW j \in 1..(n + 1)
          PROVE  order[j] \in DOMAIN clients \cup {key}
      BY <1>1, <1>2, <1>3, SMTT(40)
    <3> QED BY <3>1, <3>2, <3>3, <2>1
  <2>5. ASSUME NEW j \in 1..(n + 1)
        PROVE  clients'[clientOrder'[j]] = j
    <3>1. CASE j = n + 1
      BY <1>3, <2>1, <2>2, <3>1
    <3>2. CASE j # n + 1
      <4>1. j \in 1..n
        BY <1>1, <3>2
      <4>2. order[j] \in DOMAIN clients /\ order[j] # key
        BY <1>1, <1>2, <1>3, <4>1
      <4>3. clients'[order[j]] = clients[clientOrder[j]]
        BY <1>3, <2>1, <4>1, <4>2
      <4>4. clients[clientOrder[j]] = j
        <5>1. clients[clientOrder[j]] = made - n + j
          BY <1>2, <4>1
        <5> QED BY <1>1, <2>2, <4>1, <5>1
      <4> QED BY <2>1, <4>3, <4>4
    <3> QED BY <3>1, <3>2
  <2>6. clientOrder' \in Seq(DOMAIN clients')
    BY <1>3, <2>1
  <2>7. Len(clientOrder') = n + 1 /\ made' \in Nat /\ made' <= MaxPooled
    BY <1>1, <1>5, <2>2, <2>3
  <2>8. PoolIsLatest'
    BY <1>1, <2>2, <2>3, <2>4, <2>5, <2>7 DEF PoolIsLatest
  <2> QED BY <2>6, <2>7, <2>8 DEF PoolTyped
<1>6. CASE n = MaxPooled
  <2> DEFINE oldest == clientOrder[1]
             next == Tail(order)
  <2>1. Head(order) = oldest /\ oldest \in DOMAIN clients /\ oldest # key
    <3>1. 1 \in 1..n
      BY <1>1, <1>6
    <3>2. order[1] = clientOrder[1] /\ clientOrder[1] \in DOMAIN clients
      BY <1>2, <1>3, <3>1
    <3> QED BY <1>1, <1>3, <3>2
  <2>2. /\ clientOrder' = next
        /\ clients' = [k \in (DOMAIN clients \cup {key}) \ {oldest} |->
                         IF k = key THEN made + 1 ELSE clients[k]]
    BY <1>1, <1>3, <1>4, <1>6, <2>1 DEF PoolClient, order
  <2>3. Len(next) = n /\ next[n] = key
    BY <1>1, <1>3, <1>6
  <2>4. ASSUME NEW j \in 1..n, j # n
        PROVE  /\ next[j] = clientOrder[j + 1]
               /\ next[j] \in DOMAIN clients
               /\ next[j] # key /\ next[j] # oldest
               /\ clients[next[j]] = made - n + j + 1
    <3>1. j + 1 \in 1..n /\ 1 \in 1..n /\ j + 1 # 1
      BY <1>1, <2>4
    <3>2. next[j] = clientOrder[j + 1]
      BY <1>1, <1>3, <3>1
    <3>3. clients[next[j]] = made - n + (j + 1)
      BY <1>2, <3>1, <3>2
    <3>4. clients[oldest] = made - n + 1
      BY <1>2, <3>1
    <3>5. clients[next[j]] # clients[oldest]
      BY <1>1, <3>1, <3>3, <3>4
    <3>6. next[j] \in DOMAIN clients
      BY <1>2, <3>1, <3>2
    <3>7. made - n + (j + 1) = made - n + j + 1
      BY <1>1
    <3>8. next[j] # key /\ next[j] # oldest
      BY <1>1, <3>5, <3>6
    <3> QED BY <3>2, <3>3, <3>6, <3>7, <3>8
  <2> HIDE DEF next
  <2>5. DOMAIN clients' = {next[j] : j \in 1..n}
    <3>1. ASSUME NEW k \in (DOMAIN clients \cup {key}) \ {oldest}
          PROVE  \E j \in 1..n : k = next[j]
      <4>1. CASE k = key
        BY <1>1, <1>6, <2>3, <4>1
      <4>2. CASE k # key
        <5>1. PICK i \in 1..n : k = clientOrder[i]
          BY <1>2, <4>2
        <5>2. i # 1
          BY <5>1
        <5>3. i - 1 \in 1..n /\ i - 1 # n /\ (i - 1) + 1 = i
          BY <1>1, <5>1, <5>2
        <5> QED BY <2>4, <5>1, <5>3
      <4> QED BY <4>1, <4>2
    <3>2. ASSUME NEW j \in 1..n
          PROVE  next[j] \in (DOMAIN clients \cup {key}) \ {oldest}
      BY <2>1, <2>3, <2>4
    <3>3. DOMAIN clients' = (DOMAIN clients \cup {key}) \ {oldest}
      BY <2>2
    <3> QED BY <3>1, <3>2, <3>3
  <2>6. ASSUME NEW j \in 1..n
        PROVE  clients'[next[j]] = made' - n + j
    <3>1. CASE j = n
      <4>1. clients'[key] = made + 1
        BY <2>1, <2>2
      <4> QED BY <1>1, <2>3, <3>1, <4>1
    <3>2. CASE j # n
      <4>1. clients'[next[j]] = clients[next[j]]
        BY <2>2, <2>4, <3>2
      <4>2. clients[next[j]] = made - n + j + 1
        BY <2>4, <3>2
      <4> QED BY <1>1, <4>1, <4>2
    <3> QED BY <3>1, <3>2
  <2>7. clientOrder' \in Seq(DOMAIN clients')
    <3>1. next \in Seq(DOMAIN clients \cup {key})
      BY <1>3 DEF next
    <3>2. next \in [1..n -> DOMAIN clients \cup {key}]
      BY <2>3, <3>1
    <3>3. \A j \in 1..n : next[j] \in DOMAIN clients'
      BY <2>5
    <3>4. next \in [1..n -> DOMAIN clients']
      BY <3>2, <3>3
    <3> QED BY <1>1, <2>2, <3>4
  <2>8. made' >= MaxPooled /\ made' \in Nat
    BY <1>1, <1>2, <1>6
  <2>9. Len(clientOrder') = n
    BY <2>2, <2>3
  <2>10. PoolIsLatest'
    <3>1. Len(clientOrder') = (IF made' < MaxPooled THEN made' ELSE MaxPooled)
      BY <1>1, <1>6, <2>8, <2>9
    <3>2. DOMAIN clients' = {clientOrder'[j] : j \in 1..Len(clientOrder')}
      BY <2>2, <2>5, <2>9
    <3>3. \A j \in 1..Len(clientOrder') :
            clients'[clientOrder'[j]] = made' - Len(clientOrder') + j
      BY <2>2, <2>6, <2>9
    <3> QED BY <3>1, <3>2, <3>3 DEF PoolIsLatest
  <2> QED BY <2>7, <2>8, <2>10 DEF PoolTyped
<1>7. n < MaxPooled \/ n = MaxPooled
  BY <1>1, <1>2
<1> QED BY <1>5, <1>6, <1>7

LEMMA PoolStep == PoolTyped /\ [Next]_vars => PoolTyped'
<1> SUFFICES ASSUME PoolTyped, [Next]_vars
             PROVE  PoolTyped'
  OBVIOUS
<1>1. UNCHANGED poolVars => PoolTyped'
  BY DEF poolVars, PoolTyped, PoolIsLatest
<1>2. ASSUME NEW c \in Calls, NEW r \in Requests, Hit(c, r)
      PROVE  PoolTyped'
  BY <1>1, <1>2 DEF Hit
<1>3. ASSUME NEW c \in Calls, NEW r \in Requests, Miss(c, r)
      PROVE  PoolTyped'
  BY <1>3, MissKeepsPool
<1>4. ASSUME NEW c \in Calls, Do(c) \/ Done(c)
      PROVE  PoolTyped'
  BY <1>1, <1>4 DEF Do, Done
<1>5. ASSUME NEW i \in 1..MaxClients, IdleConnTimeout(i)
      PROVE  PoolTyped'
  BY <1>1, <1>5 DEF IdleConnTimeout
<1>6. ASSUME UNCHANGED vars
      PROVE  PoolTyped'
  BY <1>1, <1>6 DEF vars
<1> QED BY <1>2, <1>3, <1>4, <1>5, <1>6 DEF Next

LEMMA PoolInit == Init \/ FetchdIdle => PoolTyped
<1> SUFFICES ASSUME Init \/ FetchdIdle PROVE PoolTyped
  OBVIOUS
<1>1. clientOrder = <<>> /\ Len(clientOrder) = 0 /\ made = 0 /\ 0 < MaxPooled
  BY PoolAssumption DEF Init, FetchdIdle
<1>2. DOMAIN clients = {}
  BY DEF Init, FetchdIdle
<1>3. clientOrder \in Seq(DOMAIN clients) /\ 1..0 = {}
  BY <1>1, <1>2
<1> QED BY <1>1, <1>2, <1>3 DEF PoolTyped, PoolIsLatest

\* A behaviour of the callers begins and goes on, for the pool, as one of its
\* own or not at all.
LEMMA PoolBegins == CallersInit => Init \/ FetchdIdle
BY DEF CallersInit

LEMMA PoolMoves == [CallersNext]_callersVars => [Next]_vars
BY DEF CallersNext, FetchdNext, WireRest, GatewayNext, PlanNext, callersVars

\* The pool is always the last MaxPooled clients made, in the order of making:
\* poolClient (main.go:89-106) keeps its map and its order in step.
THEOREM PoolIsTheLatest == CallersSpec => []PoolIsLatest
<1>1. PoolTyped => PoolIsLatest
  BY DEF PoolTyped
<1> QED BY <1>1, PoolBegins, PoolMoves, PoolInit, PoolStep, PTL DEF CallersSpec

------------------------------------------------------------------------------
(* The text of a key and what it tells.                                    *)

\* A set of numbers with 0 and the successor of each of its own has them all.
LEMMA Climb ==
    ASSUME NEW T, 0 \in T, \A n \in Nat : n \in T => n + 1 \in T
    PROVE  Nat \subseteq T
<1> DEFINE R == OpToRel(<, Nat)
           S == Nat \ T
<1>1. IsWellFoundedOn(R, Nat)
  BY NatLessThanWellFounded
<1>2. \A x, y \in Nat : <<y, x>> \in R <=> y < x
  BY DEF OpToRel
<1> HIDE DEF R
<1>3. SUFFICES ASSUME S # {} PROVE FALSE
  OBVIOUS
<1>4. PICK x \in S : \A y \in S : ~(<<y, x>> \in R)
  <2>1. S \subseteq Nat
    OBVIOUS
  <2> HIDE DEF S
  <2> QED BY <1>1, <1>3, <2>1, WFMin, Zenon
<1>5. x # 0 /\ x - 1 \in Nat /\ x - 1 < x /\ (x - 1) + 1 = x
  BY <1>4
<1>6. x - 1 \in T
  BY <1>2, <1>4, <1>5
<1> QED BY <1>4, <1>5, <1>6

\* Two texts one after the other.
Chain(w, p, q) ==
    /\ w \in Seq(Nat) /\ Len(w) = Len(p) + Len(q)
    /\ \A i \in 1..Len(p) : w[i] = p[i]
    /\ \A i \in 1..Len(q) : w[Len(p) + i] = q[i]

LEMMA Chained ==
    ASSUME NEW p \in Seq(Nat), NEW q \in Seq(Nat)
    PROVE  Chain(p \o q, p, q)
<1> DEFINE w == p \o q
<1>1. w \in Seq(Nat) /\ Len(w) = Len(p) + Len(q)
  BY ConcatProperties, Zenon
<1>2. \A i \in 1..Len(p) + Len(q) : w[i] = IF i <= Len(p) THEN p[i] ELSE q[i - Len(p)]
  BY ConcatProperties, Zenon
<1> HIDE DEF w
<1>3. Len(p) \in Nat /\ Len(q) \in Nat
  OBVIOUS
<1>4. ASSUME NEW i \in 1..Len(p) PROVE w[i] = p[i]
  <2>1. i \in 1..Len(p) + Len(q) /\ i <= Len(p)
    BY <1>3
  <2> QED BY <1>2, <2>1
<1>5. ASSUME NEW i \in 1..Len(q) PROVE w[Len(p) + i] = q[i]
  <2>1. Len(p) + i \in 1..Len(p) + Len(q) /\ ~(Len(p) + i <= Len(p)) /\ (Len(p) + i) - Len(p) = i
    BY <1>3
  <2> QED BY <1>2, <2>1
<1> QED BY <1>1, <1>4, <1>5 DEF w, Chain

\* The text s is p, the mark b and q.
Cut(s, p, b, q) ==
    /\ s \in Seq(Nat) /\ Len(s) = Len(p) + 1 + Len(q)
    /\ \A i \in 1..Len(p) : s[i] = p[i]
    /\ s[Len(p) + 1] = b
    /\ \A i \in 1..Len(q) : s[Len(p) + 1 + i] = q[i]

LEMMA Joined ==
    ASSUME NEW p \in Seq(Nat), NEW q \in Seq(Nat), NEW b \in Nat
    PROVE  Cut(p \o <<b>> \o q, p, b, q)
<1> DEFINE t == p \o <<b>>
<1>1. /\ t \in Seq(Nat) /\ Len(t) = Len(p) + 1 /\ t[Len(p) + 1] = b
      /\ \A i \in 1..Len(p) : t[i] = p[i]
  OBVIOUS
<1> HIDE DEF t
<1>2. /\ t \o q \in Seq(Nat) /\ Len(t \o q) = Len(t) + Len(q)
      /\ \A i \in 1..Len(t) : (t \o q)[i] = t[i]
      /\ \A i \in 1..Len(q) : (t \o q)[Len(t) + i] = q[i]
  <2> DEFINE w == t \o q
  <2>1. Chain(w, t, q)
    BY <1>1, Chained, Zenon
  <2> HIDE DEF w
  <2>2. w = t \o q
    BY DEF w
  <2> QED BY <2>1, <2>2, Zenon DEF Chain
<1>3. Len(p) \in Nat /\ Len(q) \in Nat
  OBVIOUS
<1>4. /\ \A i \in 1..Len(p) : (t \o q)[i] = p[i]
      /\ (t \o q)[Len(p) + 1] = b
      /\ \A i \in 1..Len(q) : (t \o q)[Len(p) + 1 + i] = q[i]
  <2>1. ASSUME NEW i \in 1..Len(p) PROVE (t \o q)[i] = p[i]
    <3>1. i \in 1..Len(t)
      BY <1>1, <1>3
    <3> QED BY <1>1, <1>2, <3>1
  <2>2. Len(p) + 1 \in 1..Len(t)
    BY <1>1, <1>3
  <2> QED BY <1>1, <1>2, <2>1, <2>2
<1> QED BY <1>1, <1>2, <1>4 DEF t, Cut

\* A text is cut in one way at its last mark.
LEMMA CutAtTheLast ==
    ASSUME NEW s, NEW b \in Nat,
           NEW p \in Seq(Nat), NEW q \in Seq(Nat), NEW u \in Seq(Nat), NEW v \in Seq(Nat),
           Cut(s, p, b, q), Cut(s, u, b, v), Without(q, b), Without(v, b)
    PROVE  p = u /\ q = v
<1>1. Cut(s, p, b, q)
  OBVIOUS
<1>2. Cut(s, u, b, v)
  OBVIOUS
<1>3. {Len(p), Len(q), Len(u), Len(v)} \subseteq Nat
  OBVIOUS
<1>4. \A i \in 1..Len(q) : q[i] # b
  BY DEF Without
<1>5. \A i \in 1..Len(v) : v[i] # b
  BY DEF Without
<1>0. Len(p) + 1 + Len(q) = Len(u) + 1 + Len(v)
  BY <1>1, <1>2, Zenon DEF Cut
<1>6. ~(Len(p) < Len(u))
  <2>1. SUFFICES ASSUME Len(p) < Len(u) PROVE FALSE
    OBVIOUS
  <2> DEFINE i == Len(u) - Len(p)
  <2>2. i \in 1..Len(q) /\ Len(p) + 1 + i = Len(u) + 1
    BY <1>0, <1>3, <2>1
  <2> HIDE DEF i
  <2>3. s[Len(p) + 1 + i] = q[i] /\ q[i] # b /\ s[Len(u) + 1] = b
    BY <1>1, <1>2, <1>4, <2>2, Zenon DEF Cut
  <2> QED BY <2>2, <2>3, Zenon
<1>7. ~(Len(u) < Len(p))
  <2>1. SUFFICES ASSUME Len(u) < Len(p) PROVE FALSE
    OBVIOUS
  <2> DEFINE i == Len(p) - Len(u)
  <2>2. i \in 1..Len(v) /\ Len(u) + 1 + i = Len(p) + 1
    BY <1>0, <1>3, <2>1
  <2> HIDE DEF i
  <2>3. s[Len(u) + 1 + i] = v[i] /\ v[i] # b /\ s[Len(p) + 1] = b
    BY <1>1, <1>2, <1>5, <2>2, Zenon DEF Cut
  <2> QED BY <2>2, <2>3, Zenon
<1>8. Len(p) = Len(u) /\ Len(q) = Len(v)
  BY <1>0, <1>3, <1>6, <1>7
<1>9. \A i \in 1..Len(p) : p[i] = u[i]
  BY <1>1, <1>2, <1>8, Zenon DEF Cut
<1>10. \A i \in 1..Len(q) : q[i] = v[i]
  BY <1>1, <1>2, <1>8, Zenon DEF Cut
<1> QED BY <1>8, <1>9, <1>10, SeqEqual

\* A text of pieces: each is the host, the mark, the address and the comma.
Piece(h, a) == h \o <<Is>> \o a \o <<Comma>>

\* Every text of pieces is there, piece after piece.
LEMMA TextOfPieces ==
    ASSUME NEW N \in Nat, NEW P \in [1..N -> Seq(Nat)]
    PROVE  \E g \in [0..N -> Seq(Nat)] :
               g = [n \in 0..N |-> IF n = 0 THEN <<>> ELSE g[n - 1] \o P[n]]
<1> DEFINE Begun(g, m) == g[0] = <<>> /\ \A n \in 1..m : g[n] = g[n - 1] \o P[n]
           T == {m \in Nat : m <= N => \E g \in [0..m -> Seq(Nat)] : Begun(g, m)}
<1>1. 0 \in T
  <2> DEFINE g == [n \in 0..0 |-> <<>>]
  <2>1. g \in [0..0 -> Seq(Nat)] /\ Begun(g, 0)
    OBVIOUS
  <2> QED BY <2>1
<1>2. ASSUME NEW m \in Nat, m \in T PROVE m + 1 \in T
  <2>0. SUFFICES ASSUME m + 1 <= N
                 PROVE  \E g \in [0..(m + 1) -> Seq(Nat)] : Begun(g, m + 1)
    <3> HIDE DEF Begun
    <3> QED OBVIOUS
  <2>1. m <= N /\ m + 1 \in 1..N /\ m \in 0..m
    BY <2>0
  <2>2. PICK f \in [0..m -> Seq(Nat)] : Begun(f, m)
    <3> HIDE DEF Begun
    <3> QED BY <1>2, <2>1
  <2> DEFINE g == [n \in 0..(m + 1) |-> IF n <= m THEN f[n] ELSE f[m] \o P[m + 1]]
  <2>3. P[m + 1] \in Seq(Nat) /\ f[m] \in Seq(Nat)
    BY <2>1
  <2>4. f[m] \o P[m + 1] \in Seq(Nat)
    BY <2>3
  <2>5. g \in [0..(m + 1) -> Seq(Nat)]
    BY <2>4
  <2>6. g[0] = <<>>
    BY <2>2
  <2>7. ASSUME NEW n \in 1..(m + 1) PROVE g[n] = g[n - 1] \o P[n]
    <3>1. CASE n <= m
      <4>1. n \in 1..m /\ n - 1 \in 0..m /\ n \in 0..(m + 1) /\ n - 1 \in 0..(m + 1) /\ n - 1 <= m
        BY <3>1
      <4>2. g[n] = f[n] /\ g[n - 1] = f[n - 1]
        BY <3>1, <4>1
      <4> HIDE DEF g
      <4> QED BY <2>2, <4>1, <4>2, Zenon
    <3>2. CASE n = m + 1
      <4>1. n \in 0..(m + 1) /\ m \in 0..(m + 1) /\ ~(n <= m) /\ n - 1 = m /\ m <= m
        BY <3>2
      <4>2. g[n] = f[m] \o P[m + 1] /\ g[n - 1] = f[m]
        BY <4>1
      <4> HIDE DEF g
      <4>3. P[n] = P[m + 1]
        BY <3>2
      <4> QED BY <4>2, <4>3
    <3>3. n <= m \/ n = m + 1
      OBVIOUS
    <3> HIDE DEF g
    <3> QED BY <3>1, <3>2, <3>3, Zenon
  <2> HIDE DEF g
  <2>8. Begun(g, m + 1)
    BY <2>6, <2>7
  <2> HIDE DEF Begun
  <2> QED BY <2>5, <2>8
<1>3. N \in T
  <2> HIDE DEF T
  <2> QED BY <1>1, <1>2, Climb
<1>4. PICK g \in [0..N -> Seq(Nat)] : Begun(g, N)
  <2>1. N <= N
    OBVIOUS
  <2> HIDE DEF Begun
  <2> QED BY <1>3, <2>1
<1>5. ASSUME NEW n \in 0..N PROVE g[n] = IF n = 0 THEN <<>> ELSE g[n - 1] \o P[n]
  <2>1. n = 0 \/ n \in 1..N
    OBVIOUS
  <2> QED BY <1>4, <2>1, Zenon
<1>6. g = [n \in 0..N |-> g[n]]
  OBVIOUS
<1> QED BY <1>5, <1>6

\* The hosts in their order: each of them is in it.
LEMMA SortedHosts ==
    ASSUME NEW S, IsFiniteSet(S)
    PROVE  /\ Cardinality(S) \in Nat
           /\ sortStrings(S) \in [1..Cardinality(S) -> S]
           /\ \A h \in S : \E i \in 1..Cardinality(S) : sortStrings(S)[i] = h
<1>1. Cardinality(S) \in Nat
  BY FS_CardinalityType
<1>2. PICK s \in [1..Cardinality(S) -> S] : \A h \in S : \E i \in 1..Cardinality(S) : s[i] = h
  <2>1. ExistsBijection(1..Cardinality(S), S)
    BY FS_CardinalityType
  <2> QED BY <2>1 DEF ExistsBijection, Bijection, Injection, Surjection
<1>3. DOMAIN s = 1..Cardinality(S)
  OBVIOUS
<1>4. \E s1 \in [1..Cardinality(S) -> S] : \A h \in S : \E i \in DOMAIN s1 : s1[i] = h
  BY <1>2, <1>3
<1>5. sortStrings(S) \in [1..Cardinality(S) -> S] /\ \A h \in S : \E i \in DOMAIN sortStrings(S) : sortStrings(S)[i] = h
  BY <1>4 DEF sortStrings
<1> QED BY <1>1, <1>5


\* The text of a table, piece after piece.
Texts(t, g) ==
    LET keys == sortStrings(DOMAIN t) IN
    /\ g \in [0..Cardinality(DOMAIN t) -> Seq(Nat)] /\ g[0] = <<>>
    /\ \A n \in 1..Cardinality(DOMAIN t) : g[n] = g[n - 1] \o Piece(keys[n], t[keys[n]])
    /\ g[Cardinality(DOMAIN t)] = ResolveKey(t)

IsTable(t) ==
    /\ IsFiniteSet(DOMAIN t) /\ DOMAIN t \subseteq Seq(Nat)
    /\ t \in [DOMAIN t -> Seq(Nat)]

LEMMA TextIsThere ==
    ASSUME NEW t, IsTable(t) PROVE \E g : Texts(t, g)
<1> DEFINE keys == sortStrings(DOMAIN t)
           N == Cardinality(DOMAIN t)
           P == [n \in 1..N |-> Piece(keys[n], t[keys[n]])]
           text[n \in 0..Len(keys)] ==
               IF n = 0 THEN <<>>
               ELSE text[n - 1] \o (keys[n] \o <<Is>> \o t[keys[n]] \o <<Comma>>)
<1>1. N \in Nat /\ keys \in [1..N -> DOMAIN t] /\ Len(keys) = N
  <2>1. N \in Nat /\ keys \in [1..N -> DOMAIN t]
    BY SortedHosts, Zenon DEF IsTable
  <2> HIDE DEF keys, N
  <2> QED BY <2>1
<1>2. ResolveKey(t) = text[Len(keys)]
  BY DEF ResolveKey
<1>3. P \in [1..N -> Seq(Nat)]
  <2>1. ASSUME NEW n \in 1..N PROVE Piece(keys[n], t[keys[n]]) \in Seq(Nat)
    <3>1. keys[n] \in Seq(Nat) /\ t[keys[n]] \in Seq(Nat)
      <4> HIDE DEF keys, N
      <4> QED BY <1>1 DEF IsTable
    <3> HIDE DEF keys, N
    <3> QED BY <3>1 DEF Piece, Is, Comma
  <2> HIDE DEF keys, N
  <2> QED BY <2>1
<1>4. PICK g \in [0..N -> Seq(Nat)] : g = [n \in 0..N |-> IF n = 0 THEN <<>> ELSE g[n - 1] \o P[n]]
  <2> HIDE DEF P, N
  <2> QED BY <1>1, <1>3, TextOfPieces
<1>5. \E f : f = [n \in 0..Len(keys) |-> IF n = 0 THEN <<>>
               ELSE f[n - 1] \o (keys[n] \o <<Is>> \o t[keys[n]] \o <<Comma>>)]
  <2> DEFINE Part(n) == keys[n] \o <<Is>> \o t[keys[n]] \o <<Comma>>
  <2>1. ASSUME NEW n \in 0..N
        PROVE  g[n] = IF n = 0 THEN <<>> ELSE g[n - 1] \o Part(n)
    <3> HIDE DEF keys
    <3>1. n # 0 => n \in 1..N
      OBVIOUS
    <3>2. n # 0 => P[n] = Part(n)
      <4> HIDE DEF N
      <4> QED BY <3>1 DEF Piece
    <3> HIDE DEF P, Part, N
    <3> QED BY <1>4, <3>2, Zenon
  <2>2. g = [n \in 0..N |-> g[n]]
    BY <1>4
  <2> HIDE DEF Part, keys, N
  <2>3. g = [n \in 0..Len(keys) |-> IF n = 0 THEN <<>> ELSE g[n - 1] \o Part(n)]
    BY <1>1, <2>1, <2>2
  <2> QED BY <2>3 DEF Part
<1>6. text = [n \in 0..Len(keys) |-> IF n = 0 THEN <<>>
               ELSE text[n - 1] \o (keys[n] \o <<Is>> \o t[keys[n]] \o <<Comma>>)]
  BY <1>5, Zenon
<1> HIDE DEF keys, text, N
<1>7. text[0] = <<>> /\ DOMAIN text = 0..N
  BY <1>1, <1>6
<1>8. ASSUME NEW n \in 1..N PROVE text[n] = text[n - 1] \o Piece(keys[n], t[keys[n]])
  <2>1. n \in 0..N /\ n # 0
    BY <1>1
  <2> QED BY <1>1, <1>6, <2>1, Zenon DEF Piece
<1>9. \A n \in 1..N : Piece(keys[n], t[keys[n]]) \in Seq(Nat)
  BY <1>3 DEF keys
<1> DEFINE T == {m \in Nat : m <= N => text[m] \in Seq(Nat)}
<1>10. Nat \subseteq T
  <2>1. 0 \in T
    <3>1. <<>> \in Seq(Nat)
      OBVIOUS
    <3>2. text[0] \in Seq(Nat)
      BY <1>7, <3>1, Zenon
    <3> QED BY <3>2
  <2>2. ASSUME NEW m \in Nat, m \in T PROVE m + 1 \in T
    <3>1. SUFFICES ASSUME m + 1 <= N PROVE text[m + 1] \in Seq(Nat)
      OBVIOUS
    <3>2. m + 1 \in 1..N /\ m <= N /\ (m + 1) - 1 = m
      BY <1>1, <3>1
    <3>3. text[m] \in Seq(Nat) /\ Piece(keys[m + 1], t[keys[m + 1]]) \in Seq(Nat)
      BY <1>9, <2>2, <3>2
    <3>4. text[m + 1] = text[m] \o Piece(keys[m + 1], t[keys[m + 1]])
      BY <1>8, <3>2, Zenon
    <3> QED BY <3>3, <3>4
  <2> HIDE DEF T
  <2> QED BY <2>1, <2>2, Climb
<1>11. text \in [0..N -> Seq(Nat)]
  <2>1. \A n \in 0..N : text[n] \in Seq(Nat)
    BY <1>1, <1>10
  <2> QED BY <1>6, <1>7, <2>1
<1>12. text[N] = ResolveKey(t)
  BY <1>1, <1>2
<1> QED BY <1>7, <1>8, <1>11, <1>12 DEF Texts, keys, N


\* A mark that is in neither of two texts is not in both together.
LEMMA WithoutBoth ==
    ASSUME NEW p \in Seq(Nat), NEW q \in Seq(Nat), NEW b, Without(p, b), Without(q, b)
    PROVE  Without(p \o q, b)
<1> DEFINE w == p \o q
<1>1. /\ w \in Seq(Nat) /\ Len(w) = Len(p) + Len(q)
      /\ \A i \in 1..Len(p) : w[i] = p[i]
      /\ \A i \in 1..Len(q) : w[Len(p) + i] = q[i]
  BY Chained, Zenon DEF Chain
<1> HIDE DEF w
<1>2. Len(p) \in Nat /\ Len(q) \in Nat
  OBVIOUS
<1>3. ASSUME NEW i \in 1..Len(w) PROVE w[i] # b
  <2>1. CASE i <= Len(p)
    <3>1. i \in 1..Len(p) /\ p[i] # b
      BY <1>2, <2>1 DEF Without
    <3> QED BY <1>1, <3>1
  <2>2. CASE ~(i <= Len(p))
    <3> DEFINE j == i - Len(p)
    <3>1. j \in 1..Len(q) /\ Len(p) + j = i
      BY <1>1, <1>2, <2>2
    <3> HIDE DEF j
    <3>2. q[j] # b /\ w[Len(p) + j] = q[j]
      BY <1>1, <3>1 DEF Without
    <3> QED BY <3>1, <3>2, Zenon
  <2> QED BY <2>1, <2>2
<1>4. DOMAIN w = 1..Len(w)
  BY <1>1
<1> QED BY <1>3, <1>4 DEF Without, w

\* What comes last in a text, where it is one symbol.
LEMMA LastOff ==
    ASSUME NEW w, NEW c \in Nat, NEW d \in Nat, NEW p \in Seq(Nat), NEW u \in Seq(Nat),
           Chain(w, p, <<c>>), Chain(w, u, <<d>>)
    PROVE  p = u /\ c = d
<1>1. Len(w) = Len(p) + 1 /\ w[Len(p) + 1] = c /\ \A i \in 1..Len(p) : w[i] = p[i]
  <2>1. Len(<<c>>) = 1 /\ <<c>>[1] = c /\ 1 \in 1..1
    OBVIOUS
  <2> QED BY <2>1, Zenon DEF Chain
<1>2. Len(w) = Len(u) + 1 /\ w[Len(u) + 1] = d /\ \A i \in 1..Len(u) : w[i] = u[i]
  <2>1. Len(<<d>>) = 1 /\ <<d>>[1] = d /\ 1 \in 1..1
    OBVIOUS
  <2> QED BY <2>1, Zenon DEF Chain
<1>3. Len(p) = Len(u)
  <2>1. Len(p) \in Nat /\ Len(u) \in Nat
    OBVIOUS
  <2> QED BY <1>1, <1>2, <2>1
<1>4. \A i \in 1..Len(p) : p[i] = u[i]
  BY <1>1, <1>2, <1>3, Zenon
<1>5. p = u
  BY <1>3, <1>4, SeqEqual
<1> QED BY <1>1, <1>2, <1>3, <1>5, Zenon

\* A text that ends with a comma, and one without a comma after it.
Ends(p) == p # <<>> => p[Len(p)] = Comma
LEMMA CutAfterTheLast ==
    ASSUME NEW w,
           NEW p \in Seq(Nat), NEW q \in Seq(Nat), NEW u \in Seq(Nat), NEW v \in Seq(Nat),
           Chain(w, p, q), Chain(w, u, v),
           Ends(p), Ends(u), Without(q, Comma), Without(v, Comma)
    PROVE  p = u /\ q = v
<1>1. /\ Len(w) = Len(p) + Len(q)
      /\ \A i \in 1..Len(p) : w[i] = p[i]
      /\ \A i \in 1..Len(q) : w[Len(p) + i] = q[i]
  BY DEF Chain
<1>2. /\ Len(w) = Len(u) + Len(v)
      /\ \A i \in 1..Len(u) : w[i] = u[i]
      /\ \A i \in 1..Len(v) : w[Len(u) + i] = v[i]
  BY DEF Chain
<1>3. {Len(p), Len(q), Len(u), Len(v)} \subseteq Nat
  OBVIOUS
<1>4. \A i \in 1..Len(q) : q[i] # Comma
  BY DEF Without
<1>5. \A i \in 1..Len(v) : v[i] # Comma
  BY DEF Without
<1>6. ~(Len(p) < Len(u))
  <2>1. SUFFICES ASSUME Len(p) < Len(u) PROVE FALSE
    OBVIOUS
  <2> DEFINE i == Len(u) - Len(p)
  <2>2. i \in 1..Len(q) /\ Len(p) + i = Len(u) /\ Len(u) \in 1..Len(u) /\ u # <<>>
    BY <1>1, <1>2, <1>3, <2>1
  <2> HIDE DEF i
  <2>3. w[Len(p) + i] = q[i] /\ q[i] # Comma /\ w[Len(u)] = u[Len(u)] /\ u[Len(u)] = Comma
    BY <1>1, <1>2, <1>4, <2>2, Zenon DEF Ends
  <2> QED BY <2>2, <2>3, Zenon
<1>7. ~(Len(u) < Len(p))
  <2>1. SUFFICES ASSUME Len(u) < Len(p) PROVE FALSE
    OBVIOUS
  <2> DEFINE i == Len(p) - Len(u)
  <2>2. i \in 1..Len(v) /\ Len(u) + i = Len(p) /\ Len(p) \in 1..Len(p) /\ p # <<>>
    BY <1>1, <1>2, <1>3, <2>1
  <2> HIDE DEF i
  <2>3. w[Len(u) + i] = v[i] /\ v[i] # Comma /\ w[Len(p)] = p[Len(p)] /\ p[Len(p)] = Comma
    BY <1>1, <1>2, <1>5, <2>2, Zenon DEF Ends
  <2> QED BY <2>2, <2>3, Zenon
<1>8. Len(p) = Len(u) /\ Len(q) = Len(v)
  BY <1>1, <1>2, <1>3, <1>6, <1>7
<1>9. \A i \in 1..Len(p) : p[i] = u[i]
  BY <1>1, <1>2, <1>8, Zenon
<1>10. \A i \in 1..Len(q) : q[i] = v[i]
  BY <1>1, <1>2, <1>8, Zenon
<1> QED BY <1>8, <1>9, <1>10, SeqEqual

LEMMA Associative == \A p, q, r \in Seq(Nat) : p \o (q \o r) = (p \o q) \o r
BY ConcatAssociative

\* A text of pieces, p, with one more: w.
Grown(w, p, h, a) ==
    LET x == p \o h
        y == x \o <<Is>> \o a
    IN  /\ {x, y, w, Piece(h, a)} \subseteq Seq(Nat)
        /\ Chain(x, p, h) /\ Cut(y, x, Is, a) /\ Chain(w, y, <<Comma>>)
        /\ w # <<>> /\ Ends(w)

LEMMA PieceAfter ==
    ASSUME NEW p \in Seq(Nat), NEW h \in Seq(Nat), NEW a \in Seq(Nat)
    PROVE  Grown(p \o Piece(h, a), p, h, a)
<1> DEFINE i == <<Is>>
           c == <<Comma>>
           x == p \o h
           y == x \o i \o a
           w == y \o c
<1>1. Is \in Nat /\ Comma \in Nat /\ i \in Seq(Nat) /\ c \in Seq(Nat)
  BY DEF Is, Comma
<1>2. Piece(h, a) = (h \o i) \o a \o c
  BY DEF Piece
<1>3. x \in Seq(Nat)
  OBVIOUS
<1>4. Cut(y, x, Is, a)
  <2> HIDE DEF x
  <2> QED BY <1>1, <1>3, Joined
<1> HIDE DEF i, c
<1>5. h \o i \in Seq(Nat) /\ (h \o i) \o a \in Seq(Nat) /\ (h \o i) \o a \o c \in Seq(Nat)
  BY <1>1
<1>6. y \in Seq(Nat) /\ w \in Seq(Nat)
  <2> HIDE DEF x
  <2> QED BY <1>1, <1>3
<1>7. p \o Piece(h, a) = w
  <2>1. p \o ((h \o i) \o a \o c) = (p \o ((h \o i) \o a)) \o c
    <3> DEFINE q == (h \o i) \o a
    <3>1. q \in Seq(Nat)
      BY <1>5
    <3> HIDE DEF q
    <3>2. p \o (q \o c) = (p \o q) \o c
      BY <1>1, <3>1, Associative, Zenon
    <3> QED BY <3>2 DEF q
  <2>2. p \o ((h \o i) \o a) = (p \o (h \o i)) \o a
    BY <1>5, Associative, Zenon
  <2>3. p \o (h \o i) = x \o i
    BY <1>1, Associative, Zenon
  <2> QED BY <1>2, <2>1, <2>2, <2>3, Zenon
<1>8. Chain(x, p, h)
  BY Chained, Zenon
<1> HIDE DEF y
<1>9. Chain(w, y, c)
  BY <1>1, <1>6, Chained, Zenon
<1>10. w # <<>> /\ Ends(w)
  <2>1. Len(c) = 1 /\ c[1] = Comma
    BY DEF c
  <2>2. w \in Seq(Nat) /\ Len(w) = Len(y) + 1 /\ w[Len(y) + 1] = Comma
    BY <1>9, <2>1 DEF Chain
  <2>3. Len(y) \in Nat
    BY <1>6
  <2> HIDE DEF w
  <2> QED BY <2>2, <2>3 DEF Ends
<1>11. {x, y, w, Piece(h, a)} \subseteq Seq(Nat)
  BY <1>2, <1>3, <1>5, <1>6, Zenon
<1> HIDE DEF x, w
<1> QED BY <1>4, <1>7, <1>8, <1>9, <1>10, <1>11, Zenon DEF Grown, x, y, i, c

\* The text, the host and the address of the last piece are told by the whole.
LEMMA PieceTold ==
    ASSUME NEW w, NEW p \in Seq(Nat), NEW h \in Seq(Nat), NEW a \in Seq(Nat),
           NEW u \in Seq(Nat), NEW k \in Seq(Nat), NEW b \in Seq(Nat),
           Grown(w, p, h, a), Grown(w, u, k, b), Ends(p), Ends(u),
           Without(h, Comma), Without(k, Comma), Without(a, Is), Without(b, Is)
    PROVE  p = u /\ h = k /\ a = b
<1>1. Is \in Nat /\ Comma \in Nat
  BY DEF Is, Comma
<1>2. PICK x, y \in Seq(Nat) : Chain(x, p, h) /\ Cut(y, x, Is, a) /\ Chain(w, y, <<Comma>>)
  BY DEF Grown
<1>3. PICK z, v \in Seq(Nat) : Chain(z, u, k) /\ Cut(v, z, Is, b) /\ Chain(w, v, <<Comma>>)
  BY DEF Grown
<1>4. y = v
  BY <1>1, <1>2, <1>3, LastOff, Zenon
<1>5. x = z /\ a = b
  BY <1>1, <1>2, <1>3, <1>4, CutAtTheLast, Zenon
<1> QED BY <1>2, <1>3, <1>5, CutAfterTheLast, Zenon


\* No separator in a table.
Plain(t) ==
    \A h \in DOMAIN t : /\ Without(h, Comma) /\ Without(h, Bar)
                        /\ Without(t[h], Is) /\ Without(t[h], Bar)

\* The i-th host of a table with its address.
PlainPart(t, i) ==
    LET h == sortStrings(DOMAIN t)[i] IN
    /\ h \in DOMAIN t /\ h \in Seq(Nat) /\ t[h] \in Seq(Nat)
    /\ Without(h, Comma) /\ Without(h, Bar) /\ Without(t[h], Is) /\ Without(t[h], Bar)

LEMMA PartsArePlain ==
    ASSUME NEW t, IsTable(t), Plain(t), NEW i \in 1..Cardinality(DOMAIN t)
    PROVE  PlainPart(t, i)
<1> DEFINE h == sortStrings(DOMAIN t)[i]
<1>1. sortStrings(DOMAIN t) \in [1..Cardinality(DOMAIN t) -> DOMAIN t]
  BY SortedHosts, Zenon DEF IsTable
<1>2. h \in DOMAIN t
  BY <1>1
<1> HIDE DEF h
<1>3. h \in Seq(Nat) /\ t[h] \in Seq(Nat)
  BY <1>2 DEF IsTable
<1> QED BY <1>2, <1>3, Zenon DEF Plain, PlainPart, h

\* The text of the first pieces ends with a comma, and is empty for none only.
LEMMA TextEnds ==
    ASSUME NEW t, IsTable(t), Plain(t), NEW g, Texts(t, g), NEW n \in 1..Cardinality(DOMAIN t)
    PROVE  LET h == sortStrings(DOMAIN t)[n] IN Grown(g[n], g[n - 1], h, t[h])
<1> DEFINE N == Cardinality(DOMAIN t)
           h == sortStrings(DOMAIN t)[n]
<1>1. N \in Nat
  BY SortedHosts DEF IsTable
<1>2. n - 1 \in 0..N
  BY <1>1
<1>3. g[n - 1] \in Seq(Nat)
  <2> HIDE DEF N
  <2> QED BY <1>2 DEF Texts, N
<1>4. h \in Seq(Nat) /\ t[h] \in Seq(Nat)
  BY PartsArePlain DEF PlainPart
<1>5. g[n] = g[n - 1] \o Piece(h, t[h])
  BY Zenon DEF Texts
<1> HIDE DEF h
<1>6. Grown(g[n - 1] \o Piece(h, t[h]), g[n - 1], h, t[h])
  BY <1>3, <1>4, PieceAfter, Zenon
<1> QED BY <1>5, <1>6, Zenon DEF h

PrefixEnds(g, n) == g[n] \in Seq(Nat) /\ Ends(g[n]) /\ (g[n] = <<>> <=> n = 0)

LEMMA TextsEnd ==
    ASSUME NEW t, IsTable(t), Plain(t), NEW g, Texts(t, g), NEW n \in 0..Cardinality(DOMAIN t)
    PROVE  PrefixEnds(g, n)
<1>1. g[n] \in Seq(Nat)
  BY DEF Texts
<1>2. CASE n = 0
  BY <1>1, <1>2 DEF Texts, Ends, PrefixEnds
<1>3. CASE n # 0
  <2>1. n \in 1..Cardinality(DOMAIN t)
    BY <1>3, SortedHosts DEF IsTable
  <2>2. g[n] # <<>> /\ Ends(g[n])
    BY <2>1, TextEnds, Zenon DEF Grown
  <2> QED BY <1>1, <1>3, <2>2 DEF PrefixEnds
<1> QED BY <1>2, <1>3

\* The text of a table has no bar.
LEMMA TextHasNoBar ==
    ASSUME NEW t, IsTable(t), Plain(t)
    PROVE  ResolveKey(t) \in Seq(Nat) /\ Without(ResolveKey(t), Bar)
<1> DEFINE N == Cardinality(DOMAIN t)
<1>1. PICK g : Texts(t, g)
  BY TextIsThere
<1>2. N \in Nat /\ g \in [0..N -> Seq(Nat)] /\ g[N] = ResolveKey(t) /\ g[0] = <<>>
  BY <1>1, SortedHosts DEF Texts, IsTable
<1> DEFINE T == {m \in Nat : m <= N => Without(g[m], Bar)}
<1>3. 0 \in T
  BY <1>2 DEF Without
<1>4. ASSUME NEW m \in Nat, m \in T PROVE m + 1 \in T
  <2> HIDE DEF N
  <2>1. SUFFICES ASSUME m + 1 <= N PROVE Without(g[m + 1], Bar)
    OBVIOUS
  <2>2. m + 1 \in 1..N /\ m <= N /\ (m + 1) - 1 = m /\ m \in 0..N
    BY <1>2, <2>1
  <2> DEFINE h == sortStrings(DOMAIN t)[m + 1]
  <2>3. PlainPart(t, m + 1)
    BY <2>2, PartsArePlain, Zenon DEF N
  <2>4. h \in Seq(Nat) /\ t[h] \in Seq(Nat) /\ Without(h, Bar) /\ Without(t[h], Bar)
    BY <2>3, Zenon DEF PlainPart
  <2>5. g[m + 1] = g[m] \o Piece(h, t[h])
    BY <1>1, <2>2, Zenon DEF Texts, N
  <2> HIDE DEF h
  <2>6. Without(g[m], Bar) /\ g[m] \in Seq(Nat)
    BY <1>2, <1>4, <2>2
  <2> DEFINE c == <<Is>>
             d == <<Comma>>
             x == h \o c
             y == x \o t[h]
  <2>7. c \in Seq(Nat) /\ Without(c, Bar) /\ d \in Seq(Nat) /\ Without(d, Bar)
    BY DEF Is, Comma, Bar, Without
  <2> HIDE DEF c, d
  <2>8. x \in Seq(Nat) /\ Without(x, Bar)
    <3>1. Without(x, Bar)
      BY <2>4, <2>7, WithoutBoth, Zenon
    <3> QED BY <2>4, <2>7, <3>1
  <2> HIDE DEF x
  <2>9. y \in Seq(Nat) /\ Without(y, Bar)
    <3>1. Without(y, Bar)
      BY <2>4, <2>8, WithoutBoth, Zenon
    <3> QED BY <2>4, <2>8, <3>1
  <2> HIDE DEF y
  <2>10. y \o d \in Seq(Nat) /\ Without(y \o d, Bar)
    <3>1. Without(y \o d, Bar)
      BY <2>7, <2>9, WithoutBoth, Zenon
    <3> QED BY <2>7, <2>9, <3>1
  <2>11. Piece(h, t[h]) \in Seq(Nat) /\ Without(Piece(h, t[h]), Bar)
    BY <2>10, Zenon DEF Piece, c, d, x, y
  <2> QED BY <2>5, <2>6, <2>11, WithoutBoth
<1>5. N \in T
  <2> HIDE DEF T, N
  <2> QED BY <1>2, <1>3, <1>4, Climb
<1>6. N <= N
  BY <1>2
<1> HIDE DEF N
<1> QED BY <1>2, <1>5, <1>6


\* Two tables without separators that have the same text are the same.
LEMMA TablesTold ==
    ASSUME NEW t, NEW u, IsTable(t), IsTable(u), Plain(t), Plain(u), ResolveKey(t) = ResolveKey(u)
    PROVE  t = u
<1> DEFINE N == Cardinality(DOMAIN t)
           M == Cardinality(DOMAIN u)
           ht == sortStrings(DOMAIN t)
           hu == sortStrings(DOMAIN u)
<1>1. PICK g : Texts(t, g)
  BY TextIsThere
<1>2. PICK f : Texts(u, f)
  BY TextIsThere
<1>3. N \in Nat /\ M \in Nat
  BY SortedHosts DEF IsTable
<1>4. g[N] = f[M]
  BY <1>1, <1>2, Zenon DEF Texts
<1> DEFINE Same(i) == ht[i] = hu[i] /\ t[ht[i]] = u[hu[i]]
           Told(n, m) == n = m /\ \A i \in 1..n : Same(i)
           T == {n \in Nat : n <= N => \A m \in 0..M : g[n] = f[m] => Told(n, m)}
<1> HIDE DEF Same
<1>5. \A n \in 0..N : PrefixEnds(g, n)
  BY <1>1, TextsEnd, Zenon
<1>6. \A m \in 0..M : PrefixEnds(f, m)
  BY <1>2, TextsEnd, Zenon
<1>7. \A n \in 1..N : Grown(g[n], g[n - 1], ht[n], t[ht[n]]) /\ PlainPart(t, n)
  <2>1. \A n \in 1..N : Grown(g[n], g[n - 1], ht[n], t[ht[n]])
    BY <1>1, TextEnds
  <2>2. \A n \in 1..N : PlainPart(t, n)
    BY PartsArePlain, Zenon
  <2> QED BY <2>1, <2>2, Zenon
<1>8. \A m \in 1..M : Grown(f[m], f[m - 1], hu[m], u[hu[m]]) /\ PlainPart(u, m)
  <2>1. \A m \in 1..M : Grown(f[m], f[m - 1], hu[m], u[hu[m]])
    BY <1>2, TextEnds
  <2>2. \A m \in 1..M : PlainPart(u, m)
    BY PartsArePlain, Zenon
  <2> QED BY <2>1, <2>2, Zenon
<1> HIDE DEF N, M, ht, hu
<1>9. 0 \in T
  <2>1. ASSUME NEW m \in 0..M, g[0] = f[m] PROVE Told(0, m)
    <3>1. 0 \in 0..N /\ 1..0 = {}
      BY <1>3
    <3>2. m = 0
      BY <1>5, <1>6, <2>1, <3>1, Zenon DEF PrefixEnds
    <3> QED BY <3>1, <3>2
  <2> HIDE DEF Told
  <2> QED BY <2>1
<1>10. ASSUME NEW n \in Nat, n \in T PROVE n + 1 \in T
  <2>1. ASSUME n + 1 <= N, NEW m \in 0..M, g[n + 1] = f[m] PROVE Told(n + 1, m)
    <3>1. n + 1 \in 1..N /\ n + 1 \in 0..N /\ n \in 0..N /\ (n + 1) - 1 = n /\ n + 1 # 0
      BY <1>3, <2>1
    <3>2. m # 0
      BY <1>5, <1>6, <2>1, <3>1, Zenon DEF PrefixEnds
    <3>3. m \in 1..M /\ m - 1 \in 0..M
      BY <1>3, <3>2
    <3>4. PlainPart(t, n + 1) /\ PlainPart(u, m)
      BY <1>7, <1>8, <3>1, <3>3, Zenon
    <3>5. /\ {ht[n + 1], t[ht[n + 1]], hu[m], u[hu[m]]} \subseteq Seq(Nat)
          /\ Without(ht[n + 1], Comma) /\ Without(hu[m], Comma)
          /\ Without(t[ht[n + 1]], Is) /\ Without(u[hu[m]], Is)
      BY <3>4, Zenon DEF PlainPart, ht, hu
    <3>6. /\ g[n] \in Seq(Nat) /\ Ends(g[n]) /\ f[m - 1] \in Seq(Nat) /\ Ends(f[m - 1])
      BY <1>5, <1>6, <3>1, <3>3, Zenon DEF PrefixEnds
    <3>7. /\ Grown(g[n + 1], g[n], ht[n + 1], t[ht[n + 1]])
          /\ Grown(g[n + 1], f[m - 1], hu[m], u[hu[m]])
      BY <1>7, <1>8, <2>1, <3>1, <3>3, Zenon
    <3>8. g[n] = f[m - 1] /\ ht[n + 1] = hu[m] /\ t[ht[n + 1]] = u[hu[m]]
      <4> DEFINE w == g[n + 1]
                 p == g[n]
                 q == f[m - 1]
                 h == ht[n + 1]
                 a == t[h]
                 k == hu[m]
                 b == u[k]
      <4>1. {p, q, h, a, k, b} \subseteq Seq(Nat) /\ Ends(p) /\ Ends(q)
            /\ Without(h, Comma) /\ Without(k, Comma) /\ Without(a, Is) /\ Without(b, Is)
            /\ Grown(w, p, h, a) /\ Grown(w, q, k, b)
        BY <3>5, <3>6, <3>7
      <4> HIDE DEF w, p, q, h, a, k, b
      <4>2. p = q /\ h = k /\ a = b
        BY <4>1, PieceTold
      <4> QED BY <4>2 DEF p, q, h, a, k, b
    <3>9. Told(n, m - 1)
      <4>1. n <= N
        BY <1>3, <3>1
      <4> HIDE DEF Told
      <4> QED BY <1>10, <3>3, <3>8, <4>1
    <3>10. m = n + 1
      BY <3>3, <3>9
    <3>11. ASSUME NEW i \in 1..(n + 1) PROVE Same(i)
      <4>1. CASE i = n + 1
        BY <3>8, <3>10, <4>1, Zenon DEF Same
      <4>2. CASE i # n + 1
        <5>1. i \in 1..n
          BY <4>2
        <5> QED BY <3>9, <5>1, Zenon
      <4> QED BY <4>1, <4>2
    <3> QED BY <3>10, <3>11
  <2> HIDE DEF Told
  <2> QED BY <2>1
<1>11. Told(N, M)
  <2>1. N \in T
    <3> HIDE DEF T
    <3> QED BY <1>3, <1>9, <1>10, Climb
  <2>2. N <= N /\ M \in 0..M
    BY <1>3
  <2> HIDE DEF Told
  <2> QED BY <1>4, <2>1, <2>2
<1>12. N = M /\ \A i \in 1..N : ht[i] = hu[i] /\ t[ht[i]] = u[hu[i]]
  BY <1>11, Zenon DEF Same
<1>13. /\ ht \in [1..N -> DOMAIN t] /\ \A h \in DOMAIN t : \E i \in 1..N : ht[i] = h
       /\ hu \in [1..M -> DOMAIN u] /\ \A h \in DOMAIN u : \E i \in 1..M : hu[i] = h
  BY SortedHosts, Zenon DEF IsTable, N, M, ht, hu
<1>14. DOMAIN t = DOMAIN u
  <2>1. ASSUME NEW h \in DOMAIN t PROVE h \in DOMAIN u
    BY <1>12, <1>13
  <2>2. ASSUME NEW h \in DOMAIN u PROVE h \in DOMAIN t
    BY <1>12, <1>13
  <2> QED BY <2>1, <2>2
<1>15. ASSUME NEW h \in DOMAIN t PROVE t[h] = u[h]
  <2>1. PICK i \in 1..N : ht[i] = h
    BY <1>13
  <2> QED BY <1>12, <2>1, Zenon
<1>16. t = [h \in DOMAIN t |-> t[h]] /\ u = [h \in DOMAIN u |-> u[h]]
  BY DEF IsTable
<1> QED BY <1>14, <1>15, <1>16

\* The key tells what a client was made with.
LEMMA SameKeySameSettings ==
    ASSUME NoSeparators, NEW r \in Requests, NEW s \in Requests, CacheKey(r) = CacheKey(s)
    PROVE  Wanted(r) = Wanted(s)
<1> DEFINE Typed(q) ==
             /\ q = [profile |-> q.profile, proxy |-> q.proxy, resolve |-> q.resolve, timeout |-> q.timeout]
             /\ q.profile \in Seq(Nat) /\ q.proxy \in Seq(Nat) /\ Bound(q) \in Nat
             /\ IsTable(q.resolve) /\ Plain(q.resolve) /\ Without(q.proxy, Bar)
             /\ ResolveKey(q.resolve) \in Seq(Nat) /\ Without(ResolveKey(q.resolve), Bar)
<1>1. ASSUME NEW q \in Requests PROVE Typed(q)
  <2>1. /\ q = [profile |-> q.profile, proxy |-> q.proxy,
                 resolve |-> [h \in DOMAIN q.resolve |-> q.resolve[h]], timeout |-> q.timeout]
        /\ q.profile \in Seq(Nat) /\ q.proxy \in Seq(Nat) /\ q.timeout \in Int
        /\ IsFiniteSet(DOMAIN q.resolve) /\ DOMAIN q.resolve \subseteq Seq(Nat)
        /\ \A h \in DOMAIN q.resolve : q.resolve[h] \in Seq(Nat)
    BY RequestsAssumption
  <2>2. q.resolve = [h \in DOMAIN q.resolve |-> q.resolve[h]]
    BY <2>1
  <2>3. q = [profile |-> q.profile, proxy |-> q.proxy, resolve |-> q.resolve, timeout |-> q.timeout]
    BY <2>1, <2>2, Zenon
  <2>4. IsTable(q.resolve)
    BY <2>1, <2>2 DEF IsTable
  <2>5. Plain(q.resolve) /\ Without(q.proxy, Bar)
    BY Zenon DEF NoSeparators, Plain
  <2>6. Bound(q) \in Nat
    BY <2>1 DEF Bound
  <2>7. ResolveKey(q.resolve) \in Seq(Nat) /\ Without(ResolveKey(q.resolve), Bar)
    BY <2>4, <2>5, TextHasNoBar, Zenon
  <2> QED BY <2>1, <2>3, <2>4, <2>5, <2>6, <2>7, Zenon
<1> DEFINE Parts(q) == q.profile \o <<Bar>> \o q.proxy
           Whole(q) == Parts(q) \o <<Bar>> \o ResolveKey(q.resolve)
           Front(q) == Whole(q) \o <<Bar>>
<1>2. ASSUME NEW q \in Requests
      PROVE  /\ Cut(Parts(q), q.profile, Bar, q.proxy)
             /\ Cut(Whole(q), Parts(q), Bar, ResolveKey(q.resolve))
             /\ Chain(Front(q), Whole(q), <<Bar>>)
             /\ Chain(CacheKey(q), Front(q), <<Bound(q)>>)
             /\ {Parts(q), Whole(q), Front(q)} \subseteq Seq(Nat)
  <2>1. Typed(q)
    BY <1>1
  <2>2. Bar \in Nat /\ <<Bar>> \in Seq(Nat)
    BY DEF Bar
  <2>3. Cut(Parts(q), q.profile, Bar, q.proxy)
    BY <2>1, <2>2, Joined, Zenon
  <2>4. Parts(q) \in Seq(Nat)
    BY <2>3 DEF Cut
  <2> HIDE DEF Parts
  <2>5. Cut(Whole(q), Parts(q), Bar, ResolveKey(q.resolve))
    BY <2>1, <2>2, <2>4, Joined, Zenon
  <2>6. Whole(q) \in Seq(Nat)
    BY <2>5 DEF Cut
  <2> HIDE DEF Whole
  <2>7. Chain(Front(q), Whole(q), <<Bar>>)
    BY <2>2, <2>6, Chained, Zenon
  <2>8. Front(q) \in Seq(Nat)
    BY <2>7 DEF Chain
  <2>9. CacheKey(q) = Front(q) \o <<Bound(q)>>
    BY Zenon DEF CacheKey, Whole, Parts
  <2> HIDE DEF Front
  <2>10. <<Bound(q)>> \in Seq(Nat)
    BY <2>1
  <2>11. Chain(CacheKey(q), Front(q), <<Bound(q)>>)
    BY <2>8, <2>9, <2>10, Chained, Zenon
  <2> QED BY <2>3, <2>4, <2>5, <2>6, <2>7, <2>8, <2>11
<1>3. Typed(r) /\ Typed(s) /\ Bar \in Nat
  BY <1>1 DEF Bar
<1> HIDE DEF Parts, Whole, Front
<1>4. Front(r) = Front(s) /\ Bound(r) = Bound(s)
  BY <1>2, <1>3, LastOff, Zenon
<1>5. Whole(r) = Whole(s)
  BY <1>2, <1>3, <1>4, LastOff, Zenon
<1>6. Parts(r) = Parts(s) /\ ResolveKey(r.resolve) = ResolveKey(s.resolve)
  BY <1>2, <1>3, <1>5, CutAtTheLast, Zenon
<1>7. r.profile = s.profile /\ r.proxy = s.proxy
  BY <1>2, <1>3, <1>6, CutAtTheLast, Zenon
<1>8. r.resolve = s.resolve
  BY <1>3, <1>6, TablesTold, Zenon
<1>9. ASSUME NEW q \in Requests
      PROVE  Wanted(q) = [profile |-> q.profile, proxy |-> q.proxy, resolve |-> q.resolve,
                          timeout |-> Bound(q)]
  <2>1. q = [profile |-> q.profile, proxy |-> q.proxy, resolve |-> q.resolve, timeout |-> q.timeout]
    BY <1>1
  <2> QED BY <2>1 DEF Wanted
<1> QED BY <1>4, <1>7, <1>8, <1>9, Zenon

------------------------------------------------------------------------------
\* Every client was made for a request of its key, and a handler that holds a
\* client holds one that was made as its own request wants it.
Asked == {Wanted(r) : r \in Requests}

KeysTell ==
    /\ made \in Nat
    /\ settings \in [1..made -> Asked]
    /\ \A k \in DOMAIN clients :
         /\ clients[k] \in 1..made
         /\ \E r \in Requests : CacheKey(r) = k /\ settings[clients[k]] = Wanted(r)

HandlersTell ==
    /\ DOMAIN pc = Calls /\ DOMAIN req = Calls /\ DOMAIN client = Calls
    /\ \A c \in Calls :
         pc[c] # "idle" => client[c] \in 1..made /\ settings[client[c]] = Wanted(req[c])

LEMMA SettingsInit == Init \/ FetchdIdle => KeysTell /\ HandlersTell
<1> SUFFICES ASSUME Init \/ FetchdIdle PROVE KeysTell /\ HandlersTell
  OBVIOUS
<1>1. made = 0 /\ settings = <<>> /\ DOMAIN clients = {} /\ 1..0 = {}
  BY DEF Init, FetchdIdle
<1>2. DOMAIN pc = Calls /\ DOMAIN req = Calls /\ DOMAIN client = Calls
  BY DEF Init, FetchdIdle
<1>3. \A c \in Calls : pc[c] = "idle"
  BY DEF Init, FetchdIdle
<1> QED BY <1>1, <1>2, <1>3 DEF KeysTell, HandlersTell

\* What was made with a new client, and what before it.
LEMMA MissMakes ==
    ASSUME KeysTell, NEW c \in Calls, NEW r \in Requests, Miss(c, r)
    PROVE  /\ settings' \in [1..(made + 1) -> Asked]
           /\ settings'[made + 1] = Wanted(r)
           /\ \A i \in 1..made : settings'[i] = settings[i] /\ i \in 1..(made + 1)
           /\ made + 1 \in 1..(made + 1) /\ made' = made + 1 /\ made' \in Nat
<1> DEFINE w == Wanted(r)
<1>1. /\ made \in Nat /\ made' = made + 1 /\ made' \in Nat
      /\ settings \in [1..made -> Asked]
      /\ settings' = Append(settings, w)
  BY DEF Miss, KeysTell
<1>2. w \in Asked
  BY DEF Asked
<1> HIDE DEF w
<1>3. settings \in Seq(Asked) /\ Len(settings) = made
  BY <1>1
<1>4. settings' \in Seq(Asked \cup {w}) /\ Len(settings') = made + 1
  BY <1>1, <1>3, AppendTail
<1>5. Asked \cup {w} = Asked
  BY <1>2
<1>6. settings' \in [1..(made + 1) -> Asked]
  BY <1>4, <1>5
<1>7. settings'[made + 1] = w /\ \A i \in 1..made : settings'[i] = settings[i]
  BY <1>1, <1>3, AppendTail
<1>8. made + 1 \in 1..(made + 1) /\ \A i \in 1..made : i \in 1..(made + 1)
  BY <1>1
<1> QED BY <1>1, <1>6, <1>7, <1>8 DEF w

LEMMA SettingsStep == KeysTell /\ [Next]_vars => KeysTell'
<1> SUFFICES ASSUME KeysTell, [Next]_vars
             PROVE  KeysTell'
  OBVIOUS
<1>1. UNCHANGED poolVars => KeysTell'
  BY DEF poolVars, KeysTell
<1>2. ASSUME NEW c \in Calls, NEW r \in Requests, Miss(c, r)
      PROVE  KeysTell'
  <2> DEFINE k == CacheKey(r)
  <2>1. /\ settings' \in [1..(made + 1) -> Asked]
        /\ settings'[made + 1] = Wanted(r)
        /\ \A i \in 1..made : settings'[i] = settings[i] /\ i \in 1..(made + 1)
        /\ made + 1 \in 1..(made + 1) /\ made' = made + 1 /\ made' \in Nat
    BY <1>2, MissMakes, Zenon
  <2>2. \A j \in DOMAIN clients' :
          \/ j = k /\ clients'[j] = made + 1
          \/ j \in DOMAIN clients /\ clients'[j] = clients[j]
    BY <1>2 DEF Miss, PoolClient
  <2>3. ASSUME NEW j \in DOMAIN clients'
        PROVE  /\ clients'[j] \in 1..(made + 1)
               /\ \E s \in Requests : CacheKey(s) = j /\ settings'[clients'[j]] = Wanted(s)
    <3>1. CASE j = k /\ clients'[j] = made + 1
      BY <2>1, <3>1, Zenon
    <3>2. CASE j \in DOMAIN clients /\ clients'[j] = clients[j]
      <4>1. /\ clients[j] \in 1..made
            /\ \E s \in Requests : CacheKey(s) = j /\ settings[clients[j]] = Wanted(s)
        BY <3>2, Zenon DEF KeysTell
      <4> QED BY <2>1, <3>2, <4>1, Zenon
    <3> QED BY <2>2, <3>1, <3>2, Zenon
  <2> QED BY <2>1, <2>3, Zenon DEF KeysTell
<1>3. ASSUME NEW c \in Calls, NEW r \in Requests, Hit(c, r) PROVE KeysTell'
  BY <1>1, <1>3 DEF Hit
<1>4. ASSUME NEW c \in Calls, Do(c) \/ Done(c) PROVE KeysTell'
  BY <1>1, <1>4 DEF Do, Done
<1>5. ASSUME NEW i \in 1..MaxClients, IdleConnTimeout(i) PROVE KeysTell'
  BY <1>1, <1>5 DEF IdleConnTimeout
<1>6. ASSUME UNCHANGED vars PROVE KeysTell'
  BY <1>1, <1>6 DEF vars
<1> QED BY <1>2, <1>3, <1>4, <1>5, <1>6 DEF Next

LEMMA HandlersStep ==
    ASSUME NoSeparators PROVE KeysTell /\ HandlersTell /\ [Next]_vars => HandlersTell'
<1> SUFFICES ASSUME KeysTell, HandlersTell, [Next]_vars
             PROVE  HandlersTell'
  OBVIOUS
<1>1. ASSUME NEW c \in Calls, NEW r \in Requests, Hit(c, r)
      PROVE  HandlersTell'
  <2> DEFINE k == CacheKey(r)
  <2>1. /\ k \in DOMAIN clients
        /\ client' = [client EXCEPT ![c] = clients[k]]
        /\ req' = [req EXCEPT ![c] = r]
        /\ pc' = [pc EXCEPT ![c] = "have"]
        /\ made' = made /\ settings' = settings
    BY <1>1 DEF Hit, poolVars
  <2>2. clients[k] \in 1..made
    BY <2>1, Zenon DEF KeysTell
  <2>3. PICK s \in Requests : CacheKey(s) = k /\ settings[clients[k]] = Wanted(s)
    BY <2>1, Zenon DEF KeysTell
  <2>4. settings[clients[k]] = Wanted(r)
    BY <2>3, SameKeySameSettings, Zenon
  <2> HIDE DEF k
  <2> QED BY <2>1, <2>2, <2>4 DEF HandlersTell
<1>2. ASSUME NEW c \in Calls, NEW r \in Requests, Miss(c, r)
      PROVE  HandlersTell'
  <2>1. /\ settings'[made + 1] = Wanted(r)
        /\ \A i \in 1..made : settings'[i] = settings[i] /\ i \in 1..(made + 1)
        /\ made + 1 \in 1..(made + 1) /\ made' = made + 1
    BY <1>2, MissMakes, Zenon
  <2>2. /\ client' = [client EXCEPT ![c] = made + 1]
        /\ req' = [req EXCEPT ![c] = r]
        /\ pc' = [pc EXCEPT ![c] = "have"]
    BY <1>2 DEF Miss
  <2>3. DOMAIN pc' = Calls /\ DOMAIN req' = Calls /\ DOMAIN client' = Calls
    BY <2>2 DEF HandlersTell
  <2>4. ASSUME NEW d \in Calls, pc'[d] # "idle"
        PROVE  client'[d] \in 1..(made + 1) /\ settings'[client'[d]] = Wanted(req'[d])
    <3>1. CASE d = c
      <4>1. client'[c] = made + 1 /\ req'[c] = r
        BY <2>2 DEF HandlersTell
      <4> QED BY <2>1, <3>1, <4>1, Zenon
    <3>2. CASE d # c
      <4>1. pc[d] # "idle" /\ client'[d] = client[d] /\ req'[d] = req[d]
        BY <2>2, <2>4, <3>2 DEF HandlersTell
      <4>2. client[d] \in 1..made /\ settings[client[d]] = Wanted(req[d])
        BY <4>1, Zenon DEF HandlersTell
      <4> QED BY <2>1, <4>1, <4>2, Zenon
    <3> QED BY <3>1, <3>2
  <2> QED BY <2>1, <2>3, <2>4, Zenon DEF HandlersTell
<1>3. ASSUME NEW c \in Calls, Do(c)
      PROVE  HandlersTell'
  <2>1. pc[c] = "have" /\ pc' = [pc EXCEPT ![c] = "busy"]
        /\ made' = made /\ settings' = settings /\ req' = req /\ client' = client
    BY <1>3 DEF Do, poolVars
  <2> QED BY <2>1 DEF HandlersTell
<1>4. ASSUME NEW c \in Calls, Done(c)
      PROVE  HandlersTell'
  <2>1. pc' = [pc EXCEPT ![c] = "idle"] /\ client' = [client EXCEPT ![c] = 0]
        /\ made' = made /\ settings' = settings /\ req' = req
    BY <1>4 DEF Done, poolVars
  <2> QED BY <2>1 DEF HandlersTell
<1>5. ASSUME NEW i \in 1..MaxClients, IdleConnTimeout(i)
      PROVE  HandlersTell'
  BY <1>5 DEF IdleConnTimeout, HandlersTell, callVars, poolVars
<1>6. ASSUME UNCHANGED vars
      PROVE  HandlersTell'
  BY <1>6 DEF vars, HandlersTell, callVars, poolVars
<1> QED BY <1>1, <1>2, <1>3, <1>4, <1>5, <1>6 DEF Next

\* A call runs with its own settings: where no field has a separator in it, the
\* text of the key tells requests apart that differ in anything the client was
\* made from, whatever the fields and however many hosts a table has
\* (main.go:115-129).
THEOREM CallsKeepSettings == ASSUME NoSeparators PROVE CallersSpec => []OwnSettings
<1>1. Init \/ FetchdIdle => KeysTell /\ HandlersTell
  BY SettingsInit
<1>2. KeysTell /\ HandlersTell => OwnSettings
  BY DEF HandlersTell, OwnSettings
<1>3. KeysTell /\ HandlersTell /\ [Next]_vars => (KeysTell /\ HandlersTell)'
  BY SettingsStep, HandlersStep
<1> QED BY <1>1, <1>2, <1>3, PoolBegins, PoolMoves, PTL DEF CallersSpec

------------------------------------------------------------------------------
\* There is a count of idle connections for every client that was made.
IdleTold == made \in Nat /\ DOMAIN idle = 1..made

LEMMA IdleInit == Init \/ FetchdIdle => IdleTold
<1>1. Init \/ FetchdIdle => made = 0 /\ idle = <<>> /\ 1..0 = {}
  BY DEF Init, FetchdIdle
<1> QED BY <1>1 DEF IdleTold

LEMMA IdleStep == IdleTold /\ [Next]_vars => IdleTold'
<1> SUFFICES ASSUME IdleTold, [Next]_vars PROVE IdleTold'
  OBVIOUS
<1>1. ASSUME NEW c \in Calls, NEW r \in Requests, Miss(c, r) PROVE IdleTold'
  BY <1>1 DEF IdleTold, Miss, PoolClient
<1>2. ASSUME made' = made, DOMAIN idle' = DOMAIN idle PROVE IdleTold'
  BY <1>2 DEF IdleTold
<1>3. ASSUME NEW c \in Calls, NEW r \in Requests, Hit(c, r) PROVE IdleTold'
  BY <1>2, <1>3 DEF Hit, poolVars, connVars
<1>4. ASSUME NEW c \in Calls, Do(c) \/ Done(c) PROVE IdleTold'
  BY <1>2, <1>4 DEF Do, Done, poolVars
<1>5. ASSUME NEW i \in 1..MaxClients, IdleConnTimeout(i) PROVE IdleTold'
  BY <1>2, <1>5 DEF IdleConnTimeout, poolVars
<1>6. ASSUME UNCHANGED vars PROVE IdleTold'
  BY <1>2, <1>6 DEF vars, poolVars, connVars
<1> QED BY <1>1, <1>3, <1>4, <1>5, <1>6 DEF Next

\* What leaves the pool with a new client is the client that poolClient closes.
LEMMA MissDropsOldest ==
    ASSUME KeysTell, IdleTold, NEW c \in Calls, NEW r \in Requests, Miss(c, r),
           NEW i \in 1..made, ~Dropped(i), Dropped(i)', Closable(i)
    PROVE  idle'[i] = 0
<1> DEFINE key == CacheKey(r)
           order == Append(clientOrder, key)
           full == Len(order) > MaxPooled
           oldest == Head(order)
           kept == IF full THEN (DOMAIN clients \cup {key}) \ {oldest} ELSE DOMAIN clients \cup {key}
           dropped == IF full THEN clients[oldest] ELSE 0
           closed == IF full /\ Closable(dropped) THEN dropped ELSE 0
<1>1. /\ key \notin DOMAIN clients /\ made \in Nat /\ made' = made + 1
      /\ clients' = [k \in kept |-> IF k = key THEN made + 1 ELSE clients[k]]
      /\ idle' = [j \in 1..(made + 1) |-> IF j \in {closed, made + 1} THEN 0 ELSE idle[j]]
  BY DEF Miss, PoolClient, KeysTell
<1> HIDE DEF key, order
<1>2. PICK k \in DOMAIN clients : clients[k] = i
  BY <1>1 DEF Dropped
<1>3. \A j \in DOMAIN clients' : clients'[j] # i
  BY <1>1 DEF Dropped
<1>4. k \notin kept
  BY <1>1, <1>2, <1>3
<1>5. full /\ k = oldest
  BY <1>2, <1>4
<1>6. closed = i
  BY <1>2, <1>5
<1> HIDE DEF closed
<1> QED BY <1>1, <1>6

\* A client whose transport passes CloseIdleConnections on leaves the pool
\* without its idle connections (main.go:98-105); that is every client where no
\* profile is exact, and where one is it need not be, as FetchdExact shows.
THEOREM ClosableIsClosed ==
    CallersSpec => [][\A i \in DOMAIN idle : Closable(i) /\ ~Dropped(i) /\ Dropped(i)' => idle'[i] = 0]_vars
<1>1. Init \/ FetchdIdle => KeysTell /\ IdleTold
  BY SettingsInit, IdleInit
<1>2. KeysTell /\ IdleTold /\ [Next]_vars => (KeysTell /\ IdleTold)'
  BY SettingsStep, IdleStep
<1>3. KeysTell /\ IdleTold /\ [Next]_vars =>
        [\A i \in DOMAIN idle : Closable(i) /\ ~Dropped(i) /\ Dropped(i)' => idle'[i] = 0]_vars
  <2> SUFFICES ASSUME KeysTell, IdleTold, Next,
                      NEW i \in DOMAIN idle, Closable(i), ~Dropped(i), Dropped(i)'
               PROVE  idle'[i] = 0
    OBVIOUS
  <2>1. i \in 1..made
    BY DEF IdleTold
  <2>2. ~UNCHANGED <<made, clients>>
    BY DEF Dropped
  <2>3. PICK c \in Calls, r \in Requests : Miss(c, r)
    BY <2>2 DEF Next, Hit, Do, Done, IdleConnTimeout, poolVars
  <2> QED BY <2>1, <2>3, MissDropsOldest
<1> QED BY <1>1, <1>2, <1>3, PoolBegins, PoolMoves, PTL DEF CallersSpec

\* Where no profile is exact, a client that leaves the pool leaves no idle
\* connection behind, whatever its handlers do meanwhile (main.go:98-105).
THEOREM DroppedIsClosed == ASSUME Exact = {} PROVE CallersSpec => DropCloses
<1>1. \A i : Closable(i)
  BY DEF Closable
<1>2. [\A i \in DOMAIN idle : Closable(i) /\ ~Dropped(i) /\ Dropped(i)' => idle'[i] = 0]_vars
        => [\A i \in DOMAIN idle : ~Dropped(i) /\ Dropped(i)' => idle'[i] = 0]_vars
  BY <1>1
<1> QED BY <1>2, ClosableIsClosed, PTL DEF DropCloses

------------------------------------------------------------------------------
(* One call on a connection of its own.                                    *)

\* The socket is open from the dial to the end of an upgrade; only a watched
\* exchange can lose it before.  Only an upgrade ends with a connection.
SockInv ==
    /\ watched \in BOOLEAN
    /\ step \in {"connect", "tls", "upgrade"} => sock = "open"
    /\ watched => step \in {"read", "decode", "body", "closing"}
    /\ result = "conn" => step = "over"
    /\ step = "over" => (sock = "open" <=> result = "conn")

\* The early returns of the dial and of the exchange close what they leave.
LEMMA FailKeeps == ASSUME SockInv, Wire!Fail PROVE SockInv'
BY DEF SockInv, Wire!Fail

LEMMA SockInvNext == ASSUME SockInv, [Wire!Next]_(Wire!vars) PROVE SockInv'
<1>1. CASE Wire!Tick \/ Wire!Cancel \/ Wire!Expires
    BY <1>1 DEF SockInv, Wire!Tick, Wire!Cancel, Wire!Expires, Wire!Constant
<1>2. CASE Wire!Begin
  <2>1. CASE Wire!Fail
      BY <2>1, FailKeeps
  <2>2. CASE step' = "dial" /\ UNCHANGED <<sock, watched, result>>
      BY <1>2, <2>2 DEF SockInv, Wire!Begin
  <2> QED BY <1>2, <2>1, <2>2 DEF Wire!Begin
<1>3. CASE Wire!Dialed \/ Wire!Tunnelled \/ Wire!Handshaken
    BY <1>3 DEF SockInv, Wire!Dialed, Wire!Tunnelled, Wire!Handshaken, Wire!Constant, Wire!Context, Wire!Dialing
<1>4. CASE Wire!DialFails \/ Wire!ExchangeFails
    BY <1>4, FailKeeps DEF Wire!DialFails, Wire!ExchangeFails
<1>5. CASE Wire!Written \/ Wire!Answered \/ Wire!Decoded
    BY <1>5 DEF SockInv, Wire!Written, Wire!Answered, Wire!Decoded, Wire!Constant, Wire!Context
<1>6. CASE Wire!Watcher
    BY <1>6 DEF SockInv, Wire!Watcher, Wire!Constant, Wire!Context
<1>7. CASE Wire!Upgraded
    BY <1>7 DEF SockInv, Wire!Upgraded, Wire!Constant, Wire!Context
<1>8. CASE Wire!CloseBody \/ Wire!Drained
    BY <1>8 DEF SockInv, Wire!CloseBody, Wire!Drained, Wire!Constant, Wire!Context
<1>9. CASE UNCHANGED Wire!vars
    BY <1>9 DEF SockInv, Wire!vars
<1> QED BY <1>1, <1>2, <1>3, <1>4, <1>5, <1>6, <1>7, <1>8, <1>9 DEF Wire!Next

------------------------------------------------------------------------------
(* A forward of the gateway.                                               *)

Due == IF answer = "response" THEN 1 ELSE 0

\* The answer has one owner: the goroutine until it hands it over or closes
\* it, then the handler until its stream ends, then nobody.
OwnerInv ==
    /\ worker \in {"none", "call", "offer", "over"}
    /\ cancelled \in BOOLEAN /\ gone \in BOOLEAN
    /\ worker \in {"none", "call"} => answer = "none"
    /\ worker # "over" => closes = 0
    /\ worker = "over" => closes = IF at = "stream" THEN 0 ELSE Due
    /\ at = "stream" => answer = "response"
    /\ at \in {"envelope", "token", "request"} => worker = "none"
    /\ at \in {"stream", "closing"} => worker = "over"
    /\ at = "returned" => worker = "none" \/ cancelled

LEMMA OwnerInvNext == ASSUME OwnerInv, [Zai!Next]_(Zai!vars) PROVE OwnerInv'
<1> USE DEF OwnerInv, Due
<1>1. CASE Zai!Envelope
    BY <1>1 DEF Zai!Envelope, Zai!Fails, Zai!Call
<1>2. ASSUME NEW entries \in SUBSET Zai!Entry, Zai!Token(entries) PROVE OwnerInv'
  <2>1. at = "token" /\ at' \in {"request", "returned"} /\ Zai!Call /\ UNCHANGED <<body, gone>>
      BY <1>2 DEF Zai!Token, Zai!Fails
  <2> QED BY <2>1 DEF Zai!Call
<1>3. CASE Zai!Forward
  <2>1. at = "request" /\ UNCHANGED <<answer, closes>>
      BY <1>3 DEF Zai!Forward
  <2>2. CASE at' = "await" /\ worker' = "call" /\ cancelled' = gone
      BY <1>3, <2>1, <2>2 DEF Zai!Forward
  <2>3. CASE at' = "returned" /\ UNCHANGED <<worker, cancelled>>
      BY <1>3, <2>1, <2>3 DEF Zai!Forward
  <2> QED BY <1>3, <2>2, <2>3 DEF Zai!Forward, Zai!Fails
<1>4. CASE Zai!CallerLeaves
    BY <1>4 DEF Zai!CallerLeaves
<1>5. CASE Zai!DoReturns
    BY <1>5 DEF Zai!DoReturns
<1>6. CASE Zai!Receive
  <2>1. /\ at = "await" /\ worker = "offer" /\ worker' = "over"
        /\ UNCHANGED <<answer, gone>> /\ closes = 0
      BY <1>6 DEF Zai!Receive
  <2>2. CASE answer = "response" /\ at' = "stream" /\ UNCHANGED <<cancelled, closes>>
      BY <2>1, <2>2
  <2>3. CASE at' = "returned" /\ cancelled' = TRUE /\ closes' = Due
      BY <2>1, <2>3
  <2>4. CASE ~cancelled /\ answer = "response"
      BY <1>6, <2>2, <2>4 DEF Zai!Receive
  <2>5. CASE cancelled \/ answer = "error"
    <3>1. at' = "returned" /\ cancelled' = TRUE
          /\ closes' = IF answer = "response" THEN closes + 1 ELSE closes
        BY <1>6, <2>5 DEF Zai!Receive, Zai!Refuse
    <3> QED BY <2>1, <2>3, <3>1
  <2> QED BY <1>6, <2>4, <2>5 DEF Zai!Receive
<1>7. CASE Zai!GiveUp
    BY <1>7 DEF Zai!GiveUp
<1>8. CASE Zai!HeaderTimeout \/ Zai!TimedOut \/ Zai!SeesCancel
    BY <1>8 DEF Zai!HeaderTimeout, Zai!TimedOut, Zai!SeesCancel, Zai!Refuse
<1>9. CASE Zai!StreamEnds
  <2>1. answer = "response" /\ closes = 0 /\ worker = "over" /\ closes' = closes + 1
      BY <1>9 DEF Zai!StreamEnds
  <2>2. closes' = 1 /\ UNCHANGED <<answer, worker, cancelled, gone>> /\ at' = "closing"
      BY <1>9, <2>1 DEF Zai!StreamEnds
  <2> QED BY <2>1, <2>2
<1>10. CASE Zai!Return
    BY <1>10 DEF Zai!Return
<1>11. CASE UNCHANGED Zai!vars
    BY <1>11 DEF Zai!vars
<1> QED BY <1>1, <1>2, <1>3, <1>4, <1>5, <1>6, <1>7, <1>8, <1>9, <1>10, <1>11 DEF Zai!Next

------------------------------------------------------------------------------
(* Sessions that walk a plan over one cache.                               *)

Answers == [to : Sessions, url : Walk!Urls, validators : Versions \cup {Walk!serveAsset},
            state : {"due", "read", "lost"}]

Entries == [url : Walk!Urls, validators : Versions \cup {Walk!serveAsset}, nr : Nat, since : Nat]

PlanTypes ==
    /\ stepOf \in [Sessions -> 0..Len(Plan)] /\ asking \in [Sessions -> BOOLEAN]
    /\ DOMAIN document = Sessions /\ DOMAIN request = Sessions
    /\ answers \in Seq(Answers) /\ read \in Seq(Entries)
    /\ asOf \in [Sessions -> Nat]

\* The document of a session is the one open at its step, or the one it asks for.
Walks(s) ==
    /\ stepOf[s] # 0 =>
         document[s] = IF asking[s] /\ Plan[stepOf[s]].type = "document"
                         THEN Plan[stepOf[s]].url ELSE Walk!OpenAt(stepOf[s])
    /\ asking[s] =>
         /\ stepOf[s] # 0 /\ request[s].url = Plan[stepOf[s]].url
         /\ LET now == Plan[stepOf[s]]
            IN now.type # "document" /\ now.referer = Walk!Nowhere /\ now.given = Walk!Nothing =>
                 request[s].site = SiteOf(Walk!OpenAt(stepOf[s]), now.url)
WalkInv == \A s \in Sessions : Walks(s)

\* An answer on its way is the one its session waits for.
DueInv ==
    /\ \A i \in DOMAIN answers : answers[i].state = "due" =>
         asking[answers[i].to] /\ request[answers[i].to].url = answers[i].url
    /\ \A i, j \in DOMAIN answers :
         answers[i].state = "due" /\ answers[j].state = "due" /\ answers[i].to = answers[j].to => i = j

Held(u) == IF u \in DOMAIN cache THEN cache[u] ELSE Walk!NoValidators

\* Walk!Shown, of any sequence of answers.
LastOf(S) == IF S = {} THEN 0 ELSE CHOOSE k \in S : \A j \in S : j <= k
LatestIn(r, n, u) == LastOf({k \in 1..n : r[k].url = u})
ShownIn(r, n, u) ==
    IF LatestIn(r, n, u) = 0 THEN Walk!NoValidators ELSE r[LatestIn(r, n, u)].validators

\* The cache holds what the last answer that was read said, and a request what
\* it held when it was made.
HeldInv ==
    /\ \A u \in Walk!Urls : Held(u) = ShownIn(read, Len(read), u)
    /\ \A s \in Sessions :
         /\ asOf[s] <= Len(read)
         /\ asking[s] => request[s].validators = ShownIn(read, asOf[s], request[s].url)

\* An answer given before one that was read earlier is of an exchange that had
\* begun by then: so it is with what was read, and with what is on its way.
OrderInv ==
    /\ \A k \in DOMAIN read : read[k].nr <= Len(answers)
    /\ \A j, k \in DOMAIN read : j < k /\ read[j].nr > read[k].nr => read[k].since < j
    /\ \A i \in DOMAIN answers, j \in DOMAIN read :
         answers[i].state = "due" /\ read[j].nr > i => asOf[answers[i].to] < j

PlanInv == PlanTypes /\ WalkInv /\ DueInv /\ HeldInv /\ OrderInv

\* Of the first answers the last for a page is one of them.
LEMMA LatestIsOne ==
    ASSUME NEW r, NEW n \in Nat, NEW u
    PROVE  /\ LatestIn(r, n, u) \in 0..n
           /\ \A k \in 1..n : r[k].url = u => k <= LatestIn(r, n, u)
           /\ LatestIn(r, n, u) # 0 => r[LatestIn(r, n, u)].url = u
<1> DEFINE its(m) == {k \in 1..m : r[k].url = u}
           T == {m \in Nat : its(m) # {} => \E k \in its(m) : \A j \in its(m) : j <= k}
<1>1. 0 \in T
  OBVIOUS
<1>2. ASSUME NEW m \in Nat, m \in T PROVE m + 1 \in T
  <2>1. \A k : k \in its(m + 1) <=> k \in its(m) \/ (k = m + 1 /\ r[m + 1].url = u)
    OBVIOUS
  <2>2. \A k \in its(m) : k <= m + 1
    OBVIOUS
  <2>3. its(m) # {} => \E k \in its(m) : \A j \in its(m) : j <= k
    BY <1>2
  <2>4. m + 1 <= m + 1
    OBVIOUS
  <2> HIDE DEF its
  <2>5. CASE r[m + 1].url = u
    BY <2>1, <2>2, <2>4, <2>5
  <2>6. CASE r[m + 1].url # u
    BY <2>1, <2>3, <2>6
  <2> QED BY <2>5, <2>6
<1>3. n \in T
  <2> HIDE DEF T
  <2> QED BY <1>1, <1>2, Climb
<1>4. \A k \in its(n) : k \in 1..n /\ k # 0 /\ r[k].url = u
  OBVIOUS
<1>5. \A k \in 1..n : r[k].url = u => k \in its(n)
  OBVIOUS
<1>6. LatestIn(r, n, u) = LastOf(its(n))
  BY DEF LatestIn
<1>7. its(n) # {} => \E k \in its(n) : \A j \in its(n) : j <= k
  BY <1>3
<1> HIDE DEF its, T
<1>8. CASE its(n) = {}
  BY <1>5, <1>6, <1>8 DEF LastOf
<1>9. CASE its(n) # {}
  <2>1. LatestIn(r, n, u) \in its(n) /\ \A j \in its(n) : j <= LatestIn(r, n, u)
    BY <1>6, <1>7, <1>9 DEF LastOf
  <2> QED BY <1>4, <1>5, <2>1
<1> QED BY <1>8, <1>9

\* What the first answers show does not depend on those after them.
LEMMA ShownStays ==
    ASSUME NEW r, NEW t, NEW n \in Nat, NEW u, \A k \in 1..n : t[k] = r[k]
    PROVE  ShownIn(t, n, u) = ShownIn(r, n, u)
<1>1. {k \in 1..n : t[k].url = u} = {k \in 1..n : r[k].url = u}
  OBVIOUS
<1>2. LatestIn(t, n, u) = LatestIn(r, n, u)
  BY <1>1, Zenon DEF LatestIn
<1>3. LatestIn(r, n, u) \in 0..n
  BY LatestIsOne
<1>4. LatestIn(r, n, u) # 0 => t[LatestIn(r, n, u)] = r[LatestIn(r, n, u)]
  BY <1>3
<1> QED BY <1>2, <1>4, Zenon DEF ShownIn

\* One more answer shows what it says of its own page.
LEMMA ShownNext ==
    ASSUME NEW t, NEW n \in Nat, NEW u
    PROVE  ShownIn(t, n + 1, u) = IF t[n + 1].url = u THEN t[n + 1].validators ELSE ShownIn(t, n, u)
<1> DEFINE its(m) == {k \in 1..m : t[k].url = u}
<1>1. CASE t[n + 1].url = u
  <2>1. LatestIn(t, n + 1, u) \in 0..n + 1 /\ n + 1 <= LatestIn(t, n + 1, u)
    BY <1>1, LatestIsOne
  <2>2. LatestIn(t, n + 1, u) = n + 1 /\ n + 1 # 0
    BY <2>1
  <2> QED BY <1>1, <2>2, Zenon DEF ShownIn
<1>2. CASE t[n + 1].url # u
  <2>1. {k \in 1..n + 1 : t[k].url = u} = {k \in 1..n : t[k].url = u}
    BY <1>2
  <2>2. LatestIn(t, n + 1, u) = LatestIn(t, n, u)
    BY <2>1, Zenon DEF LatestIn
  <2> QED BY <1>2, <2>2, Zenon DEF ShownIn
<1> QED BY <1>1, <1>2

\* The document that is open at the next step.
LEMMA OpenAtNext ==
    ASSUME NEW i \in 1..Len(Plan)
    PROVE  Walk!OpenAt(i + 1) = IF Plan[i].type = "document" THEN Plan[i].url ELSE Walk!OpenAt(i)
<1> DEFINE docs(k) == {j \in 1..k - 1 : Plan[j].type = "document"}
<1> DEFINE last(k) == CHOOSE j \in docs(k) : \A l \in docs(k) : l <= j
<1>0. /\ Walk!OpenAt(i + 1) =
           IF docs(i + 1) = {} THEN Walk!Nowhere ELSE Plan[last(i + 1)].url
      /\ Walk!OpenAt(i) = IF docs(i) = {} THEN Walk!Nowhere ELSE Plan[last(i)].url
  BY Zenon DEF Walk!OpenAt
<1>1. \A j : j \in 1..(i + 1) - 1 <=> j \in 1..i - 1 \/ j = i
  BY CallersAssumption
<1>2. CASE Plan[i].type = "document"
  <2>1. i \in docs(i + 1) /\ \A j \in docs(i + 1) : j <= i /\ j \in Int
    BY <1>1, <1>2, CallersAssumption
  <2>2. last(i + 1) = i
    <3> HIDE DEF docs
    <3>1. \A j \in docs(i + 1) : (\A k \in docs(i + 1) : k <= j) => j = i
      BY <2>1
    <3>2. \E j \in docs(i + 1) : \A k \in docs(i + 1) : k <= j
      BY <2>1
    <3> QED BY <3>1, <3>2
  <2>3. docs(i + 1) # {}
    BY <2>1
  <2> HIDE DEF docs, last
  <2> QED BY <1>0, <1>2, <2>2, <2>3
<1>3. CASE Plan[i].type # "document"
  <2>1. docs(i + 1) = docs(i)
    BY <1>1, <1>3
  <2> HIDE DEF docs
  <2>2. last(i + 1) = last(i)
    BY <2>1
  <2> HIDE DEF last
  <2> QED BY <1>0, <1>3, <2>1, <2>2
<1> QED BY <1>2, <1>3

LEMMA OpenAtFirst == Walk!OpenAt(1) = Walk!Nowhere
<1>1. 1..1 - 1 = {}
  OBVIOUS
<1> QED BY <1>1 DEF Walk!OpenAt

\* What a request of a step says.
LEMMA RequestSays ==
    ASSUME NEW now, NEW initiator, NEW r, r = Walk!applyValidators(Walk!stepRequest(now, initiator))
    PROVE  /\ r.url = now.url
           /\ now.type # "document" /\ now.given = Walk!Nothing => r.site = SiteOf(initiator, now.url)
           /\ r.validators = Held(now.url)
<1> DEFINE q == Walk!stepRequest(now, initiator)
<1>1. /\ q.url = now.url /\ q.validators = Walk!NoValidators
      /\ now.type # "document" /\ now.given = Walk!Nothing => q.site = SiteOf(initiator, now.url)
  BY DEF Walk!stepRequest, Walk!Request, Walk!NoRequest, Walk!stepSecFetchSite, Walk!Nothing
<1>2. /\ r.url = q.url /\ r.site = q.site
      /\ r.validators = IF q.url \in DOMAIN cache THEN cache[q.url] ELSE q.validators
  BY DEF Walk!applyValidators, Walk!stepRequest, Walk!Request, Walk!NoRequest
<1> QED BY <1>1, <1>2 DEF Held

\* A step that leaves the answers, the cache and the sessions that wait alone.
LEMMA AnswersStay ==
    ASSUME DueInv, HeldInv, OrderInv, UNCHANGED <<answers, asking, request, cache, read, asOf>>
    PROVE  DueInv' /\ HeldInv' /\ OrderInv'
BY Zenon DEF DueInv, HeldInv, OrderInv, Held

\* A session that is not the one of a step.
LEMMA OthersWalk ==
    ASSUME WalkInv, NEW t \in Sessions, stepOf'[t] = stepOf[t], asking'[t] = asking[t],
           document'[t] = document[t], request'[t] = request[t]
    PROVE  Walks(t)'
BY DEF WalkInv, Walks

LEMMA BeginKeeps ==
    ASSUME PlanInv, NEW s \in Sessions, Walk!Begin(s)
    PROVE  PlanInv'
<1>1. /\ stepOf[s] = 0 /\ ~asking[s]
      /\ stepOf' = [stepOf EXCEPT ![s] = 1] /\ document' = [document EXCEPT ![s] = Walk!Nowhere]
      /\ UNCHANGED <<cache, asking, request, answers, read, asOf>>
  BY DEF Walk!Begin, PlanInv, PlanTypes, WalkInv, Walks
<1>2. PlanTypes'
  BY <1>1, CallersAssumption DEF PlanInv, PlanTypes
<1>3. /\ stepOf'[s] = 1 /\ document'[s] = Walk!Nowhere
      /\ \A t \in Sessions \ {s} : stepOf'[t] = stepOf[t] /\ document'[t] = document[t]
  BY <1>1 DEF PlanInv, PlanTypes
<1>4. WalkInv'
  <2>1. Walks(s)'
    BY <1>1, <1>3, OpenAtFirst DEF Walks
  <2>2. \A t \in Sessions \ {s} : Walks(t)'
    BY <1>1, <1>3, OthersWalk DEF PlanInv
  <2> QED BY <2>1, <2>2 DEF WalkInv
<1>5. DueInv' /\ HeldInv' /\ OrderInv'
  BY <1>1, AnswersStay DEF PlanInv
<1> QED BY <1>2, <1>4, <1>5 DEF PlanInv

LEMMA BadStepKeeps ==
    ASSUME PlanInv, NEW s \in Sessions, Walk!BadStep(s)
    PROVE  PlanInv'
<1>1. /\ ~asking[s] /\ stepOf' = [stepOf EXCEPT ![s] = 0]
      /\ UNCHANGED <<cache, asking, document, request, answers, read, asOf>>
  BY DEF Walk!BadStep, Walk!End
<1>2. PlanTypes'
  BY <1>1, CallersAssumption DEF PlanInv, PlanTypes
<1>3. stepOf'[s] = 0 /\ \A t \in Sessions \ {s} : stepOf'[t] = stepOf[t]
  BY <1>1 DEF PlanInv, PlanTypes
<1>4. WalkInv'
  <2>1. Walks(s)'
    BY <1>1, <1>3 DEF Walks
  <2>2. \A t \in Sessions \ {s} : Walks(t)'
    BY <1>1, <1>3, OthersWalk DEF PlanInv
  <2> QED BY <2>1, <2>2 DEF WalkInv
<1>5. DueInv' /\ HeldInv' /\ OrderInv'
  BY <1>1, AnswersStay DEF PlanInv
<1> QED BY <1>2, <1>4, <1>5 DEF PlanInv

\* The request of the step, with what the cache holds of its page.
LEMMA AskKeeps ==
    ASSUME PlanInv, NEW s \in Sessions, Walk!Ask(s)
    PROVE  PlanInv'
<1> DEFINE now == Plan[stepOf[s]]
           r == Walk!applyValidators(Walk!stepRequest(now, Walk!Initiator(s)))
<1>1. /\ stepOf[s] # 0 /\ ~asking[s]
      /\ request' = [request EXCEPT ![s] = r]
      /\ document' = [document EXCEPT ![s] = IF now.type = "document" THEN now.url ELSE document[s]]
      /\ asking' = [asking EXCEPT ![s] = TRUE]
      /\ asOf' = [asOf EXCEPT ![s] = Len(read)]
      /\ UNCHANGED <<cache, stepOf, answers, read>>
  BY DEF Walk!Ask
<1>2. /\ r.url = now.url
      /\ now.type # "document" /\ now.given = Walk!Nothing => r.site = SiteOf(Walk!Initiator(s), now.url)
      /\ r.validators = Held(now.url)
  BY RequestSays
<1>3. now.type # "document" /\ now.referer = Walk!Nowhere => Walk!Initiator(s) = document[s]
  BY DEF Walk!Initiator
<1> HIDE DEF r
<1>4. /\ request'[s] = r /\ asking'[s]
      /\ document'[s] = IF now.type = "document" THEN now.url ELSE document[s]
      /\ \A t \in Sessions \ {s} :
           request'[t] = request[t] /\ document'[t] = document[t] /\ asking'[t] = asking[t]
      /\ asOf'[s] = Len(read) /\ \A t \in Sessions \ {s} : asOf'[t] = asOf[t]
  BY <1>1 DEF PlanInv, PlanTypes
<1>5. PlanTypes'
  BY <1>1 DEF PlanInv, PlanTypes
<1>6. WalkInv'
  <2>1. document[s] = Walk!OpenAt(stepOf[s])
    BY <1>1 DEF PlanInv, WalkInv, Walks
  <2>2. Walks(s)'
    BY <1>1, <1>2, <1>3, <1>4, <2>1 DEF Walks
  <2>3. \A t \in Sessions \ {s} : Walks(t)'
    BY <1>1, <1>4, OthersWalk DEF PlanInv
  <2> QED BY <2>2, <2>3 DEF WalkInv
<1>7. \A i \in DOMAIN answers : answers[i].state = "due" => answers[i].to \in Sessions \ {s}
  <2>1. \A i \in DOMAIN answers : answers[i] \in Answers
    BY DEF PlanInv, PlanTypes
  <2> QED BY <1>1, <2>1 DEF PlanInv, DueInv, Answers
<1>8. DueInv'
  BY <1>1, <1>4, <1>7 DEF PlanInv, DueInv
<1>9. HeldInv'
  <2>1. \A u \in Walk!Urls : Held(u)' = ShownIn(read', Len(read'), u)
    BY <1>1 DEF PlanInv, HeldInv, Held
  <2>2. now.url \in Walk!Urls
    <3>1. stepOf[s] \in DOMAIN Plan
      BY <1>1, CallersAssumption DEF PlanInv, PlanTypes
    <3> QED BY <3>1 DEF Walk!Urls
  <2>3. request'[s].validators = ShownIn(read', asOf'[s], request'[s].url)
    BY <1>1, <1>2, <1>4, <2>2 DEF PlanInv, HeldInv
  <2>4. asOf'[s] <= Len(read')
    BY <1>1, <1>4 DEF PlanInv, PlanTypes
  <2>5. \A t \in Sessions \ {s} :
          /\ asOf'[t] <= Len(read')
          /\ asking'[t] => request'[t].validators = ShownIn(read', asOf'[t], request'[t].url)
    BY <1>1, <1>4 DEF PlanInv, HeldInv
  <2> QED BY <2>1, <2>3, <2>4, <2>5 DEF HeldInv
<1>10. OrderInv'
  BY <1>1, <1>4, <1>7 DEF PlanInv, OrderInv
<1> QED BY <1>5, <1>6, <1>8, <1>9, <1>10 DEF PlanInv

\* The new answer is given after all that were read, and the only one on its
\* way to the session that waits for it.
LEMMA AnswerKeeps ==
    ASSUME PlanInv, NEW s \in Sessions, NEW v \in Versions, Walk!Answer(s, v)
    PROVE  PlanInv'
<1> DEFINE new == [to |-> s, url |-> request[s].url, validators |-> v, state |-> "due"]
           n == Len(answers) + 1
<1>1. /\ asking[s] /\ \A i \in DOMAIN answers : ~(answers[i].to = s /\ answers[i].state = "due")
      /\ answers' = Append(answers, new)
      /\ UNCHANGED <<cache, stepOf, asking, document, request, read, asOf>>
  BY DEF Walk!Answer, Walk!OnItsWay
<1>2. new \in Answers
  <2>1. stepOf[s] \in DOMAIN Plan /\ request[s].url = Plan[stepOf[s]].url
    BY <1>1, CallersAssumption DEF PlanInv, PlanTypes, WalkInv, Walks
  <2>2. request[s].url \in Walk!Urls
    BY <2>1 DEF Walk!Urls
  <2> QED BY <2>2 DEF Answers
<1>3. /\ new.to = s /\ new.url = request[s].url /\ new.state = "due"
  OBVIOUS
<1> HIDE DEF new
<1>4. answers \in Seq(Answers) /\ Len(answers) \in Nat
  BY DEF PlanInv, PlanTypes
<1>5. /\ answers' \in Seq(Answers) /\ DOMAIN answers' = 1..n /\ DOMAIN answers = 1..Len(answers)
      /\ answers'[n] = new /\ \A i \in DOMAIN answers : answers'[i] = answers[i]
  BY <1>1, <1>2, <1>4
<1>6. /\ n \in DOMAIN answers' /\ \A i \in DOMAIN answers : i \in DOMAIN answers' /\ i <= n
      /\ \A i \in DOMAIN answers' : i \in DOMAIN answers \/ i = n
      /\ n \notin DOMAIN answers /\ n <= n
  BY <1>4, <1>5
<1> HIDE DEF n
<1>7. PlanTypes'
  BY <1>1, <1>5 DEF PlanInv, PlanTypes
<1>8. WalkInv'
  BY <1>1, OthersWalk DEF PlanInv, WalkInv
<1>9. DueInv'
  BY <1>1, <1>3, <1>5, <1>6 DEF PlanInv, DueInv
<1>10. HeldInv'
  BY <1>1, Zenon DEF PlanInv, HeldInv, Held
<1>11. OrderInv'
  <2>1. Len(answers') = n /\ Len(answers) <= n
    BY <1>1, <1>4 DEF n
  <2>2. \A k \in DOMAIN read : read[k].nr \in Nat /\ read[k].nr <= Len(answers)
    <3>1. \A k \in DOMAIN read : read[k] \in Entries
      BY DEF PlanInv, PlanTypes
    <3>2. \A e \in Entries : e.nr \in Nat
      BY DEF Entries
    <3> QED BY <3>1, <3>2 DEF PlanInv, OrderInv
  <2>3. n \in Nat /\ \A k \in DOMAIN read : read[k].nr <= n /\ ~(read[k].nr > n)
    BY <1>4, <2>1, <2>2 DEF n
  <2>4. \A i \in DOMAIN answers', j \in DOMAIN read' :
          answers'[i].state = "due" /\ read'[j].nr > i => asOf'[answers'[i].to] < j
    <3> SUFFICES ASSUME NEW i \in DOMAIN answers', NEW j \in DOMAIN read,
                        answers'[i].state = "due", read[j].nr > i
                 PROVE  asOf[answers'[i].to] < j
      BY <1>1
    <3>1. i \in DOMAIN answers
      BY <1>6, <2>3
    <3> QED BY <1>5, <3>1 DEF PlanInv, OrderInv
  <2> QED BY <1>1, <2>1, <2>3, <2>4 DEF PlanInv, OrderInv
<1> QED BY <1>7, <1>8, <1>9, <1>10, <1>11 DEF PlanInv

\* What was on its way to the session is lost; what was read stays.
LEMMA FailsKeeps ==
    ASSUME PlanInv, NEW s \in Sessions, Walk!Fails(s)
    PROVE  PlanInv'
<1>1. /\ asking' = [asking EXCEPT ![s] = FALSE] /\ stepOf' = [stepOf EXCEPT ![s] = 0]
      /\ answers' = [i \in DOMAIN answers |->
                       IF answers[i].to = s /\ answers[i].state = "due"
                         THEN [answers[i] EXCEPT !.state = "lost"] ELSE answers[i]]
      /\ request' = [request EXCEPT ![s] = Walk!NoRequest]
      /\ UNCHANGED <<cache, document, read, asOf>>
  BY DEF Walk!Fails, Walk!End, Walk!OnItsWay
<1>2. /\ stepOf'[s] = 0 /\ ~asking'[s]
      /\ \A t \in Sessions \ {s} :
           stepOf'[t] = stepOf[t] /\ asking'[t] = asking[t] /\ request'[t] = request[t] /\ document'[t] = document[t]
  BY <1>1 DEF PlanInv, PlanTypes
<1>3. answers \in Seq(Answers) /\ Len(answers) \in Nat /\ DOMAIN answers = 1..Len(answers)
      /\ \A i \in DOMAIN answers : answers[i] \in Answers
  BY DEF PlanInv, PlanTypes
<1>4. /\ DOMAIN answers' = DOMAIN answers
      /\ \A i \in DOMAIN answers :
           /\ answers'[i] \in Answers /\ answers'[i].to = answers[i].to
           /\ answers'[i].url = answers[i].url /\ answers'[i].validators = answers[i].validators
           /\ answers'[i].state = "due" <=> answers[i].state = "due" /\ answers[i].to # s
           /\ answers'[i].state = "read" <=> answers[i].state = "read"
  BY <1>1, <1>3 DEF Answers
<1>5. answers' \in Seq(Answers)
  <2>1. answers' \in [1..Len(answers) -> Answers]
    BY <1>1, <1>3, <1>4
  <2> QED BY <1>3, <2>1, SeqDef
<1>6. PlanTypes'
  BY <1>1, <1>5, CallersAssumption DEF PlanInv, PlanTypes
<1>7. WalkInv'
  <2>1. Walks(s)'
    BY <1>2 DEF Walks
  <2>2. \A t \in Sessions \ {s} : Walks(t)'
    BY <1>2, OthersWalk DEF PlanInv
  <2> QED BY <2>1, <2>2 DEF WalkInv
<1>8. DueInv'
  <2>1. \A i \in DOMAIN answers : answers[i].to \in Sessions
    BY <1>3 DEF Answers
  <2> QED BY <1>2, <1>4, <2>1 DEF PlanInv, DueInv
<1>9. HeldInv'
  BY <1>1, <1>2 DEF PlanInv, HeldInv, Held
<1>10. OrderInv'
  <2>1. Len(answers') = Len(answers)
    BY <1>3, <1>4, <1>5
  <2> QED BY <1>1, <1>4, <2>1 DEF PlanInv, OrderInv
<1> QED BY <1>6, <1>7, <1>8, <1>9, <1>10 DEF PlanInv

\* What the cache holds of a page after an answer is stored.
LEMMA StoreHolds ==
    ASSUME NEW u, NEW v, cache' = Walk!Store(u, v), NEW w
    PROVE  Held(w)' = IF w = u THEN v ELSE Held(w)
BY DEF Held, Walk!Store, Walk!Entry

\* The answer that arrives is the last that was read: the cache shows what it
\* says, and what was given after it and read before was read during its exchange.
LEMMA ReceiveKeeps ==
    ASSUME PlanInv, NEW s \in Sessions, NEW n \in DOMAIN answers, Walk!Receive(s, n)
    PROVE  PlanInv'
<1>1. /\ answers[n].to = s /\ answers[n].state = "due"
      /\ request' = [request EXCEPT ![s] = Walk!NoRequest]
      /\ cache' = Walk!Store(answers[n].url, answers[n].validators)
      /\ answers' = [answers EXCEPT ![n].state = "read"]
      /\ asking' = [asking EXCEPT ![s] = FALSE]
      /\ stepOf' = [stepOf EXCEPT ![s] = IF stepOf[s] = Len(Plan) THEN 0 ELSE stepOf[s] + 1]
      /\ read' = Append(read, [url |-> answers[n].url, validators |-> answers[n].validators,
                               nr |-> n, since |-> asOf[s]])
      /\ UNCHANGED <<document, asOf>>
  BY DEF Walk!Receive, Walk!OnItsWay
<1>2. /\ stepOf'[s] = (IF stepOf[s] = Len(Plan) THEN 0 ELSE stepOf[s] + 1) /\ ~asking'[s]
      /\ \A t \in Sessions \ {s} :
           stepOf'[t] = stepOf[t] /\ asking'[t] = asking[t] /\ request'[t] = request[t] /\ document'[t] = document[t]
  BY <1>1 DEF PlanInv, PlanTypes
<1>3. answers \in Seq(Answers) /\ DOMAIN answers = 1..Len(answers) /\ Len(answers) \in Nat
      /\ \A i \in DOMAIN answers : answers[i] \in Answers
  BY DEF PlanInv, PlanTypes
<1>4. /\ DOMAIN answers' = DOMAIN answers
      /\ \A i \in DOMAIN answers :
           /\ answers'[i] \in Answers /\ answers'[i].to = answers[i].to
           /\ answers'[i].url = answers[i].url /\ answers'[i].validators = answers[i].validators
           /\ answers'[i].state = IF i = n THEN "read" ELSE answers[i].state
  BY <1>1, <1>3 DEF Answers
<1>5. answers' \in Seq(Answers)
  <2>1. answers' \in [1..Len(answers) -> Answers]
    BY <1>1, <1>3, <1>4
  <2> QED BY <1>3, <2>1, SeqDef
<1>6. stepOf[s] \in 1..Len(Plan) /\ asking[s] /\ request[s].url = answers[n].url
  BY <1>1, CallersAssumption DEF PlanInv, PlanTypes, DueInv, WalkInv, Walks
<1> DEFINE new == [url |-> answers[n].url, validators |-> answers[n].validators,
                   nr |-> n, since |-> asOf[s]]
           m == Len(read)
<1>12. read \in Seq(Entries) /\ m \in Nat /\ DOMAIN read = 1..m /\ asOf[s] \in Nat
  BY DEF PlanInv, PlanTypes
<1>13. /\ new \in Entries /\ new.url = answers[n].url /\ new.validators = answers[n].validators
       /\ new.nr = n /\ new.since = asOf[s]
  BY <1>3, <1>12 DEF Answers, Entries
<1> HIDE DEF new
<1>14. read' = Append(read, new)
  BY <1>1 DEF new
<1>15. /\ read' \in Seq(Entries) /\ Len(read') = m + 1 /\ DOMAIN read' = 1..m + 1
       /\ read'[m + 1] = new /\ \A k \in 1..m : read'[k] = read[k]
  BY <1>12, <1>13, <1>14
<1> HIDE DEF m
<1>7. PlanTypes'
  BY <1>1, <1>5, <1>6, <1>15, CallersAssumption DEF PlanInv, PlanTypes
<1>8. WalkInv'
  <2>1. Walks(s)'
    <3>1. stepOf[s] # 0
      BY <1>6
    <3>2. document[s] = IF Plan[stepOf[s]].type = "document" THEN Plan[stepOf[s]].url
                        ELSE Walk!OpenAt(stepOf[s])
      BY <1>6, <3>1 DEF PlanInv, WalkInv, Walks
    <3>3. document[s] = Walk!OpenAt(stepOf[s] + 1)
      BY <1>6, <3>2, OpenAtNext
    <3>4. document'[s] = document[s]
      BY <1>1
    <3>5. stepOf'[s] # 0 => stepOf'[s] = stepOf[s] + 1
      BY <1>2
    <3> QED BY <1>2, <3>3, <3>4, <3>5 DEF Walks
  <2>2. \A t \in Sessions \ {s} : Walks(t)'
    BY <1>2, OthersWalk DEF PlanInv
  <2> QED BY <2>1, <2>2 DEF WalkInv
<1>9. \A i \in DOMAIN answers : answers'[i].state = "due" =>
        i # n /\ answers[i].state = "due" /\ answers[i].to \in Sessions \ {s}
  BY <1>1, <1>3, <1>4 DEF PlanInv, DueInv, Answers
<1>10. DueInv'
  BY <1>2, <1>4, <1>9 DEF PlanInv, DueInv
<1>11. HeldInv'
  <2> DEFINE w == answers[n].url
             v == answers[n].validators
  <2>1. \A u : ShownIn(read', m, u) = ShownIn(read, m, u)
    BY <1>12, <1>15, ShownStays
  <2>2. \A u : ShownIn(read', m + 1, u) = IF w = u THEN v ELSE ShownIn(read, m, u)
    <3> SUFFICES ASSUME NEW u
                 PROVE  ShownIn(read', m + 1, u) = IF w = u THEN v ELSE ShownIn(read, m, u)
      OBVIOUS
    <3>1. ShownIn(read', m + 1, u) =
            IF read'[m + 1].url = u THEN read'[m + 1].validators ELSE ShownIn(read', m, u)
      BY <1>12, ShownNext
    <3>2. read'[m + 1].url = w /\ read'[m + 1].validators = v
      BY <1>13, <1>15
    <3> HIDE DEF w, v
    <3> QED BY <2>1, <3>1, <3>2, Zenon
  <2>3. \A u : Held(u)' = IF u = w THEN v ELSE Held(u)
    <3>1. cache' = Walk!Store(w, v)
      BY <1>1
    <3> HIDE DEF w, v
    <3> QED BY <3>1, StoreHolds
  <2>4. \A u \in Walk!Urls : Held(u)' = ShownIn(read', Len(read'), u)
    <3> HIDE DEF w, v
    <3>1. \A u \in Walk!Urls : Held(u) = ShownIn(read, m, u)
      BY DEF PlanInv, HeldInv, m
    <3> QED BY <1>15, <2>2, <2>3, <3>1
  <2>5. \A t \in Sessions : asOf'[t] <= Len(read') /\ asOf[t] \in Nat /\ asOf[t] <= m
    <3>1. \A t \in Sessions : asOf[t] \in Nat /\ asOf[t] <= m
      BY DEF PlanInv, PlanTypes, HeldInv, m
    <3> QED BY <1>1, <1>12, <1>15, <3>1
  <2>6. \A t \in Sessions \ {s} : asking'[t] =>
          request'[t].validators = ShownIn(read', asOf'[t], request'[t].url)
    <3> SUFFICES ASSUME NEW t \in Sessions \ {s}, asking[t]
                 PROVE  request[t].validators = ShownIn(read', asOf[t], request[t].url)
      BY <1>1, <1>2
    <3>1. request[t].validators = ShownIn(read, asOf[t], request[t].url)
      BY DEF PlanInv, HeldInv
    <3>2. \A k \in 1..asOf[t] : read'[k] = read[k]
      BY <1>12, <1>15, <2>5
    <3>3. ShownIn(read', asOf[t], request[t].url) = ShownIn(read, asOf[t], request[t].url)
      BY <2>5, <3>2, ShownStays
    <3> QED BY <3>1, <3>3
  <2> QED BY <1>2, <2>4, <2>5, <2>6 DEF HeldInv
<1>16. OrderInv'
  <2>1. Len(answers') = Len(answers) /\ n \in Nat /\ n <= Len(answers)
    BY <1>3, <1>4, <1>5
  <2>2. \A k \in DOMAIN read : read[k].nr \in Nat /\ k \in Nat /\ k <= m
    <3>1. \A k \in DOMAIN read : read[k] \in Entries
      BY <1>12
    <3>2. \A e \in Entries : e.nr \in Nat
      BY DEF Entries
    <3> QED BY <1>12, <3>1, <3>2
  <2>3. \A k \in DOMAIN read' : read'[k].nr <= Len(answers')
    BY <1>12, <1>13, <1>15, <2>1 DEF PlanInv, OrderInv
  <2>4. \A i \in DOMAIN answers, j \in DOMAIN read :
          answers[i].state = "due" /\ read[j].nr > i => asOf[answers[i].to] < j
    BY DEF PlanInv, OrderInv
  <2>5. \A j, k \in DOMAIN read' : j < k /\ read'[j].nr > read'[k].nr => read'[k].since < j
    <3> SUFFICES ASSUME NEW j \in DOMAIN read', NEW k \in DOMAIN read', j < k,
                        read'[j].nr > read'[k].nr
                 PROVE  read'[k].since < j
      OBVIOUS
    <3>1. j \in 1..m /\ (k \in 1..m \/ k = m + 1)
      BY <1>12, <1>15
    <3>2. CASE k \in 1..m
      BY <1>12, <1>15, <3>1, <3>2 DEF PlanInv, OrderInv
    <3>3. CASE k = m + 1
      <4>1. read[j].nr > n /\ read'[k].since = asOf[s]
        BY <1>13, <1>15, <3>1, <3>3
      <4> QED BY <1>1, <1>12, <2>4, <3>1, <4>1
    <3> QED BY <3>1, <3>2, <3>3
  <2>6. \A i \in DOMAIN answers', j \in DOMAIN read' :
          answers'[i].state = "due" /\ read'[j].nr > i => asOf'[answers'[i].to] < j
    <3> SUFFICES ASSUME NEW i \in DOMAIN answers', NEW j \in DOMAIN read',
                        answers'[i].state = "due", read'[j].nr > i
                 PROVE  asOf[answers'[i].to] < j
      BY <1>1
    <3>1. i \in DOMAIN answers /\ answers[i].state = "due" /\ answers'[i].to = answers[i].to
          /\ answers[i].to \in Sessions
      BY <1>4, <1>9
    <3>2. CASE j \in 1..m
      BY <1>12, <1>15, <2>4, <3>1, <3>2
    <3>3. CASE j = m + 1
      <4>1. asOf[answers[i].to] \in Nat /\ asOf[answers[i].to] <= m
        BY <3>1 DEF PlanInv, PlanTypes, HeldInv, m
      <4> QED BY <1>12, <3>1, <3>3, <4>1
    <3>4. j \in 1..m \/ j = m + 1
      BY <1>12, <1>15
    <3> QED BY <3>1, <3>2, <3>3, <3>4
  <2> QED BY <2>3, <2>5, <2>6 DEF OrderInv
<1> QED BY <1>7, <1>8, <1>10, <1>11, <1>16 DEF PlanInv

LEMMA PlanInvNext == ASSUME PlanInv, [Walk!Next]_(Walk!vars) PROVE PlanInv'
<1>1. CASE UNCHANGED Walk!vars
  <2>1. DueInv' /\ HeldInv' /\ OrderInv'
    BY <1>1, AnswersStay DEF PlanInv, Walk!vars
  <2>2. WalkInv'
    BY <1>1, OthersWalk DEF PlanInv, Walk!vars, WalkInv
  <2> QED BY <1>1, <2>1, <2>2 DEF PlanInv, PlanTypes, Walk!vars
<1>2. ASSUME NEW s \in Sessions,
             \/ Walk!Begin(s) \/ Walk!Ask(s) \/ Walk!BadStep(s) \/ Walk!Fails(s)
             \/ \E v \in Versions : Walk!Answer(s, v)
             \/ \E i \in DOMAIN answers : Walk!Receive(s, i)
      PROVE  PlanInv'
  BY <1>2, BeginKeeps, AskKeeps, BadStepKeeps, FailsKeeps, AnswerKeeps, ReceiveKeeps
<1> QED BY <1>1, <1>2 DEF Walk!Next

LEMMA PlanInvInit == ASSUME Walk!Init PROVE PlanInv
<1>1. PlanTypes
  BY CallersAssumption DEF Walk!Init, PlanTypes
<1>2. WalkInv
  BY DEF Walk!Init, WalkInv, Walks
<1>3. DOMAIN answers = {}
  BY DEF Walk!Init
<1>4. DueInv
  BY <1>3 DEF DueInv
<1>5. HeldInv
  <2>1. \A u : ShownIn(read, 0, u) = Walk!NoValidators
    <3>1. 1..0 = {}
      OBVIOUS
    <3> QED BY <3>1, Zenon DEF ShownIn, LatestIn, LastOf
  <2>2. Len(read) = 0 /\ \A s \in Sessions : asOf[s] = 0 /\ ~asking[s]
    BY DEF Walk!Init
  <2>3. \A u : Held(u) = Walk!NoValidators
    BY DEF Walk!Init, Held
  <2> QED BY <2>1, <2>2, <2>3 DEF HeldInv
<1>6. OrderInv
  BY <1>3 DEF Walk!Init, OrderInv
<1> QED BY <1>1, <1>2, <1>4, <1>5, <1>6 DEF PlanInv

\* What the invariant says of the property.
LEMMA PlanInvAsks == ASSUME PlanInv PROVE Walk!AsksAsABrowser
<1>1. Walk!SendsWhatWasReadLast
  BY Zenon DEF Walk!SendsWhatWasReadLast, Walk!Shown, Walk!Latest, ShownIn, LatestIn, LastOf,
               PlanInv, HeldInv
<1>2. Walk!OnlyAnOverlapIsStale
  <2> SUFFICES ASSUME NEW s \in Sessions, asking[s]
               PROVE  LET k == LatestIn(read, asOf[s], request[s].url)
                      IN \A j \in 1..k - 1 :
                           read[j].url = request[s].url /\ read[j].nr > read[k].nr => read[k].since < j
    BY Zenon DEF Walk!OnlyAnOverlapIsStale, Walk!Latest, LatestIn, LastOf
  <2> DEFINE k == LatestIn(read, asOf[s], request[s].url)
  <2>1. asOf[s] \in Nat /\ asOf[s] <= Len(read) /\ read \in Seq(Entries)
    BY DEF PlanInv, PlanTypes, HeldInv
  <2>2. k \in 0..asOf[s]
    BY <2>1, LatestIsOne
  <2> HIDE DEF k
  <2>3. \A j \in 1..k - 1 : j \in DOMAIN read /\ k \in DOMAIN read /\ j < k
    BY <2>1, <2>2
  <2>4. \A j \in 1..k - 1 : read[j].nr > read[k].nr => read[k].since < j
    BY <2>3 DEF PlanInv, OrderInv
  <2> QED BY <2>4 DEF k
<1>3. Walk!SiteFollowsTheDocument
  BY DEF Walk!SiteFollowsTheDocument, PlanInv, WalkInv, Walks
<1> QED BY <1>1, <1>2, <1>3 DEF Walk!AsksAsABrowser

------------------------------------------------------------------------------
(* The theorems.                                                           *)

CallersInv == SockInv /\ OwnerInv /\ (program = "plan" => PlanInv)

LEMMA CallersInvInit == ASSUME CallersInit PROVE CallersInv
<1>1. SockInv
  BY DEF CallersInit, WireIdle, Wire!Init, SockInv
<1>2. OwnerInv
  BY DEF CallersInit, GatewayIdle, Zai!Init, OwnerInv
<1>3. program = "plan" => PlanInv
  BY PlanInvInit DEF CallersInit
<1> QED BY <1>1, <1>2, <1>3 DEF CallersInv

LEMMA CallersInvStep == ASSUME CallersInv, [CallersNext]_callersVars PROVE CallersInv'
<1>1. SockInv'
  <2>1. [Wire!Next]_(Wire!vars)
    BY DEF CallersNext, FetchdNext, GatewayNext, PlanNext, callersVars, wireOnly, Wire!vars
  <2> QED BY <2>1, SockInvNext DEF CallersInv
<1>2. OwnerInv'
  <2>1. [Zai!Next]_(Zai!vars)
    BY DEF CallersNext, FetchdNext, WireRest, GatewayNext, PlanNext, callersVars, gatewayOnly, Zai!vars
  <2> QED BY <2>1, OwnerInvNext DEF CallersInv
<1>3. (program = "plan" => PlanInv)'
  <2>1. program' = program /\ [Walk!Next]_(Walk!vars)
    BY DEF CallersNext, FetchdNext, WireRest, GatewayNext, PlanNext, callersVars, planOnly, Walk!vars
  <2> QED BY <2>1, PlanInvNext DEF CallersInv
<1> QED BY <1>1, <1>2, <1>3 DEF CallersInv

LEMMA CallersInvHolds == CallersSpec => []CallersInv
BY CallersInvInit, CallersInvStep, PTL DEF CallersSpec

\* Whatever the server, the proxy and the context do, a call that is over has
\* closed its socket, unless it was to open one and did (http1.go:103-148,
\* client.go:331-449).
THEOREM SocketIsClosed == CallersSpec => []NoSocketLeft
<1>1. CallersInv => NoSocketLeft
  BY DEF CallersInv, SockInv, NoSocketLeft, Wire!NoSocketLeft
<1> QED BY <1>1, CallersInvHolds, PTL

\* Whoever wins the race of the answer, the timer and the two contexts, the
\* body of an answer is closed once, and no goroutine keeps one (gateway
\* main.go:54-106).
THEOREM AnswerHasOneOwner == CallersSpec => []AnswerIsClosedOnce
<1>1. CallersInv => AnswerIsClosedOnce
  BY DEF CallersInv, OwnerInv, Due, AnswerIsClosedOnce, Zai!AnswerIsClosedOnce
<1> QED BY <1>1, CallersInvHolds, PTL

\* For every plan and however many sessions walk it over one cache: a request
\* carries the validators of the answer for its page that was read last before
\* it was made, by whichever session; they are older than those of an answer
\* read before only where the exchange they are from had begun when that one was
\* read; and what a page embeds says how it relates to the page open in its own
\* walk (plan.go:183-283).
THEOREM WalksAskAsABrowser == CallersSpec => []AsksAsABrowser
<1>1. CallersInv => AsksAsABrowser
  BY PlanInvAsks DEF CallersInv, AsksAsABrowser
<1> QED BY <1>1, CallersInvHolds, PTL

------------------------------------------------------------------------------
(* Types, and what a dial may take.                                        *)

\* A phase of the dial begins with its whole bound, and there are three: what
\* has passed and what is left never exceed the bounds of the phases so far.
WindowInv ==
    /\ spent \in 0..3 * DialTimeout
    /\ step = "idle" => spent = 0
    /\ step \in {"dial", "connect", "tls"} => left \in 0..DialTimeout
    /\ step = "dial" => spent + left <= DialTimeout
    /\ step = "connect" => spent + left <= 2 * DialTimeout
    /\ step = "tls" => spent + left <= 3 * DialTimeout

WireTypes ==
    /\ kind \in {"http", "ws"} /\ proxied \in BOOLEAN
    /\ step \in Wire!Dialing \cup {"idle", "write", "read", "decode", "upgrade", "body",
                                   "closing", "over"}
    /\ life \in 0..CallTimeout \cup 0..DialTimeout \cup {Forever}
    /\ left \in 0..CallTimeout \cup 0..DialTimeout \cup {Forever}
    /\ done \in BOOLEAN
    /\ sock \in {"none", "open", "closed"}
    /\ result \in {"none", "error", "response", "conn"}

LEMMA Bounds ==
    /\ DialTimeout \in Nat /\ CallTimeout \in Nat
    /\ Forever \notin 0..DialTimeout /\ Forever \notin 0..CallTimeout
BY CallersAssumption

LEMMA WireTypesNext == ASSUME WireTypes, SockInv, [Wire!Next]_(Wire!vars) PROVE WireTypes'
<1> DEFINE T == 0..CallTimeout \cup 0..DialTimeout \cup {Forever}
<1>1. DialTimeout \in T /\ Forever \in T
  BY Bounds
<1>2. ASSUME NEW t \in T, t # 0 PROVE Wire!Less(t) \in T
  BY <1>2, Bounds DEF Wire!Less
<1>3. ASSUME NEW n \in {"dial", "connect", "tls", "idle", "write", "read", "decode", "upgrade",
                        "body", "closing", "over"}
      PROVE  n \in Wire!Dialing \cup {"idle", "write", "read", "decode", "upgrade", "body",
                                      "closing", "over"}
  BY <1>3 DEF Wire!Dialing
<1> HIDE DEF T
<1>4. /\ kind \in {"http", "ws"} /\ proxied \in BOOLEAN /\ life \in T /\ left \in T
      /\ done \in BOOLEAN /\ sock \in {"none", "open", "closed"}
      /\ result \in {"none", "error", "response", "conn"}
  BY DEF WireTypes, T
<1>5. ASSUME Wire!Constant,
             life' \in T, left' \in T, done' \in BOOLEAN, sock' \in {"none", "open", "closed"},
             result' \in {"none", "error", "response", "conn"},
             step' \in {"dial", "connect", "tls", "idle", "write", "read", "decode", "upgrade",
                        "body", "closing", "over"} \/ step' = step
      PROVE  WireTypes'
  <2>1. kind' \in {"http", "ws"} /\ proxied' \in BOOLEAN
    BY <1>4, <1>5 DEF Wire!Constant
  <2>2. step' \in Wire!Dialing \cup {"idle", "write", "read", "decode", "upgrade", "body",
                                     "closing", "over"}
    BY <1>3, <1>5 DEF WireTypes
  <2> QED BY <1>5, <2>1, <2>2 DEF WireTypes, T
<1>6. CASE Wire!Tick
  <2>1. left # 0 /\ (life # 0 \/ done) /\ left' = Wire!Less(left)
        /\ life' = IF done THEN life ELSE Wire!Less(life)
    BY <1>6 DEF Wire!Tick
  <2>2. left' \in T /\ life' \in T
    BY <1>2, <1>4, <2>1
  <2> QED BY <1>4, <1>5, <1>6, <2>2 DEF Wire!Tick
<1>7. CASE Wire!Cancel \/ Wire!Expires
  BY <1>4, <1>5, <1>7 DEF Wire!Cancel, Wire!Expires
<1>8. ASSUME Wire!Fail, Wire!Constant, life' = life, done' = done PROVE WireTypes'
  BY <1>1, <1>4, <1>5, <1>8 DEF Wire!Fail
<1>9. CASE Wire!Begin
  <2>1. CASE Wire!Fail /\ UNCHANGED life
    BY <1>8, <1>9, <2>1 DEF Wire!Begin
  <2>2. CASE /\ step' = "dial" /\ left' = DialTimeout
             /\ life' = IF kind = "ws" /\ (life = Forever \/ life > DialTimeout)
                          THEN DialTimeout ELSE life
             /\ UNCHANGED <<sock, watched, result>>
    BY <1>1, <1>4, <1>5, <1>9, <2>2 DEF Wire!Begin
  <2> QED BY <1>9, <2>1, <2>2 DEF Wire!Begin
<1>10. CASE Wire!Dialed \/ Wire!Tunnelled \/ Wire!Handshaken
  BY <1>1, <1>4, <1>5, <1>10 DEF Wire!Dialed, Wire!Tunnelled, Wire!Handshaken, Wire!Context
<1>11. CASE Wire!DialFails \/ Wire!ExchangeFails
  BY <1>8, <1>11 DEF Wire!DialFails, Wire!ExchangeFails, Wire!Context
<1>12. CASE Wire!Written \/ Wire!Answered \/ Wire!Decoded \/ Wire!Watcher
  BY <1>1, <1>4, <1>5, <1>12 DEF Wire!Written, Wire!Answered, Wire!Decoded, Wire!Watcher, Wire!Context
<1>13. CASE Wire!Upgraded \/ Wire!CloseBody \/ Wire!Drained
  BY <1>1, <1>4, <1>5, <1>13 DEF Wire!Upgraded, Wire!CloseBody, Wire!Drained, Wire!Context
<1>14. CASE UNCHANGED Wire!vars
  BY <1>14 DEF WireTypes, Wire!vars
<1> QED BY <1>6, <1>7, <1>9, <1>10, <1>11, <1>12, <1>13, <1>14 DEF Wire!Next

LEMMA WindowInvNext == ASSUME WindowInv, [Wire!Next]_(Wire!vars) PROVE WindowInv'
<1> USE Bounds
<1>1. CASE Wire!Tick
  <2>1. /\ step # "idle" /\ left # 0 /\ left' = Wire!Less(left) /\ step' = step
        /\ spent' = IF step \in Wire!Dialing THEN spent + 1 ELSE spent
    BY <1>1 DEF Wire!Tick
  <2>2. CASE step \in {"dial", "connect", "tls"}
    <3>1. left \in 0..DialTimeout /\ left # 0 /\ left # Forever
      BY <2>1, <2>2 DEF WindowInv
    <3>2. left' = left - 1 /\ spent' = spent + 1
      BY <2>1, <2>2, <3>1 DEF Wire!Less, Wire!Dialing
    <3> QED BY <2>1, <2>2, <3>1, <3>2 DEF WindowInv
  <2>3. CASE step \notin {"dial", "connect", "tls"}
    <3>1. spent' = spent
      BY <2>1, <2>3 DEF Wire!Dialing
    <3> QED BY <2>1, <2>3, <3>1 DEF WindowInv
  <2> QED BY <2>2, <2>3
<1>2. ASSUME spent' = spent, step' \notin {"idle", "dial", "connect", "tls"} PROVE WindowInv'
  BY <1>2 DEF WindowInv
<1>3. ASSUME UNCHANGED <<spent, step, left>> PROVE WindowInv'
  BY <1>3 DEF WindowInv
<1>4. CASE Wire!Begin
  <2>1. spent' = spent /\ step = "idle"
    BY <1>4 DEF Wire!Begin
  <2>2. (step' = "dial" /\ left' = DialTimeout) \/ step' = "over"
    BY <1>4 DEF Wire!Begin, Wire!Fail
  <2> QED BY <1>2, <2>1, <2>2 DEF WindowInv
<1>5. CASE Wire!Dialed
  <2>1. /\ step = "dial" /\ spent' = spent /\ left' = DialTimeout /\ step' \in {"connect", "tls"}
    BY <1>5 DEF Wire!Dialed
  <2> QED BY <2>1 DEF WindowInv
<1>6. CASE Wire!Tunnelled
  <2>1. /\ step = "connect" /\ spent' = spent /\ left' = DialTimeout /\ step' = "tls"
    BY <1>6 DEF Wire!Tunnelled
  <2> QED BY <2>1 DEF WindowInv
<1>7. CASE Wire!Handshaken \/ Wire!DialFails \/ Wire!Written \/ Wire!Answered \/ Wire!Decoded
           \/ Wire!ExchangeFails \/ Wire!Upgraded \/ Wire!CloseBody \/ Wire!Drained
  <2>1. spent' = spent /\ step' \notin {"idle", "dial", "connect", "tls"}
    BY <1>7 DEF Wire!Handshaken, Wire!DialFails, Wire!Written, Wire!Answered, Wire!Decoded,
                Wire!ExchangeFails, Wire!Upgraded, Wire!CloseBody, Wire!Drained, Wire!Fail
  <2> QED BY <1>2, <2>1
<1>8. CASE Wire!Cancel \/ Wire!Expires \/ Wire!Watcher \/ UNCHANGED Wire!vars
  BY <1>3, <1>8 DEF Wire!Cancel, Wire!Expires, Wire!Watcher, Wire!vars
<1> QED BY <1>1, <1>4, <1>5, <1>6, <1>7, <1>8 DEF Wire!Next

GatewayTypes ==
    /\ at \in {"envelope", "token", "request", "await", "stream", "closing", "returned"}
    /\ fired \in BOOLEAN
    /\ answer \in {"none", "response", "error"}
    /\ reply \in {0, 200, 400, 500, 502, 504}

LEMMA GatewayTypesNext == ASSUME GatewayTypes, [Zai!Next]_(Zai!vars) PROVE GatewayTypes'
<1>1. at' \in {"envelope", "token", "request", "await", "stream", "closing", "returned"}
  BY DEF GatewayTypes, Zai!Next, Zai!vars, Zai!Envelope, Zai!Token, Zai!Forward, Zai!CallerLeaves,
         Zai!DoReturns, Zai!Receive, Zai!GiveUp, Zai!HeaderTimeout, Zai!TimedOut, Zai!SeesCancel,
         Zai!StreamEnds, Zai!Return, Zai!Fails, Zai!Refuse
<1>2. answer' \in {"none", "response", "error"}
  BY DEF GatewayTypes, Zai!Next, Zai!vars, Zai!Envelope, Zai!Token, Zai!Forward, Zai!CallerLeaves,
         Zai!DoReturns, Zai!Receive, Zai!GiveUp, Zai!HeaderTimeout, Zai!TimedOut, Zai!SeesCancel,
         Zai!StreamEnds, Zai!Return, Zai!Call
<1>4. fired' = fired \/ fired' = TRUE
  BY DEF Zai!Next, Zai!vars, Zai!Envelope, Zai!Token, Zai!Forward, Zai!CallerLeaves,
         Zai!DoReturns, Zai!Receive, Zai!GiveUp, Zai!HeaderTimeout, Zai!TimedOut, Zai!SeesCancel,
         Zai!StreamEnds, Zai!Return, Zai!Call
<1>3. reply' \in {0, 200, 400, 500, 502, 504}
  BY DEF GatewayTypes, Zai!Next, Zai!vars, Zai!Envelope, Zai!Token, Zai!Forward, Zai!CallerLeaves,
         Zai!DoReturns, Zai!Receive, Zai!GiveUp, Zai!HeaderTimeout, Zai!TimedOut, Zai!SeesCancel,
         Zai!StreamEnds, Zai!Return, Zai!Fails, Zai!Refuse
<1> QED BY <1>1, <1>2, <1>3, <1>4 DEF GatewayTypes

WalkTypes ==
    /\ DOMAIN cache \subseteq Walk!Urls
    /\ document \in [Sessions -> Walk!Urls \cup {Walk!Nowhere}]

LEMMA WalkTypesNext == ASSUME WalkTypes, PlanInv, [Walk!Next]_(Walk!vars) PROVE WalkTypes'
<1>1. \A u, v : u \in Walk!Urls => DOMAIN Walk!Store(u, v) \subseteq Walk!Urls
  BY DEF WalkTypes, Walk!Store, Walk!Entry
<1>2. ASSUME NEW s \in Sessions, Walk!Ask(s) PROVE WalkTypes'
  <2>1. stepOf[s] \in DOMAIN Plan
    BY <1>2, CallersAssumption DEF Walk!Ask, PlanInv, PlanTypes
  <2>2. Plan[stepOf[s]].url \in Walk!Urls
    BY <2>1 DEF Walk!Urls
  <2>3. /\ cache' = cache
        /\ document' = [document EXCEPT ![s] = IF Plan[stepOf[s]].type = "document"
                                                 THEN Plan[stepOf[s]].url ELSE @]
    BY <1>2 DEF Walk!Ask
  <2> QED BY <2>2, <2>3 DEF WalkTypes
<1>3. ASSUME NEW s \in Sessions, NEW i \in DOMAIN answers, Walk!Receive(s, i) PROVE WalkTypes'
  <2>1. answers[i].to = s /\ answers[i].state = "due" /\ asking[s] /\ request[s].url = answers[i].url
    BY <1>3 DEF Walk!Receive, Walk!OnItsWay, PlanInv, DueInv
  <2>2. stepOf[s] \in DOMAIN Plan /\ answers[i].url = Plan[stepOf[s]].url
    BY <2>1, CallersAssumption DEF PlanInv, PlanTypes, WalkInv, Walks
  <2>3. answers[i].url \in Walk!Urls
    BY <2>2 DEF Walk!Urls
  <2> QED BY <1>1, <1>3, <2>3 DEF Walk!Receive, WalkTypes
<1>4. ASSUME NEW s \in Sessions,
             \/ Walk!Begin(s) \/ Walk!BadStep(s) \/ Walk!Fails(s)
             \/ \E v \in Versions : Walk!Answer(s, v)
      PROVE  WalkTypes'
  BY <1>4 DEF WalkTypes, Walk!Begin, Walk!BadStep, Walk!Fails, Walk!Answer
<1>5. CASE UNCHANGED Walk!vars
  BY <1>5 DEF WalkTypes, Walk!vars
<1> QED BY <1>2, <1>3, <1>4, <1>5 DEF Walk!Next

PoolTypes ==
    /\ made \in 0..MaxClients
    /\ settings \in [1..made -> Asked]
    /\ \A k \in DOMAIN clients : clients[k] \in 1..made
    /\ idle \in [1..made -> Nat] /\ closing \in [1..made -> BOOLEAN]
    /\ pc \in [Calls -> {"idle", "have", "busy"}]
    /\ req \in [Calls -> Requests] /\ client \in [Calls -> 0..made]

LEMMA MissTypes ==
    ASSUME PoolTypes, NEW c \in Calls, NEW r \in Requests, Miss(c, r)
    PROVE  PoolTypes'
<1> DEFINE key == CacheKey(r)
           n == made + 1
<1>1. /\ made \in Nat /\ MaxClients \in Nat /\ made < MaxClients /\ made' = n
      /\ made' \in 0..MaxClients
  BY PoolAssumption DEF PoolTypes, Miss
<1>2. settings' \in [1..made' -> Asked]
  <2> DEFINE w == Wanted(r)
  <2>1. settings' = Append(settings, w) /\ settings \in [1..made -> Asked] /\ w \in Asked
    BY DEF Miss, PoolTypes, Asked
  <2> HIDE DEF w
  <2>2. settings \in Seq(Asked) /\ Len(settings) = made
    BY <1>1, <2>1
  <2>3. settings' \in Seq(Asked \cup {w}) /\ Len(settings') = n
    BY <2>1, <2>2, AppendTail
  <2>4. Asked \cup {w} = Asked
    BY <2>1
  <2> QED BY <1>1, <2>3, <2>4
<1>3. \A k \in DOMAIN clients' : clients'[k] \in 1..made'
  <2>1. \A k \in DOMAIN clients' : clients'[k] = n \/ (k \in DOMAIN clients /\ clients'[k] = clients[k])
    BY DEF Miss, PoolClient
  <2> QED BY <1>1, <2>1, SMTT(40) DEF PoolTypes
<1>4. idle' \in [1..made' -> Nat]
  <2>1. PICK closed : idle' = [i \in 1..(made + 1) |-> IF i \in {closed, made + 1} THEN 0 ELSE idle[i]]
    BY DEF Miss, PoolClient
  <2>2. \A i \in 1..n : i # n => i \in 1..made
    BY <1>1
  <2> QED BY <1>1, <2>1, <2>2 DEF PoolTypes
<1>5. closing' \in [1..made' -> BOOLEAN]
  <2>1. PICK closed : closing' = [i \in 1..(made + 1) |-> IF i = closed THEN TRUE
                                                          ELSE i # made + 1 /\ closing[i]]
    BY DEF Miss, PoolClient
  <2>2. \A i \in 1..n : closing'[i] \in BOOLEAN
    BY <2>1, Zenon
  <2>3. DOMAIN closing' = 1..n /\ closing' = [i \in 1..n |-> closing'[i]]
    BY <2>1, Zenon
  <2> QED BY <1>1, <2>2, <2>3
<1>6. req' \in [Calls -> Requests] /\ pc' \in [Calls -> {"idle", "have", "busy"}]
  BY DEF Miss, PoolTypes
<1>7. client' \in [Calls -> 0..made']
  BY <1>1 DEF Miss, PoolTypes
<1> QED BY <1>1, <1>2, <1>3, <1>4, <1>5, <1>6, <1>7 DEF PoolTypes

LEMMA PoolTypesNext == ASSUME PoolTypes, [Next]_vars PROVE PoolTypes'
<1>1. made \in Nat
  BY PoolAssumption DEF PoolTypes
<1>2. ASSUME NEW c \in Calls, NEW r \in Requests, Hit(c, r) PROVE PoolTypes'
  BY <1>1, <1>2 DEF Hit, PoolTypes, poolVars, connVars
<1>3. ASSUME NEW c \in Calls, Do(c) PROVE PoolTypes'
  <2>1. closing' \in [1..made -> BOOLEAN] /\ pc' \in [Calls -> {"idle", "have", "busy"}]
    BY <1>3 DEF Do, PoolTypes
  <2>2. idle' \in [1..made -> Nat]
    <3>1. \A i \in 1..made : (IF idle[i] > 0 THEN idle[i] - 1 ELSE 0) \in Nat
      BY DEF PoolTypes
    <3> QED BY <1>3, <3>1 DEF Do, PoolTypes
  <2> QED BY <1>3, <2>1, <2>2 DEF Do, PoolTypes, poolVars
<1>4. ASSUME NEW c \in Calls, Done(c) PROVE PoolTypes'
  <2>1. idle' \in [1..made -> Nat]
    <3>1. \A i \in 1..made : idle[i] + 1 \in Nat
      BY DEF PoolTypes
    <3>2. idle' = [idle EXCEPT ![client[c]] = @ + 1] \/ idle' = idle
      BY <1>4 DEF Done
    <3>3. /\ DOMAIN idle = 1..made /\ idle \in [1..made -> Nat]
      BY DEF PoolTypes
    <3>4. \A i \in 1..made : idle'[i] \in {idle[i], idle[i] + 1}
      BY <3>2, <3>3
    <3>5. idle' = [i \in 1..made |-> idle'[i]]
      BY <3>2, <3>3
    <3> QED BY <3>1, <3>3, <3>4, <3>5
  <2>2. client' \in [Calls -> 0..made] /\ pc' \in [Calls -> {"idle", "have", "busy"}]
    BY <1>1, <1>4 DEF Done, PoolTypes
  <2> QED BY <1>4, <2>1, <2>2 DEF Done, PoolTypes, poolVars
<1>5. ASSUME NEW i \in 1..MaxClients, IdleConnTimeout(i) PROVE PoolTypes'
  <2>1. idle' \in [1..made -> Nat]
    BY <1>5 DEF IdleConnTimeout, PoolTypes
  <2> QED BY <1>5, <2>1 DEF IdleConnTimeout, PoolTypes, poolVars, callVars
<1>6. CASE UNCHANGED vars
  BY <1>6 DEF vars, poolVars, connVars, callVars, PoolTypes
<1> QED BY <1>2, <1>3, <1>4, <1>5, <1>6, MissTypes DEF Next

\* A dial has three bounds of its own and no more, however slow the proxy and
\* the server are: a caller that gives no context waits three times its bound
\* for it (mimic/client.go, dialProfileTLS).
THEOREM DialHasThreeWindows == CallersSpec => []Wire!ThreeDialWindows
<1>1. CallersInit => WindowInv
  BY Bounds DEF CallersInit, WireIdle, Wire!Init, WindowInv
<1>2. WindowInv /\ [CallersNext]_callersVars => WindowInv'
  <2>1. [CallersNext]_callersVars => [Wire!Next]_(Wire!vars)
    BY DEF CallersNext, FetchdNext, GatewayNext, PlanNext, callersVars, wireOnly, Wire!vars
  <2> QED BY <2>1, WindowInvNext
<1>3. WindowInv => Wire!ThreeDialWindows
  BY Bounds DEF WindowInv, Wire!ThreeDialWindows
<1> QED BY <1>1, <1>2, <1>3, PTL DEF CallersSpec

CallersTypes ==
    /\ program \in {"fetchd", "wire", "gateway", "plan"}
    /\ program = "fetchd" => PoolTypes
    /\ program = "wire" => WireTypes /\ WindowInv
    /\ program = "gateway" => GatewayTypes
    /\ program = "plan" => WalkTypes

LEMMA CallersTypesInit == ASSUME CallersInit PROVE CallersTypes
<1>1. CASE program = "fetchd"
  <2>1. Init
    BY <1>1 DEF CallersInit
  <2>2. made = 0 /\ 1..0 = {} /\ 0 \in 0..MaxClients
    BY <2>1, PoolAssumption DEF Init
  <2>3. settings \in [1..made -> Asked] /\ idle \in [1..made -> Nat]
        /\ closing \in [1..made -> BOOLEAN]
    BY <2>1, <2>2 DEF Init
  <2>4. req \in [Calls -> Requests]
    <3>1. (CHOOSE r \in Requests : TRUE) \in Requests
      BY PoolAssumption
    <3> QED BY <2>1, <3>1 DEF Init
  <2> QED BY <1>1, <2>1, <2>2, <2>3, <2>4 DEF Init, PoolTypes, CallersTypes
<1>2. CASE program = "wire"
  <2>1. Wire!Init
    BY <1>2 DEF CallersInit
  <2>2. WindowInv
    BY <2>1, Bounds DEF Wire!Init, WindowInv
  <2>3. life \in 0..CallTimeout \cup 0..DialTimeout \cup {Forever}
    BY <2>1, Bounds DEF Wire!Init
  <2> QED BY <1>2, <2>1, <2>2, <2>3 DEF Wire!Init, Wire!Dialing, WireTypes, CallersTypes
<1>3. CASE program = "gateway"
  BY <1>3 DEF CallersInit, Zai!Init, GatewayTypes, CallersTypes
<1>4. CASE program = "plan"
  BY <1>4 DEF CallersInit, Walk!Init, WalkTypes, CallersTypes
<1> QED BY <1>1, <1>2, <1>3, <1>4 DEF CallersInit

LEMMA CallersTypesStep ==
    ASSUME CallersTypes, CallersInv, [CallersNext]_callersVars PROVE CallersTypes'
<1>1. program' = program
  BY DEF CallersNext, FetchdNext, WireRest, GatewayNext, PlanNext, callersVars
<1>2. ASSUME program = "fetchd" PROVE PoolTypes'
  <2>1. [Next]_vars
    BY <1>2 DEF CallersNext, FetchdNext, WireRest, GatewayNext, PlanNext, callersVars
  <2> QED BY <1>2, <2>1, PoolTypesNext DEF CallersTypes
<1>3. ASSUME program = "wire" PROVE WireTypes' /\ WindowInv'
  <2>1. [Wire!Next]_(Wire!vars)
    BY DEF CallersNext, FetchdNext, GatewayNext, PlanNext, callersVars, wireOnly, Wire!vars
  <2> QED BY <1>3, <2>1, WireTypesNext, WindowInvNext DEF CallersTypes, CallersInv
<1>4. ASSUME program = "gateway" PROVE GatewayTypes'
  <2>1. [Zai!Next]_(Zai!vars)
    BY DEF CallersNext, FetchdNext, WireRest, GatewayNext, PlanNext, callersVars, gatewayOnly, Zai!vars
  <2> QED BY <1>4, <2>1, GatewayTypesNext DEF CallersTypes
<1>5. ASSUME program = "plan" PROVE WalkTypes'
  <2>1. [Walk!Next]_(Walk!vars)
    BY DEF CallersNext, FetchdNext, WireRest, GatewayNext, PlanNext, callersVars, planOnly, Walk!vars
  <2> QED BY <1>5, <2>1, WalkTypesNext DEF CallersTypes, CallersInv
<1> QED BY <1>1, <1>2, <1>3, <1>4, <1>5 DEF CallersTypes

\* Whatever the program, its variables keep their types: in particular nothing
\* refers to a client that was not made, and the cache holds no page that the
\* plan does not name.
THEOREM CallersKeepTypes == CallersSpec => []CallersTypeOK
<1>1. CallersTypes /\ CallersInv /\ PoolTyped => CallersTypeOK
  <2> SUFFICES ASSUME CallersTypes, CallersInv, PoolTyped PROVE CallersTypeOK
    OBVIOUS
  <2>1. CASE program = "fetchd"
    BY <2>1 DEF CallersTypes, PoolTypes, PoolTyped, Asked, TypeOK, CallersTypeOK
  <2>2. CASE program = "wire"
    <3>1. {life, left} \subseteq Wire!Ticks(CallTimeout) \cup Wire!Ticks(DialTimeout)
      BY <2>2 DEF CallersTypes, WireTypes, Wire!Ticks
    <3>2. Wire!TypeOK
      BY <2>2, <3>1 DEF CallersTypes, WireTypes, WindowInv, CallersInv, SockInv, Wire!TypeOK
    <3> QED BY <2>2, <3>2 DEF CallersTypeOK
  <2>3. CASE program = "gateway"
    <3>1. closes \in Nat
      BY <2>3 DEF CallersInv, OwnerInv, Due, CallersTypes, GatewayTypes
    <3>2. Zai!TypeOK
      BY <2>3, <3>1 DEF CallersInv, OwnerInv, CallersTypes, GatewayTypes, Zai!TypeOK
    <3> QED BY <2>3, <3>2 DEF CallersTypeOK
  <2>4. CASE program = "plan"
    <3>1. asOf \in [Sessions -> 0..Len(read)]
      BY <2>4 DEF CallersInv, PlanInv, PlanTypes, HeldInv
    <3> QED BY <2>4, <3>1 DEF CallersInv, PlanInv, PlanTypes, CallersTypes, WalkTypes, Walk!TypeOK,
                              CallersTypeOK
  <2> QED BY <2>1, <2>2, <2>3, <2>4 DEF CallersTypes
<1>2. CallersInit => PoolTyped
  BY PoolBegins, PoolInit
<1>3. PoolTyped /\ [CallersNext]_callersVars => PoolTyped'
  BY PoolMoves, PoolStep
<1> QED BY <1>1, <1>2, <1>3, CallersTypesInit, CallersTypesStep, CallersInvHolds, PTL DEF CallersSpec

==============================================================================
