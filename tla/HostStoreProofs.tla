---------------------------- MODULE HostStoreProofs ----------------------------
(***************************************************************************)
(* Proofs about HostStore, for texts over any set of symbols: List gives   *)
(* back the keys of its namespace, and namespaces without a separator do   *)
(* not meet.                                                               *)
(***************************************************************************)
EXTENDS HostStore, TLAPS

(* A concatenation, symbol by symbol.                                      *)
LEMMA Joined ==
    ASSUME NEW S, NEW p \in Seq(S), NEW k \in Seq(S)
    PROVE  /\ p \o k \in Seq(S)
           /\ Len(p \o k) = Len(p) + Len(k)
           /\ \A i \in 1..Len(p) : (p \o k)[i] = p[i]
           /\ \A i \in 1..Len(k) : (p \o k)[Len(p) + i] = k[i]
OBVIOUS

(* Two texts of one length that agree everywhere are equal.                *)
LEMMA Extensional ==
    ASSUME NEW S, NEW s \in Seq(S), NEW t \in Seq(S), Len(s) = Len(t),
           \A i \in 1..Len(s) : s[i] = t[i]
    PROVE  s = t
OBVIOUS

(* The slice of a text, symbol by symbol.                                  *)
LEMMA Sliced ==
    ASSUME NEW S, NEW t \in Seq(S), NEW m \in 1..(Len(t) + 1), NEW n \in 0..Len(t),
           m <= n + 1
    PROVE  /\ SubSeq(t, m, n) \in Seq(S)
           /\ Len(SubSeq(t, m, n)) = n - m + 1
           /\ \A i \in 1..(n - m + 1) : SubSeq(t, m, n)[i] = t[m + i - 1]
OBVIOUS

(* HasPrefix, symbol by symbol.                                            *)
LEMMA PrefixPointwise ==
    ASSUME NEW S, NEW t \in Seq(S), NEW p \in Seq(S)
    PROVE  HasPrefix(t, p) <=>
              Len(t) >= Len(p) /\ \A i \in 1..Len(p) : t[i] = p[i]
<1>1. ASSUME Len(t) >= Len(p)
      PROVE  SubSeq(t, 1, Len(p)) = p <=> \A i \in 1..Len(p) : t[i] = p[i]
  <2>1. /\ SubSeq(t, 1, Len(p)) \in Seq(S) /\ Len(SubSeq(t, 1, Len(p))) = Len(p)
        /\ \A i \in 1..Len(p) : SubSeq(t, 1, Len(p))[i] = t[i]
    BY <1>1, Sliced
  <2>2. (\A i \in 1..Len(p) : t[i] = p[i]) => SubSeq(t, 1, Len(p)) = p
    BY <2>1, Extensional
  <2> QED
    BY <2>1, <2>2
<1> QED
  BY <1>1 DEF HasPrefix

(* A prefix that was put in front is found there and trimmed off again.    *)
LEMMA TrimJoined ==
    ASSUME NEW S, NEW p \in Seq(S), NEW k \in Seq(S)
    PROVE  HasPrefix(p \o k, p) /\ TrimPrefix(p \o k, p) = k
<1>1. HasPrefix(p \o k, p)
  <2> DEFINE t == p \o k
  <2>1. t \in Seq(S) /\ Len(t) >= Len(p) /\ \A i \in 1..Len(p) : t[i] = p[i]
    BY Joined
  <2> HIDE DEF t
  <2>2. HasPrefix(t, p)
    BY <2>1, PrefixPointwise
  <2> QED
    BY <2>2 DEF t
<1>2. SubSeq(p \o k, Len(p) + 1, Len(p \o k)) = k
  <2> DEFINE t == p \o k
             r == SubSeq(t, Len(p) + 1, Len(t))
  <2>1. t \in Seq(S) /\ Len(t) = Len(p) + Len(k) /\ Len(p) \in Nat /\ Len(k) \in Nat
        /\ \A i \in 1..Len(k) : t[Len(p) + i] = k[i]
    BY Joined
  <2> HIDE DEF t
  <2>2. r \in Seq(S) /\ Len(r) = Len(k) /\ \A i \in 1..Len(k) : r[i] = t[Len(p) + i]
    BY <2>1, Sliced
  <2> HIDE DEF r
  <2>3. r = k
    BY <2>1, <2>2, Extensional
  <2> QED
    BY <2>3 DEF r, t
<1> QED
  BY <1>1, <1>2 DEF TrimPrefix

(* A text with a prefix is the prefix and what trimming leaves.            *)
LEMMA TrimmedRejoined ==
    ASSUME NEW S, NEW p \in Seq(S), NEW t \in Seq(S), HasPrefix(t, p)
    PROVE  TrimPrefix(t, p) \in Seq(S) /\ p \o TrimPrefix(t, p) = t
<1> DEFINE k == SubSeq(t, Len(p) + 1, Len(t))
<1>1. Len(t) >= Len(p) /\ \A i \in 1..Len(p) : t[i] = p[i]
  BY PrefixPointwise
<1>2. /\ k \in Seq(S) /\ Len(k) = Len(t) - Len(p)
      /\ \A i \in 1..Len(k) : k[i] = t[Len(p) + i]
  BY <1>1, Sliced
<1> HIDE DEF k
<1>3. /\ p \o k \in Seq(S) /\ Len(p \o k) = Len(t)
      /\ \A i \in 1..Len(p) : (p \o k)[i] = t[i]
      /\ \A i \in 1..Len(k) : (p \o k)[Len(p) + i] = t[Len(p) + i]
  BY <1>1, <1>2, Joined
<1>4. ASSUME NEW i \in 1..Len(t) PROVE (p \o k)[i] = t[i]
  <2>1. CASE i \in 1..Len(p)
    BY <1>3, <2>1
  <2>2. CASE i \notin 1..Len(p)
    <3>1. i - Len(p) \in 1..Len(k) /\ Len(p) + (i - Len(p)) = i
      BY <1>1, <1>2, <2>2
    <3> QED
      BY <1>3, <3>1
  <2> QED
    BY <2>1, <2>2
<1>5. p \o k = t
  BY <1>3, <1>4, Extensional
<1> QED
  BY <1>2, <1>5 DEF TrimPrefix, k

(* A longer prefix is the shorter one and a prefix of what trimming it     *)
(* leaves.                                                                 *)
LEMMA PrefixOfRest ==
    ASSUME NEW S, NEW p \in Seq(S), NEW q \in Seq(S), NEW k \in Seq(S)
    PROVE  HasPrefix(p \o k, p \o q) <=> HasPrefix(k, q)
<1> DEFINE t == p \o k
           u == p \o q
<1>1. /\ t \in Seq(S) /\ Len(t) = Len(p) + Len(k)
      /\ \A i \in 1..Len(p) : t[i] = p[i]
      /\ \A i \in 1..Len(k) : t[Len(p) + i] = k[i]
  BY Joined
<1>2. /\ u \in Seq(S) /\ Len(u) = Len(p) + Len(q)
      /\ \A i \in 1..Len(p) : u[i] = p[i]
      /\ \A i \in 1..Len(q) : u[Len(p) + i] = q[i]
  BY Joined
<1>3. Len(p) \in Nat /\ Len(q) \in Nat /\ Len(k) \in Nat
  OBVIOUS
<1> HIDE DEF t, u
<1>4. HasPrefix(t, u) <=> Len(t) >= Len(u) /\ \A i \in 1..Len(u) : t[i] = u[i]
  <2>1. t \in Seq(S) /\ u \in Seq(S)
    BY <1>1, <1>2
  <2> QED
    BY <2>1, PrefixPointwise, Zenon
<1>5. HasPrefix(k, q) <=> Len(k) >= Len(q) /\ \A i \in 1..Len(q) : k[i] = q[i]
  BY PrefixPointwise
<1>6. ASSUME HasPrefix(t, u) PROVE HasPrefix(k, q)
  <2>1. Len(k) >= Len(q)
    BY <1>1, <1>2, <1>3, <1>4, <1>6
  <2>2. ASSUME NEW i \in 1..Len(q) PROVE k[i] = q[i]
    <3>1. i \in 1..Len(k) /\ Len(p) + i \in 1..Len(u)
      BY <1>2, <1>3, <2>1
    <3> QED
      BY <1>1, <1>2, <1>4, <1>6, <3>1
  <2> QED
    BY <1>5, <2>1, <2>2
<1>7. ASSUME HasPrefix(k, q) PROVE HasPrefix(t, u)
  <2>1. Len(t) >= Len(u)
    BY <1>1, <1>2, <1>3, <1>5, <1>7
  <2>2. ASSUME NEW i \in 1..Len(u) PROVE t[i] = u[i]
    <3>1. CASE i \in 1..Len(p)
      BY <1>1, <1>2, <3>1
    <3>2. CASE i \notin 1..Len(p)
      <4>1. /\ i - Len(p) \in 1..Len(q) /\ i - Len(p) \in 1..Len(k)
            /\ Len(p) + (i - Len(p)) = i
        BY <1>2, <1>3, <1>5, <1>7, <3>2
      <4> QED
        BY <1>1, <1>2, <1>5, <1>7, <4>1
    <3> QED
      BY <3>1, <3>2
  <2> QED
    BY <1>4, <2>1, <2>2
<1>8. HasPrefix(t, u) <=> HasPrefix(k, q)
  BY <1>6, <1>7
<1> QED
  BY <1>8 DEF t, u

-----------------------------------------------------------------------------
(* storeClient.List asks for the keys below its prefix and trims it off    *)
(* the answer: what the module gets are the keys of its namespace that     *)
(* begin with what it asked for, each as it would pass it to Get.          *)
THEOREM ListSound ==
    ASSUME NEW S, "/" \in S, NEW store, DOMAIN store \subseteq Seq(S),
           NEW ns \in Seq(S), NEW prefix \in Seq(S)
    PROVE  List(store, ns, prefix) =
              {k \in Seq(S) : Prefix(ns) \o k \in DOMAIN store /\ HasPrefix(k, prefix)}
<1> DEFINE p == Prefix(ns)
<1>1. p \in Seq(S)
  BY DEF Prefix
<1> HIDE DEF p
<1>2. ASSUME NEW t \in StoreKeys(store, p \o prefix)
      PROVE  /\ TrimPrefix(t, p) \in Seq(S)
             /\ p \o TrimPrefix(t, p) \in DOMAIN store
             /\ HasPrefix(TrimPrefix(t, p), prefix)
  <2>1. t \in DOMAIN store /\ t \in Seq(S) /\ HasPrefix(t, p \o prefix)
    BY DEF StoreKeys
  <2>2. HasPrefix(t, p)
    <3> DEFINE q == p \o prefix
    <3>1. /\ q \in Seq(S) /\ Len(q) >= Len(p) /\ Len(p) \in Nat /\ Len(q) \in Nat
          /\ \A i \in 1..Len(p) : q[i] = p[i]
      BY <1>1, Joined
    <3>2. HasPrefix(t, q)
      BY <2>1
    <3> HIDE DEF q
    <3>3. Len(t) >= Len(q) /\ \A i \in 1..Len(q) : t[i] = q[i]
      BY <2>1, <3>1, <3>2, PrefixPointwise
    <3>4. Len(t) \in Nat /\ 1..Len(p) \subseteq 1..Len(q)
      BY <2>1, <3>1
    <3>5. Len(t) >= Len(p) /\ \A i \in 1..Len(p) : t[i] = p[i]
      BY <3>1, <3>3, <3>4
    <3> QED
      BY <1>1, <2>1, <3>5, PrefixPointwise
  <2>3. TrimPrefix(t, p) \in Seq(S) /\ p \o TrimPrefix(t, p) = t
    BY <1>1, <2>1, <2>2, TrimmedRejoined
  <2>4. HasPrefix(TrimPrefix(t, p), prefix)
    BY <1>1, <2>1, <2>3, PrefixOfRest
  <2> QED
    BY <2>1, <2>3, <2>4
<1>3. ASSUME NEW k \in Seq(S), p \o k \in DOMAIN store, HasPrefix(k, prefix)
      PROVE  p \o k \in StoreKeys(store, p \o prefix) /\ TrimPrefix(p \o k, p) = k
  BY <1>1, <1>3, TrimJoined, PrefixOfRest DEF StoreKeys
<1>4. List(store, ns, prefix) = {TrimPrefix(t, p) : t \in StoreKeys(store, p \o prefix)}
  BY DEF List, p
<1>5. \A k \in {TrimPrefix(t, p) : t \in StoreKeys(store, p \o prefix)} :
         k \in {x \in Seq(S) : p \o x \in DOMAIN store /\ HasPrefix(x, prefix)}
  BY <1>2
<1>6. \A k \in {x \in Seq(S) : p \o x \in DOMAIN store /\ HasPrefix(x, prefix)} :
         k \in {TrimPrefix(t, p) : t \in StoreKeys(store, p \o prefix)}
  BY <1>3
<1>7. {TrimPrefix(t, p) : t \in StoreKeys(store, p \o prefix)} =
         {x \in Seq(S) : p \o x \in DOMAIN store /\ HasPrefix(x, prefix)}
  BY <1>5, <1>6
<1> QED
  BY <1>4, <1>7 DEF p

(* A namespace is a name without the separator. *)
Plain(ns) == ns # << >> /\ \A i \in 1..Len(ns) : ns[i] # "/"

(* The keys of two plain namespaces differ: the first separator of a key   *)
(* is where its namespace ends.                                            *)
LEMMA KeysApart ==
    ASSUME NEW S, "/" \in S, NEW m \in Seq(S), NEW n \in Seq(S), Plain(m), Plain(n), m # n,
           NEW k \in Seq(S), NEW l \in Seq(S)
    PROVE  Prefix(m) \o k # Prefix(n) \o l
<1> SUFFICES ASSUME Prefix(m) \o k = Prefix(n) \o l PROVE FALSE
  OBVIOUS
<1> DEFINE t == Prefix(m) \o k
<1>1. ASSUME NEW x \in Seq(S), Plain(x), NEW y \in Seq(S), t = Prefix(x) \o y
      PROVE  /\ \A i \in 1..Len(x) : t[i] = x[i] /\ t[i] # "/"
             /\ t[Len(x) + 1] = "/"
  <2>1. Prefix(x) = x \o <<"/">> /\ <<"/">> \in Seq(S)
    BY <1>1 DEF Prefix, Plain
  <2>2. /\ Prefix(x) \in Seq(S) /\ Len(Prefix(x)) = Len(x) + 1
        /\ \A i \in 1..Len(x) : Prefix(x)[i] = x[i]
        /\ Prefix(x)[Len(x) + 1] = "/"
    BY <2>1
  <2>3. \A i \in 1..(Len(x) + 1) : t[i] = Prefix(x)[i]
    BY <1>1, <2>2, Joined
  <2>4. Len(x) \in Nat
    OBVIOUS
  <2> QED
    BY <1>1, <2>2, <2>3, <2>4 DEF Plain
<1> HIDE DEF t
<1>2. /\ \A i \in 1..Len(m) : t[i] = m[i] /\ t[i] # "/"
      /\ t[Len(m) + 1] = "/"
  BY <1>1 DEF t
<1>3. /\ \A i \in 1..Len(n) : t[i] = n[i] /\ t[i] # "/"
      /\ t[Len(n) + 1] = "/"
  BY <1>1 DEF t
<1>4. Len(m) \in Nat /\ Len(n) \in Nat
  OBVIOUS
<1>5. Len(m) = Len(n)
  <2>1. Len(m) < Len(n) => Len(m) + 1 \in 1..Len(n)
    BY <1>4
  <2>2. Len(n) < Len(m) => Len(n) + 1 \in 1..Len(m)
    BY <1>4
  <2> QED
    BY <1>2, <1>3, <1>4, <2>1, <2>2
<1>6. m = n
  BY <1>2, <1>3, <1>5, Extensional
<1> QED
  BY <1>6

(* "ns partitions within the module's own namespace" (Host.Store): what is *)
(* put or deleted under one plain namespace is not seen under another.     *)
THEOREM NamespacesApart ==
    ASSUME NEW S, "/" \in S, NEW store, NEW m \in Seq(S), NEW n \in Seq(S),
           Plain(m), Plain(n), m # n, NEW k \in Seq(S), NEW l \in Seq(S), NEW v
    PROVE  /\ Get(Put(store, m, k, v), n, l) = Get(store, n, l)
           /\ Get(Delete(store, m, k), n, l) = Get(store, n, l)
<1> DEFINE a == Prefix(m) \o k
           b == Prefix(n) \o l
<1>1. a # b
  BY KeysApart
<1> HIDE DEF a, b
<1>2. StoreGet(StorePut(store, a, v), b) = StoreGet(store, b)
  <2>1. DOMAIN StorePut(store, a, v) = DOMAIN store \cup {a}
    BY DEF StorePut
  <2>2. b \in DOMAIN store => StorePut(store, a, v)[b] = store[b]
    BY <1>1 DEF StorePut
  <2> QED
    BY <1>1, <2>1, <2>2 DEF StoreGet
<1>3. StoreGet(StoreDelete(store, a), b) = StoreGet(store, b)
  <2>1. DOMAIN StoreDelete(store, a) = DOMAIN store \ {a}
    BY DEF StoreDelete
  <2>2. b \in DOMAIN store => StoreDelete(store, a)[b] = store[b]
    BY <1>1 DEF StoreDelete
  <2> QED
    BY <1>1, <2>1, <2>2 DEF StoreGet
<1> QED
  BY <1>2, <1>3 DEF Get, Put, Delete, a, b

(* A module reads back what it put, in any namespace, and finds nothing    *)
(* where it deleted.                                                       *)
THEOREM ReadYourWrites ==
    ASSUME NEW store, NEW ns, NEW k, NEW v
    PROVE  /\ Get(Put(store, ns, k, v), ns, k) = [found |-> TRUE, value |-> v]
           /\ Get(Delete(store, ns, k), ns, k) = [found |-> FALSE]
BY DEF Get, Put, Delete, StoreGet, StorePut, StoreDelete

=============================================================================
