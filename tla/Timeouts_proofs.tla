---------------------------- MODULE Timeouts_proofs ----------------------------
(***************************************************************************)
(* ListExact, NeverEarly and TcpTimed of Timeouts, for any timers, delays, *)
(* size of the pool and number of calls, and for a clock of any width.     *)
(***************************************************************************)
EXTENDS Timeouts, WellFoundedInduction, TLAPS

Entry == [h : Handlers, time : Int, left : Int, slip : Int]

-----------------------------------------------------------------------------
(* Numbers.                                                                *)

LEMMA Least ==
    ASSUME NEW T \in SUBSET Nat, T # {}
    PROVE  \E x \in T : \A y \in T : x <= y
<1>1. PICK x \in T : \A y \in T : ~(<<y, x>> \in OpToRel(<, Nat))
  BY NatLessThanWellFounded, WFMin, Zenon
<1>2. \A y, z \in Nat : y < z => <<y, z>> \in OpToRel(<, Nat)
  BY DEF OpToRel
<1>3. \A y \in T : ~(y < x)
  BY <1>1, <1>2, Zenon
<1>4. \A y \in T : x <= y
  BY <1>3
<1> QED
  BY <1>4

LEMMA ModRange ==
    ASSUME NEW a \in Int
    PROVE  a % Wrap \in 0 .. Wrap - 1 /\ a % Wrap \in Int
  BY WrapAssumption

LEMMA ModSmall ==
    ASSUME NEW a \in 0 .. Wrap - 1
    PROVE  a % Wrap = a
  BY WrapAssumption

LEMMA ModIs ==
    ASSUME NEW a \in Int
    PROVE  \E q \in Int : a = Wrap * q + (a % Wrap)
<1>1. a \div Wrap \in Int
  BY WrapAssumption
<1>2. a = Wrap * (a \div Wrap) + (a % Wrap)
  BY WrapAssumption
<1> QED
  BY <1>1, <1>2

LEMMA ModUnique ==
    ASSUME NEW q \in Int, NEW r \in 0 .. Wrap - 1
    PROVE  (Wrap * q + r) % Wrap = r
  BY WrapAssumption

(* A remainder inside a sum.                                               *)
LEMMA ModAdd ==
    ASSUME NEW a \in Int, NEW b \in Int
    PROVE  ((a % Wrap) + b) % Wrap = (a + b) % Wrap
<1> DEFINE x == a % Wrap
           r == (x + b) % Wrap
<1>1. PICK q \in Int : a = Wrap * q + x
  BY ModIs
<1>2. x \in Int
  BY ModRange
<1> HIDE DEF x
<1>3. PICK p \in Int : x + b = Wrap * p + r
  BY <1>2, ModIs
<1>4. r \in 0 .. Wrap - 1
  BY <1>2, ModRange
<1> HIDE DEF r
<1> DEFINE s == q + p
<1>5. a + b = Wrap * s + r /\ s \in Int
  <2>1. a + b = Wrap * q + Wrap * p + r
    BY <1>1, <1>2, <1>3, <1>4, WrapAssumption
  <2>2. Wrap * q + Wrap * p = Wrap * (q + p)
    BY WrapAssumption
  <2> QED
    BY <2>1, <2>2, <1>4, WrapAssumption
<1> HIDE DEF s
<1>6. (a + b) % Wrap = r
  BY <1>4, <1>5, ModUnique
<1> QED
  BY <1>6 DEF r, x

LEMMA ModSub ==
    ASSUME NEW a \in Int, NEW b \in Int
    PROVE  (b - (a % Wrap)) % Wrap = (b - a) % Wrap
<1> DEFINE x == a % Wrap
           r == (b - x) % Wrap
<1>1. PICK q \in Int : a = Wrap * q + x
  BY ModIs
<1>2. x \in Int
  BY ModRange
<1> HIDE DEF x
<1>3. PICK p \in Int : b - x = Wrap * p + r
  BY <1>2, ModIs
<1>4. r \in 0 .. Wrap - 1
  BY <1>2, ModRange
<1> HIDE DEF r
<1> DEFINE s == p - q
<1>5. b - a = Wrap * s + r /\ s \in Int
  <2>1. b - a = Wrap * p - Wrap * q + r
    BY <1>1, <1>2, <1>3, <1>4, WrapAssumption
  <2>2. Wrap * p - Wrap * q = Wrap * (p - q)
    BY WrapAssumption
  <2> QED
    BY <2>1, <2>2, <1>4, WrapAssumption
<1> HIDE DEF s
<1>6. (b - a) % Wrap = r
  BY <1>4, <1>5, ModUnique
<1> QED
  BY <1>6 DEF r, x

-----------------------------------------------------------------------------
(* The sum of the times.                                                   *)

Sums(l, n, f) == f = [k \in 0 .. n |-> IF k = 0 THEN 0 ELSE f[k - 1] + l[k].time]

LEMMA SumsExist ==
    ASSUME NEW l, NEW n \in Nat
    PROVE  \E f : Sums(l, n, f)
<1> DEFINE T == {m \in Nat : ~ \E f : Sums(l, m, f)}
<1> SUFFICES ASSUME T # {} PROVE FALSE
  OBVIOUS
<1>1. PICK m \in T : \A y \in T : m <= y
  BY Least, Zenon
<1>2. m \in Nat /\ ~ \E f : Sums(l, m, f)
  OBVIOUS
<1>3. CASE m = 0
  <2> DEFINE f == [k \in 0 .. 0 |-> 0]
  <2>1. f = [k \in 0 .. 0 |-> IF k = 0 THEN 0 ELSE f[k - 1] + l[k].time]
    OBVIOUS
  <2> QED
    BY <1>2, <1>3, <2>1, Zenon DEF Sums
<1>4. CASE m # 0
  <2>1. m - 1 \in Nat /\ m - 1 \notin T
    BY <1>1, <1>2, <1>4
  <2>2. PICK f : Sums(l, m - 1, f)
    BY <2>1
  <2> DEFINE g == [k \in 0 .. m |-> IF k = m THEN f[m - 1] + l[m].time ELSE f[k]]
  <2>3. \A k \in 0 .. (m - 1) : g[k] = f[k]
    BY <1>2
  <2>4. g[m] = f[m - 1] + l[m].time
    BY <1>2
  <2>5. \A k \in 0 .. m : g[k] = IF k = 0 THEN 0 ELSE g[k - 1] + l[k].time
    <3> SUFFICES ASSUME NEW k \in 0 .. m
                 PROVE  g[k] = IF k = 0 THEN 0 ELSE g[k - 1] + l[k].time
      OBVIOUS
    <3> HIDE DEF g
    <3>1. CASE k = m
      BY <1>2, <1>4, <2>3, <2>4, <3>1
    <3>2. CASE k # m
      <4>1. k \in 0 .. (m - 1)
        BY <1>2, <3>2
      <4>2. f[k] = IF k = 0 THEN 0 ELSE f[k - 1] + l[k].time
        BY <2>2, <4>1 DEF Sums
      <4>3. k # 0 => g[k - 1] = f[k - 1]
        BY <1>2, <2>3, <4>1
      <4> QED
        BY <2>3, <4>1, <4>2, <4>3
    <3> QED
      BY <3>1, <3>2
  <2>6. g = [k \in 0 .. m |-> IF k = 0 THEN 0 ELSE g[k - 1] + l[k].time]
    <3>1. g = [k \in 0 .. m |-> g[k]]
      OBVIOUS
    <3> HIDE DEF g
    <3> QED
      BY <2>5, <3>1, Zenon
  <2> QED
    BY <1>2, <2>6, Zenon DEF Sums
<1> QED
  BY <1>3, <1>4

LEMMA ExpiryIs ==
    ASSUME NEW l, Len(l) \in Nat
    PROVE  /\ Expiry(l, 0) = 0
           /\ \A k \in 1 .. Len(l) : Expiry(l, k) = Expiry(l, k - 1) + l[k].time
<1> DEFINE f == CHOOSE f : Sums(l, Len(l), f)
<1>1. Sums(l, Len(l), f)
  BY SumsExist, Zenon
<1>2. \A i : Expiry(l, i) = f[i]
  BY DEF Expiry, Sums
<1> HIDE DEF f
<1>3. \A k \in 0 .. Len(l) : f[k] = IF k = 0 THEN 0 ELSE f[k - 1] + l[k].time
  BY <1>1 DEF Sums
<1> QED
  BY <1>2, <1>3

LEMMA EntryFields ==
    ASSUME NEW l \in Seq(Entry)
    PROVE  /\ Len(l) \in Nat /\ DOMAIN l = 1 .. Len(l)
           /\ \A k \in 1 .. Len(l) :
                 /\ l[k] \in Entry /\ l[k].h \in Handlers
                 /\ l[k].time \in Int /\ l[k].left \in Int /\ l[k].slip \in Int
<1>1. Len(l) \in Nat /\ DOMAIN l = 1 .. Len(l) /\ \A k \in 1 .. Len(l) : l[k] \in Entry
  OBVIOUS
<1>2. \A e \in Entry : e.h \in Handlers /\ e.time \in Int /\ e.left \in Int /\ e.slip \in Int
  BY DEF Entry
<1> QED
  BY <1>1, <1>2, Zenon

LEMMA ExpiryInt ==
    ASSUME NEW l \in Seq(Entry)
    PROVE  \A k \in 0 .. Len(l) : Expiry(l, k) \in Int
<1> DEFINE T == {k \in 0 .. Len(l) : Expiry(l, k) \notin Int}
<1> SUFFICES ASSUME T # {} PROVE FALSE
  OBVIOUS
<1>1. Len(l) \in Nat /\ \A k \in 1 .. Len(l) : l[k].time \in Int
  BY EntryFields
<1>2. T \in SUBSET Nat
  BY <1>1
<1>3. PICK k \in T : \A y \in T : k <= y
  BY <1>2, Least, Zenon
<1>4. k # 0
  BY <1>1, ExpiryIs
<1>5. k \in 1 .. Len(l) /\ k - 1 \in 0 .. Len(l) /\ ~(k <= k - 1)
  BY <1>1, <1>4
<1>6. Expiry(l, k - 1) \in Int
  BY <1>3, <1>5
<1>7. Expiry(l, k) = Expiry(l, k - 1) + l[k].time
  BY <1>1, <1>5, ExpiryIs, Zenon
<1>8. l[k].time \in Int /\ Expiry(l, k) \notin Int
  BY <1>1, <1>5
<1> HIDE DEF T
<1> QED
  BY <1>6, <1>7, <1>8

-----------------------------------------------------------------------------
(* The list.                                                               *)

(* r is l with e at p; without its entry at p; with another time at p;     *)
(* with all put off by d.                                                  *)
IsInsert(r, l, p, e) ==
    /\ r \in Seq(Entry) /\ Len(r) = Len(l) + 1 /\ r[p] = e
    /\ \A j \in 1 .. p - 1 : r[j] = l[j]
    /\ \A j \in p + 1 .. Len(l) + 1 : r[j] = l[j - 1]

IsRemove(r, l, p) ==
    /\ r \in Seq(Entry) /\ Len(r) = Len(l) - 1
    /\ \A j \in 1 .. p - 1 : r[j] = l[j]
    /\ \A j \in p .. Len(l) - 1 : r[j] = l[j + 1]

IsTimed(r, l, p, t) ==
    /\ r \in Seq(Entry) /\ Len(r) = Len(l)
    /\ r[p].h = l[p].h /\ r[p].time = t /\ r[p].left = l[p].left /\ r[p].slip = l[p].slip
    /\ \A j \in 1 .. Len(l) : j # p => r[j] = l[j]

IsSlipped(r, l, d) ==
    /\ r \in Seq(Entry) /\ Len(r) = Len(l)
    /\ \A j \in 1 .. Len(l) : /\ r[j].h = l[j].h /\ r[j].time = l[j].time
                              /\ r[j].left = l[j].left /\ r[j].slip = l[j].slip + d

LEMMA InsertAtIs ==
    ASSUME NEW l \in Seq(Entry), NEW p \in 1 .. Len(l) + 1, NEW e \in Entry
    PROVE  IsInsert(InsertAt(l, p, e), l, p, e)
<1> DEFINE a == SubSeq(l, 1, p - 1)
           b == SubSeq(l, p, Len(l))
           c == a \o <<e>>
<1>1. /\ Len(l) \in Nat /\ a \in Seq(Entry) /\ b \in Seq(Entry) /\ <<e>> \in Seq(Entry)
      /\ Len(a) = p - 1 /\ Len(b) = Len(l) + 1 - p
  OBVIOUS
<1>2. /\ \A j \in 1 .. p - 1 : a[j] = l[j]
      /\ \A j \in 1 .. Len(l) + 1 - p : b[j] = l[j + p - 1]
  OBVIOUS
<1> HIDE DEF a, b
<1>3. /\ c \in Seq(Entry) /\ Len(c) = p /\ c[p] = e
      /\ \A j \in 1 .. p - 1 : c[j] = a[j]
  BY <1>1
<1> HIDE DEF c
<1>4. /\ c \o b \in Seq(Entry) /\ Len(c \o b) = Len(l) + 1
      /\ \A j \in 1 .. p : (c \o b)[j] = c[j]
      /\ \A j \in p + 1 .. Len(l) + 1 : (c \o b)[j] = b[j - p]
  BY <1>1, <1>3
<1>5. InsertAt(l, p, e) = c \o b
  BY DEF InsertAt, a, b, c
<1>6. \A j \in p + 1 .. Len(l) + 1 : b[j - p] = l[j - 1]
  BY <1>1, <1>2
<1> QED
  BY <1>1, <1>2, <1>3, <1>4, <1>5, <1>6, SMTT(30) DEF IsInsert

LEMMA RemoveAtIs ==
    ASSUME NEW l \in Seq(Entry), NEW p \in 1 .. Len(l)
    PROVE  IsRemove(RemoveAt(l, p), l, p)
<1> DEFINE a == SubSeq(l, 1, p - 1)
           b == SubSeq(l, p + 1, Len(l))
<1>1. /\ Len(l) \in Nat /\ a \in Seq(Entry) /\ b \in Seq(Entry)
      /\ Len(a) = p - 1 /\ Len(b) = Len(l) - p
  OBVIOUS
<1>2. /\ \A j \in 1 .. p - 1 : a[j] = l[j]
      /\ \A j \in 1 .. Len(l) - p : b[j] = l[j + p]
  OBVIOUS
<1> HIDE DEF a, b
<1>3. /\ a \o b \in Seq(Entry) /\ Len(a \o b) = Len(l) - 1
      /\ \A j \in 1 .. p - 1 : (a \o b)[j] = a[j]
      /\ \A j \in p .. Len(l) - 1 : (a \o b)[j] = b[j - (p - 1)]
  BY <1>1, SMTT(30)
<1>4. RemoveAt(l, p) = a \o b
  BY DEF RemoveAt, a, b
<1>5. \A j \in p .. Len(l) - 1 : b[j - (p - 1)] = l[j + 1]
  BY <1>1, <1>2
<1> QED
  BY <1>1, <1>2, <1>3, <1>4, <1>5, Zenon DEF IsRemove

LEMMA RestInt ==
    ASSUME NEW l \in Seq(Entry), NEW m \in Int, NEW d \in Int, NEW i \in 0 .. Len(l)
    PROVE  Rest(l, m, d, i) \in 0 .. Wrap - 1 /\ Rest(l, m, d, i) \in Int
<1>1. m + d - Expiry(l, i) \in Int
  BY ExpiryInt
<1> QED
  BY <1>1, ModRange, Zenon DEF Rest

LEMMA SpotIs ==
    ASSUME NEW l \in Seq(Entry), l # <<>>, NEW m \in Int, NEW d \in Int
    PROVE  LET i == Spot(l, m, d)
           IN  /\ i \in 1 .. Len(l)
               /\ i = Len(l) \/ l[i + 1].time > Rest(l, m, d, i)
               /\ \A j \in 1 .. i - 1 : l[j + 1].time <= Rest(l, m, d, j)
<1> DEFINE Behind(k) == k = Len(l) \/ l[k + 1].time > Rest(l, m, d, k)
           T == {k \in 1 .. Len(l) : Behind(k)}
<1>1. Len(l) \in Nat /\ Len(l) \in 1 .. Len(l) /\ DOMAIN l = 1 .. Len(l)
  OBVIOUS
<1>2. \A k \in 1 .. Len(l) : l[k].time \in Int /\ Rest(l, m, d, k) \in Int
  <2> TAKE k \in 1 .. Len(l)
  <2>1. k \in 0 .. Len(l)
    BY <1>1
  <2> QED
    BY <2>1, EntryFields, RestInt
<1>3. T \in SUBSET Nat /\ Len(l) \in T
  BY <1>1
<1>4. PICK i \in T : \A y \in T : i <= y
  BY <1>3, Least, Zenon
<1>5. ASSUME NEW j \in 1 .. i - 1 PROVE l[j + 1].time <= Rest(l, m, d, j)
  <2>1. j \in 1 .. Len(l) /\ j + 1 \in 1 .. Len(l) /\ ~(i <= j)
    <3>1. i \in 1 .. Len(l)
      OBVIOUS
    <3> HIDE DEF T
    <3> QED
      BY <1>1, <1>5, <3>1
  <2>2. ~Behind(j)
    BY <1>4, <2>1
  <2> QED
    BY <1>2, <2>1, <2>2
<1>6. \E k \in DOMAIN l : Behind(k) /\ \A j \in 1 .. k - 1 : l[j + 1].time <= Rest(l, m, d, j)
  BY <1>1, <1>4, <1>5, Zenon
<1> QED
  BY <1>1, <1>6, Zenon DEF Spot

(* The first entry for a handler.                                          *)
LEMMA FirstIs ==
    ASSUME NEW l \in Seq(Entry), NEW h, For(l, h) # {}
    PROVE  Min(For(l, h)) \in 1 .. Len(l) /\ l[Min(For(l, h))].h = h
<1>1. For(l, h) \in SUBSET Nat
  BY DEF For
<1>2. \E x \in For(l, h) : \A y \in For(l, h) : x <= y
  BY <1>1, Least, SMTT(30)
<1>3. Min(For(l, h)) \in For(l, h)
  BY <1>2, Zenon DEF Min
<1> QED
  BY <1>3 DEF For

-----------------------------------------------------------------------------
(* Which handlers are in the list.                                         *)

Tcp(l) == {i \in DOMAIN l : l[i].h = "tcpip_tcp_timer"}
Once(l) == \A i, j \in Tcp(l) : i = j

(* r is l with an entry for h more, at p; without the entry at p.          *)
Adds(r, l, p, h) ==
    /\ r \in Seq(Entry) /\ p \in 1 .. Len(l) + 1 /\ Len(r) = Len(l) + 1 /\ r[p].h = h
    /\ \A j \in 1 .. p - 1 : r[j].h = l[j].h
    /\ \A j \in p + 1 .. Len(l) + 1 : r[j].h = l[j - 1].h

Drops(r, l, p) ==
    /\ r \in Seq(Entry) /\ p \in 1 .. Len(l) /\ Len(r) = Len(l) - 1
    /\ \A j \in 1 .. p - 1 : r[j].h = l[j].h
    /\ \A j \in p .. Len(l) - 1 : r[j].h = l[j + 1].h

Same(r, l) == r \in Seq(Entry) /\ Len(r) = Len(l) /\ \A j \in 1 .. Len(l) : r[j].h = l[j].h

LEMMA AddsTcp ==
    ASSUME NEW l \in Seq(Entry), NEW r, NEW p, NEW h, Adds(r, l, p, h)
    PROVE  /\ h # "tcpip_tcp_timer" =>
                 (Tcp(r) = {} <=> Tcp(l) = {}) /\ (Once(l) => Once(r))
           /\ h = "tcpip_tcp_timer" /\ Tcp(l) = {} => Tcp(r) # {} /\ Once(r)
<1>1. /\ Len(l) \in Nat /\ DOMAIN l = 1 .. Len(l) /\ DOMAIN r = 1 .. Len(l) + 1
      /\ p \in 1 .. Len(l) + 1
  BY EntryFields DEF Adds
<1> DEFINE At0(j) == IF j < p THEN j ELSE j - 1
           To(j) == IF j < p THEN j ELSE j + 1
<1>2. /\ \A j \in DOMAIN r : j # p => At0(j) \in DOMAIN l /\ r[j].h = l[At0(j)].h
      /\ \A i, j \in DOMAIN r : i # p /\ j # p /\ At0(i) = At0(j) => i = j
  <2>1. ASSUME NEW j \in DOMAIN r, j # p PROVE At0(j) \in DOMAIN l /\ r[j].h = l[At0(j)].h
    <3>1. CASE j < p
      BY <1>1, <2>1, <3>1 DEF Adds
    <3>2. CASE ~(j < p)
      BY <1>1, <2>1, <3>2 DEF Adds
    <3> QED
      BY <3>1, <3>2
  <2>2. \A i, j \in DOMAIN r : i # p /\ j # p /\ At0(i) = At0(j) => i = j
    BY <1>1
  <2> QED
    BY <2>1, <2>2
<1>3. \A j \in DOMAIN l : To(j) \in DOMAIN r /\ r[To(j)].h = l[j].h
  <2> TAKE j \in DOMAIN l
  <2>1. CASE j < p
    BY <1>1, <2>1 DEF Adds
  <2>2. CASE ~(j < p)
    <3>1. j + 1 \in p + 1 .. Len(l) + 1 /\ (j + 1) - 1 = j
      BY <1>1, <2>2
    <3>2. r[j + 1].h = l[(j + 1) - 1].h
      BY <3>1, Zenon DEF Adds
    <3> QED
      BY <1>1, <2>2, <3>1, <3>2
  <2> QED
    BY <2>1, <2>2
<1>4. p \in DOMAIN r /\ r[p].h = h
  BY <1>1 DEF Adds
<1> HIDE DEF At0, To
<1>5. Tcp(l) # {} => Tcp(r) # {}
  BY <1>3, Zenon DEF Tcp
<1>6. \A i \in Tcp(r) : i # p => At0(i) \in Tcp(l)
  BY <1>2 DEF Tcp
<1>7. h # "tcpip_tcp_timer" => p \notin Tcp(r)
  BY <1>4 DEF Tcp
<1>8. h = "tcpip_tcp_timer" => p \in Tcp(r)
  BY <1>4 DEF Tcp
<1>9. Tcp(r) \subseteq DOMAIN r
  BY DEF Tcp
<1> QED
  BY <1>2, <1>5, <1>6, <1>7, <1>8, <1>9, Zenon DEF Once

LEMMA DropsTcp ==
    ASSUME NEW l \in Seq(Entry), NEW r, NEW p, Drops(r, l, p)
    PROVE  /\ Once(l) => Once(r)
           /\ l[p].h # "tcpip_tcp_timer" => (Tcp(r) = {} <=> Tcp(l) = {})
           /\ l[p].h = "tcpip_tcp_timer" /\ Once(l) => Tcp(r) = {}
           /\ l[p].h = "tcpip_tcp_timer" => Tcp(l) # {}
<1>1. /\ Len(l) \in Nat /\ DOMAIN l = 1 .. Len(l) /\ DOMAIN r = 1 .. Len(l) - 1
      /\ p \in 1 .. Len(l)
  BY EntryFields DEF Drops
<1> DEFINE Was(j) == IF j < p THEN j ELSE j + 1
           To(j) == IF j < p THEN j ELSE j - 1
<1>2. /\ \A j \in DOMAIN r : Was(j) \in DOMAIN l /\ Was(j) # p /\ r[j].h = l[Was(j)].h
      /\ \A i, j \in DOMAIN r : Was(i) = Was(j) => i = j
  <2>1. \A j \in DOMAIN r : Was(j) \in DOMAIN l /\ Was(j) # p
    BY <1>1
  <2>2. \A j \in DOMAIN r : r[j].h = l[Was(j)].h
    BY <1>1, SMTT(30) DEF Drops
  <2>3. \A i, j \in DOMAIN r : Was(i) = Was(j) => i = j
    BY <1>1
  <2> QED
    BY <2>1, <2>2, <2>3, Zenon
<1>3. \A j \in DOMAIN l : j # p => To(j) \in DOMAIN r /\ r[To(j)].h = l[j].h
  <2> TAKE j \in DOMAIN l
  <2> HAVE j # p
  <2>1. CASE j < p
    BY <1>1, <2>1 DEF Drops
  <2>2. CASE ~(j < p)
    <3>1. j - 1 \in p .. Len(l) - 1 /\ j - 1 + 1 = j
      BY <1>1, <2>2
    <3>2. r[j - 1].h = l[j - 1 + 1].h
      BY <3>1, Zenon DEF Drops
    <3> QED
      BY <1>1, <2>2, <3>1, <3>2
  <2> QED
    BY <2>1, <2>2
<1> HIDE DEF Was, To
<1>4. \A i \in Tcp(r) : i \in DOMAIN r /\ Was(i) \in Tcp(l) /\ Was(i) # p
  BY <1>2 DEF Tcp
<1>5. \A i \in Tcp(l) : i # p => To(i) \in Tcp(r)
  BY <1>3 DEF Tcp
<1>6. p \in Tcp(l) <=> l[p].h = "tcpip_tcp_timer"
  BY <1>1 DEF Tcp
<1> QED
  BY <1>2, <1>4, <1>5, <1>6, Zenon DEF Once

LEMMA SameTcp ==
    ASSUME NEW l \in Seq(Entry), NEW r, Same(r, l)
    PROVE  Tcp(r) = Tcp(l)
<1>1. DOMAIN r = DOMAIN l /\ \A j \in DOMAIN l : r[j].h = l[j].h
  BY EntryFields DEF Same
<1> QED
  BY <1>1, Zenon DEF Tcp

-----------------------------------------------------------------------------
(* What the operations do to the handlers in the list.                     *)

Timed(l, p, t) == [l EXCEPT ![p].time = t]
WithTime(e, t) == [e EXCEPT !.time = t]

LEMMA WithTimeIs ==
    ASSUME NEW e \in Entry, NEW t \in Int
    PROVE  /\ WithTime(e, t) \in Entry /\ WithTime(e, t).h = e.h /\ WithTime(e, t).time = t
           /\ WithTime(e, t).left = e.left /\ WithTime(e, t).slip = e.slip
  BY DEF Entry, WithTime

LEMMA TimedIs ==
    ASSUME NEW l \in Seq(Entry), NEW p \in 1 .. Len(l), NEW t \in Int
    PROVE  IsTimed(Timed(l, p, t), l, p, t)
<1> DEFINE e == WithTime(l[p], t)
           r == [l EXCEPT ![p] = e]
<1>1. Len(l) \in Nat /\ DOMAIN l = 1 .. Len(l) /\ l[p] \in Entry
  BY EntryFields
<1>2. /\ e \in Entry /\ e.h = l[p].h /\ e.time = t /\ e.left = l[p].left /\ e.slip = l[p].slip
  BY <1>1, WithTimeIs, Zenon
<1>3. Timed(l, p, t) = r
  BY DEF Timed, WithTime
<1> HIDE DEF e
<1>4. /\ r \in Seq(Entry) /\ Len(r) = Len(l) /\ r[p] = e
      /\ \A j \in 1 .. Len(l) : j # p => r[j] = l[j]
  BY <1>1, <1>2
<1> QED
  BY <1>2, <1>3, <1>4, Zenon DEF IsTimed

LEMMA SlippedIs ==
    ASSUME NEW l \in Seq(Entry), NEW d \in Int
    PROVE  IsSlipped(Slipped(l, d), l, d)
<1> DEFINE F(j) == [l[j] EXCEPT !.slip = @ + d]
<1>1. /\ Len(l) \in Nat /\ DOMAIN l = 1 .. Len(l)
      /\ \A j \in 1 .. Len(l) : l[j] \in Entry
  BY EntryFields
<1>2. ASSUME NEW j \in 1 .. Len(l)
      PROVE  /\ F(j) \in Entry /\ F(j).h = l[j].h /\ F(j).time = l[j].time
             /\ F(j).left = l[j].left /\ F(j).slip = l[j].slip + d
  <2> DEFINE e == l[j]
  <2>1. e \in Entry
    BY <1>1
  <2> HIDE DEF e
  <2>2. e.slip + d \in Int
    BY <2>1 DEF Entry
  <2>3. LET f == [e EXCEPT !.slip = e.slip + d]
        IN  /\ f \in Entry /\ f.h = e.h /\ f.time = e.time
            /\ f.left = e.left /\ f.slip = e.slip + d
    BY <2>1, <2>2, Zenon DEF Entry
  <2> QED
    BY <2>3 DEF e
<1>3. Slipped(l, d) = [j \in 1 .. Len(l) |-> F(j)]
  BY <1>1 DEF Slipped
<1> HIDE DEF F
<1>4. /\ Slipped(l, d) \in Seq(Entry) /\ Len(Slipped(l, d)) = Len(l)
      /\ \A j \in 1 .. Len(l) : Slipped(l, d)[j] = F(j)
  BY <1>1, <1>2, <1>3
<1> QED
  BY <1>2, <1>4, Zenon DEF IsSlipped

NewEntry(msecs, d, h) == [h |-> h, time |-> (msecs + d) % Wrap, left |-> msecs, slip |-> 0]

(* The three places of a new entry.                                        *)
LEMMA InsertedCases ==
    ASSUME NEW l, NEW msecs, NEW d, NEW h
    PROVE  /\ l = <<>> => Inserted(l, msecs, d, h) = <<NewEntry(msecs, d, h)>>
           /\ l # <<>> /\ l[1].time > msecs =>
                 Inserted(l, msecs, d, h)
                   = <<NewEntry(msecs, d, h)>> \o Slipped(Timed(l, 1, l[1].time - msecs), d)
           /\ l # <<>> /\ ~(l[1].time > msecs) =>
                 Inserted(l, msecs, d, h) = Place(l, msecs, d, NewEntry(msecs, d, h))
  BY DEF Inserted, NewEntry, Timed

LEMMA NewEntryIs ==
    ASSUME NEW msecs \in Int, NEW d \in Int, NEW h \in Handlers
    PROVE  /\ NewEntry(msecs, d, h) \in Entry /\ NewEntry(msecs, d, h).h = h
           /\ NewEntry(msecs, d, h).left = msecs /\ NewEntry(msecs, d, h).slip = 0
           /\ NewEntry(msecs, d, h).time = (msecs + d) % Wrap
<1>1. (msecs + d) % Wrap \in Int
  BY ModRange
<1> QED
  BY <1>1 DEF NewEntry, Entry

LEMMA FrontIs ==
    ASSUME NEW l \in Seq(Entry), NEW e \in Entry
    PROVE  IsInsert(<<e>> \o l, l, 1, e)
<1>1. <<e>> \in Seq(Entry) /\ Len(<<e>>) = 1 /\ <<e>>[1] = e /\ Len(l) \in Nat
  OBVIOUS
<1> QED
  BY <1>1, SMTT(30) DEF IsInsert

LEMMA LastIs ==
    ASSUME NEW l \in Seq(Entry), NEW e \in Entry
    PROVE  IsInsert(Append(l, e), l, Len(l) + 1, e)
  BY DEF IsInsert

LEMMA InsertAdds ==
    ASSUME NEW l \in Seq(Entry), NEW q \in Seq(Entry), Len(q) = Len(l),
           \A j \in 1 .. Len(l) : q[j].h = l[j].h,
           NEW p \in 1 .. Len(l) + 1, NEW e, NEW r, IsInsert(r, q, p, e)
    PROVE  Adds(r, l, p, e.h)
<1>1. Len(l) \in Nat /\ Len(q) = Len(l)
  OBVIOUS
<1>2. \A j \in 1 .. p - 1 : r[j].h = l[j].h
  BY <1>1 DEF IsInsert
<1>3. \A j \in p + 1 .. Len(l) + 1 : r[j].h = l[j - 1].h
  BY <1>1 DEF IsInsert
<1> QED
  BY <1>1, <1>2, <1>3 DEF Adds, IsInsert

LEMMA RemoveDrops ==
    ASSUME NEW l \in Seq(Entry), NEW q \in Seq(Entry), Len(q) = Len(l),
           \A j \in 1 .. Len(l) : q[j].h = l[j].h,
           NEW p \in 1 .. Len(l), NEW r, IsRemove(r, q, p)
    PROVE  Drops(r, l, p)
<1>1. Len(l) \in Nat /\ Len(q) = Len(l)
  OBVIOUS
<1>2. \A j \in 1 .. p - 1 : r[j].h = l[j].h
  BY <1>1 DEF IsRemove
<1>3. \A j \in p .. Len(l) - 1 : r[j].h = l[j + 1].h
  BY <1>1 DEF IsRemove
<1> QED
  BY <1>1, <1>2, <1>3 DEF Drops, IsRemove

(* A new entry behind another, and last of all.                            *)
Middle(r, l, msecs, d, e, i) ==
    /\ i < Len(l)
    /\ IsInsert(r, Timed(l, i + 1, l[i + 1].time - Rest(l, msecs, d, i)), i + 1,
                WithTime(e, Rest(l, msecs, d, i)))

LastTime(l, msecs, d, i) ==
    IF Rest(l, msecs, d, i) > msecs THEN (msecs + l[1].time) % Wrap ELSE Rest(l, msecs, d, i)

Final(r, l, msecs, d, e, i) ==
    /\ i = Len(l)
    /\ IsInsert(r, l, Len(l) + 1, WithTime(e, LastTime(l, msecs, d, i)))

LEMMA LastTimeInt ==
    ASSUME NEW l \in Seq(Entry), NEW i \in 1 .. Len(l), NEW m \in Int, NEW d \in Int
    PROVE  LastTime(l, m, d, i) \in Int
<1>1. i \in 0 .. Len(l) /\ 1 \in 1 .. Len(l)
  BY EntryFields
<1>2. m + l[1].time \in Int
  BY <1>1, EntryFields
<1>3. (m + l[1].time) % Wrap \in Int
  BY <1>2, ModRange, Zenon
<1>4. Rest(l, m, d, i) \in Int
  BY <1>1, RestInt
<1> QED
  BY <1>3, <1>4 DEF LastTime

LEMMA PlaceIs ==
    ASSUME NEW l \in Seq(Entry), l # <<>>, NEW m \in Int, NEW d \in Int, NEW e \in Entry
    PROVE  \/ Middle(Place(l, m, d, e), l, m, d, e, Spot(l, m, d))
           \/ Final(Place(l, m, d, e), l, m, d, e, Spot(l, m, d))
<1> DEFINE i == Spot(l, m, d)
           rest == Rest(l, m, d, i)
           k == i + 1
           t == l[k].time - rest
           q == Timed(l, k, t)
           n == WithTime(e, rest)
           z == WithTime(e, LastTime(l, m, d, i))
<1>1. i \in 1 .. Len(l) /\ i \in 0 .. Len(l) /\ Len(l) \in Nat
  BY SpotIs, EntryFields
<1>2. Place(l, m, d, e) = IF i < Len(l) THEN InsertAt(q, k, n) ELSE Append(l, z)
  BY DEF Place, Timed, WithTime, LastTime
<1> HIDE DEF i
<1>3. rest \in Int
  BY <1>1, RestInt
<1>4. n \in Entry
  BY <1>3, WithTimeIs
<1>5. CASE i < Len(l)
  <2>1. k \in 1 .. Len(l)
    BY <1>1, <1>5
  <2> HIDE DEF k, rest
  <2>2. t \in Int
    BY <2>1, <1>3, EntryFields
  <2> HIDE DEF t
  <2>3. IsTimed(q, l, k, t)
    BY <2>1, <2>2, TimedIs
  <2> HIDE DEF q, n
  <2>4. q \in Seq(Entry) /\ Len(q) = Len(l)
    BY <2>3 DEF IsTimed
  <2>5. k \in 1 .. Len(q) + 1
    BY <2>1, <2>4, <1>1
  <2>6. IsInsert(InsertAt(q, k, n), q, k, n)
    BY <2>4, <2>5, <1>4, InsertAtIs
  <2> QED
    BY <2>6, <1>2, <1>5, Zenon DEF Middle, q, k, n, t, rest, i
<1>6. CASE ~(i < Len(l))
  <2>1. i = Len(l)
    BY <1>1, <1>6
  <2>2. LastTime(l, m, d, i) \in Int
    BY <1>1, LastTimeInt
  <2>3. z \in Entry
    BY <2>2, WithTimeIs
  <2> HIDE DEF z
  <2>4. IsInsert(Append(l, z), l, Len(l) + 1, z)
    BY <2>3, LastIs
  <2> QED
    BY <2>1, <2>4, <1>2, <1>6, Zenon DEF Final, z, i
<1> QED
  BY <1>5, <1>6

LEMMA PlaceAdds ==
    ASSUME NEW l \in Seq(Entry), l # <<>>, NEW m \in Int, NEW d \in Int, NEW e \in Entry
    PROVE  \E p : Adds(Place(l, m, d, e), l, p, e.h)
<1> DEFINE i == Spot(l, m, d)
           r == Place(l, m, d, e)
           rest == Rest(l, m, d, i)
           k == i + 1
           t == l[k].time - rest
           q == Timed(l, k, t)
           n == WithTime(e, rest)
           z == WithTime(e, LastTime(l, m, d, i))
<1>1. i \in 1 .. Len(l) /\ i \in 0 .. Len(l) /\ Len(l) \in Nat
  BY SpotIs, EntryFields
<1>2. Middle(r, l, m, d, e, i) \/ Final(r, l, m, d, e, i)
  BY PlaceIs
<1> HIDE DEF i, r
<1>3. rest \in Int
  BY <1>1, RestInt
<1>4. CASE Middle(r, l, m, d, e, i)
  <2>1. i < Len(l) /\ IsInsert(r, q, k, n)
    BY <1>4, Zenon DEF Middle
  <2>2. n \in Entry /\ n.h = e.h
    BY <1>3, WithTimeIs, Zenon
  <2>3. k \in 1 .. Len(l) /\ k \in 1 .. Len(l) + 1
    BY <1>1, <2>1
  <2> HIDE DEF k, rest, n
  <2>4. t \in Int
    BY <2>3, <1>3, EntryFields
  <2> HIDE DEF t
  <2>5. IsTimed(q, l, k, t)
    BY <2>3, <2>4, TimedIs
  <2> HIDE DEF q
  <2>6. q \in Seq(Entry) /\ Len(q) = Len(l) /\ \A j \in 1 .. Len(l) : q[j].h = l[j].h
    BY <2>5 DEF IsTimed
  <2>7. Adds(r, l, k, n.h)
    BY <2>1, <2>3, <2>6, InsertAdds
  <2> QED
    BY <2>2, <2>7 DEF r
<1>5. CASE Final(r, l, m, d, e, i)
  <2>1. IsInsert(r, l, Len(l) + 1, z)
    BY <1>5, Zenon DEF Final
  <2>2. LastTime(l, m, d, i) \in Int
    BY <1>1, LastTimeInt
  <2>3. z.h = e.h
    BY <2>2, WithTimeIs, Zenon
  <2> HIDE DEF z
  <2>4. Len(l) + 1 \in 1 .. Len(l) + 1
    BY <1>1
  <2>5. Adds(r, l, Len(l) + 1, z.h)
    BY <2>1, <2>4, InsertAdds
  <2> QED
    BY <2>3, <2>5 DEF r
<1> QED
  BY <1>2, <1>4, <1>5

(* A new entry in front of the others, which it puts off.                  *)
Behind(l, m, d) == Slipped(Timed(l, 1, l[1].time - m), d)

LEMMA BehindIs ==
    ASSUME NEW l \in Seq(Entry), l # <<>>, NEW m \in Int, NEW d \in Int
    PROVE  \E q : IsTimed(q, l, 1, l[1].time - m) /\ IsSlipped(Behind(l, m, d), q, d)
<1> DEFINE t == l[1].time - m
           q == Timed(l, 1, t)
<1>1. 1 \in 1 .. Len(l)
  BY EntryFields
<1>2. t \in Int
  BY <1>1, EntryFields
<1> HIDE DEF t
<1>3. IsTimed(q, l, 1, t)
  BY <1>1, <1>2, TimedIs
<1> HIDE DEF q
<1>4. q \in Seq(Entry)
  BY <1>3 DEF IsTimed
<1>5. IsSlipped(Slipped(q, d), q, d)
  BY <1>4, SlippedIs
<1> QED
  BY <1>3, <1>5, Zenon DEF Behind, q, t

LEMMA BehindSame ==
    ASSUME NEW l \in Seq(Entry), l # <<>>, NEW m \in Int, NEW d \in Int
    PROVE  Same(Behind(l, m, d), l)
<1>1. PICK q : IsTimed(q, l, 1, l[1].time - m) /\ IsSlipped(Behind(l, m, d), q, d)
  BY BehindIs
<1>2. Len(q) = Len(l) /\ \A j \in 1 .. Len(l) : q[j].h = l[j].h
  BY <1>1 DEF IsTimed
<1> QED
  BY <1>1, <1>2 DEF IsSlipped, Same

LEMMA InsertedFront ==
    ASSUME NEW l \in Seq(Entry), l # <<>>,
           NEW m \in Int, l[1].time > m, NEW d \in Int, NEW h \in Handlers
    PROVE  IsInsert(Inserted(l, m, d, h), Behind(l, m, d), 1, NewEntry(m, d, h))
<1>1. Inserted(l, m, d, h) = <<NewEntry(m, d, h)>> \o Behind(l, m, d)
  BY InsertedCases DEF Behind
<1>2. Behind(l, m, d) \in Seq(Entry)
  BY BehindSame DEF Same
<1>3. NewEntry(m, d, h) \in Entry
  BY NewEntryIs
<1> QED
  BY <1>1, <1>2, <1>3, FrontIs

LEMMA InsertedEmpty ==
    ASSUME NEW m \in Int, NEW d \in Int, NEW h \in Handlers
    PROVE  IsInsert(Inserted(<<>>, m, d, h), <<>>, 1, NewEntry(m, d, h))
<1>1. Inserted(<<>>, m, d, h) = <<NewEntry(m, d, h)>>
  BY DEF Inserted, NewEntry
<1>2. NewEntry(m, d, h) \in Entry
  BY NewEntryIs
<1> DEFINE e == NewEntry(m, d, h)
<1> HIDE DEF e
<1>3. e \in Entry
  BY <1>2 DEF e
<1>4. /\ <<e>> \in Seq(Entry) /\ Len(<<e>>) = 1 /\ <<e>>[1] = e /\ Len(<<>>) = 0
  BY <1>3
<1>5. IsInsert(<<e>>, <<>>, 1, e)
  BY <1>4 DEF IsInsert
<1> QED
  BY <1>1, <1>5 DEF e

LEMMA InsertedAdds ==
    ASSUME NEW l \in Seq(Entry), NEW m \in Int, NEW d \in Int, NEW h \in Handlers
    PROVE  \E p : Adds(Inserted(l, m, d, h), l, p, h)
<1> DEFINE r == Inserted(l, m, d, h)
           e == NewEntry(m, d, h)
           b == Behind(l, m, d)
<1>1. e \in Entry /\ e.h = h /\ 1 \in 1 .. Len(l) + 1
  BY NewEntryIs, EntryFields
<1>2. CASE l = <<>>
  <2>1. IsInsert(r, l, 1, e)
    BY <1>2, InsertedEmpty, Zenon
  <2> HIDE DEF r, e
  <2>2. Adds(r, l, 1, e.h)
    BY <1>1, <2>1, InsertAdds
  <2> QED
    BY <1>1, <2>2 DEF r
<1>3. CASE l # <<>> /\ l[1].time > m
  <2>1. IsInsert(r, b, 1, e)
    BY <1>3, InsertedFront
  <2>2. b \in Seq(Entry) /\ Len(b) = Len(l) /\ \A j \in 1 .. Len(l) : b[j].h = l[j].h
    BY <1>3, BehindSame DEF Same
  <2> HIDE DEF r, e, b
  <2>3. Adds(r, l, 1, e.h)
    BY <1>1, <2>1, <2>2, InsertAdds
  <2> QED
    BY <1>1, <2>3 DEF r
<1>4. CASE l # <<>> /\ ~(l[1].time > m)
  <2>1. r = Place(l, m, d, e)
    BY <1>4, InsertedCases, ZenonT(30)
  <2> HIDE DEF e, r
  <2>2. \E p : Adds(Place(l, m, d, e), l, p, e.h)
    BY <1>1, <1>4, PlaceAdds
  <2> QED
    BY <1>1, <2>1, <2>2 DEF r
<1> QED
  BY <1>2, <1>3, <1>4

(* What sys_untimeout() returns.                                           *)
Cut(r, l, p) ==
    /\ p \in 1 .. Len(l)
    /\ \/ p = Len(l) /\ IsRemove(r, l, p)
       \/ /\ p < Len(l)
          /\ \E q : /\ IsTimed(q, l, p + 1, (l[p + 1].time + l[p].time) % Wrap)
                    /\ IsRemove(r, q, p)

LEMMA UntimeoutIs ==
    ASSUME NEW l \in Seq(Entry), NEW h
    PROVE  \/ sys_untimeout(l, h) = l
           \/ \E p : l[p].h = h /\ Cut(sys_untimeout(l, h), l, p)
<1> DEFINE i == Min(For(l, h))
           r == sys_untimeout(l, h)
           k == i + 1
           t == (l[k].time + l[i].time) % Wrap
           q == Timed(l, k, t)
<1>1. For(l, h) # {} => i \in 1 .. Len(l) /\ l[i].h = h
  BY FirstIs
<1>2. r = IF For(l, h) = {} THEN l ELSE IF i = Len(l) THEN RemoveAt(l, i) ELSE RemoveAt(q, i)
  BY DEF sys_untimeout, Timed
<1> HIDE DEF i, r
<1>3. CASE For(l, h) # {} /\ i \in 1 .. Len(l) /\ i = Len(l)
  <2>1. IsRemove(RemoveAt(l, i), l, i)
    BY <1>3, RemoveAtIs
  <2>2. r = RemoveAt(l, i)
    BY <1>2, <1>3
  <2>3. Cut(r, l, i)
    BY <1>3, <2>1, <2>2, Zenon DEF Cut
  <2> QED
    BY <1>1, <1>3, <2>3 DEF r
<1>4. CASE For(l, h) # {} /\ i \in 1 .. Len(l) /\ i # Len(l)
  <2>1. k \in 1 .. Len(l) /\ i < Len(l)
    BY <1>4, EntryFields
  <2>2. t \in Int
    <3>1. l[k].time + l[i].time \in Int
      BY <1>4, <2>1, EntryFields
    <3> QED
      BY <3>1, ModRange
  <2> HIDE DEF k, t
  <2>3. IsTimed(q, l, k, t)
    BY <2>1, <2>2, TimedIs
  <2> HIDE DEF q
  <2>4. q \in Seq(Entry) /\ i \in 1 .. Len(q)
    BY <1>4, <2>3 DEF IsTimed
  <2>5. IsRemove(RemoveAt(q, i), q, i)
    BY <2>4, RemoveAtIs
  <2>6. r = RemoveAt(q, i)
    BY <1>2, <1>4
  <2>7. Cut(r, l, i)
    BY <1>4, <2>1, <2>3, <2>5, <2>6, Zenon DEF Cut, k, t
  <2> QED
    BY <1>1, <1>4, <2>7 DEF r
<1> QED
  BY <1>1, <1>2, <1>3, <1>4 DEF r

LEMMA CutDrops ==
    ASSUME NEW l \in Seq(Entry), NEW r, NEW p, Cut(r, l, p)
    PROVE  Drops(r, l, p)
<1>1. p \in 1 .. Len(l)
  BY DEF Cut
<1>2. CASE IsRemove(r, l, p)
  BY <1>1, <1>2, RemoveDrops
<1>3. ASSUME NEW q, NEW t, IsTimed(q, l, p + 1, t), IsRemove(r, q, p)
      PROVE  Drops(r, l, p)
  <2>1. q \in Seq(Entry) /\ Len(q) = Len(l) /\ \A j \in 1 .. Len(l) : q[j].h = l[j].h
    BY <1>3 DEF IsTimed
  <2> QED
    BY <1>1, <1>3, <2>1, RemoveDrops
<1> QED
  BY <1>2, <1>3, Zenon DEF Cut

-----------------------------------------------------------------------------
(* Types.                                                                  *)

Types ==
    /\ next_timeout \in Seq(Entry)
    /\ now \in 0 .. Wrap - 1 /\ timeouts_last_time \in 0 .. Wrap - 1
    /\ diff \in Int /\ lag \in Nat
    /\ running \in Handlers \cup {"app", "loop"}
    /\ starved \in BOOLEAN /\ pcbs \in BOOLEAN /\ early \in BOOLEAN
    /\ tcpip_tcp_timer_active \in BOOLEAN

LEMMA TimesInt ==
    /\ \A m \in Times : m \in Int /\ m \in 0 .. Wrap - 1
    /\ Delays \subseteq Times /\ Interval \in Times /\ TcpInterval \in Times
<1>1. \A m \in Times : m \in 0 .. Wrap - 1
  BY TimesAssumption
<1> QED
  BY <1>1, WrapAssumption DEF Times

LEMMA Names ==
    /\ Shots \subseteq Handlers /\ "cyclic_timer" \in Handlers /\ "tcpip_tcp_timer" \in Handlers
    /\ "app" \notin Handlers /\ "loop" \notin Handlers
    /\ \A h \in Shots : h # "tcpip_tcp_timer" /\ h # "cyclic_timer"
  BY ShotsAssumption DEF Handlers

LEMMA SinceInt ==
    ASSUME Types
    PROVE  /\ Since(next_timeout, timeouts_last_time, now) \in 0 .. Wrap - 1
           /\ Since(next_timeout, timeouts_last_time, now) \in Int
<1>1. now - timeouts_last_time \in Int
  BY WrapAssumption DEF Types
<1>2. /\ (now - timeouts_last_time) % Wrap \in 0 .. Wrap - 1
      /\ (now - timeouts_last_time) % Wrap \in Int
  BY <1>1, ModRange
<1> QED
  BY <1>2, WrapAssumption DEF Since

(* A call of sys_timeout().                                                *)
LEMMA SysTimeoutIs ==
    ASSUME Types, NEW m \in Int, NEW h \in Handlers, sys_timeout(m, h)
    PROVE  \/ starved' = TRUE /\ UNCHANGED <<next_timeout, timeouts_last_time>>
           \/ /\ starved' = starved
              /\ \E p : Adds(next_timeout', next_timeout, p, h)
              /\ timeouts_last_time' \in {timeouts_last_time, now}
<1> DEFINE d == Since(next_timeout, timeouts_last_time, now)
<1>1. d \in Int
  BY SinceInt
<1>2. next_timeout \in Seq(Entry)
  BY DEF Types
<1> HIDE DEF d
<1>3. \E p : Adds(Inserted(next_timeout, m, d, h), next_timeout, p, h)
  BY <1>1, <1>2, InsertedAdds
<1> QED
  BY <1>3, Zenon DEF sys_timeout, d

LEMMA SysTimeoutAdds ==
    ASSUME Types, NEW m \in Int, NEW h \in Handlers, sys_timeout(m, h)
    PROVE  starved' \/ (~starved /\ \E p : Adds(next_timeout', next_timeout, p, h))
<1>1. starved = TRUE \/ starved = FALSE
  BY DEF Types
<1>2. CASE starved = TRUE
  BY <1>2, SysTimeoutIs, Zenon
<1>3. CASE starved = FALSE
  BY <1>3, SysTimeoutIs, Zenon
<1> QED
  BY <1>1, <1>2, <1>3, Zenon

LEMMA SysTimeoutTypes ==
    ASSUME Types, NEW m \in Int, NEW h \in Handlers, sys_timeout(m, h)
    PROVE  /\ next_timeout' \in Seq(Entry) /\ timeouts_last_time' \in 0 .. Wrap - 1
           /\ starved' \in BOOLEAN
<1>1. CASE starved' = TRUE /\ UNCHANGED <<next_timeout, timeouts_last_time>>
  BY <1>1 DEF Types
<1>2. CASE /\ starved' = starved
           /\ \E p : Adds(next_timeout', next_timeout, p, h)
           /\ timeouts_last_time' \in {timeouts_last_time, now}
  BY <1>2 DEF Types, Adds
<1> QED
  BY <1>1, <1>2, SysTimeoutIs, Zenon

LEMMA UntimeoutTypes ==
    ASSUME NEW l \in Seq(Entry), NEW h
    PROVE  /\ sys_untimeout(l, h) \in Seq(Entry)
           /\ \/ sys_untimeout(l, h) = l
              \/ \E p : l[p].h = h /\ Drops(sys_untimeout(l, h), l, p)
<1>1. CASE sys_untimeout(l, h) = l
  BY <1>1
<1>2. ASSUME NEW p, l[p].h = h, Cut(sys_untimeout(l, h), l, p)
      PROVE  /\ Drops(sys_untimeout(l, h), l, p) /\ sys_untimeout(l, h) \in Seq(Entry)
  BY <1>2, CutDrops DEF Drops
<1> QED
  BY <1>1, <1>2, UntimeoutIs

(* The millisecond of a tick.                                              *)
LEMMA EntryTicks ==
    ASSUME NEW e \in Entry
    PROVE  LET a == [e EXCEPT !.left = 0, !.slip = 0]
               b == [e EXCEPT !.left = @ - 1]
           IN  /\ a \in Entry /\ a.h = e.h
               /\ b \in Entry /\ b.h = e.h
               /\ b.time = e.time /\ b.left = e.left - 1 /\ b.slip = e.slip
<1>1. e.left - 1 \in Int
  BY DEF Entry
<1>2. LET a == [e EXCEPT !.left = 0, !.slip = 0] IN a \in Entry /\ a.h = e.h
  <2> DEFINE c == [e EXCEPT !.left = 0]
  <2>1. c \in Entry /\ c.h = e.h
    BY DEF Entry
  <2>2. [e EXCEPT !.left = 0, !.slip = 0] = [c EXCEPT !.slip = 0]
    OBVIOUS
  <2> HIDE DEF c
  <2>3. [c EXCEPT !.slip = 0] \in Entry /\ [c EXCEPT !.slip = 0].h = c.h
    BY <2>1 DEF Entry
  <2> QED
    BY <2>1, <2>2, <2>3
<1>3. LET b == [e EXCEPT !.left = e.left - 1]
      IN  /\ b \in Entry /\ b.h = e.h
          /\ b.time = e.time /\ b.left = e.left - 1 /\ b.slip = e.slip
  BY <1>1 DEF Entry
<1> QED
  BY <1>2, <1>3

Ticked(l, late) ==
    [i \in DOMAIN l |-> IF late THEN [l[i] EXCEPT !.left = 0, !.slip = 0]
                        ELSE [l[i] EXCEPT !.left = @ - 1]]

LEMMA TickedIs ==
    ASSUME NEW l \in Seq(Entry), NEW late
    PROVE  /\ Same(Ticked(l, late), l)
           /\ ~late => \A j \in 1 .. Len(l) :
                 /\ Ticked(l, late)[j].time = l[j].time
                 /\ Ticked(l, late)[j].left = l[j].left - 1
                 /\ Ticked(l, late)[j].slip = l[j].slip
<1> DEFINE A(e) == [e EXCEPT !.left = 0, !.slip = 0]
           B(e) == [e EXCEPT !.left = @ - 1]
           r == Ticked(l, late)
<1>1. \A e \in Entry : /\ A(e) \in Entry /\ A(e).h = e.h
                       /\ B(e) \in Entry /\ B(e).h = e.h
                       /\ B(e).time = e.time /\ B(e).left = e.left - 1 /\ B(e).slip = e.slip
  BY EntryTicks, Zenon
<1>2. /\ Len(l) \in Nat /\ DOMAIN l = 1 .. Len(l)
      /\ \A j \in 1 .. Len(l) : l[j] \in Entry
  BY EntryFields
<1>3. r = [j \in 1 .. Len(l) |-> IF late THEN A(l[j]) ELSE B(l[j])]
  BY <1>2, Zenon DEF Ticked
<1> HIDE DEF A, B, r
<1>4. CASE late
  <2>1. r = [j \in 1 .. Len(l) |-> A(l[j])]
    BY <1>3, <1>4
  <2>2. /\ r \in Seq(Entry) /\ Len(r) = Len(l)
        /\ \A j \in 1 .. Len(l) : r[j] = A(l[j])
    BY <1>1, <1>2, <2>1
  <2> QED
    BY <1>1, <1>2, <1>4, <2>2, Zenon DEF Same, r
<1>5. CASE ~late
  <2>1. r = [j \in 1 .. Len(l) |-> B(l[j])]
    BY <1>3, <1>5
  <2>2. /\ r \in Seq(Entry) /\ Len(r) = Len(l)
        /\ \A j \in 1 .. Len(l) : r[j] = B(l[j])
    BY <1>1, <1>2, <2>1
  <2> QED
    BY <1>1, <1>2, <1>5, <2>2, Zenon DEF Same, r
<1> QED
  BY <1>4, <1>5

LEMMA TailIs ==
    ASSUME NEW l \in Seq(Entry), l # <<>>
    PROVE  /\ IsRemove(Tail(l), l, 1) /\ Head(l) = l[1] /\ Drops(Tail(l), l, 1)
           /\ 1 \in 1 .. Len(l)
<1>1. 1 \in 1 .. Len(l)
  BY EntryFields
<1>2. IsRemove(Tail(l), l, 1)
  BY DEF IsRemove
<1> QED
  BY <1>1, <1>2, RemoveDrops

LEMMA InitTypes == Init => Types
<1> SUFFICES ASSUME Init PROVE Types
  OBVIOUS
<1>1. Interval \in Int /\ 0 \in Int /\ "cyclic_timer" \in Handlers
  BY TimesInt, Names
<1>2. IsInsert(next_timeout, <<>>, 1, NewEntry(Interval, 0, "cyclic_timer"))
  <2> DEFINE n == Interval
             k == 0
             h == "cyclic_timer"
             r == Inserted(<<>>, n, k, h)
  <2>1. n \in Int /\ k \in Int /\ h \in Handlers
    BY <1>1
  <2>2. next_timeout = r
    BY Zenon DEF Init
  <2> HIDE DEF n, k, h
  <2>3. IsInsert(r, <<>>, 1, NewEntry(n, k, h))
    BY <2>1, InsertedEmpty, Zenon
  <2> QED
    BY <2>2, <2>3, Zenon DEF n, k, h
<1>3. next_timeout \in Seq(Entry)
  BY <1>2 DEF IsInsert
<1>4. /\ now = StartTime /\ timeouts_last_time = now
      /\ tcpip_tcp_timer_active = FALSE /\ pcbs = FALSE
      /\ diff = 0 /\ running = "app"
      /\ lag = 0 /\ starved = FALSE /\ early = FALSE
  BY Zenon DEF Init
<1>5. /\ now \in 0 .. Wrap - 1 /\ timeouts_last_time \in 0 .. Wrap - 1
      /\ diff \in Int /\ lag \in Nat
  BY <1>4, WrapAssumption
<1> QED
  BY <1>3, <1>4, <1>5, Zenon DEF Types

LEMMA TypesStep == Types /\ [Next]_vars => Types'
<1> SUFFICES ASSUME Types, [Next]_vars PROVE Types'
  OBVIOUS
<1>1. next_timeout \in Seq(Entry)
  BY DEF Types
<1>2. now - timeouts_last_time \in Int /\ now + 1 \in Int
  BY WrapAssumption, SMTT(30) DEF Types
<1>3. CASE Tick
  <2>1. now' \in 0 .. Wrap - 1
    BY <1>2, <1>3, ModRange, Zenon DEF Tick
  <2>2. next_timeout' = Ticked(next_timeout, lag' > 0)
    BY <1>3, Zenon DEF Tick, Ticked
  <2>3. next_timeout' \in Seq(Entry)
    BY <1>1, <2>2, TickedIs DEF Same
  <2>4. lag' = lag + 0 \/ lag' = lag + 1
    BY <1>3, Zenon DEF Tick
  <2>5. lag' \in Nat
    BY <2>4 DEF Types
  <2> QED
    BY <1>3, <2>1, <2>3, <2>5, ZenonT(30) DEF Tick, Types
<1>4. ASSUME NEW h \in Shots, NEW m \in Delays, SetShot(h, m) PROVE Types'
  <2>1. m \in Int /\ h \in Handlers
    BY TimesInt, Names
  <2>2. /\ next_timeout' \in Seq(Entry) /\ timeouts_last_time' \in 0 .. Wrap - 1
        /\ starved' \in BOOLEAN
    BY <1>4, <2>1, SysTimeoutTypes DEF SetShot
  <2> QED
    BY <1>4, <2>2 DEF SetShot, CallFromUser, Types
<1>5. ASSUME NEW h \in Shots, CancelShot(h) PROVE Types'
  <2>1. next_timeout' \in Seq(Entry)
    BY <1>1, <1>5, UntimeoutTypes DEF CancelShot
  <2> QED
    BY <1>5, <2>1 DEF CancelShot, CallFromUser, Types
<1>6. CASE Register
  <2>1. CASE tcpip_tcp_timer_active
    BY <1>6, <2>1 DEF Register, CallFromUser, NoTimeout, Types
  <2>2. CASE ~tcpip_tcp_timer_active
    <3>1. TcpInterval \in Int /\ "tcpip_tcp_timer" \in Handlers
      BY TimesInt, Names
    <3>2. sys_timeout(TcpInterval, "tcpip_tcp_timer")
      BY <1>6, <2>2 DEF Register
    <3>3. /\ next_timeout' \in Seq(Entry) /\ timeouts_last_time' \in 0 .. Wrap - 1
          /\ starved' \in BOOLEAN
      BY <3>1, <3>2, SysTimeoutTypes
    <3> QED
      BY <1>6, <2>2, <3>3 DEF Register, CallFromUser, Types
  <2> QED
    BY <2>1, <2>2
<1>7. CASE Unregister
  BY <1>7, Zenon DEF Unregister, CallFromUser, NoTimeout, Types
<1>8. CASE sys_restart_timeouts
  <2> DEFINE d == (now - timeouts_last_time) % Wrap
  <2>1. d \in Int
    BY <1>2, ModRange
  <2> HIDE DEF d
  <2>2. Slipped(next_timeout, d) \in Seq(Entry)
    BY <1>1, <2>1, SlippedIs DEF IsSlipped
  <2>3. next_timeout' \in Seq(Entry)
    BY <1>8, <2>2 DEF sys_restart_timeouts, d
  <2> QED
    BY <1>8, <2>3 DEF sys_restart_timeouts, CallFromUser, Types
<1>9. CASE Check
  <2>1. diff' \in Int
    BY <1>2, <1>9, ModRange DEF Check
  <2> QED
    BY <1>9, <2>1 DEF Check, Types
<1>10. CASE CallHandler
  <2> DEFINE e == next_timeout[1]
  <2>1. /\ next_timeout # <<>> /\ Head(next_timeout) = e /\ e \in Entry
        /\ Tail(next_timeout) \in Seq(Entry)
    BY <1>1, <1>10, TailIs, EntryFields DEF CallHandler, Expired, IsRemove
  <2>2. e.time \in Int /\ e.h \in Handlers
    BY <2>1 DEF Entry
  <2> HIDE DEF e
  <2>3. /\ timeouts_last_time' = (timeouts_last_time + e.time) % Wrap
        /\ diff' = diff - e.time /\ next_timeout' = Tail(next_timeout) /\ running' = e.h
        /\ early' = (early \/ (lag = 0 /\ e.left > 0))
        /\ UNCHANGED <<now, tcpip_tcp_timer_active, pcbs, calls, lag, starved>>
    BY <1>10, <2>1, Zenon DEF CallHandler
  <2>4. timeouts_last_time + e.time \in Int
    BY <2>2, WrapAssumption DEF Types
  <2>5. timeouts_last_time' \in 0 .. Wrap - 1
    BY <2>3, <2>4, ModRange, Zenon
  <2>6. early' \in BOOLEAN
    BY <2>3, Zenon
  <2> QED
    BY <2>1, <2>2, <2>3, <2>5, <2>6 DEF Types
<1>11. CASE CheckEnds
  BY <1>11 DEF CheckEnds, Types
<1>12. ASSUME NEW h \in Shots, ShotReturns(h) PROVE Types'
  BY <1>12 DEF ShotReturns, Return, NoTimeout, Types
<1>13. CASE cyclic_timer
  <2>1. Interval \in Int /\ "cyclic_timer" \in Handlers
    BY TimesInt, Names
  <2>2. /\ next_timeout' \in Seq(Entry) /\ timeouts_last_time' \in 0 .. Wrap - 1
        /\ starved' \in BOOLEAN
    BY <1>13, <2>1, SysTimeoutTypes DEF cyclic_timer
  <2> QED
    BY <1>13, <2>2 DEF cyclic_timer, Return, Types
<1>14. CASE tcpip_tcp_timer
  <2>1. TcpInterval \in Int /\ "tcpip_tcp_timer" \in Handlers
    BY TimesInt, Names
  <2>2. /\ next_timeout' \in Seq(Entry) /\ timeouts_last_time' \in 0 .. Wrap - 1
        /\ starved' \in BOOLEAN
    <3>1. CASE pcbs
      BY <1>14, <2>1, <3>1, SysTimeoutTypes DEF tcpip_tcp_timer
    <3>2. CASE ~pcbs
      BY <1>14, <3>2 DEF tcpip_tcp_timer, NoTimeout, Types
    <3> QED
      BY <3>1, <3>2
  <2> QED
    BY <1>14, <2>2 DEF tcpip_tcp_timer, Return, Types
<1>15. CASE UNCHANGED vars
  BY <1>15 DEF vars, Types
<1> QED
  BY <1>3, <1>4, <1>5, <1>6, <1>7, <1>8, <1>9, <1>10, <1>11, <1>12, <1>13, <1>14, <1>15,
     Zenon DEF Next, Loop

-----------------------------------------------------------------------------
(* The timer of TCP.                                                       *)

Timer(l, run, active, has) ==
    /\ has => active
    /\ active = (Tcp(l) # {} \/ run)
    /\ Once(l)
    /\ run => Tcp(l) = {}

LEMMA TcpTimedIs ==
    TcpTimed <=> (~starved => Timer(next_timeout, running = "tcpip_tcp_timer",
                                    tcpip_tcp_timer_active, pcbs))
  BY Zenon DEF TcpTimed, Timer, Tcp, Once

LEMMA TimerAdds ==
    ASSUME NEW l \in Seq(Entry), NEW r, NEW p, NEW h, Adds(r, l, p, h),
           h # "tcpip_tcp_timer", NEW run, NEW a, NEW c, Timer(l, run, a, c)
    PROVE  Timer(r, run, a, c)
<1>1. (Tcp(r) = {} <=> Tcp(l) = {}) /\ (Once(l) => Once(r))
  BY AddsTcp
<1> QED
  BY <1>1, Zenon DEF Timer

LEMMA InitTimed == Init => TcpTimed
<1> SUFFICES ASSUME Init PROVE TcpTimed
  OBVIOUS
<1>1. Interval \in Int /\ 0 \in Int /\ "cyclic_timer" \in Handlers
  BY TimesInt, Names
<1> DEFINE n == Interval
           k == 0
           h == "cyclic_timer"
           e == <<>>
           r == Inserted(e, n, k, h)
<1>2. n \in Int /\ k \in Int /\ h \in Handlers /\ e \in Seq(Entry)
      /\ h # "tcpip_tcp_timer" /\ Tcp(e) = {}
  BY <1>1 DEF Tcp
<1>3. next_timeout = r
  BY Zenon DEF Init
<1> HIDE DEF n, k, h, e
<1>4. PICK p : Adds(r, e, p, h)
  BY <1>2, InsertedAdds
<1>5. Tcp(r) = {}
  BY <1>2, <1>4, AddsTcp
<1>6. Once(next_timeout) /\ Tcp(next_timeout) = {}
  BY <1>3, <1>5, Zenon DEF Once
<1>7. tcpip_tcp_timer_active = FALSE /\ pcbs = FALSE /\ running = "app"
  BY Zenon DEF Init
<1>8. running # "tcpip_tcp_timer"
  BY <1>7
<1> QED
  BY <1>6, <1>7, <1>8, TcpTimedIs, Zenon DEF Timer

LEMMA TimedStep == Types /\ TcpTimed /\ [Next]_vars => TcpTimed'
<1> SUFFICES ASSUME Types, TcpTimed, [Next]_vars PROVE TcpTimed'
  OBVIOUS
<1> DEFINE run == running = "tcpip_tcp_timer"
           T(l) == Timer(l, run, tcpip_tcp_timer_active, pcbs)
<1>1. next_timeout \in Seq(Entry)
  BY DEF Types
<1>2. ~starved => T(next_timeout)
  BY TcpTimedIs, Zenon
<1>3. \/ starved'
      \/ Timer(next_timeout', running' = "tcpip_tcp_timer", tcpip_tcp_timer_active', pcbs')
      => TcpTimed'
  BY Zenon DEF TcpTimed, Timer, Tcp, Once
<1>4. CASE Tick
  <2>1. next_timeout' = Ticked(next_timeout, lag' > 0)
    BY <1>4, Zenon DEF Tick, Ticked
  <2>2. Tcp(next_timeout') = Tcp(next_timeout)
    BY <1>1, <2>1, TickedIs, SameTcp
  <2>3. UNCHANGED <<running, tcpip_tcp_timer_active, pcbs, starved>>
    BY <1>4, Zenon DEF Tick
  <2> QED
    BY <1>2, <1>3, <2>2, <2>3, Zenon DEF Timer, Once
<1>5. ASSUME NEW h \in Shots, NEW m \in Delays, SetShot(h, m) PROVE TcpTimed'
  <2>1. m \in Int /\ h \in Handlers /\ h # "tcpip_tcp_timer"
    BY TimesInt, Names
  <2>2. starved' \/ (~starved /\ \E p : Adds(next_timeout', next_timeout, p, h))
    BY <1>5, <2>1, SysTimeoutAdds, Zenon DEF SetShot
  <2>3. UNCHANGED <<running, tcpip_tcp_timer_active, pcbs>>
    BY <1>5, Zenon DEF SetShot, CallFromUser
  <2>4. CASE starved'
    BY <1>3, <2>4
  <2>5. ASSUME NEW p, ~starved, Adds(next_timeout', next_timeout, p, h)
        PROVE  Timer(next_timeout', running' = "tcpip_tcp_timer", tcpip_tcp_timer_active', pcbs')
    <3>1. T(next_timeout')
      BY <1>1, <1>2, <2>1, <2>5, TimerAdds, Zenon
    <3> QED
      BY <2>3, <3>1, Zenon
  <2> QED
    BY <1>3, <2>2, <2>4, <2>5, Zenon
<1>6. ASSUME NEW h \in Shots, CancelShot(h) PROVE TcpTimed'
  <2>1. h # "tcpip_tcp_timer"
    BY Names
  <2>2. \/ next_timeout' = next_timeout
        \/ \E p : next_timeout[p].h = h /\ Drops(next_timeout', next_timeout, p)
    BY <1>1, <1>6, UntimeoutTypes DEF CancelShot
  <2>3. (Once(next_timeout) => Once(next_timeout'))
        /\ (Tcp(next_timeout') = {} <=> Tcp(next_timeout) = {})
    BY <1>1, <2>1, <2>2, DropsTcp
  <2>4. UNCHANGED <<running, tcpip_tcp_timer_active, pcbs, starved>>
    BY <1>6, Zenon DEF CancelShot, CallFromUser
  <2> QED
    BY <1>2, <1>3, <2>3, <2>4, Zenon DEF Timer
<1>7. CASE Register
  <2>1. /\ running' = running /\ pcbs' = TRUE
    BY <1>7, Zenon DEF Register, CallFromUser
  <2>2. CASE tcpip_tcp_timer_active
    <3>1. UNCHANGED <<next_timeout, starved, tcpip_tcp_timer_active>>
      BY <1>7, <2>2, Zenon DEF Register, NoTimeout
    <3> QED
      BY <1>2, <1>3, <2>1, <2>2, <3>1, Zenon DEF Timer
  <2>3. CASE ~tcpip_tcp_timer_active
    <3>1. TcpInterval \in Int /\ "tcpip_tcp_timer" \in Handlers
      BY TimesInt, Names
    <3>2. sys_timeout(TcpInterval, "tcpip_tcp_timer") /\ tcpip_tcp_timer_active' = TRUE
      BY <1>7, <2>3, Zenon DEF Register
    <3>3. \/ starved'
          \/ /\ ~starved
             /\ \E p : Adds(next_timeout', next_timeout, p, "tcpip_tcp_timer")
      BY <3>1, <3>2, SysTimeoutAdds, Zenon
    <3>4. ASSUME NEW p, ~starved, Adds(next_timeout', next_timeout, p, "tcpip_tcp_timer")
          PROVE  Timer(next_timeout', running' = "tcpip_tcp_timer", tcpip_tcp_timer_active', pcbs')
      <4>1. Tcp(next_timeout) = {} /\ ~run
        BY <1>2, <2>3, <3>4, Zenon DEF Timer
      <4>2. Tcp(next_timeout') # {} /\ Once(next_timeout')
        BY <1>1, <3>4, <4>1, AddsTcp, Zenon
      <4> QED
        BY <2>1, <3>2, <4>1, <4>2, Zenon DEF Timer
    <3> QED
      BY <1>3, <3>3, <3>4, Zenon
  <2> QED
    BY <2>2, <2>3
<1>8. CASE Unregister
  <2>1. UNCHANGED <<running, next_timeout, starved, tcpip_tcp_timer_active>> /\ pcbs' = FALSE
    BY <1>8, Zenon DEF Unregister, CallFromUser, NoTimeout
  <2> QED
    BY <1>2, <1>3, <2>1, Zenon DEF Timer
<1>9. CASE sys_restart_timeouts
  <2> DEFINE d == (now - timeouts_last_time) % Wrap
  <2>1. d \in Int
    BY ModRange, WrapAssumption DEF Types
  <2>2. next_timeout' = Slipped(next_timeout, d)
        /\ UNCHANGED <<running, starved, tcpip_tcp_timer_active, pcbs>>
    BY <1>9, Zenon DEF sys_restart_timeouts, CallFromUser
  <2> HIDE DEF d
  <2>3. Same(Slipped(next_timeout, d), next_timeout)
    BY <1>1, <2>1, SlippedIs, SMTT(30) DEF IsSlipped, Same
  <2>4. Tcp(next_timeout') = Tcp(next_timeout)
    BY <1>1, <2>2, <2>3, SameTcp
  <2> QED
    BY <1>2, <1>3, <2>2, <2>4, Zenon DEF Timer, Once
<1>10. CASE Check
  <2>1. running = "app" /\ running' = "loop"
        /\ UNCHANGED <<next_timeout, starved, tcpip_tcp_timer_active, pcbs>>
    BY <1>10, Zenon DEF Check
  <2>2. ~run /\ running' # "tcpip_tcp_timer"
    BY <2>1
  <2> QED
    BY <1>2, <1>3, <2>1, <2>2, Zenon DEF Timer
<1>11. CASE CallHandler
  <2> DEFINE e == next_timeout[1]
  <2>1. /\ next_timeout # <<>> /\ Head(next_timeout) = e
        /\ Drops(Tail(next_timeout), next_timeout, 1)
    BY <1>1, <1>11, TailIs DEF CallHandler, Expired
  <2>2. /\ running = "loop" /\ next_timeout' = Tail(next_timeout) /\ running' = e.h
        /\ UNCHANGED <<tcpip_tcp_timer_active, pcbs, starved>>
    BY <1>11, <2>1, Zenon DEF CallHandler
  <2>3. ~run
    BY <2>2
  <2>4. /\ Once(next_timeout) => Once(next_timeout')
        /\ e.h # "tcpip_tcp_timer" => (Tcp(next_timeout') = {} <=> Tcp(next_timeout) = {})
        /\ e.h = "tcpip_tcp_timer" /\ Once(next_timeout) => Tcp(next_timeout') = {}
        /\ e.h = "tcpip_tcp_timer" => Tcp(next_timeout) # {}
    BY <1>1, <2>1, <2>2, DropsTcp, Zenon
  <2> HIDE DEF e
  <2> QED
    BY <1>2, <1>3, <2>2, <2>3, <2>4, Zenon DEF Timer
<1>12. CASE CheckEnds
  <2>1. running = "loop" /\ running' = "app"
        /\ UNCHANGED <<next_timeout, starved, tcpip_tcp_timer_active, pcbs>>
    BY <1>12, Zenon DEF CheckEnds
  <2>2. ~run /\ running' # "tcpip_tcp_timer"
    BY <2>1
  <2> QED
    BY <1>2, <1>3, <2>1, <2>2, Zenon DEF Timer
<1>13. ASSUME NEW h \in Shots, ShotReturns(h) PROVE TcpTimed'
  <2>1. running = h /\ running' = "loop"
        /\ UNCHANGED <<next_timeout, starved, tcpip_tcp_timer_active, pcbs>>
    BY <1>13, Zenon DEF ShotReturns, Return, NoTimeout
  <2>2. ~run /\ running' # "tcpip_tcp_timer"
    BY <2>1, Names
  <2> QED
    BY <1>2, <1>3, <2>1, <2>2, Zenon DEF Timer
<1>14. CASE cyclic_timer
  <2>1. Interval \in Int /\ "cyclic_timer" \in Handlers
    BY TimesInt, Names
  <2> DEFINE h == "cyclic_timer"
  <2>2. running = h /\ running' = "loop" /\ UNCHANGED <<tcpip_tcp_timer_active, pcbs>>
    BY <1>14, Zenon DEF cyclic_timer, Return
  <2>3. ~run /\ running' # "tcpip_tcp_timer" /\ h # "tcpip_tcp_timer"
    BY <2>2
  <2>4. starved' \/ (~starved /\ \E p : Adds(next_timeout', next_timeout, p, h))
    BY <1>14, <2>1, SysTimeoutAdds, Zenon DEF cyclic_timer
  <2>5. ASSUME NEW p, ~starved, Adds(next_timeout', next_timeout, p, h)
        PROVE  Timer(next_timeout', running' = "tcpip_tcp_timer", tcpip_tcp_timer_active', pcbs')
    <3> HIDE DEF h
    <3>1. T(next_timeout')
      BY <1>1, <1>2, <2>3, <2>5, TimerAdds, Zenon
    <3> QED
      BY <2>2, <2>3, <3>1, Zenon DEF Timer
  <2> QED
    BY <1>3, <2>4, <2>5, Zenon
<1>15. CASE tcpip_tcp_timer
  <2>1. TcpInterval \in Int /\ "tcpip_tcp_timer" \in Handlers
    BY TimesInt, Names
  <2>2. run /\ running' = "loop" /\ pcbs' = pcbs /\ tcpip_tcp_timer_active' = pcbs
    BY <1>15, Zenon DEF tcpip_tcp_timer, Return
  <2>3. running' # "tcpip_tcp_timer"
    BY <2>2
  <2>4. CASE ~pcbs
    <3>1. UNCHANGED <<next_timeout, starved>>
      BY <1>15, <2>4, Zenon DEF tcpip_tcp_timer, NoTimeout
    <3> QED
      BY <1>2, <1>3, <2>2, <2>3, <2>4, <3>1, Zenon DEF Timer, Types
  <2>5. CASE pcbs
    <3>1. \/ starved'
          \/ /\ ~starved
             /\ \E p : Adds(next_timeout', next_timeout, p, "tcpip_tcp_timer")
      BY <1>15, <2>1, <2>5, SysTimeoutAdds, Zenon DEF tcpip_tcp_timer
    <3>2. ASSUME NEW p, ~starved, Adds(next_timeout', next_timeout, p, "tcpip_tcp_timer")
          PROVE  Timer(next_timeout', running' = "tcpip_tcp_timer", tcpip_tcp_timer_active', pcbs')
      <4>1. Tcp(next_timeout) = {}
        BY <1>2, <2>2, <3>2, Zenon DEF Timer
      <4>2. Tcp(next_timeout') # {} /\ Once(next_timeout')
        BY <1>1, <3>2, <4>1, AddsTcp, Zenon
      <4> QED
        BY <2>2, <2>3, <2>5, <4>2, Zenon DEF Timer, Types
    <3> QED
      BY <1>3, <3>1, <3>2, Zenon
  <2> QED
    BY <2>4, <2>5
<1>16. CASE UNCHANGED vars
  <2>1. UNCHANGED <<next_timeout, running, starved, tcpip_tcp_timer_active, pcbs>>
    BY <1>16, Zenon DEF vars
  <2> QED
    BY <1>2, <1>3, <2>1, Zenon
<1> QED
  BY <1>4, <1>5, <1>6, <1>7, <1>8, <1>9, <1>10, <1>11, <1>12, <1>13, <1>14, <1>15, <1>16,
     Zenon DEF Next, Loop

(* TCP never loses its timer and never has two, whatever timeouts are set  *)
(* and cancelled around it, unless the pool has run empty.                 *)
THEOREM TcpTimedHolds == Spec => []TcpTimed
<1>1. Init => Types /\ TcpTimed
  BY InitTypes, InitTimed
<1>2. Types /\ TcpTimed /\ [Next]_vars => (Types /\ TcpTimed)'
  BY TypesStep, TimedStep, Zenon
<1> QED
  BY <1>1, <1>2, PTL DEF Spec

-----------------------------------------------------------------------------
(* The list is exact.                                                      *)

Due(l, j) == l[j].left + l[j].slip

(* s milliseconds after timeouts_last_time each entry is due when its time *)
(* and those before it are over.                                           *)
Exact(l, s) ==
    /\ \A j \in 1 .. Len(l) : l[j].time \in 0 .. Wrap - 1 /\ l[j].slip \in Nat
    /\ l # <<>> => s <= l[1].time /\ Due(l, 1) = l[1].time - s
    /\ \A j \in 1 .. Len(l) - 1 : Due(l, j + 1) = Due(l, j) + l[j + 1].time

LEMMA ListFacts ==
    ASSUME NEW l \in Seq(Entry), NEW s \in Int, Exact(l, s)
    PROVE  /\ Len(l) \in Nat
           /\ \A j \in 1 .. Len(l) : /\ Due(l, j) \in Int /\ l[j].left \in Int
                                     /\ l[j].slip \in Nat /\ l[j].time \in 0 .. Wrap - 1
                                     /\ l[j].time \in Nat /\ l[j].h \in Handlers
<1>1. /\ Len(l) \in Nat
      /\ \A j \in 1 .. Len(l) : l[j].left \in Int /\ l[j].slip \in Int /\ l[j].h \in Handlers
  BY EntryFields
<1>2. \A j \in 1 .. Len(l) : l[j].slip \in Nat /\ l[j].time \in 0 .. Wrap - 1
  BY DEF Exact
<1> QED
  BY <1>1, <1>2, WrapAssumption DEF Due

LEMMA ExactExpiry ==
    ASSUME NEW l \in Seq(Entry), NEW s \in Int, Exact(l, s)
    PROVE  \A j \in 1 .. Len(l) : Due(l, j) = Expiry(l, j) - s
<1> DEFINE T == {j \in 1 .. Len(l) : Due(l, j) # Expiry(l, j) - s}
<1> SUFFICES ASSUME T # {} PROVE FALSE
  OBVIOUS
<1>1. Len(l) \in Nat /\ \A j \in 1 .. Len(l) : Due(l, j) \in Int /\ l[j].time \in Int
  BY ListFacts
<1>2. T \in SUBSET Nat
  BY <1>1
<1>3. PICK j \in T : \A y \in T : j <= y
  BY <1>2, Least, ZenonT(30)
<1>4. j \in 1 .. Len(l) /\ Due(l, j) # Expiry(l, j) - s
  OBVIOUS
<1>5. Expiry(l, j) = Expiry(l, j - 1) + l[j].time
  BY <1>1, <1>4, ExpiryIs
<1>6. CASE j = 1
  <2>1. l # <<>>
    BY <1>4
  <2>2. Expiry(l, 1) = Expiry(l, 0) + l[1].time /\ Expiry(l, 0) = 0
    BY <1>1, <1>4, <1>6, ExpiryIs
  <2>3. Due(l, 1) = l[1].time - s
    BY <2>1 DEF Exact
  <2> HIDE DEF T
  <2> QED
    BY <1>1, <1>4, <1>6, <2>2, <2>3
<1>7. CASE j # 1
  <2> DEFINE k == j - 1
  <2>1. k \in 1 .. Len(l) /\ k \in 1 .. Len(l) - 1 /\ k + 1 = j /\ ~(j <= k)
        /\ k \in 0 .. Len(l)
    <3> HIDE DEF T
    <3> QED
      BY <1>1, <1>4, <1>7
  <2>2. Due(l, k) = Expiry(l, k) - s
    BY <1>3, <2>1
  <2> HIDE DEF k, T
  <2>3. Due(l, k + 1) = Due(l, k) + l[k + 1].time
    BY <2>1, Zenon DEF Exact
  <2>4. Due(l, j) = Due(l, k) + l[j].time
    BY <2>1, <2>3
  <2>5. Expiry(l, j) = Expiry(l, k) + l[j].time
    BY <1>5 DEF k
  <2>6. Expiry(l, k) \in Int
    BY <2>1, ExpiryInt
  <2> QED
    BY <1>1, <1>4, <2>1, <2>2, <2>4, <2>5, <2>6, SMTT(30)
<1> QED
  BY <1>6, <1>7

LEMMA ExactNat ==
    ASSUME NEW l \in Seq(Entry), NEW s \in Int, Exact(l, s)
    PROVE  \A j \in 1 .. Len(l) : Due(l, j) >= 0
<1> DEFINE T == {j \in 1 .. Len(l) : ~(Due(l, j) >= 0)}
<1> SUFFICES ASSUME T # {} PROVE FALSE
  OBVIOUS
<1>1. Len(l) \in Nat /\ \A j \in 1 .. Len(l) : Due(l, j) \in Int /\ l[j].time \in Nat
  BY ListFacts
<1>2. T \in SUBSET Nat
  BY <1>1
<1>3. PICK j \in T : \A y \in T : j <= y
  BY <1>2, Least, Zenon
<1>4. j \in 1 .. Len(l) /\ ~(Due(l, j) >= 0)
  OBVIOUS
<1>6. CASE j = 1
  <2>1. l # <<>>
    BY <1>4
  <2>2. Due(l, 1) = l[1].time - s /\ s <= l[1].time
    BY <2>1 DEF Exact
  <2> HIDE DEF T
  <2> QED
    BY <1>1, <1>4, <1>6, <2>2
<1>7. CASE j # 1
  <2> DEFINE k == j - 1
  <2>1. k \in 1 .. Len(l) /\ k \in 1 .. Len(l) - 1 /\ k + 1 = j /\ ~(j <= k)
    <3> HIDE DEF T
    <3> QED
      BY <1>1, <1>4, <1>7
  <2>2. Due(l, k) >= 0
    BY <1>3, <2>1
  <2> HIDE DEF k, T
  <2>3. Due(l, k + 1) = Due(l, k) + l[k + 1].time
    BY <2>1, Zenon DEF Exact
  <2> QED
    BY <1>1, <1>4, <2>1, <2>2, <2>3
<1> QED
  BY <1>6, <1>7

(* What remains of a new timeout behind an entry that is due before it.    *)
LEMMA RestExact ==
    ASSUME NEW l \in Seq(Entry), NEW s \in Int, Exact(l, s),
           NEW m \in 0 .. Wrap - 1, NEW j \in 1 .. Len(l), Due(l, j) <= m
    PROVE  Rest(l, m, s, j) = m - Due(l, j)
<1>1. Due(l, j) = Expiry(l, j) - s /\ Due(l, j) >= 0 /\ Due(l, j) \in Int /\ m \in Int
  BY ExactExpiry, ExactNat, ListFacts, WrapAssumption
<1>2. j \in 0 .. Len(l)
  BY EntryFields
<1>3. Expiry(l, j) \in Int
  BY <1>2, ExpiryInt
<1>4. m + s - Expiry(l, j) = m - Due(l, j)
  BY <1>1, <1>3
<1>5. m - Due(l, j) \in 0 .. Wrap - 1
  BY <1>1, WrapAssumption
<1>6. (m - Due(l, j)) % Wrap = m - Due(l, j)
  BY <1>5, ModSmall
<1> QED
  BY <1>4, <1>6, Zenon DEF Rest

LEMMA SpotExact ==
    ASSUME NEW l \in Seq(Entry), l # <<>>, NEW s \in Nat, Exact(l, s),
           NEW m \in 0 .. Wrap - 1, ~(l[1].time > m)
    PROVE  \A j \in 1 .. Spot(l, m, s) : Due(l, j) <= m
<1> DEFINE i == Spot(l, m, s)
           T == {j \in 1 .. i : ~(Due(l, j) <= m)}
<1> SUFFICES ASSUME T # {} PROVE FALSE
  OBVIOUS
<1>1. Len(l) \in Nat /\ \A j \in 1 .. Len(l) : Due(l, j) \in Int /\ l[j].time \in Nat
  BY ListFacts
<1>2. m \in Int /\ s \in Int
  BY WrapAssumption
<1>3. i \in 1 .. Len(l) /\ \A j \in 1 .. i - 1 : l[j + 1].time <= Rest(l, m, s, j)
  BY <1>2, SpotIs
<1> HIDE DEF i
<1>4. T \in SUBSET Nat
  BY <1>1, <1>3
<1>5. PICK j \in T : \A y \in T : j <= y
  BY <1>4, Least, Zenon
<1>6. j \in 1 .. i /\ ~(Due(l, j) <= m) /\ j \in 1 .. Len(l)
  BY <1>1, <1>3
<1>7. CASE j = 1
  <2>1. Due(l, 1) = l[1].time - s
    BY DEF Exact
  <2> HIDE DEF T
  <2> QED
    BY <1>1, <1>2, <1>6, <1>7, <2>1
<1>8. CASE j # 1
  <2> DEFINE k == j - 1
  <2>1. k \in 1 .. Len(l) /\ k \in 1 .. Len(l) - 1 /\ k + 1 = j /\ ~(j <= k)
        /\ k \in 1 .. i /\ k \in 1 .. i - 1
    <3> HIDE DEF T
    <3> QED
      BY <1>1, <1>3, <1>6, <1>8
  <2>2. Due(l, k) <= m
    BY <1>5, <2>1
  <2> HIDE DEF k, T
  <2>3. Rest(l, m, s, k) = m - Due(l, k)
    BY <1>2, <2>1, <2>2, RestExact
  <2>4. l[k + 1].time <= Rest(l, m, s, k)
    BY <1>3, <2>1, Zenon
  <2>5. Due(l, k + 1) = Due(l, k) + l[k + 1].time
    BY <2>1, Zenon DEF Exact
  <2> QED
    BY <1>1, <1>2, <1>6, <2>1, <2>3, <2>4, <2>5, SMTT(30)
<1> QED
  BY <1>7, <1>8

(* The list with an entry more, not in front, whose time the entry after   *)
(* it gives up.                                                            *)
LEMMA InsertExact ==
    ASSUME NEW l \in Seq(Entry), NEW q \in Seq(Entry), Len(q) = Len(l),
           NEW s \in Int, Exact(l, s), NEW k \in 2 .. Len(l) + 1,
           NEW n \in Entry, NEW r, IsInsert(r, q, k, n),
           \A x \in 1 .. Len(l) : /\ q[x].left = l[x].left /\ q[x].slip = l[x].slip
                                  /\ x # k => q[x].time = l[x].time,
           n.time \in 0 .. Wrap - 1, n.slip \in Nat,
           n.left + n.slip = Due(l, k - 1) + n.time,
           k <= Len(l) => q[k].time = l[k].time - n.time /\ n.time <= l[k].time
    PROVE  Exact(r, s)
<1> DEFINE Was(j) == j - 1
<1>1. /\ Len(l) \in Nat
      /\ \A j \in 1 .. Len(l) : /\ Due(l, j) \in Int /\ l[j].slip \in Nat
                                /\ l[j].time \in 0 .. Wrap - 1 /\ l[j].time \in Nat
  BY ListFacts
<1>2. \A j \in 1 .. k - 1 : /\ Due(r, j) = Due(l, j) /\ r[j].time = l[j].time
                            /\ r[j].slip = l[j].slip
  <2> TAKE j \in 1 .. k - 1
  <2>1. j \in 1 .. Len(l) /\ j # k
    BY <1>1
  <2>2. r[j] = q[j]
    BY DEF IsInsert
  <2> QED
    BY <2>1, <2>2, Zenon DEF Due
<1>3. \A j \in k + 1 .. Len(l) + 1 :
         /\ Was(j) \in 1 .. Len(l) /\ Due(r, j) = Due(l, Was(j)) /\ r[j].slip = l[Was(j)].slip
         /\ Was(j) # k => r[j].time = l[Was(j)].time
         /\ Was(j) = k => r[j].time = l[k].time - n.time
  <2> TAKE j \in k + 1 .. Len(l) + 1
  <2>1. Was(j) \in 1 .. Len(l) /\ k <= Len(l)
    BY <1>1
  <2>2. r[j] = q[Was(j)]
    BY DEF IsInsert
  <2> HIDE DEF Was
  <2> QED
    BY <2>1, <2>2, Zenon DEF Due
<1>4. r[k] = n /\ Len(r) = Len(l) + 1 /\ r \in Seq(Entry)
  BY DEF IsInsert
<1>5. Due(r, k) = Due(l, k - 1) + n.time
  BY <1>4 DEF Due
<1>6. ASSUME NEW j \in 1 .. Len(r) PROVE r[j].time \in 0 .. Wrap - 1 /\ r[j].slip \in Nat
  <2>1. CASE j < k
    <3>1. j \in 1 .. k - 1 /\ j \in 1 .. Len(l)
      BY <1>1, <1>4, <2>1, SMTT(30)
    <3> QED
      BY <1>1, <1>2, <3>1, Zenon
  <2>2. CASE j = k
    BY <1>4, <2>2
  <2>3. CASE j > k
    <3>1. j \in k + 1 .. Len(l) + 1
      BY <1>1, <1>4, <2>3
    <3>2. CASE Was(j) # k
      <4> HIDE DEF Was
      <4> QED
        BY <1>1, <1>3, <3>1, <3>2, Zenon
    <3>3. CASE Was(j) = k
      <4>1. k \in 1 .. Len(l)
        BY <1>1, <1>4, <3>3
      <4>2. l[k].time - n.time \in 0 .. Wrap - 1
        BY <1>1, <4>1, WrapAssumption, SMTT(30)
      <4>3. r[j].time = l[k].time - n.time /\ r[j].slip = l[k].slip
        BY <1>3, <3>1, <3>3
      <4> QED
        BY <1>1, <4>1, <4>2, <4>3, SMTT(30)
    <3> QED
      BY <3>2, <3>3, SMTT(30)
  <2> QED
    BY <1>4, <1>1, <2>1, <2>2, <2>3
<1>7. s <= r[1].time /\ Due(r, 1) = r[1].time - s
  <2>1. 1 \in 1 .. k - 1 /\ l # <<>>
    BY <1>1, SMTT(30)
  <2> QED
    BY <1>2, <2>1, SMTT(30) DEF Exact
<1>8. ASSUME NEW j \in 1 .. Len(r) - 1 PROVE Due(r, j + 1) = Due(r, j) + r[j + 1].time
  <2>1. CASE j + 1 < k
    <3>1. j \in 1 .. k - 1 /\ j + 1 \in 1 .. k - 1 /\ j \in 1 .. Len(l) - 1
      BY <1>1, <1>4, <2>1
    <3>2. Due(l, j + 1) = Due(l, j) + l[j + 1].time
      BY <3>1, Zenon DEF Exact
    <3> QED
      BY <1>2, <3>1, <3>2, Zenon
  <2>2. CASE j + 1 = k
    <3>1. j \in 1 .. k - 1 /\ j = k - 1
      BY <1>1, <1>4, <2>2
    <3> QED
      BY <1>2, <1>4, <1>5, <2>2, <3>1, SMTT(30)
  <2>3. CASE j = k
    <3> DEFINE i == k - 1
    <3>1. k \in 1 .. Len(l) /\ k + 1 \in k + 1 .. Len(l) + 1 /\ Was(k + 1) = k
      BY <1>1, <1>4, <2>3
    <3>2. i \in 1 .. Len(l) - 1 /\ i + 1 = k /\ i \in 1 .. Len(l)
      BY <1>1, <3>1
    <3>3. Due(r, k + 1) = Due(l, k) /\ r[k + 1].time = l[k].time - n.time
      BY <1>3, <3>1
    <3>4. Due(r, k) = Due(l, i) + n.time
      BY <1>5
    <3> HIDE DEF Was, i
    <3>5. Due(l, i + 1) = Due(l, i) + l[i + 1].time
      BY <3>2, Zenon DEF Exact
    <3> DEFINE A == Due(l, i)
               B == l[k].time
               C == n.time
    <3>6. A \in Int
      BY <1>1, <3>2, Zenon
    <3>7. B \in Nat
      BY <1>1, <3>1, Zenon
    <3>8. C \in Int
      BY DEF Entry
    <3>9. Due(r, k + 1) = A + B /\ Due(r, k) = A + C /\ r[k + 1].time = B - C
      BY <3>2, <3>3, <3>4, <3>5, Zenon
    <3> HIDE DEF A, B, C
    <3>10. A + B = (A + C) + (B - C)
      BY <3>6, <3>7, <3>8
    <3> QED
      BY <2>3, <3>9, <3>10, Zenon
  <2>4. CASE j > k
    <3> DEFINE i == j - 1
    <3>1. /\ j \in k + 1 .. Len(l) + 1 /\ j + 1 \in k + 1 .. Len(l) + 1
          /\ Was(j) = i /\ Was(j + 1) = j /\ i + 1 = j /\ i \in 1 .. Len(l) - 1
          /\ i \in 1 .. Len(l) /\ j # k
      <4>1. j \in Int /\ k \in Int /\ Len(l) \in Nat /\ k >= 2 /\ j > k /\ j <= Len(l)
        BY <1>1, <1>4, <2>4, SMTT(30)
      <4>2. j \in k + 1 .. Len(l) + 1 /\ j + 1 \in k + 1 .. Len(l) + 1 /\ j # k
        BY <4>1, SMTT(30)
      <4>3. i \in 1 .. Len(l) - 1 /\ i \in 1 .. Len(l)
        BY <4>1
      <4>4. i + 1 = j /\ Was(j) = i /\ Was(j + 1) = j
        BY <4>1
      <4> QED
        BY <4>2, <4>3, <4>4, Zenon
    <3> HIDE DEF i, Was
    <3>2. Due(l, i + 1) = Due(l, i) + l[i + 1].time
      BY <3>1, Zenon DEF Exact
    <3>3. Due(r, j + 1) = Due(l, j) /\ r[j + 1].time = l[j].time /\ Due(r, j) = Due(l, i)
      BY <1>3, <3>1, Zenon
    <3> QED
      BY <3>1, <3>2, <3>3, SMTT(30)
  <2> QED
    BY <1>1, <1>4, <2>1, <2>2, <2>3, <2>4
<1> QED
  BY <1>6, <1>7, <1>8, Zenon DEF Exact

LEMMA PlaceExact ==
    ASSUME NEW l \in Seq(Entry), l # <<>>, NEW s \in Nat, Exact(l, s),
           NEW m \in 0 .. Wrap - 1, ~(l[1].time > m), NEW e \in Entry, e.left = m, e.slip = 0
    PROVE  Exact(Place(l, m, s, e), s)
<1> DEFINE i == Spot(l, m, s)
           r == Place(l, m, s, e)
           rest == Rest(l, m, s, i)
           k == i + 1
           t == l[k].time - rest
           q == Timed(l, k, t)
           n == WithTime(e, rest)
           z == WithTime(e, LastTime(l, m, s, i))
<1>1. m \in Int /\ s \in Int /\ m >= 0 /\ m \in 0 .. Wrap - 1
  BY WrapAssumption
<1>2. Middle(r, l, m, s, e, i) \/ Final(r, l, m, s, e, i)
  BY <1>1, PlaceIs
<1>3. i \in 1 .. Len(l) /\ Len(l) \in Nat /\ (i = Len(l) \/ l[k].time > rest)
  BY <1>1, SpotIs, EntryFields
<1>4. i \in 1 .. i
  BY <1>3
<1>5. Due(l, i) <= m /\ Due(l, i) >= 0 /\ Due(l, i) \in Int
  BY <1>3, <1>4, <1>1, SpotExact, ExactNat, ListFacts
<1> HIDE DEF i, r
<1>6. rest = m - Due(l, i)
  BY <1>1, <1>3, <1>5, RestExact
<1>7. rest \in 0 .. Wrap - 1 /\ rest \in Int /\ rest <= m /\ k - 1 = i /\ k \in 2 .. Len(l) + 1
  BY <1>1, <1>3, <1>5, <1>6, WrapAssumption
<1>8. n \in Entry /\ n.time = rest /\ n.left = m /\ n.slip = 0
  BY <1>7, WithTimeIs, ZenonT(30)
<1>9. n.left + n.slip = Due(l, k - 1) + n.time
  <2> HIDE DEF k, n, rest
  <2> QED
    BY <1>1, <1>5, <1>6, <1>7, <1>8
<1>10. n.time \in 0 .. Wrap - 1 /\ n.slip \in Nat
  BY <1>7, <1>8
<1>11. CASE Middle(r, l, m, s, e, i)
  <2>1. i < Len(l) /\ IsInsert(r, q, k, n)
    BY <1>11, Zenon DEF Middle
  <2>2. k \in 1 .. Len(l) /\ k <= Len(l) /\ l[k].time > rest
    BY <1>3, <2>1
  <2> HIDE DEF k, rest, n
  <2>3. l[k].time \in Int
    BY <2>2, EntryFields
  <2>4. t \in Int /\ rest <= l[k].time
    BY <1>7, <2>2, <2>3
  <2> HIDE DEF t
  <2>5. IsTimed(q, l, k, t)
    BY <2>2, <2>4, TimedIs
  <2> HIDE DEF q
  <2>6. /\ q \in Seq(Entry) /\ Len(q) = Len(l) /\ q[k].time = t
        /\ \A x \in 1 .. Len(l) : /\ q[x].left = l[x].left /\ q[x].slip = l[x].slip
                                  /\ x # k => q[x].time = l[x].time
    BY <2>5 DEF IsTimed
  <2>7. q[k].time = l[k].time - n.time /\ n.time <= l[k].time
    BY <1>8, <2>4, <2>6, SMTT(30) DEF t
  <2>8. Exact(r, s)
    BY <1>1, <1>7, <1>8, <1>9, <1>10, <2>1, <2>6, <2>7, InsertExact, Zenon
  <2> QED
    BY <2>8 DEF r
<1>12. CASE Final(r, l, m, s, e, i)
  <2>1. i = Len(l) /\ IsInsert(r, l, Len(l) + 1, z)
    BY <1>12, Zenon DEF Final
  <2>2. LastTime(l, m, s, i) = rest
    BY <1>7, <1>1, SMTT(30) DEF LastTime
  <2>3. IsInsert(r, l, k, n)
    BY <2>1, <2>2, SMTT(30)
  <2>4. ~(k <= Len(l))
    BY <1>3, <2>1, SMTT(30)
  <2> HIDE DEF k, rest, n
  <2>5. Exact(r, s)
    BY <1>1, <1>7, <1>8, <1>9, <1>10, <2>3, <2>4, InsertExact, SMTT(30)
  <2> QED
    BY <2>5 DEF r
<1> QED
  BY <1>2, <1>11, <1>12

LEMMA NewTime ==
    ASSUME NEW m \in Nat, NEW s \in Nat, m + s < Wrap
    PROVE  (m + s) % Wrap = m + s /\ m + s \in 0 .. Wrap - 1
<1>1. m + s \in 0 .. Wrap - 1
  BY WrapAssumption
<1> QED
  BY <1>1, ModSmall

(* In front of the others.                                                 *)
LEMMA FrontExact ==
    ASSUME NEW l \in Seq(Entry), l # <<>>, NEW s \in Nat, Exact(l, s),
           NEW m \in 0 .. Wrap - 1, l[1].time > m, l[1].time + m < Wrap,
           NEW h \in Handlers
    PROVE  Exact(Inserted(l, m, s, h), s)
<1> DEFINE r == Inserted(l, m, s, h)
           e == NewEntry(m, s, h)
           b == Behind(l, m, s)
<1>1. /\ Len(l) \in Nat /\ 1 \in 1 .. Len(l) /\ m \in Int /\ m \in Nat
      /\ \A j \in 1 .. Len(l) : /\ Due(l, j) \in Int /\ l[j].left \in Int /\ l[j].slip \in Nat
                                /\ l[j].time \in 0 .. Wrap - 1 /\ l[j].time \in Nat
  BY ListFacts, EntryFields, WrapAssumption, SMTT(30)
<1>2. s <= l[1].time /\ Due(l, 1) = l[1].time - s
  BY SMTT(30) DEF Exact
<1>3. IsInsert(r, b, 1, e)
  BY <1>1, InsertedFront, SMTT(30)
<1>4. m + s < Wrap
  BY <1>1, <1>2, WrapAssumption, SMTT(30)
<1>5. e.time = m + s /\ e.left = m /\ e.slip = 0 /\ m + s \in 0 .. Wrap - 1
  BY <1>1, <1>4, NewTime, NewEntryIs
<1>6. PICK q : IsTimed(q, l, 1, l[1].time - m) /\ IsSlipped(b, q, s)
  <2>1. s \in Int
    BY SMTT(30)
  <2> QED
    BY <1>1, <2>1, BehindIs, Zenon
<1> HIDE DEF r, e, b
<1>7. /\ Len(q) = Len(l) /\ q[1].time = l[1].time - m
      /\ \A j \in 1 .. Len(l) : /\ q[j].left = l[j].left /\ q[j].slip = l[j].slip
                                /\ j # 1 => q[j].time = l[j].time
  BY <1>6 DEF IsTimed
<1>8. /\ Len(b) = Len(l) /\ b[1].time = l[1].time - m
      /\ \A j \in 1 .. Len(l) : /\ b[j].left = l[j].left /\ b[j].slip = l[j].slip + s
                                /\ j # 1 => b[j].time = l[j].time
  <2>1. /\ Len(b) = Len(q)
        /\ \A j \in 1 .. Len(q) : /\ b[j].time = q[j].time /\ b[j].left = q[j].left
                                  /\ b[j].slip = q[j].slip + s
    BY <1>6, Zenon DEF IsSlipped
  <2> QED
    BY <1>1, <1>7, <2>1, Zenon
<1>9. /\ Len(r) = Len(l) + 1 /\ r[1] = e
      /\ \A j \in 2 .. Len(l) + 1 : r[j] = b[j - 1]
  <2>1. \A j \in 1 + 1 .. Len(b) + 1 : r[j] = b[j - 1]
    BY <1>3, Zenon DEF IsInsert
  <2>2. Len(r) = Len(b) + 1 /\ r[1] = e
    BY <1>3, Zenon DEF IsInsert
  <2> QED
    BY <1>8, <2>1, <2>2
<1>10. \A j \in 1 .. Len(l) : /\ r[j + 1].left = l[j].left /\ r[j + 1].slip = l[j].slip + s
                              /\ j # 1 => r[j + 1].time = l[j].time
                              /\ j = 1 => r[j + 1].time = l[1].time - m
  <2> TAKE j \in 1 .. Len(l)
  <2>1. j + 1 \in 2 .. Len(l) + 1 /\ (j + 1) - 1 = j
    BY <1>1
  <2>2. r[j + 1] = b[(j + 1) - 1]
    BY <1>9, <2>1, Zenon
  <2>3. r[j + 1] = b[j]
    BY <2>1, <2>2
  <2> QED
    BY <1>8, <2>3, Zenon
<1>11. \A j \in 1 .. Len(l) : Due(r, j + 1) = Due(l, j) + s /\ r[j + 1].slip \in Nat
  <2> TAKE j \in 1 .. Len(l)
  <2> DEFINE A == l[j].left
             B == l[j].slip
  <2>1. A \in Int /\ B \in Nat
    BY <1>1, Zenon
  <2>2. Due(r, j + 1) = A + (B + s) /\ Due(l, j) = A + B /\ r[j + 1].slip = B + s
    BY <1>10, Zenon DEF Due
  <2> HIDE DEF A, B
  <2> QED
    BY <2>1, <2>2
<1>12. ASSUME NEW j \in 1 .. Len(r) PROVE r[j].time \in 0 .. Wrap - 1 /\ r[j].slip \in Nat
  <2>1. CASE j = 1
    BY <1>5, <1>9, <2>1, SMTT(30)
  <2>2. CASE j # 1
    <3> DEFINE i == j - 1
    <3>1. i \in 1 .. Len(l) /\ i + 1 = j
      BY <1>1, <1>9, <2>2
    <3> HIDE DEF i
    <3>2. r[i + 1].slip \in Nat
      BY <1>11, <3>1, Zenon
    <3>3. CASE i # 1
      BY <1>1, <1>10, <3>1, <3>2, <3>3, Zenon
    <3>4. CASE i = 1
      <4>1. r[i + 1].time = l[1].time - m
        BY <1>10, <3>1, <3>4, Zenon
      <4>2. l[1].time - m \in 0 .. Wrap - 1
        BY <1>1, WrapAssumption, SMTT(30)
      <4> QED
        BY <3>1, <3>2, <4>1, <4>2
    <3> QED
      BY <3>3, <3>4, SMTT(30)
  <2> QED
    BY <2>1, <2>2
<1>13. s <= r[1].time /\ Due(r, 1) = r[1].time - s
  <2>1. Due(r, 1) = e.left + e.slip /\ r[1].time = e.time
    BY <1>9, Zenon DEF Due
  <2> QED
    BY <1>1, <1>5, <2>1
<1>14. ASSUME NEW j \in 1 .. Len(r) - 1 PROVE Due(r, j + 1) = Due(r, j) + r[j + 1].time
  <2>1. j \in 1 .. Len(l)
    BY <1>1, <1>9
  <2>2. CASE j = 1
    <3>1. /\ Due(r, 1 + 1) = Due(l, 1) + s /\ r[1 + 1].time = l[1].time - m
      BY <1>1, <1>10, <1>11, Zenon
    <3>2. Due(r, 1) = m
      BY <1>1, <1>5, <1>9, <1>13, SMTT(30)
    <3>3. l[1].time \in Nat
      BY <1>1
    <3> DEFINE A == l[1].time
    <3>4. Due(l, 1) = A - s /\ A \in Nat
      BY <1>2, <3>3, SMTT(30)
    <3>5. r[1 + 1].time = A - m
      BY <3>1, SMTT(30)
    <3> HIDE DEF A
    <3>6. Due(r, 1 + 1) = Due(r, 1) + r[1 + 1].time
      BY <1>1, <3>1, <3>2, <3>4, <3>5, SMTT(30)
    <3> QED
      BY <2>2, <3>6, Zenon
  <2>3. CASE j # 1
    <3> DEFINE i == j - 1
    <3>1. i \in 1 .. Len(l) /\ i \in 1 .. Len(l) - 1 /\ i + 1 = j
      BY <1>1, <1>9, <2>1, <2>3, SMTT(30)
    <3> HIDE DEF i
    <3>2. Due(l, i + 1) = Due(l, i) + l[i + 1].time
      BY <3>1, Zenon DEF Exact
    <3>3. /\ Due(r, j + 1) = Due(l, j) + s /\ r[j + 1].time = l[j].time
          /\ Due(r, i + 1) = Due(l, i) + s
      BY <1>10, <1>11, <2>1, <2>3, <3>1, Zenon
    <3>4. Due(l, i) \in Int /\ l[j].time \in Nat
      BY <1>1, <2>1, <3>1, Zenon
    <3> DEFINE A == Due(l, i)
               B == l[j].time
    <3>5. Due(r, j + 1) = (A + B) + s /\ Due(r, j) = A + s /\ r[j + 1].time = B
      BY <3>1, <3>2, <3>3, Zenon
    <3>6. A \in Int /\ B \in Nat
      BY <3>4, SMTT(30)
    <3> HIDE DEF A, B
    <3>7. (A + B) + s = (A + s) + B
      BY <3>6
    <3> QED
      BY <3>5, <3>7, Zenon
  <2> QED
    BY <2>2, <2>3, SMTT(30)
<1>15. Exact(r, s)
  BY <1>12, <1>13, <1>14, Zenon DEF Exact
<1> QED
  BY <1>15, SMTT(30) DEF r

(* Without an entry, whose time the one after it takes over.               *)
LEMMA RemoveExact ==
    ASSUME NEW l \in Seq(Entry), NEW q \in Seq(Entry), Len(q) = Len(l),
           NEW s \in Int, Exact(l, s), NEW p \in 1 .. Len(l), NEW r, IsRemove(r, q, p),
           \A x \in 1 .. Len(l) : /\ q[x].left = l[x].left /\ q[x].slip = l[x].slip
                                  /\ x # p + 1 => q[x].time = l[x].time,
           p < Len(l) => /\ q[p + 1].time = l[p + 1].time + l[p].time
                         /\ l[p + 1].time + l[p].time < Wrap
    PROVE  Exact(r, s)
<1>1. /\ Len(l) \in Nat
      /\ \A j \in 1 .. Len(l) : /\ Due(l, j) \in Int /\ l[j].slip \in Nat
                                /\ l[j].time \in 0 .. Wrap - 1 /\ l[j].time \in Nat
  BY ListFacts, SMTT(30)
<1>2. r \in Seq(Entry) /\ Len(r) = Len(l) - 1
  BY DEF IsRemove
<1>3. \A j \in 1 .. p - 1 : /\ Due(r, j) = Due(l, j) /\ r[j].time = l[j].time
                            /\ r[j].slip = l[j].slip
  <2> TAKE j \in 1 .. p - 1
  <2>1. j \in 1 .. Len(l) /\ j # p + 1
    BY <1>1
  <2>2. r[j] = q[j]
    BY Zenon DEF IsRemove
  <2> QED
    BY <2>1, <2>2, Zenon DEF Due
<1>4. \A j \in p .. Len(r) :
         /\ j + 1 \in 1 .. Len(l) /\ Due(r, j) = Due(l, j + 1) /\ r[j].slip = l[j + 1].slip
         /\ j # p => r[j].time = l[j + 1].time
         /\ j = p => r[j].time = l[p + 1].time + l[p].time /\ p < Len(l)
  <2> TAKE j \in p .. Len(r)
  <2>1. j + 1 \in 1 .. Len(l) /\ p < Len(l) /\ (j # p => j + 1 # p + 1) /\ j \in p .. Len(l) - 1
    BY <1>1, <1>2, SMTT(30)
  <2>2. r[j] = q[j + 1]
    <3>1. \A i \in p .. Len(q) - 1 : r[i] = q[i + 1]
      BY Zenon DEF IsRemove
    <3> QED
      BY <2>1, <3>1
  <2>3. j = p => r[j] = q[p + 1]
    BY <2>2, SMTT(30)
  <2> QED
    BY <2>1, <2>2, <2>3, Zenon DEF Due
<1>5. ASSUME NEW j \in 1 .. Len(r) PROVE r[j].time \in 0 .. Wrap - 1 /\ r[j].slip \in Nat
  <2>1. CASE j < p
    <3>1. j \in 1 .. p - 1 /\ j \in 1 .. Len(l)
      BY <1>1, <1>2, <2>1, SMTT(30)
    <3> QED
      BY <1>1, <1>3, <3>1, Zenon
  <2>2. CASE j = p
    <3>1. j \in p .. Len(r) /\ p \in 1 .. Len(l)
      BY <1>1, <1>2, <2>2
    <3>2. p + 1 \in 1 .. Len(l) /\ p < Len(l) /\ r[j].time = l[p + 1].time + l[p].time
          /\ r[j].slip = l[p + 1].slip
      BY <1>4, <2>2, <3>1, Zenon
    <3>3. l[p + 1].time \in Nat /\ l[p].time \in Nat /\ l[p + 1].slip \in Nat
          /\ l[p + 1].time + l[p].time < Wrap
      BY <1>1, <3>1, <3>2, Zenon
    <3> DEFINE A == l[p + 1].time
               B == l[p].time
    <3>4. A \in Nat /\ B \in Nat /\ A + B < Wrap
      BY <3>3, SMTT(30)
    <3>5. r[j].time = A + B /\ r[j].slip \in Nat
      BY <3>2, <3>3, SMTT(30)
    <3> HIDE DEF A, B
    <3>6. A + B \in 0 .. Wrap - 1
      BY <3>4, WrapAssumption, SMTT(30)
    <3> QED
      BY <3>5, <3>6, SMTT(30)
  <2>3. CASE j > p
    <3>1. j \in p .. Len(r) /\ j # p
      BY <1>1, <1>2, <2>3, SMTT(30)
    <3> QED
      BY <1>1, <1>4, <3>1, Zenon
  <2> QED
    BY <1>1, <1>2, <2>1, <2>2, <2>3, SMTT(30)
<1>6. ASSUME r # <<>> PROVE s <= r[1].time /\ Due(r, 1) = r[1].time - s
  <2>1. Len(r) >= 1 /\ l # <<>>
    BY <1>1, <1>2, <1>6
  <2>2. s <= l[1].time /\ Due(l, 1) = l[1].time - s
    BY <2>1, Zenon DEF Exact
  <2>3. CASE p # 1
    <3>1. 1 \in 1 .. p - 1
      BY <1>1, <2>3, SMTT(30)
    <3> QED
      BY <1>3, <2>2, <3>1, SMTT(30)
  <2>4. CASE p = 1
    <3>1. 1 \in p .. Len(r) /\ 1 \in 1 .. Len(l) /\ 1 \in 1 .. Len(l) - 1
      BY <1>1, <1>2, <2>1, <2>4
    <3>2. /\ 1 + 1 \in 1 .. Len(l) /\ Due(r, 1) = Due(l, 1 + 1)
          /\ r[1].time = l[1 + 1].time + l[1].time
      BY <1>4, <2>4, <3>1, Zenon
    <3>3. Due(l, 1 + 1) = Due(l, 1) + l[1 + 1].time
      BY <3>1, Zenon DEF Exact
    <3> DEFINE A == l[1].time
               B == l[1 + 1].time
    <3>4. A \in Nat /\ B \in Nat
      BY <1>1, <3>1, <3>2, Zenon
    <3>5. s <= A /\ Due(r, 1) = (A - s) + B /\ r[1].time = B + A
      BY <2>2, <3>2, <3>3, Zenon
    <3> HIDE DEF A, B
    <3> QED
      BY <3>4, <3>5, SMTT(30)
  <2> QED
    BY <2>3, <2>4, SMTT(30)
<1>7. ASSUME NEW j \in 1 .. Len(r) - 1 PROVE Due(r, j + 1) = Due(r, j) + r[j + 1].time
  <2>1. CASE j + 1 < p
    <3>1. j \in 1 .. p - 1 /\ j + 1 \in 1 .. p - 1 /\ j \in 1 .. Len(l) - 1
      BY <1>1, <1>2, <2>1
    <3>2. Due(l, j + 1) = Due(l, j) + l[j + 1].time
      BY <3>1, Zenon DEF Exact
    <3> QED
      BY <1>3, <3>1, <3>2, Zenon
  <2>2. CASE j + 1 = p
    <3>1. j \in 1 .. p - 1 /\ p \in p .. Len(r) /\ j \in 1 .. Len(l) - 1 /\ j \in 1 .. Len(l)
          /\ p \in 1 .. Len(l) - 1 /\ p \in 1 .. Len(l)
      BY <1>1, <1>2, <2>2
    <3>2. Due(l, p + 1) = Due(l, p) + l[p + 1].time
      BY <3>1, Zenon DEF Exact
    <3>3. Due(l, p) = Due(l, j) + l[p].time
      BY <2>2, <3>1, Zenon DEF Exact
    <3>4. /\ p + 1 \in 1 .. Len(l) /\ Due(r, p) = Due(l, p + 1)
          /\ r[p].time = l[p + 1].time + l[p].time /\ Due(r, j) = Due(l, j)
      BY <1>3, <1>4, <3>1, Zenon
    <3> DEFINE A == Due(l, j)
               B == l[p].time
               C == l[p + 1].time
    <3>5. A \in Int /\ B \in Nat /\ C \in Nat
      BY <1>1, <3>1, <3>4, Zenon
    <3>6. Due(r, p) = (A + B) + C /\ Due(r, j) = A /\ r[p].time = C + B
      BY <3>2, <3>3, <3>4, Zenon
    <3> HIDE DEF A, B, C
    <3>7. Due(r, p) = Due(r, j) + r[p].time
      BY <3>5, <3>6
    <3> QED
      BY <2>2, <3>7, Zenon
  <2>3. CASE j + 1 > p
    <3> DEFINE i == j + 1
    <3>1. j \in p .. Len(r) /\ i \in p .. Len(r) /\ i \in 1 .. Len(l) - 1 /\ i # p
      BY <1>1, <1>2, <2>3
    <3>2. Due(r, j) = Due(l, i)
      BY <1>4, <3>1, Zenon
    <3> HIDE DEF i
    <3>3. Due(l, i + 1) = Due(l, i) + l[i + 1].time
      BY <3>1, Zenon DEF Exact
    <3>4. Due(r, i) = Due(l, i + 1) /\ r[i].time = l[i + 1].time
      BY <1>4, <3>1, Zenon
    <3> QED
      BY <3>2, <3>3, <3>4, Zenon DEF i
  <2> QED
    BY <1>1, <1>2, <2>1, <2>2, <2>3, SMTT(30)
<1> QED
  BY <1>5, <1>6, <1>7, Zenon DEF Exact

LEMMA CutExact ==
    ASSUME NEW l \in Seq(Entry), NEW s \in Int, Exact(l, s), NEW r, NEW p, Cut(r, l, p),
           \A j \in 1 .. Len(l) - 1 : l[j].time + l[j + 1].time < Wrap
    PROVE  Exact(r, s)
<1>1. p \in 1 .. Len(l) /\ Len(l) \in Nat
  BY EntryFields, SMTT(30) DEF Cut
<1>2. CASE p = Len(l) /\ IsRemove(r, l, p)
  <2>1. ~(p < Len(l))
    BY <1>1, <1>2, SMTT(30)
  <2> QED
    BY <1>1, <1>2, <2>1, RemoveExact
<1>3. ASSUME NEW q, p < Len(l), IsRemove(r, q, p),
             IsTimed(q, l, p + 1, (l[p + 1].time + l[p].time) % Wrap)
      PROVE  Exact(r, s)
  <2> DEFINE t == l[p + 1].time + l[p].time
             k == p + 1
  <2>1. p \in 1 .. Len(l) - 1 /\ p + 1 \in 1 .. Len(l)
    BY <1>1, <1>3
  <2>2. l[p].time \in Nat /\ l[p + 1].time \in Nat
    BY <1>1, <2>1, ListFacts
  <2>3. t < Wrap
    BY <2>1, <2>2
  <2>4. t % Wrap = t
    BY <2>2, <2>3, NewTime, SMTT(30)
  <2>5. IsTimed(q, l, k, t)
    BY <1>3, <2>4, Zenon
  <2>6. k \in 1 .. Len(l)
    BY <2>1
  <2> HIDE DEF t, k
  <2>7. /\ q \in Seq(Entry) /\ Len(q) = Len(l) /\ q[k].time = t
        /\ \A x \in 1 .. Len(l) : /\ q[x].left = l[x].left /\ q[x].slip = l[x].slip
                                  /\ x # k => q[x].time = l[x].time
    BY <2>5, <2>6 DEF IsTimed
  <2>8. /\ q[p + 1].time = l[p + 1].time + l[p].time /\ l[p + 1].time + l[p].time < Wrap
        /\ \A x \in 1 .. Len(l) : /\ q[x].left = l[x].left /\ q[x].slip = l[x].slip
                                  /\ x # p + 1 => q[x].time = l[x].time
    BY <2>3, <2>7, Zenon DEF k, t
  <2> QED
    BY <1>1, <1>3, <2>7, <2>8, RemoveExact, SMTT(30)
<1> QED
  BY <1>2, <1>3, Zenon DEF Cut

(* The first one expires.                                                  *)
LEMMA TailExact ==
    ASSUME NEW l \in Seq(Entry), l # <<>>, Exact(l, l[1].time)
    PROVE  Exact(Tail(l), 0)
<1> DEFINE r == Tail(l)
           s == l[1].time
<1>1. 1 \in 1 .. Len(l) /\ IsRemove(r, l, 1)
  BY TailIs
<1>2. s \in Int
  BY <1>1, EntryFields
<1>3. /\ Len(l) \in Nat
      /\ \A j \in 1 .. Len(l) : /\ Due(l, j) \in Int /\ l[j].slip \in Nat
                                /\ l[j].time \in 0 .. Wrap - 1 /\ l[j].time \in Nat
  BY <1>2, ListFacts
<1>4. Due(l, 1) = 0
  <2>1. Due(l, 1) = s - s
    BY Zenon DEF Exact
  <2> HIDE DEF s
  <2> QED
    BY <1>2, <2>1
<1>5. \A j \in 1 .. Len(l) - 1 : Due(l, j + 1) = Due(l, j) + l[j + 1].time
  BY Zenon DEF Exact
<1> HIDE DEF r
<1>6. Len(r) = Len(l) - 1 /\ \A j \in 1 .. Len(r) : j + 1 \in 1 .. Len(l) /\ r[j] = l[j + 1]
  <2>1. Len(r) = Len(l) - 1 /\ \A j \in 1 .. Len(l) - 1 : r[j] = l[j + 1]
    BY <1>1, Zenon DEF IsRemove
  <2> QED
    BY <1>3, <2>1
<1>7. \A j \in 1 .. Len(r) : /\ r[j].time = l[j + 1].time /\ r[j].slip = l[j + 1].slip
                             /\ Due(r, j) = Due(l, j + 1)
  BY <1>6, Zenon DEF Due
<1>8. \A j \in 1 .. Len(r) : r[j].time \in 0 .. Wrap - 1 /\ r[j].slip \in Nat
  BY <1>3, <1>6, <1>7, Zenon
<1>9. r # <<>> => 0 <= r[1].time /\ Due(r, 1) = r[1].time - 0
  <2> HAVE r # <<>>
  <2>1. 1 \in 1 .. Len(r) /\ 1 \in 1 .. Len(l) - 1
    <3>1. r \in Seq(Entry)
      BY <1>1 DEF IsRemove
    <3> QED
      BY <1>3, <1>6, <3>1
  <2>2. Due(r, 1) = 0 + l[1 + 1].time /\ r[1].time = l[1 + 1].time /\ l[1 + 1].time \in Nat
    BY <1>3, <1>4, <1>5, <1>6, <1>7, <2>1, Zenon
  <2> DEFINE A == l[1 + 1].time
  <2>3. Due(r, 1) = 0 + A /\ r[1].time = A /\ A \in Nat
    BY <2>2
  <2> HIDE DEF A
  <2> QED
    BY <2>3
<1>10. ASSUME NEW j \in 1 .. Len(r) - 1 PROVE Due(r, j + 1) = Due(r, j) + r[j + 1].time
  <2> DEFINE i == j + 1
  <2>1. j \in 1 .. Len(r) /\ i \in 1 .. Len(r) /\ i \in 1 .. Len(l) - 1
    BY <1>3, <1>6
  <2>2. Due(r, j) = Due(l, i)
    BY <1>7, <2>1, Zenon
  <2> HIDE DEF i
  <2>3. Due(l, i + 1) = Due(l, i) + l[i + 1].time /\ Due(r, i) = Due(l, i + 1)
        /\ r[i].time = l[i + 1].time
    BY <1>5, <1>7, <2>1, Zenon
  <2> QED
    BY <2>2, <2>3, Zenon DEF i
<1>11. Exact(r, 0)
  BY <1>8, <1>9, <1>10, Zenon DEF Exact
<1> QED
  BY <1>11 DEF r

(* All entries come nearer, or are put off, by the same.                   *)
LEMMA ShiftExact ==
    ASSUME NEW l \in Seq(Entry), NEW r \in Seq(Entry), Len(r) = Len(l),
           NEW s \in Int, NEW t \in Int, Exact(l, s),
           \A j \in 1 .. Len(l) : r[j].time = l[j].time /\ r[j].slip \in Nat
                                  /\ Due(r, j) = Due(l, j) + (s - t),
           l # <<>> => t <= l[1].time
    PROVE  Exact(r, t)
<1>1. /\ Len(l) \in Nat
      /\ \A j \in 1 .. Len(l) : /\ Due(l, j) \in Int
                                /\ l[j].time \in 0 .. Wrap - 1 /\ l[j].time \in Nat
  BY ListFacts, SMTT(30)
<1>2. \A j \in 1 .. Len(r) : r[j].time \in 0 .. Wrap - 1 /\ r[j].slip \in Nat
  BY <1>1, Zenon
<1>3. ASSUME r # <<>> PROVE t <= r[1].time /\ Due(r, 1) = r[1].time - t
  <2>1. 1 \in 1 .. Len(l) /\ l # <<>>
    BY <1>1, <1>3
  <2>2. Due(l, 1) = l[1].time - s /\ r[1].time = l[1].time /\ t <= l[1].time
        /\ Due(r, 1) = Due(l, 1) + (s - t) /\ l[1].time \in Nat
    BY <1>1, <2>1, Zenon DEF Exact
  <2> DEFINE A == l[1].time
  <2>3. Due(r, 1) = (A - s) + (s - t) /\ r[1].time = A /\ A \in Nat /\ t <= A
    BY <2>2, Zenon
  <2> HIDE DEF A
  <2> QED
    BY <2>3
<1>4. ASSUME NEW j \in 1 .. Len(r) - 1 PROVE Due(r, j + 1) = Due(r, j) + r[j + 1].time
  <2>1. j \in 1 .. Len(l) /\ j + 1 \in 1 .. Len(l) /\ j \in 1 .. Len(l) - 1
    BY <1>1
  <2>2. Due(l, j + 1) = Due(l, j) + l[j + 1].time /\ r[j + 1].time = l[j + 1].time
        /\ Due(r, j + 1) = Due(l, j + 1) + (s - t) /\ Due(r, j) = Due(l, j) + (s - t)
        /\ Due(l, j) \in Int /\ l[j + 1].time \in Nat
    BY <1>1, <2>1, Zenon DEF Exact
  <2> DEFINE A == Due(l, j)
             B == l[j + 1].time
  <2>3. Due(r, j + 1) = (A + B) + (s - t) /\ Due(r, j) = A + (s - t) /\ r[j + 1].time = B
        /\ A \in Int /\ B \in Nat
    BY <2>2, Zenon
  <2> HIDE DEF A, B
  <2> QED
    BY <2>3
<1> QED
  BY <1>2, <1>3, <1>4, Zenon DEF Exact

LEMMA TickExact ==
    ASSUME NEW l \in Seq(Entry), NEW s \in Int, Exact(l, s), NEW late, ~late,
           l # <<>> => s < l[1].time
    PROVE  Exact(Ticked(l, late), s + 1)
<1> DEFINE r == Ticked(l, late)
           t == s + 1
<1>1. /\ Len(l) \in Nat
      /\ \A j \in 1 .. Len(l) : l[j].left \in Int /\ l[j].slip \in Nat /\ l[j].time \in Nat
  BY ListFacts
<1>2. /\ r \in Seq(Entry) /\ Len(r) = Len(l)
      /\ \A j \in 1 .. Len(l) : /\ r[j].time = l[j].time
                                /\ r[j].left = l[j].left - 1 /\ r[j].slip = l[j].slip
  BY TickedIs, Zenon DEF Same
<1> HIDE DEF r
<1>3. t \in Int /\ s - t = -1
  OBVIOUS
<1>4. l # <<>> => t <= l[1].time
  <2> HAVE l # <<>>
  <2>1. l[1].time \in Nat
    BY <1>1
  <2> QED
    BY <2>1
<1>5. ASSUME NEW j \in 1 .. Len(l)
      PROVE  r[j].time = l[j].time /\ r[j].slip \in Nat /\ Due(r, j) = Due(l, j) + (s - t)
  <2> DEFINE A == l[j].left
             B == l[j].slip
  <2>1. A \in Int /\ B \in Nat /\ Due(l, j) = A + B /\ Due(r, j) = (A - 1) + B
        /\ r[j].time = l[j].time /\ r[j].slip = B
    BY <1>1, <1>2, Zenon DEF Due
  <2> HIDE DEF A, B, t
  <2> QED
    BY <1>3, <2>1
<1> HIDE DEF t
<1>6. Exact(r, t)
  BY <1>2, <1>3, <1>4, <1>5, ShiftExact
<1> QED
  BY <1>6 DEF r, t

LEMMA SlipExact ==
    ASSUME NEW l \in Seq(Entry), NEW s \in Nat, Exact(l, s)
    PROVE  Exact(Slipped(l, s), 0)
<1> DEFINE r == Slipped(l, s)
<1>1. /\ Len(l) \in Nat
      /\ \A j \in 1 .. Len(l) : l[j].left \in Int /\ l[j].slip \in Nat /\ l[j].time \in Nat
  BY ListFacts
<1>2. /\ r \in Seq(Entry) /\ Len(r) = Len(l)
      /\ \A j \in 1 .. Len(l) : /\ r[j].time = l[j].time
                                /\ r[j].left = l[j].left /\ r[j].slip = l[j].slip + s
  BY SlippedIs DEF IsSlipped
<1> HIDE DEF r
<1>3. l # <<>> => 0 <= l[1].time
  BY <1>1
<1>4. ASSUME NEW j \in 1 .. Len(l)
      PROVE  r[j].time = l[j].time /\ r[j].slip \in Nat /\ Due(r, j) = Due(l, j) + (s - 0)
  <2> DEFINE A == l[j].left
             B == l[j].slip
  <2>1. A \in Int /\ B \in Nat /\ Due(l, j) = A + B /\ Due(r, j) = A + (B + s)
        /\ r[j].time = l[j].time /\ r[j].slip = B + s
    BY <1>1, <1>2, Zenon DEF Due
  <2> HIDE DEF A, B
  <2> QED
    BY <2>1
<1>5. Exact(r, 0)
  <2>1. 0 \in Int /\ s \in Int
    OBVIOUS
  <2> QED
    BY <1>2, <1>3, <1>4, <2>1, ShiftExact
<1> QED
  BY <1>5 DEF r

LEMMA EmptyExact ==
    ASSUME NEW l, l = <<>>, NEW s
    PROVE  Exact(l, s)
<1>1. Len(l) = 0
  OBVIOUS
<1> QED
  BY <1>1 DEF Exact

LEMMA FirstExact ==
    ASSUME NEW m \in 0 .. Wrap - 1, NEW h \in Handlers
    PROVE  Exact(Inserted(<<>>, m, 0, h), 0)
<1> DEFINE r == Inserted(<<>>, m, 0, h)
           e == NewEntry(m, 0, h)
<1>1. m \in Int /\ m \in Nat /\ m + 0 = m /\ 0 \in Int
  BY WrapAssumption
<1>2. m % Wrap = m
  BY ModSmall
<1>3. e.time = m /\ e.left = m /\ e.slip = 0
  BY <1>1, <1>2, NewEntryIs
<1>4. r = <<e>>
  BY DEF Inserted, NewEntry
<1> HIDE DEF r, e
<1>5. Len(r) = 1 /\ r[1] = e /\ r # <<>>
  BY <1>4
<1>6. Due(r, 1) = m + 0 /\ r[1].time = m /\ r[1].slip = 0
  BY <1>3, <1>5, Zenon DEF Due
<1>7. Exact(r, 0)
  BY <1>1, <1>5, <1>6 DEF Exact
<1> QED
  BY <1>7 DEF r

-----------------------------------------------------------------------------
(* While the loop runs on time.  diff is what is left of the milliseconds  *)
(* since timeouts_last_time; a call for the first entry uses it up, so     *)
(* that a handler runs with no rest.                                       *)

Passed == (now - timeouts_last_time) % Wrap

OnTime ==
    lag = 0 => /\ Exact(next_timeout, Since(next_timeout, timeouts_last_time, now))
               /\ diff \in 0 .. Since(next_timeout, timeouts_last_time, now)
               /\ running # "loop" => diff = 0

LEMMA SinceIs ==
    /\ next_timeout # <<>> => Since(next_timeout, timeouts_last_time, now) = Passed
    /\ next_timeout = <<>> => Since(next_timeout, timeouts_last_time, now) = 0
  BY Zenon DEF Since, Passed

LEMMA SinceIsNext ==
    /\ next_timeout' # <<>> => Since(next_timeout', timeouts_last_time', now') = Passed'
    /\ next_timeout' = <<>> => Since(next_timeout', timeouts_last_time', now') = 0
  BY Zenon DEF Since, Passed

(* It is enough to look at the difference of the times.                    *)
LEMMA OnTimeNext ==
    ASSUME Types', Exact(next_timeout', Passed'), diff' = 0
    PROVE  OnTime'
<1> DEFINE s == Since(next_timeout', timeouts_last_time', now')
<1>1. s \in 0 .. Wrap - 1
  <2>1. now' - timeouts_last_time' \in Int
    BY WrapAssumption DEF Types
  <2>2. (now' - timeouts_last_time') % Wrap \in 0 .. Wrap - 1
    BY <2>1, ModRange
  <2> QED
    BY <2>2, WrapAssumption DEF Since
<1>2. Exact(next_timeout', s)
  <2>1. CASE next_timeout' = <<>>
    BY <2>1, EmptyExact
  <2>2. CASE next_timeout' # <<>>
    BY <2>2, SinceIsNext
  <2> QED
    BY <2>1, <2>2
<1>3. diff' \in 0 .. s
  <2> HIDE DEF s
  <2> QED
    BY <1>1, WrapAssumption
<1> QED
  BY <1>2, <1>3, Zenon DEF OnTime

LEMMA ExactPassed ==
    ASSUME Types, Exact(next_timeout, Since(next_timeout, timeouts_last_time, now))
    PROVE  Exact(next_timeout, Passed) /\ Passed \in Int /\ Passed \in Nat /\ Passed \in 0 .. Wrap - 1
<1>1. now - timeouts_last_time \in Int
  BY WrapAssumption DEF Types
<1>2. Passed \in 0 .. Wrap - 1 /\ Passed \in Int
  BY <1>1, ModRange, Zenon DEF Passed
<1>3. Passed \in Nat
  BY <1>2, WrapAssumption
<1>4. CASE next_timeout = <<>>
  BY <1>2, <1>3, <1>4, EmptyExact, Zenon
<1>5. CASE next_timeout # <<>>
  BY <1>2, <1>3, <1>5, SinceIs, Zenon
<1> QED
  BY <1>4, <1>5

LEMMA NearIs ==
    ASSUME Types, Near, lag = 0
    PROVE  /\ next_timeout # <<>> => \A m \in Times : next_timeout[1].time + m < Wrap
           /\ \A j \in 1 .. Len(next_timeout) - 1 :
                 next_timeout[j].time + next_timeout[j + 1].time < Wrap
<1>1. next_timeout \in Seq(Entry) /\ Len(next_timeout) \in Nat
      /\ DOMAIN next_timeout = 1 .. Len(next_timeout)
  BY EntryFields DEF Types
<1>2. \A i \in DOMAIN next_timeout :
         IF i = 1 THEN \A m \in Times : next_timeout[1].time + m < Wrap
         ELSE next_timeout[i - 1].time + next_timeout[i].time < Wrap
  BY Zenon DEF Near
<1>3. next_timeout # <<>> => \A m \in Times : next_timeout[1].time + m < Wrap
  <2> HAVE next_timeout # <<>>
  <2>1. 1 \in DOMAIN next_timeout
    BY <1>1
  <2> QED
    BY <1>2, <2>1, Zenon
<1>4. ASSUME NEW j \in 1 .. Len(next_timeout) - 1
      PROVE  next_timeout[j].time + next_timeout[j + 1].time < Wrap
  <2> DEFINE i == j + 1
  <2>1. i \in DOMAIN next_timeout /\ i # 1 /\ i - 1 = j
    BY <1>1
  <2>2. next_timeout[i - 1].time + next_timeout[i].time < Wrap
    <3> HIDE DEF i
    <3> QED
      BY <1>2, <2>1, Zenon
  <2> QED
    BY <2>1, <2>2, Zenon
<1> QED
  BY <1>3, <1>4

LEMMA NoTimePasses ==
    ASSUME Types PROVE (now - now) % Wrap = 0
<1>1. now - now = 0
  BY WrapAssumption DEF Types
<1>2. 0 \in 0 .. Wrap - 1
  BY WrapAssumption
<1> QED
  BY <1>1, <1>2, ModSmall

LEMMA SysTimeoutExact ==
    ASSUME Types, Near, lag = 0,
           Exact(next_timeout, Since(next_timeout, timeouts_last_time, now)),
           NEW m \in Times, NEW h \in Handlers, sys_timeout(m, h), now' = now
    PROVE  Exact(next_timeout', Passed')
<1> DEFINE s == Since(next_timeout, timeouts_last_time, now)
<1>1. next_timeout \in Seq(Entry) /\ m \in 0 .. Wrap - 1 /\ m \in Int
  BY TimesInt DEF Types
<1>2. CASE UNCHANGED <<next_timeout, timeouts_last_time>>
  <2>1. Passed' = Passed
    BY <1>2, Zenon DEF Passed
  <2> QED
    BY <1>2, <2>1, ExactPassed, Zenon
<1>3. CASE /\ next_timeout' = Inserted(next_timeout, m, s, h)
           /\ timeouts_last_time' = IF next_timeout = <<>> THEN now ELSE timeouts_last_time
  <2>1. CASE next_timeout = <<>>
    <3>1. s = 0 /\ timeouts_last_time' = now
      BY <1>3, <2>1, SinceIs, Zenon
    <3>2. next_timeout' = Inserted(<<>>, m, 0, h)
      BY <1>3, <2>1, <3>1, Zenon
    <3>3. Passed' = 0
      BY <3>1, NoTimePasses DEF Passed
    <3>4. Exact(Inserted(<<>>, m, 0, h), 0)
      BY <1>1, FirstExact, Zenon
    <3> QED
      BY <3>2, <3>3, <3>4, Zenon
  <2>2. CASE next_timeout # <<>>
    <3>1. timeouts_last_time' = timeouts_last_time /\ s = Passed /\ s \in Nat /\ s \in Int
      BY <1>3, <2>2, SinceIs, ExactPassed, Zenon
    <3>2. Passed' = s
      BY <3>1, Zenon DEF Passed
    <3>3. Exact(next_timeout, s)
      OBVIOUS
    <3> HIDE DEF s
    <3>4. CASE next_timeout[1].time > m
      <4>1. next_timeout[1].time + m < Wrap
        BY <2>2, NearIs
      <4>2. Exact(Inserted(next_timeout, m, s, h), s)
        BY <1>1, <2>2, <3>1, <3>3, <3>4, <4>1, FrontExact
      <4> QED
        BY <1>3, <3>2, <4>2, Zenon
    <3>5. CASE ~(next_timeout[1].time > m)
      <4> DEFINE e == NewEntry(m, s, h)
      <4>1. Inserted(next_timeout, m, s, h) = Place(next_timeout, m, s, e)
        BY <2>2, <3>5, InsertedCases, ZenonT(30)
      <4>2. e \in Entry /\ e.left = m /\ e.slip = 0
        BY <1>1, <3>1, NewEntryIs
      <4> HIDE DEF e
      <4>3. Exact(Place(next_timeout, m, s, e), s)
        BY <1>1, <2>2, <3>1, <3>3, <3>5, <4>2, PlaceExact
      <4> QED
        BY <1>3, <3>2, <4>1, <4>3, Zenon
    <3> QED
      BY <3>4, <3>5
  <2> QED
    BY <2>1, <2>2
<1> QED
  BY <1>2, <1>3, Zenon DEF sys_timeout

LEMMA InitOnTime == Init => OnTime /\ NeverEarly
<1> SUFFICES ASSUME Init PROVE OnTime /\ NeverEarly
  OBVIOUS
<1>1. Types
  BY InitTypes
<1>2. /\ next_timeout = Inserted(<<>>, Interval, 0, "cyclic_timer")
      /\ timeouts_last_time = now /\ diff = 0 /\ early = FALSE
  BY Zenon DEF Init
<1>3. Interval \in 0 .. Wrap - 1 /\ "cyclic_timer" \in Handlers
  BY TimesInt, Names
<1>4. Exact(Inserted(<<>>, Interval, 0, "cyclic_timer"), 0)
  BY <1>3, FirstExact, Zenon
<1>5. Passed = 0
  BY <1>1, <1>2, NoTimePasses DEF Passed
<1>6. Since(next_timeout, timeouts_last_time, now) = 0
  BY <1>5, SinceIs, Zenon
<1>7. diff \in 0 .. 0
  BY <1>2
<1> QED
  BY <1>2, <1>4, <1>6, <1>7, Zenon DEF OnTime, NeverEarly

(* A millisecond passes before the first entry expires.                    *)
LEMMA TickOnTime ==
    ASSUME Types, OnTime, Tick, Types'
    PROVE  OnTime'
<1> SUFFICES ASSUME lag' = 0 PROVE OnTime'
  BY Zenon DEF OnTime
<1> DEFINE over == sys_timeouts_sleeptime(next_timeout, timeouts_last_time, now) = 0
<1>1. /\ running # "loop" /\ now' = (now + 1) % Wrap
      /\ lag' = lag + (IF over THEN 1 ELSE 0) /\ diff' = diff
      /\ timeouts_last_time' = timeouts_last_time
      /\ next_timeout' = Ticked(next_timeout, lag' > 0)
  BY Zenon DEF Tick, Ticked
<1>2. lag = 0 /\ ~over /\ ~(lag' > 0)
  <2> HIDE DEF over
  <2>1. lag \in Nat
    BY DEF Types
  <2>2. lag' = lag + 0 \/ lag' = lag + 1
    BY <1>1, Zenon
  <2>3. over => lag' = lag + 1
    BY <1>1, Zenon
  <2> QED
    BY <2>1, <2>2, <2>3
<1>3. /\ Exact(next_timeout, Since(next_timeout, timeouts_last_time, now)) /\ diff = 0
  BY <1>1, <1>2, Zenon DEF OnTime
<1>4. /\ next_timeout \in Seq(Entry)
      /\ Exact(next_timeout, Passed) /\ Passed \in Int /\ Passed \in Nat
  BY <1>3, ExactPassed DEF Types
<1>5. CASE next_timeout = <<>>
  <2>1. Same(next_timeout', next_timeout)
    BY <1>1, <1>4, TickedIs
  <2>2. next_timeout' = <<>>
    BY <1>5, <2>1 DEF Same
  <2>3. Exact(next_timeout', Passed')
    BY <2>2, EmptyExact, SMTT(30)
  <2> QED
    BY <1>1, <1>3, <2>3, OnTimeNext, SMTT(30)
<1>6. CASE next_timeout # <<>>
  <2> DEFINE t == next_timeout[1].time
  <2>1. 1 \in 1 .. Len(next_timeout)
    BY <1>4, <1>6, EntryFields, SMTT(30)
  <2>2. t \in 0 .. Wrap - 1 /\ t \in Nat
    BY <1>4, <2>1, ListFacts
  <2>3. Passed <= t
    BY <1>4, <1>6, Zenon DEF Exact
  <2>4. sys_timeouts_sleeptime(next_timeout, timeouts_last_time, now)
          = IF Passed > t THEN 0 ELSE t - Passed
    BY <1>6 DEF sys_timeouts_sleeptime, Passed
  <2> HIDE DEF t
  <2>5. Passed < t
    BY <1>2, <1>4, <2>2, <2>3, <2>4
  <2>6. Passed + 1 \in 0 .. Wrap - 1
    BY <1>4, <2>2, <2>5, WrapAssumption
  <2>7. Passed' = Passed + 1
    <3> DEFINE a == now - timeouts_last_time
    <3>1. now \in Int /\ timeouts_last_time \in Int /\ a \in Int
      BY WrapAssumption DEF Types
    <3>2. (((now + 1) % Wrap) + (-timeouts_last_time)) % Wrap = ((now + 1) + (-timeouts_last_time)) % Wrap
      BY <3>1, ModAdd
    <3>3. /\ (now + 1) % Wrap \in Int
      BY <3>1, ModRange
    <3>4. now' - timeouts_last_time = now' + (-timeouts_last_time)
      BY <1>1, <3>1, <3>3
    <3>5. (now + 1) + (-timeouts_last_time) = a + 1
      BY <3>1
    <3>6. Passed' = (a + 1) % Wrap
      BY <1>1, <3>2, <3>4, <3>5, Zenon DEF Passed
    <3> HIDE DEF a
    <3>7. ((a % Wrap) + 1) % Wrap = (a + 1) % Wrap
      BY <3>1, ModAdd
    <3>8. (Passed + 1) % Wrap = Passed + 1
      BY <2>6, ModSmall
    <3> QED
      BY <3>6, <3>7, <3>8, Zenon DEF Passed, a
  <2>8. Exact(Ticked(next_timeout, lag' > 0), Passed + 1)
    <3>1. next_timeout # <<>> => Passed < next_timeout[1].time
      BY <2>5 DEF t
    <3> QED
      BY <1>2, <1>4, <3>1, TickExact, ZenonT(30)
  <2>9. Exact(next_timeout', Passed')
    BY <1>1, <2>7, <2>8, Zenon
  <2> QED
    BY <1>1, <1>3, <2>9, OnTimeNext
<1> QED
  BY <1>5, <1>6

(* The first entry is called for exactly when it is due.                   *)
LEMMA CallOnTime ==
    ASSUME Types, OnTime, NeverEarly, CallHandler, Types'
    PROVE  OnTime' /\ NeverEarly'
<1> DEFINE e == next_timeout[1]
           s == Since(next_timeout, timeouts_last_time, now)
<1>1. next_timeout # <<>> /\ next_timeout \in Seq(Entry)
  BY DEF CallHandler, Expired, Types
<1>2. Head(next_timeout) = e /\ 1 \in 1 .. Len(next_timeout) /\ e \in Entry
  BY <1>1, TailIs, EntryFields
<1>3. /\ timeouts_last_time' = (timeouts_last_time + e.time) % Wrap
      /\ diff' = diff - e.time /\ next_timeout' = Tail(next_timeout)
      /\ early' = (early \/ (lag = 0 /\ e.left > 0)) /\ now' = now /\ lag' = lag
      /\ e.time <= diff
  BY <1>2, Zenon DEF CallHandler, Expired
<1>4. CASE lag # 0
  BY <1>3, <1>4, Zenon DEF OnTime, NeverEarly
<1>5. CASE lag = 0
  <2>1. Exact(next_timeout, s) /\ diff \in 0 .. s
    BY <1>5, Zenon DEF OnTime
  <2>2. s = Passed /\ Passed \in Nat /\ Passed \in Int
    BY <1>1, <2>1, SinceIs, ExactPassed, Zenon
  <2>3. s <= e.time /\ Due(next_timeout, 1) = e.time - s
    BY <1>1, <2>1, Zenon DEF Exact
  <2>4. e.time \in Nat /\ e.left \in Int /\ e.slip \in Nat /\ Due(next_timeout, 1) = e.left + e.slip
    <3>1. s \in Int
      BY <2>2, SMTT(30)
    <3> HIDE DEF s
    <3>2. next_timeout[1].time \in Nat /\ next_timeout[1].left \in Int
          /\ next_timeout[1].slip \in Nat
      BY <1>1, <1>2, <2>1, <3>1, ListFacts, SMTT(30)
    <3> QED
      BY <3>2, Zenon DEF Due
  <2> HIDE DEF e, s
  <2>5. s = e.time /\ diff = e.time /\ diff' = 0 /\ Passed = e.time /\ ~(e.left > 0)
    <3>1. diff' = diff - e.time /\ e.time <= diff /\ diff \in 0 .. s
      BY <1>3, <2>1, Zenon
    <3> QED
      BY <2>2, <2>3, <2>4, <3>1
  <2>6. Exact(Tail(next_timeout), 0)
    BY <1>1, <2>1, <2>5, TailExact DEF e
  <2>7. Passed' = 0
    <3> DEFINE a == now - timeouts_last_time
               t == e.time
    <3>1. now \in Int /\ timeouts_last_time \in Int /\ a \in Int /\ t \in Int
      BY <2>4, WrapAssumption DEF Types
    <3>2. Passed' = (now - ((timeouts_last_time + t) % Wrap)) % Wrap
      BY <1>3, Zenon DEF Passed
    <3> HIDE DEF t
    <3>3. timeouts_last_time + t \in Int
      BY <3>1
    <3>4. (now - ((timeouts_last_time + t) % Wrap)) % Wrap = (now - (timeouts_last_time + t)) % Wrap
      BY <3>1, <3>3, ModSub
    <3>5. now - (timeouts_last_time + t) = a + (-t) /\ -t \in Int
      BY <3>1
    <3> HIDE DEF a
    <3>6. ((a % Wrap) + (-t)) % Wrap = (a + (-t)) % Wrap
      BY <3>1, <3>5, ModAdd
    <3>7. a % Wrap = t
      BY <2>5 DEF Passed, a, t
    <3>8. t + (-t) = 0 /\ 0 % Wrap = 0
      BY <3>1, ModSmall, WrapAssumption
    <3> QED
      BY <3>2, <3>4, <3>5, <3>6, <3>7, <3>8, Zenon
  <2>8. OnTime'
    BY <1>3, <2>5, <2>6, <2>7, OnTimeNext
  <2>9. early' = (early \/ FALSE)
    BY <1>3, <2>5, Zenon
  <2> QED
    BY <2>8, <2>9, Zenon DEF NeverEarly
<1> QED
  BY <1>4, <1>5, SMTT(30)

LEMMA OnTimeStep ==
    Types /\ OnTime /\ NeverEarly /\ Near /\ [Next]_vars /\ Types' => OnTime' /\ NeverEarly'
<1> SUFFICES ASSUME Types, OnTime, NeverEarly, Near, [Next]_vars, Types'
             PROVE  OnTime' /\ NeverEarly'
  OBVIOUS
<1> DEFINE s == Since(next_timeout, timeouts_last_time, now)
<1>1. next_timeout \in Seq(Entry)
  BY DEF Types
<1>2. lag = 0 => Exact(next_timeout, s) /\ (running # "loop" => diff = 0)
  BY Zenon DEF OnTime
<1>3. ASSUME NEW m \in Times, NEW h \in Handlers, sys_timeout(m, h), running # "loop",
             UNCHANGED <<now, lag, diff, early>>
      PROVE  OnTime' /\ NeverEarly'
  <2>1. CASE lag # 0
    BY <1>3, <2>1, Zenon DEF OnTime, NeverEarly
  <2>2. CASE lag = 0
    <3>1. Exact(next_timeout', Passed')
      BY <1>2, <1>3, <2>2, SysTimeoutExact
    <3>2. diff' = 0
      BY <1>2, <1>3, <2>2
    <3>3. OnTime'
      BY <3>1, <3>2, OnTimeNext
    <3> QED
      BY <1>3, <3>3, Zenon DEF NeverEarly
  <2> QED
    BY <2>1, <2>2
<1>4. ASSUME UNCHANGED <<next_timeout, timeouts_last_time, now, lag, early>>,
             lag = 0 => diff' \in 0 .. s /\ (running' # "loop" => diff' = 0)
      PROVE  OnTime' /\ NeverEarly'
  BY <1>2, <1>4, Zenon DEF OnTime, NeverEarly
<1>5. lag = 0 => diff \in 0 .. s /\ 0 \in 0 .. s
  <2>1. s \in 0 .. Wrap - 1 /\ s \in Int
    BY SinceInt
  <2>2. 0 \in 0 .. s
    <3> HIDE DEF s
    <3> QED
      BY <2>1, WrapAssumption
  <2> QED
    BY <2>2, Zenon DEF OnTime
<1>6. CASE Tick
  BY <1>6, TickOnTime, Zenon DEF Tick, NeverEarly
<1>7. ASSUME NEW h \in Shots, NEW m \in Delays, SetShot(h, m) PROVE OnTime' /\ NeverEarly'
  <2>1. m \in Times /\ h \in Handlers
    BY TimesInt, Names
  <2> QED
    BY <1>3, <1>7, <2>1, Zenon DEF SetShot, CallFromUser
<1>8. ASSUME NEW h \in Shots, CancelShot(h) PROVE OnTime' /\ NeverEarly'
  <2>1. /\ next_timeout' = sys_untimeout(next_timeout, h) /\ running # "loop"
        /\ UNCHANGED <<timeouts_last_time, now, lag, diff, early>>
    BY <1>8, Zenon DEF CancelShot, CallFromUser
  <2>2. CASE lag # 0
    BY <2>1, <2>2, Zenon DEF OnTime, NeverEarly
  <2>3. CASE lag = 0
    <3>1. Exact(next_timeout, Passed) /\ Passed \in Int /\ diff' = 0 /\ Passed' = Passed
      BY <1>2, <2>1, <2>3, ExactPassed, Zenon DEF Passed
    <3>2. \A j \in 1 .. Len(next_timeout) - 1 :
             next_timeout[j].time + next_timeout[j + 1].time < Wrap
      BY <2>3, NearIs, SMTT(30)
    <3>3. ASSUME NEW p, Cut(next_timeout', next_timeout, p) PROVE Exact(next_timeout', Passed)
      BY <1>1, <3>1, <3>2, <3>3, CutExact, SMTT(30)
    <3>4. next_timeout' = next_timeout \/ \E p : Cut(next_timeout', next_timeout, p)
      BY <1>1, <2>1, UntimeoutIs, Zenon
    <3>5. Exact(next_timeout', Passed')
      BY <3>1, <3>3, <3>4, Zenon
    <3>6. OnTime'
      BY <3>1, <3>5, OnTimeNext
    <3> QED
      BY <2>1, <3>6, Zenon DEF NeverEarly
  <2> QED
    BY <2>2, <2>3
<1>9. CASE Register
  <2>1. running # "loop" /\ UNCHANGED <<now, lag, diff, early, running>>
    BY <1>9, Zenon DEF Register, CallFromUser
  <2>2. CASE tcpip_tcp_timer_active
    <3>1. UNCHANGED <<next_timeout, timeouts_last_time>>
      BY <1>9, <2>2, Zenon DEF Register, NoTimeout
    <3> QED
      BY <1>2, <1>4, <1>5, <2>1, <3>1, Zenon
  <2>3. CASE ~tcpip_tcp_timer_active
    <3>1. sys_timeout(TcpInterval, "tcpip_tcp_timer")
      BY <1>9, <2>3, Zenon DEF Register
    <3>2. TcpInterval \in Times /\ "tcpip_tcp_timer" \in Handlers
      BY TimesInt, Names
    <3> QED
      BY <1>3, <2>1, <3>1, <3>2, Zenon
  <2> QED
    BY <2>2, <2>3
<1>10. CASE Unregister
  <2>1. UNCHANGED <<now, lag, diff, early, running, next_timeout, timeouts_last_time>>
    BY <1>10, Zenon DEF Unregister, CallFromUser, NoTimeout
  <2> QED
    BY <1>2, <1>4, <1>5, <2>1, Zenon
<1>11. CASE sys_restart_timeouts
  <2>1. /\ next_timeout' = Slipped(next_timeout, Passed) /\ running # "loop"
        /\ timeouts_last_time' = now /\ UNCHANGED <<now, lag, diff, early>>
    BY <1>11, Zenon DEF sys_restart_timeouts, CallFromUser, Passed
  <2>2. CASE lag # 0
    BY <2>1, <2>2, Zenon DEF OnTime, NeverEarly
  <2>3. CASE lag = 0
    <3>1. Exact(next_timeout, Passed) /\ Passed \in Nat /\ diff' = 0
      BY <1>2, <2>1, <2>3, ExactPassed, Zenon
    <3>2. Passed' = 0
      BY <2>1, NoTimePasses DEF Passed
    <3>3. Exact(Slipped(next_timeout, Passed), 0)
      BY <1>1, <3>1, SlipExact
    <3>4. OnTime'
      BY <2>1, <3>1, <3>2, <3>3, OnTimeNext
    <3> QED
      BY <2>1, <3>4, Zenon DEF NeverEarly
  <2> QED
    BY <2>2, <2>3
<1>12. CASE Check
  <2>1. /\ next_timeout # <<>> /\ diff' = Passed /\ running' = "loop"
        /\ UNCHANGED <<now, next_timeout, timeouts_last_time, lag, early>>
    BY <1>12, Zenon DEF Check, Passed
  <2>2. s = Passed /\ s \in 0 .. Wrap - 1
    BY <2>1, SinceIs, SinceInt, Zenon
  <2>3. s \in 0 .. s
    <3> HIDE DEF s
    <3> QED
      BY <2>2, WrapAssumption
  <2> QED
    BY <1>4, <2>1, <2>2, <2>3, Zenon
<1>13. CASE CallHandler
  BY <1>13, CallOnTime
<1>14. CASE CheckEnds
  <2>1. diff' = 0 /\ UNCHANGED <<now, next_timeout, timeouts_last_time, lag, early>>
    BY <1>14, Zenon DEF CheckEnds
  <2> QED
    BY <1>4, <1>5, <2>1, Zenon
<1>15. ASSUME NEW h \in Shots, ShotReturns(h) PROVE OnTime' /\ NeverEarly'
  <2>1. /\ running' = "loop"
        /\ UNCHANGED <<now, next_timeout, timeouts_last_time, lag, early, diff>>
    BY <1>15, Zenon DEF ShotReturns, Return, NoTimeout
  <2> QED
    BY <1>4, <1>5, <2>1, Zenon
<1>16. CASE cyclic_timer
  <2>1. /\ running = "cyclic_timer" /\ sys_timeout(Interval, "cyclic_timer")
        /\ UNCHANGED <<now, lag, early, diff>>
    BY <1>16, Zenon DEF cyclic_timer, Return
  <2>2. running # "loop" /\ Interval \in Times /\ "cyclic_timer" \in Handlers
    BY <2>1, TimesInt, Names
  <2> QED
    BY <1>3, <2>1, <2>2, Zenon
<1>17. CASE tcpip_tcp_timer
  <2>1. /\ running = "tcpip_tcp_timer" /\ running' = "loop"
        /\ UNCHANGED <<now, lag, early, diff>>
        /\ IF pcbs THEN sys_timeout(TcpInterval, "tcpip_tcp_timer")
           ELSE UNCHANGED <<next_timeout, timeouts_last_time>>
    BY <1>17, Zenon DEF tcpip_tcp_timer, Return, NoTimeout
  <2>2. running # "loop" /\ TcpInterval \in Times /\ "tcpip_tcp_timer" \in Handlers
    BY <2>1, TimesInt, Names, SMTT(30)
  <2> QED
    BY <1>3, <1>4, <1>5, <2>1, <2>2, Zenon
<1>18. CASE UNCHANGED vars
  <2>1. UNCHANGED <<now, lag, diff, early, running, next_timeout, timeouts_last_time>>
    BY <1>18, Zenon DEF vars
  <2> QED
    BY <1>2, <1>4, <1>5, <2>1, Zenon
<1> QED
  BY <1>6, <1>7, <1>8, <1>9, <1>10, <1>11, <1>12, <1>13, <1>14, <1>15, <1>16, <1>17, <1>18,
     Zenon DEF Next, Loop

LEMMA OnTimeExact == Types /\ OnTime => ListExact
<1> SUFFICES ASSUME Types, OnTime, lag = 0
             PROVE  \A i \in DOMAIN next_timeout :
                       next_timeout[i].left + next_timeout[i].slip
                         = Expiry(next_timeout, i) - Since(next_timeout, timeouts_last_time, now)
  BY Zenon DEF ListExact
<1> DEFINE s == Since(next_timeout, timeouts_last_time, now)
<1>1. next_timeout \in Seq(Entry) /\ DOMAIN next_timeout = 1 .. Len(next_timeout)
  BY EntryFields DEF Types
<1>2. s \in Int /\ Exact(next_timeout, s)
  BY SinceInt, Zenon DEF OnTime
<1> HIDE DEF s
<1>3. \A j \in 1 .. Len(next_timeout) : Due(next_timeout, j) = Expiry(next_timeout, j) - s
  BY <1>1, <1>2, ExactExpiry
<1> QED
  BY <1>1, <1>3, Zenon DEF Due, s

(* As long as no sum of times wraps, and for as long as the loop runs on   *)
(* time, the list is exact and sys_check_timeouts() calls no handler before *)
(* its time: the inductive invariant of the two theorems below.            *)
THEOREM OnTimeHolds == Spec /\ []Near => [](Types /\ OnTime /\ NeverEarly)
<1>1. Init => Types /\ OnTime /\ NeverEarly
  BY InitTypes, InitOnTime
<1>2. Types /\ OnTime /\ NeverEarly /\ Near /\ [Next]_vars => (Types /\ OnTime /\ NeverEarly)'
  BY TypesStep, OnTimeStep, Zenon
<1> QED
  BY <1>1, <1>2, PTL DEF Spec

(* As long as no sum of times wraps, and for as long as the loop runs on   *)
(* time, every entry of the list expires when it was asked to, but for     *)
(* what insertions in front and sys_restart_timeouts() put it off.         *)
THEOREM ListExactHolds == Spec /\ []Near => []ListExact
  BY OnTimeHolds, OnTimeExact, PTL

(* As long as no sum of times wraps, and for as long as the loop runs on   *)
(* time, no handler is called early.                                       *)
THEOREM NeverEarlyHolds == Spec /\ []Near => []NeverEarly
  BY OnTimeHolds, PTL
=============================================================================
