----------------------------- MODULE RomFsProofs -----------------------------
(***************************************************************************)
(* What the board reads of an image is what mkfs packed, for every list of *)
(* files, every byte width, length of names and number of descriptors.     *)
(*                                                                         *)
(* mkfs appends entries, romfs walks from one to the next by the lengths   *)
(* it finds; both are recursive functions.  A property of all numbers up   *)
(* to a bound is proved from the least number that does not have it        *)
(* (Induction), the existence of a recursive function from that.           *)
(***************************************************************************)
EXTENDS RomFs, FiniteSetTheorems, SequenceTheorems, WellFoundedInduction, TLAPS

-----------------------------------------------------------------------------
(* Induction and recursion                                                 *)

\* Every set of numbers that is not empty has a least one.
LEMMA Least ==
  ASSUME NEW S \in SUBSET Nat, S # {}
  PROVE  \E n \in S : \A m \in S : n <= m
<1> DEFINE R == {ss \in Nat \X Nat : ss[1] < ss[2]}
<1>1. IsWellFoundedOn(R, Nat)
  BY NatLessThanWellFounded DEF OpToRel
<1>2. \A m, n \in Nat : m < n => <<m, n>> \in R
  OBVIOUS
<1> HIDE DEF R
<1>3. PICK n \in S : \A m \in S : ~(<<m, n>> \in R)
  BY <1>1, WFMin
<1>4. \A m \in S : ~(m < n) /\ m \in Nat /\ n \in Nat
  BY <1>2, <1>3
<1> QED
  BY <1>4

\* A set of numbers with 0 and the successors of its numbers has all of them.
LEMMA Induction ==
  ASSUME NEW S \in SUBSET Nat, 0 \in S, \A n \in S : n + 1 \in S
  PROVE  \A n \in Nat : n \in S
<1> SUFFICES ASSUME Nat \ S # {} PROVE FALSE
  OBVIOUS
<1>1. PICK n \in Nat \ S : \A m \in Nat \ S : n <= m
  BY Least
<1>2. n - 1 \in Nat /\ n - 1 < n
  BY <1>1
<1> QED
  BY <1>1, <1>2

\* What two sequences make, one after the other.
LEMMA Joined ==
  ASSUME NEW S, NEW a \in Seq(S), NEW b \in Seq(S), NEW c, c = a \o b
  PROVE  /\ c \in Seq(S) /\ Len(a) \in Nat /\ Len(b) \in Nat /\ Len(c) = Len(a) + Len(b)
         /\ \A j \in 1..Len(a) : c[j] = a[j]
         /\ \A j \in 1..Len(b) : c[Len(a) + j] = b[j]
OBVIOUS

LEMMA Extended ==
  ASSUME NEW S, NEW a \in Seq(S), NEW b \in Seq(S), NEW c, c = a \o b, NEW x \in Seq(S),
         Len(x) <= Len(a), \A j \in 1..Len(x) : a[j] = x[j]
  PROVE  Len(x) <= Len(c) /\ \A j \in 1..Len(x) : c[j] = x[j]
<1>1. Len(c) = Len(a) + Len(b) /\ Len(a) \in Nat /\ Len(b) \in Nat /\ Len(x) \in Nat
      /\ \A j \in 1..Len(a) : c[j] = a[j]
  BY Joined
<1> QED
  BY <1>1

\* A function that appends piece after piece,
Appends(f, n, p) == f = [i \in 0..n |-> IF i = 0 THEN <<>> ELSE f[i - 1] \o p[i]]

LEMMA AppendsExists ==
  ASSUME NEW S, NEW n \in Nat, NEW p, \A i \in 1..n : p[i] \in Seq(S)
  PROVE  \E f : Appends(f, n, p)
<1> DEFINE T == {m \in Nat : m <= n => \E f : Appends(f, m, p)}
<1>1. 0 \in T
  <2> DEFINE f == [i \in 0..0 |-> <<>>]
  <2>1. f = [i \in 0..0 |-> IF i = 0 THEN <<>> ELSE f[i - 1] \o p[i]]
    OBVIOUS
  <2> QED
    BY <2>1 DEF Appends
<1>2. ASSUME NEW m \in T PROVE m + 1 \in T
  <2> SUFFICES ASSUME m + 1 <= n PROVE \E f : Appends(f, m + 1, p)
    OBVIOUS
  <2>1. PICK f : Appends(f, m, p)
    OBVIOUS
  <2> DEFINE g == [i \in 0..(m + 1) |-> IF i <= m THEN f[i] ELSE f[m] \o p[m + 1]]
  <2>2. \A i \in 0..m : f[i] = IF i = 0 THEN <<>> ELSE f[i - 1] \o p[i]
    BY <2>1 DEF Appends
  <2>3. ASSUME NEW i \in 0..(m + 1)
        PROVE  g[i] = IF i = 0 THEN <<>> ELSE g[i - 1] \o p[i]
    <3>1. CASE i = m + 1
      BY <3>1
    <3>2. CASE i # m + 1 /\ i # 0
      <4>1. i \in 0..m /\ i - 1 \in 0..m
        BY <3>2
      <4>2. g[i] = f[i] /\ g[i - 1] = f[i - 1]
        BY <4>1
      <4> QED
        BY <2>2, <3>2, <4>1, <4>2
    <3>3. CASE i = 0
      <4>1. g[0] = f[0] /\ f[0] = <<>>
        BY <2>2
      <4> QED
        BY <3>3, <4>1
    <3> QED
      BY <3>1, <3>2, <3>3
  <2>4. g = [i \in 0..(m + 1) |-> g[i]]
    OBVIOUS
  <2> HIDE DEF g
  <2>5. g = [i \in 0..(m + 1) |-> IF i = 0 THEN <<>> ELSE g[i - 1] \o p[i]]
    BY <2>3, <2>4
  <2> QED
    BY <2>5 DEF Appends
<1> HIDE DEF T
<1>3. n \in T
  <2>1. T \in SUBSET Nat
    BY DEF T
  <2> QED
    BY <1>1, <1>2, <2>1, Induction
<1> QED
  BY <1>3 DEF T

\* its values, and that the later ones begin with the earlier ones
Appended(f, n, p, S) ==
  /\ \A i \in 0..n : f[i] \in Seq(S)
  /\ f[0] = <<>> /\ \A i \in 1..n : f[i] = f[i - 1] \o p[i]
  /\ \A i \in 0..n, k \in 0..n : i <= k =>
       /\ Len(f[i]) <= Len(f[k])
       /\ \A j \in 1..Len(f[i]) : f[k][j] = f[i][j]

LEMMA AppendsIs ==
  ASSUME NEW S, NEW n \in Nat, NEW p, \A i \in 1..n : p[i] \in Seq(S),
         NEW f, Appends(f, n, p)
  PROVE  Appended(f, n, p, S)
<1>1. f[0] = <<>> /\ \A i \in 1..n : f[i] = f[i - 1] \o p[i]
  <2>1. \A i \in 0..n : f[i] = IF i = 0 THEN <<>> ELSE f[i - 1] \o p[i]
    BY Zenon DEF Appends
  <2>2. 0 \in 0..n /\ \A i \in 1..n : i \in 0..n /\ i # 0
    OBVIOUS
  <2> QED
    BY <2>1, <2>2, Zenon
<1>0. \A m \in Nat : m + 1 <= n => m + 1 \in 1..n /\ m \in 0..n /\ f[m + 1] = f[m] \o p[m + 1]
  <2> SUFFICES ASSUME NEW m \in Nat, m + 1 <= n
               PROVE  m + 1 \in 1..n /\ m \in 0..n /\ f[m + 1] = f[m] \o p[m + 1]
    OBVIOUS
  <2>1. (m + 1) - 1 = m /\ m + 1 \in 1..n /\ m \in 0..n
    OBVIOUS
  <2>2. f[m + 1] = f[(m + 1) - 1] \o p[m + 1]
    BY <1>1, <2>1, Zenon
  <2> QED
    BY <2>1, <2>2, Zenon
<1> DEFINE T == {m \in Nat : m <= n => f[m] \in Seq(S)}
<1>2. 0 \in T
  <2>1. <<>> \in Seq(S)
    OBVIOUS
  <2> QED
    BY <1>1, <2>1
<1>3. ASSUME NEW m \in T PROVE m + 1 \in T
  <2> SUFFICES ASSUME m + 1 <= n PROVE f[m + 1] \in Seq(S)
    OBVIOUS
  <2>1. f[m] \in Seq(S) /\ m + 1 \in 1..n /\ p[m + 1] \in Seq(S) /\ f[m + 1] = f[m] \o p[m + 1]
    <3>1. m \in Nat /\ (m <= n => f[m] \in Seq(S))
      OBVIOUS
    <3>2. m + 1 \in 1..n /\ m <= n /\ f[m + 1] = f[m] \o p[m + 1]
      <4>1. m <= n
        OBVIOUS
      <4> QED
        BY <1>0, <3>1, <4>1, Zenon
    <3> QED
      BY <3>1, <3>2
  <2> QED
    BY <2>1
<1>4. T \in SUBSET Nat
  OBVIOUS
<1> HIDE DEF T
<1>5. \A i \in Nat : i \in T
  BY <1>2, <1>3, <1>4, Induction
<1>6. \A i \in 0..n : f[i] \in Seq(S)
  BY <1>5 DEF T
<1>7. ASSUME NEW i \in 0..n, NEW k \in 0..n, i <= k
      PROVE  Len(f[i]) <= Len(f[k]) /\ \A j \in 1..Len(f[i]) : f[k][j] = f[i][j]
  <2> DEFINE U == {m \in Nat : i <= m /\ m <= n =>
                     Len(f[i]) <= Len(f[m]) /\ \A j \in 1..Len(f[i]) : f[m][j] = f[i][j]}
  <2>1. 0 \in U
    OBVIOUS
  <2>2. ASSUME NEW m \in U PROVE m + 1 \in U
    <3> SUFFICES ASSUME i <= m + 1, m + 1 <= n
                 PROVE  Len(f[i]) <= Len(f[m + 1]) /\ \A j \in 1..Len(f[i]) : f[m + 1][j] = f[i][j]
      OBVIOUS
    <3>1. CASE i = m + 1
      BY <3>1, <1>6
    <3>2. CASE i <= m
      <4>1. m <= n /\ m \in Nat
        BY <3>2
      <4>2. Len(f[i]) <= Len(f[m]) /\ \A j \in 1..Len(f[i]) : f[m][j] = f[i][j]
        BY <3>2, <4>1
      <4>3. f[m] \in Seq(S) /\ f[i] \in Seq(S)
        BY <1>6, <3>2, <4>1
      <4>4. p[m + 1] \in Seq(S)
        BY <4>1
      <4>5. f[m + 1] = f[m] \o p[m + 1]
        BY <1>0, <4>1, Zenon
      <4> DEFINE x == f[i]
                 a == f[m]
                 b == p[m + 1]
                 c == f[m + 1]
      <4>6. /\ a \in Seq(S) /\ b \in Seq(S) /\ x \in Seq(S) /\ c = a \o b
            /\ Len(x) <= Len(a) /\ \A j \in 1..Len(x) : a[j] = x[j]
        BY <4>2, <4>3, <4>4, <4>5
      <4> HIDE DEF U, a, b, c, x
      <4>7. Len(x) <= Len(c) /\ \A j \in 1..Len(x) : c[j] = x[j]
        BY <4>6, Extended
      <4> QED
        BY <4>7 DEF c, x
    <3> QED
      BY <3>1, <3>2
  <2>3. U \in SUBSET Nat
    OBVIOUS
  <2> HIDE DEF U
  <2>4. k \in U
    BY <2>1, <2>2, <2>3, Induction
  <2> QED
    BY <1>7, <2>4 DEF U
<1> QED
  BY <1>1, <1>6, <1>7 DEF Appended

\* A function that goes from each number to a greater one, up to a bound, and brings back
\* the value from there, or that and what it met on the way.
Walks(f, n, next, e, d, more) ==
  f = [a \in 0..n |-> IF next[a] <= n THEN (IF more THEN d[a] \o f[next[a]] ELSE f[next[a]]) ELSE e[a]]

LEMMA WalkExists ==
  ASSUME NEW n \in Nat, NEW next, \A a \in 0..n : next[a] \in Nat /\ a < next[a],
         NEW e, NEW d, NEW more \in {TRUE, FALSE}
  PROVE  \E f : Walks(f, n, next, e, d, more)
<1> DEFINE From(f, m) == \A a \in 0..n : n <= a + m =>
                           f[a] = IF next[a] <= n THEN (IF more THEN d[a] \o f[next[a]] ELSE f[next[a]]) ELSE e[a]
           T == {m \in Nat : \E f : From(f, m)}
<1>1. 0 \in T
  <2> DEFINE f == [a \in 0..n |-> e[a]]
  <2>1. From(f, 0)
    OBVIOUS
  <2> QED
    BY <2>1
<1>2. ASSUME NEW m \in T PROVE m + 1 \in T
  <2>1. PICK f : From(f, m)
    OBVIOUS
  <2> DEFINE h == [a \in 0..n |-> IF n = a + (m + 1)
                                  THEN IF next[a] <= n THEN (IF more THEN d[a] \o f[next[a]] ELSE f[next[a]]) ELSE e[a]
                                  ELSE f[a]]
  <2>2. ASSUME NEW a \in 0..n, n <= a + (m + 1)
        PROVE  h[a] = IF next[a] <= n THEN (IF more THEN d[a] \o h[next[a]] ELSE h[next[a]]) ELSE e[a]
    <3>1. next[a] <= n => h[next[a]] = f[next[a]]
      BY <2>2
    <3>2. n # a + (m + 1) => f[a] = IF next[a] <= n THEN (IF more THEN d[a] \o f[next[a]] ELSE f[next[a]]) ELSE e[a]
      <4>1. n # a + (m + 1) => n <= a + m
        BY <2>2
      <4> QED
        BY <2>1, <4>1
    <3>3. h[a] = IF next[a] <= n THEN (IF more THEN d[a] \o f[next[a]] ELSE f[next[a]]) ELSE e[a]
      BY <3>2
    <3> HIDE DEF h
    <3> QED
      BY <3>1, <3>3
  <2> HIDE DEF h
  <2>3. From(h, m + 1)
    BY <2>2
  <2> QED
    BY <2>3
<1>3. T \in SUBSET Nat
  OBVIOUS
<1> HIDE DEF T
<1>4. n \in T
  BY <1>1, <1>2, <1>3, Induction
<1>5. PICK f : From(f, n)
  BY <1>4 DEF T
<1> DEFINE h == [a \in 0..n |-> f[a]]
<1>6. ASSUME NEW a \in 0..n
      PROVE  h[a] = IF next[a] <= n THEN (IF more THEN d[a] \o h[next[a]] ELSE h[next[a]]) ELSE e[a]
  <2>1. n <= a + n
    OBVIOUS
  <2>2. f[a] = IF next[a] <= n THEN (IF more THEN d[a] \o f[next[a]] ELSE f[next[a]]) ELSE e[a]
    BY <1>5, <2>1
  <2>3. next[a] <= n => next[a] \in 0..n
    OBVIOUS
  <2> QED
    BY <2>2, <2>3
<1>7. h = [a \in 0..n |-> h[a]]
  OBVIOUS
<1> HIDE DEF h
<1>8. h = [a \in 0..n |-> IF next[a] <= n THEN (IF more THEN d[a] \o h[next[a]] ELSE h[next[a]]) ELSE e[a]]
  BY <1>6, <1>7, Zenon
<1> QED
  BY <1>8 DEF Walks


-----------------------------------------------------------------------------
(* Where the files are in an image                                         *)

\* An entry: the name, a 0, the size, the data.
LEMMA EntryIs ==
  ASSUME NEW f \in Files
  PROVE  LET e == Entry(f)
             n == Len(f.name)
         IN /\ e \in Seq(Nat) /\ n \in Nat \ {0} /\ Len(f.data) \in Nat
            /\ Len(e) = n + 3 + Len(f.data)
            /\ \A j \in 1..n : e[j] = f.name[j] /\ f.name[j] \in Nat \ {0}
            /\ e[n + 1] = 0 /\ e[n + 2] = (Len(f.data) % Base)
            /\ e[n + 3] = ((Len(f.data) \div Base) % Base)
            /\ \A j \in 1..Len(f.data) : e[n + 3 + j] = f.data[j]
<1> DEFINE t == <<0, (Len(f.data) % Base), ((Len(f.data) \div Base) % Base)>>
           h == f.name \o t
           d == f.data
           m == f.name
           e == Entry(f)
<1>1. m \in Seq(Nat \ {0}) /\ m # <<>> /\ d \in Seq(0..(Base - 1)) /\ Base \in Nat \ {0}
  BY RomAssumption DEF Files
<1>2. m \in Seq(Nat) /\ d \in Seq(Nat) /\ Len(m) \in Nat \ {0} /\ Len(d) \in Nat
      /\ \A j \in 1..Len(m) : m[j] \in Nat \ {0}
  <2>1. m \in Seq(Nat) /\ Len(m) \in Nat \ {0} /\ \A j \in 1..Len(m) : m[j] \in Nat \ {0}
    BY <1>1
  <2>2. 0..(Base - 1) \subseteq Nat
    BY <1>1
  <2>3. d \in Seq(Nat)
    BY <1>1, <2>2
  <2> QED
    BY <2>1, <2>3
<1>3. t \in Seq(Nat) /\ Len(t) = 3 /\ t[1] = 0 /\ t[2] = (Len(d) % Base)
      /\ t[3] = ((Len(d) \div Base) % Base)
  <2>1. (Len(d) % Base) \in Nat /\ ((Len(d) \div Base) % Base) \in Nat
    BY <1>1, <1>2
  <2> QED
    BY <2>1
<1>4. e = h \o d
  BY DEF Entry
<1>5. h = m \o t
  OBVIOUS
<1> HIDE DEF m, d, t, h, e
<1>6. /\ h \in Seq(Nat) /\ Len(h) = Len(m) + 3
      /\ \A j \in 1..Len(m) : h[j] = m[j]
      /\ \A j \in 1..3 : h[Len(m) + j] = t[j]
  <2>1. m \in Seq(Nat) /\ t \in Seq(Nat)
    BY <1>2, <1>3
  <2>2. /\ h \in Seq(Nat) /\ Len(h) = Len(m) + Len(t)
        /\ \A j \in 1..Len(m) : h[j] = m[j]
        /\ \A j \in 1..Len(t) : h[Len(m) + j] = t[j]
    BY <1>5, <2>1
  <2> QED
    BY <1>3, <2>2
<1>7. /\ e \in Seq(Nat) /\ Len(e) = Len(m) + 3 + Len(d)
      /\ \A j \in 1..(Len(m) + 3) : e[j] = h[j]
      /\ \A j \in 1..Len(d) : e[Len(m) + 3 + j] = d[j]
  <2>1. h \in Seq(Nat) /\ d \in Seq(Nat)
    BY <1>2, <1>6
  <2>2. /\ e \in Seq(Nat) /\ Len(e) = Len(h) + Len(d)
        /\ \A j \in 1..Len(h) : e[j] = h[j]
        /\ \A j \in 1..Len(d) : e[Len(h) + j] = d[j]
    BY <1>4, <2>1
  <2> QED
    BY <1>2, <1>6, <2>2
<1>8. \A j \in 1..Len(m) : e[j] = m[j]
  BY <1>2, <1>6, <1>7
<1>9. e[Len(m) + 1] = t[1] /\ e[Len(m) + 2] = t[2] /\ e[Len(m) + 3] = t[3]
  <2>1. ASSUME NEW j \in 1..3 PROVE e[Len(m) + j] = h[Len(m) + j]
    <3>1. Len(m) + j \in 1..(Len(m) + 3)
      BY <1>2
    <3> DEFINE k == Len(m) + j
    <3>2. k \in 1..(Len(m) + 3)
      BY <3>1
    <3> HIDE DEF k
    <3>3. e[k] = h[k]
      BY <1>7, <3>2
    <3> QED
      BY <3>3 DEF k
  <2> QED
    BY <1>6, <2>1
<1>10. /\ e \in Seq(Nat) /\ Len(m) \in Nat \ {0} /\ Len(d) \in Nat
       /\ Len(e) = Len(m) + 3 + Len(d)
       /\ \A j \in 1..Len(m) : e[j] = m[j] /\ m[j] \in Nat \ {0}
       /\ e[Len(m) + 1] = 0 /\ e[Len(m) + 2] = (Len(d) % Base)
       /\ e[Len(m) + 3] = ((Len(d) \div Base) % Base)
       /\ \A j \in 1..Len(d) : e[Len(m) + 3 + j] = d[j]
  BY <1>2, <1>3, <1>7, <1>8, <1>9
<1> QED
  BY <1>10 DEF m, d, e

\* The i-th file is at a[i]: after the files before it, in front of the 0 at the end.
Size(i)  == Len(list[i].name) + 3 + Len(list[i].data)
Layout(a) ==
  /\ image \in Seq(Nat) /\ Len(image) \in Nat \ {0}
  /\ \A i \in 1..(Len(list) + 1) : a[i] \in 0..(Len(image) - 1)
  /\ a[1] = 0 /\ a[Len(list) + 1] = Len(image) - 1 /\ image[Len(image)] = 0
  /\ \A i \in 1..Len(list) : i \notin Packed => a[i + 1] = a[i]
  /\ \A i \in Packed : /\ a[i + 1] = a[i] + Size(i)
                       /\ \A j \in 1..Size(i) : image[a[i] + j] = Entry(list[i])[j]

LEMMA ListIs ==
  ASSUME list \in Lists
  PROVE  /\ Len(list) \in Nat /\ DOMAIN list = 1..Len(list)
         /\ \A i \in 1..Len(list) : list[i] \in Files
         /\ Packed = {i \in 1..Len(list) : Kept(list[i])}
BY RomAssumption DEF Packed

LEMMA LayoutExists ==
  ASSUME list \in Lists, image = Mkfs(list)
  PROVE  \E a : Layout(a)
<1> DEFINE n == Len(list)
           p == [i \in 1..n |-> IF Kept(list[i]) THEN Entry(list[i]) ELSE <<>>]
           u == CHOOSE f : f = [i \in 0..n |->
                  IF i = 0 THEN <<>>
                  ELSE f[i - 1] \o (IF Kept(list[i]) THEN Entry(list[i]) ELSE <<>>)]
<1>1. n \in Nat /\ \A i \in 1..n : list[i] \in Files
  BY ListIs
<1>2. \A i \in 1..n : p[i] \in Seq(Nat)
  <2>1. \A i \in 1..n : Entry(list[i]) \in Seq(Nat)
    BY <1>1, EntryIs
  <2> QED
    BY <2>1
<1>3. image = u[n] \o <<0>>
  BY DEF Mkfs
<1>4. Appends(u, n, p)
  <2>1. PICK f : Appends(f, n, p)
    <3> HIDE DEF n, p
    <3> QED
      BY <1>1, <1>2, AppendsExists
  <2>2. f = [i \in 0..n |-> IF i = 0 THEN <<>> ELSE f[i - 1] \o p[i]]
    BY <2>1 DEF Appends
  <2>3. \A i \in 0..n : i # 0 => p[i] = IF Kept(list[i]) THEN Entry(list[i]) ELSE <<>>
    BY <1>1
  <2>4. f = [i \in 0..n |-> IF i = 0 THEN <<>>
                ELSE f[i - 1] \o (IF Kept(list[i]) THEN Entry(list[i]) ELSE <<>>)]
    <3> HIDE DEF p, n
    <3> QED
      BY <2>2, <2>3
  <2>5. u = [i \in 0..n |-> IF i = 0 THEN <<>>
                ELSE u[i - 1] \o (IF Kept(list[i]) THEN Entry(list[i]) ELSE <<>>)]
    BY <2>4
  <2>6. u = [i \in 0..n |-> IF i = 0 THEN <<>> ELSE u[i - 1] \o p[i]]
    <3> HIDE DEF u, p, n
    <3> QED
      BY <2>3, <2>5
  <2> QED
    BY <2>6 DEF Appends
<1>5. \A i \in 1..n : p[i] = IF Kept(list[i]) THEN Entry(list[i]) ELSE <<>>
  OBVIOUS
<1> HIDE DEF u, p
<1>6. /\ \A i \in 0..n : u[i] \in Seq(Nat)
      /\ u[0] = <<>> /\ \A i \in 1..n : u[i] = u[i - 1] \o p[i]
      /\ \A i \in 0..n, k \in 0..n : i <= k =>
           /\ Len(u[i]) <= Len(u[k])
           /\ \A j \in 1..Len(u[i]) : u[k][j] = u[i][j]
  <2>1. n \in Nat /\ (\A i \in 1..n : p[i] \in Seq(Nat)) /\ Appends(u, n, p)
    BY <1>1, <1>2, <1>4
  <2> HIDE DEF n
  <2>2. Appended(u, n, p, Nat)
    BY <2>1, AppendsIs
  <2> QED
    BY <2>2, Zenon DEF Appended
<1> DEFINE a == [i \in 1..(n + 1) |-> Len(u[i - 1])]
<1>7. /\ image \in Seq(Nat) /\ Len(u[n]) \in Nat /\ Len(image) = Len(u[n]) + 1
      /\ \A j \in 1..Len(u[n]) : image[j] = u[n][j]
      /\ image[Len(u[n]) + 1] = 0
  <2> DEFINE x == u[n]
             z == <<0>>
  <2>1. x \in Seq(Nat) /\ z \in Seq(Nat) /\ Len(z) = 1 /\ z[1] = 0 /\ image = x \o z
    BY <1>1, <1>3, <1>6
  <2> HIDE DEF x, z
  <2>2. /\ image \in Seq(Nat) /\ Len(x) \in Nat /\ Len(image) = Len(x) + Len(z)
        /\ \A j \in 1..Len(x) : image[j] = x[j]
        /\ \A j \in 1..Len(z) : image[Len(x) + j] = z[j]
    <3>1. x \in Seq(Nat) /\ z \in Seq(Nat) /\ image = x \o z
      BY <2>1
    <3> QED
      BY <3>1, Joined
  <2>3. image \in Seq(Nat) /\ Len(x) \in Nat /\ Len(image) = Len(x) + 1
        /\ (\A j \in 1..Len(x) : image[j] = x[j]) /\ image[Len(x) + 1] = 0
    BY <2>1, <2>2
  <2> QED
    BY <2>3 DEF x
<1>8. \A i \in 0..n : Len(u[i]) \in Nat /\ Len(u[i]) <= Len(u[n]) /\ Len(u[n]) \in Nat
  <2>1. n \in 0..n /\ \A i \in 0..n : i <= n
    BY <1>1
  <2>2. \A i \in 0..n : Len(u[i]) <= Len(u[n])
    BY <1>6, <2>1
  <2>3. \A i \in 0..n : u[i] \in Seq(Nat)
    BY <1>6
  <2>4. \A i \in 0..n : Len(u[i]) \in Nat
    BY <2>3
  <2> QED
    BY <2>1, <2>2, <2>4
<1>9. \A i \in 1..(n + 1) : a[i] = Len(u[i - 1]) /\ i - 1 \in 0..n
  BY <1>1
<1>10. \A i \in 1..n : a[i] = Len(u[i - 1]) /\ a[i + 1] = Len(u[i]) /\ i - 1 \in 0..n /\ i \in 0..n
  BY <1>1
<1>11. a[1] = 0 /\ a[n + 1] = Len(u[n])
  <2>1. 1 \in 1..(n + 1) /\ n + 1 \in 1..(n + 1) /\ 1 - 1 = 0 /\ (n + 1) - 1 = n
    BY <1>1
  <2>2. a[1] = Len(u[0]) /\ a[n + 1] = Len(u[n])
    BY <2>1
  <2>3. Len(u[0]) = 0
    BY <1>6
  <2> QED
    BY <2>2, <2>3
<1> HIDE DEF a
<1>12. ASSUME NEW i \in 1..n, ~Kept(list[i]) PROVE a[i + 1] = a[i]
  <2>1. p[i] = <<>> /\ u[i] = u[i - 1] \o p[i] /\ u[i - 1] \in Seq(Nat)
    BY <1>5, <1>6, <1>10, <1>12
  <2>2. u[i] = u[i - 1]
    BY <2>1
  <2> QED
    BY <1>10, <2>2
<1>13. ASSUME NEW i \in 1..n, Kept(list[i])
       PROVE  /\ a[i + 1] = a[i] + Size(i)
              /\ \A j \in 1..Size(i) : image[a[i] + j] = Entry(list[i])[j]
  <2> DEFINE e == Entry(list[i])
             b == u[i - 1]
             c == u[i]
  <2>1. p[i] = e /\ e \in Seq(Nat) /\ Len(e) = Size(i) /\ Size(i) \in Nat
    <3>1. Len(list[i].name) \in Nat /\ Len(list[i].data) \in Nat /\ Len(e) = Size(i) /\ e \in Seq(Nat)
      BY <1>1, EntryIs DEF Size
    <3> QED
      <4>1. p[i] = Entry(list[i])
        BY <1>5, <1>13
      <4>2. Size(i) \in Nat
        <5>1. \A x, y \in Nat : x + 3 + y \in Nat
          OBVIOUS
        <5> QED
          BY <3>1, <5>1 DEF Size
      <4> QED
        BY <3>1, <4>1, <4>2
  <2>2. b \in Seq(Nat) /\ c = b \o e
    BY <1>6, <1>10, <2>1
  <2> HIDE DEF e, b, c
  <2>7. Len(b) \in Nat /\ Len(c) = Len(b) + Len(e) /\ \A j \in 1..Len(e) : c[Len(b) + j] = e[j]
    <3>1. b \in Seq(Nat) /\ e \in Seq(Nat) /\ c = b \o e
      BY <2>1, <2>2
    <3> QED
      BY <3>1
  <2>3. Len(b) \in Nat /\ Len(c) = Len(b) + Size(i) /\ \A j \in 1..Len(e) : c[Len(b) + j] = e[j]
    BY <2>1, <2>7, Zenon
  <2>4. a[i] = Len(b) /\ a[i + 1] = Len(c) /\ Len(c) <= Len(u[n]) /\ Len(u[n]) \in Nat
    BY <1>8, <1>10 DEF b, c
  <2>5. \A j \in 1..Len(c) : u[n][j] = c[j]
    <3>1. i \in 0..n /\ n \in 0..n /\ i <= n
      BY <1>1
    <3>2. \A j \in 1..Len(u[i]) : u[n][j] = u[i][j]
      BY <1>6, <3>1, Zenon
    <3> QED
      BY <3>2 DEF c
  <2>6. ASSUME NEW j \in 1..Size(i) PROVE image[a[i] + j] = e[j]
    <3>1. Len(b) + j \in 1..Len(c) /\ j \in 1..Len(e)
      BY <2>1, <2>3
    <3>2. Len(b) + j \in 1..Len(u[n])
      BY <2>3, <2>4, <3>1
    <3> QED
      BY <1>7, <2>3, <2>4, <2>5, <3>1, <3>2
  <2> QED
    BY <2>3, <2>4, <2>6 DEF e
<1>14. \A i \in 1..(n + 1) : a[i] \in 0..(Len(image) - 1)
  BY <1>7, <1>8, <1>9
<1>15. Packed = {i \in 1..n : Kept(list[i])}
  BY ListIs
<1>16. image \in Seq(Nat) /\ Len(image) \in Nat \ {0}
  BY <1>7
<1>17. a[n + 1] = Len(image) - 1 /\ image[Len(image)] = 0
  BY <1>7, <1>11
<1> HIDE DEF n
<1>18. \A i \in 1..n : i \notin Packed => a[i + 1] = a[i]
  BY <1>12, <1>15
<1>19. \A i \in Packed : /\ a[i + 1] = a[i] + Size(i)
                        /\ \A j \in 1..Size(i) : image[a[i] + j] = Entry(list[i])[j]
  BY <1>13, <1>15
<1>20. Layout(a)
  BY <1>11, <1>14, <1>16, <1>17, <1>18, <1>19, Zenon DEF Layout, n
<1> QED
  BY <1>20, Zenon

-----------------------------------------------------------------------------
(* What romfs reads where an entry begins                                  *)

LEMMA MinIs ==
  ASSUME NEW S \in SUBSET Nat, NEW x \in S, \A y \in S : x <= y
  PROVE  Min(S) = x
<1>1. \A y \in S : y \in Nat
  OBVIOUS
<1>2. \E m \in S : \A y \in S : m <= y
  OBVIOUS
<1>3. Min(S) \in S /\ \A y \in S : Min(S) <= y
  BY <1>2, Zenon DEF Min
<1> DEFINE m == Min(S)
<1>4. m \in S /\ m <= x /\ x <= m
  BY <1>3
<1>5. m \in Nat /\ x \in Nat
  BY <1>1, <1>4
<1> HIDE DEF m
<1>6. m = x
  BY <1>4, <1>5
<1> QED
  BY <1>6 DEF m

\* A number that fits in two bytes is what its two bytes say.
LEMMA TwoBytes ==
  ASSUME NEW l \in Nat, NEW b \in Nat \ {0}, l < b * b
  PROVE  (l % b) + b * ((l \div b) % b) = l
<1>1. l = b * (l \div b) + (l % b)
  BY Z3
<1>2. l \div b \in Nat /\ l % b \in Nat
  BY Z3
<1>3. l \div b < b
  BY <1>1, <1>2, Z3
<1>4. (l \div b) % b = l \div b
  BY <1>2, <1>3, Z3
<1> QED
  BY <1>1, <1>4, Z3

LEMMA AtNat ==
  ASSUME image \in Seq(Nat)
  PROVE  \A x \in Nat : At(x) \in Nat /\ SizeAt(x) \in Nat
<1>1. ASSUME NEW x \in Nat PROVE At(x) \in Nat
  <2>1. Base - 1 \in Nat
    BY RomAssumption
  <2>2. x < Len(image) => x + 1 \in 1..Len(image)
    OBVIOUS
  <2> QED
    BY <2>1, <2>2 DEF At
<1> QED
  <2>1. \A x \in Nat : x + 1 \in Nat
    OBVIOUS
  <2>2. \A x, y \in Nat : x + Base * y \in Nat
    BY RomAssumption
  <2> QED
    BY <1>1, <2>1, <2>2 DEF SizeAt

LEMMA NameLenIs ==
  ASSUME NEW x \in Nat, NEW n \in 0..MaxName,
         \A j \in 0..(n - 1) : At(x + j) # 0, n = MaxName \/ At(x + n) = 0
  PROVE  NameLen(x) = n
<1> DEFINE zeros == {j \in 0..(MaxName - 1) : At(x + j) = 0}
<1>0. MaxName \in Nat \ {0}
  BY RomAssumption
<1>1. CASE n = MaxName
  <2>1. zeros = {}
    BY <1>1
  <2> QED
    BY <1>1, <2>1 DEF NameLen
<1>2. CASE n # MaxName
  <2>1. n \in zeros
    BY <1>0, <1>2
  <2>2. \A y \in zeros : n <= y
    BY <1>0
  <2>3. zeros \in SUBSET Nat
    OBVIOUS
  <2>4. NameLen(x) = Min(zeros)
    BY <2>1 DEF NameLen
  <2> HIDE DEF zeros
  <2> QED
    BY <2>1, <2>2, <2>3, <2>4, MinIs
<1> QED
  BY <1>1, <1>2

LEMMA NameLenNat ==
  ASSUME NEW x \in Nat
  PROVE  NameLen(x) \in 0..MaxName
<1> DEFINE zeros == {j \in 0..(MaxName - 1) : At(x + j) = 0}
<1>0. MaxName \in Nat \ {0}
  BY RomAssumption
<1>1. CASE zeros = {}
  BY <1>0, <1>1 DEF NameLen
<1>2. CASE zeros # {}
  <2>1. zeros \in SUBSET Nat
    OBVIOUS
  <2>2. PICK m \in zeros : \A y \in zeros : m <= y
    <3> HIDE DEF zeros
    <3> QED
      BY <1>2, <2>1, Least
  <2>3. m \in 0..MaxName
    BY <1>0
  <2>4. NameLen(x) = Min(zeros)
    BY <1>2 DEF NameLen
  <2> HIDE DEF zeros
  <2> QED
    BY <2>1, <2>2, <2>3, <2>4, MinIs
<1> QED
  BY <1>1, <1>2

\* The bytes of the i-th file.
LEMMA BytesAt ==
  ASSUME list \in Lists, NEW a, Layout(a), NEW i \in Packed
  PROVE  LET b == a[i]
             n == Len(list[i].name)
             d == Len(list[i].data)
         IN /\ i \in 1..Len(list) /\ b \in Nat /\ n \in Nat \ {0} /\ n <= MaxName /\ d \in Nat
            /\ \A j \in 0..(n - 1) : At(b + j) = list[i].name[j + 1] /\ At(b + j) # 0
            /\ At(b + n) = 0
            /\ At(b + n + 1) = (d % Base) /\ At(b + n + 2) = ((d \div Base) % Base)
            /\ \A j \in 1..d : At(b + n + 2 + j) = list[i].data[j]
            /\ a[i + 1] = b + n + 3 + d /\ a[i + 1] < Len(image)
<1> DEFINE b == a[i]
           n == Len(list[i].name)
           d == Len(list[i].data)
           e == Entry(list[i])
           l == n + 3 + d
<1>1. i \in 1..Len(list) /\ list[i] \in Files /\ n <= MaxName
  BY ListIs DEF Kept
<1>2. /\ n \in Nat \ {0} /\ d \in Nat
      /\ \A j \in 1..n : e[j] = list[i].name[j] /\ list[i].name[j] \in Nat \ {0}
      /\ e[n + 1] = 0 /\ e[n + 2] = (d % Base)
      /\ e[n + 3] = ((d \div Base) % Base)
      /\ \A j \in 1..d : e[n + 3 + j] = list[i].data[j]
  BY <1>1, EntryIs
<1>4. Len(image) \in Nat
  BY DEF Layout
<1>3. /\ b \in Nat /\ a[i + 1] = b + l /\ a[i + 1] \in 0..(Len(image) - 1)
      /\ \A j \in 1..l : image[b + j] = e[j]
  <2>1. i \in 1..(Len(list) + 1) /\ i + 1 \in 1..(Len(list) + 1)
    BY <1>1, ListIs
  <2>2. Size(i) = l
    BY DEF Size
  <2>3. a[i + 1] = b + Size(i) /\ \A j \in 1..Size(i) : image[b + j] = e[j]
    BY DEF Layout
  <2>4. a[i] \in 0..(Len(image) - 1) /\ a[i + 1] \in 0..(Len(image) - 1)
    BY <2>1 DEF Layout
  <2> QED
    <3>1. b \in Nat /\ a[i + 1] \in 0..(Len(image) - 1)
      BY <1>4, <2>4
    <3>3. a[i + 1] = b + l
      BY <2>2, <2>3, Zenon
    <3>2. \A j \in 1..l : image[b + j] = e[j]
      BY <2>2, <2>3, Zenon
    <3> QED
      BY <3>1, <3>2, <3>3, Zenon
<1> HIDE DEF b, n, d, e
<1>5. ASSUME NEW j \in 0..(l - 1) PROVE At(b + j) = e[j + 1]
  <2>1. b + j < Len(image) /\ j + 1 \in 1..l /\ (b + j) + 1 = b + (j + 1)
    BY <1>2, <1>3, <1>4
  <2>2. At(b + j) = image[b + (j + 1)]
    BY <2>1 DEF At
  <2> QED
    BY <1>3, <2>1, <2>2
<1>6. ASSUME NEW j \in 0..(n - 1) PROVE At(b + j) = list[i].name[j + 1] /\ At(b + j) # 0
  <2>1. j \in 0..(l - 1) /\ j + 1 \in 1..n
    BY <1>2
  <2> QED
    BY <1>2, <1>5, <2>1
<1>7. At(b + n) = 0 /\ At(b + n + 1) = (d % Base) /\ At(b + n + 2) = ((d \div Base) % Base)
  <2>1. n \in 0..(l - 1) /\ n + 1 \in 0..(l - 1) /\ n + 2 \in 0..(l - 1)
    BY <1>2
  <2>2. (n + 1) + 1 = n + 2 /\ (n + 2) + 1 = n + 3 /\ b + (n + 1) = b + n + 1 /\ b + (n + 2) = b + n + 2
    BY <1>2, <1>3
  <2>3. At(b + n) = e[n + 1] /\ At(b + (n + 1)) = e[n + 2] /\ At(b + (n + 2)) = e[n + 3]
    BY <1>5, <2>1, <2>2
  <2>4. At(b + n + 1) = e[n + 2] /\ At(b + n + 2) = e[n + 3]
    BY <2>2, <2>3, Zenon
  <2>5. e[n + 1] = 0 /\ e[n + 2] = (d % Base) /\ e[n + 3] = ((d \div Base) % Base)
    BY <1>2
  <2>6. At(b + n) = 0
    BY <2>3, <2>5, Zenon
  <2>7. At(b + n + 1) = (d % Base)
    BY <2>4, <2>5, Zenon
  <2>8. At(b + n + 2) = ((d \div Base) % Base)
    BY <2>4, <2>5, Zenon
  <2> QED
    BY <2>6, <2>7, <2>8, Zenon
<1>8. ASSUME NEW j \in 1..d PROVE At(b + n + 2 + j) = list[i].data[j]
  <2>0. n \in Nat /\ d \in Nat /\ b \in Nat /\ j \in Nat /\ 1 <= j /\ j <= d
    BY <1>2, <1>3
  <2>1. n + 2 + j \in 0..(l - 1) /\ (n + 2 + j) + 1 = n + 3 + j /\ b + (n + 2 + j) = b + n + 2 + j
    BY <2>0
  <2>2. At(b + (n + 2 + j)) = e[n + 3 + j]
    BY <1>5, <2>1, Zenon
  <2> QED
    BY <1>2, <2>1, <2>2, Zenon
<1>9. a[i + 1] = b + n + 3 + d /\ a[i + 1] < Len(image)
  BY <1>2, <1>3, <1>4
<1> QED
  BY <1>1, <1>2, <1>3, <1>6, <1>7, <1>8, <1>9 DEF b, n, d

\* What the reader finds at the i-th file, and that it goes on to the next.
LEMMA EntryAt ==
  ASSUME list \in Lists, NEW a, Layout(a), NEW i \in Packed, Holds
  PROVE  /\ NameLen(a[i]) = Len(list[i].name) /\ NameAt(a[i]) = list[i].name
         /\ SizeAt(a[i] + Len(list[i].name) + 1) = Len(list[i].data)
         /\ NextEntry(a[i]) = a[i + 1]
<1> DEFINE b == a[i]
           n == Len(list[i].name)
           d == Len(list[i].data)
           m == list[i].name
<1>1. /\ i \in 1..Len(list) /\ b \in Nat /\ n \in Nat \ {0} /\ n <= MaxName /\ d \in Nat
      /\ \A j \in 0..(n - 1) : At(b + j) = m[j + 1] /\ At(b + j) # 0
      /\ At(b + n) = 0
      /\ At(b + n + 1) = (d % Base) /\ At(b + n + 2) = ((d \div Base) % Base)
      /\ a[i + 1] = b + n + 3 + d
  BY BytesAt
<1>2. MaxName \in Nat \ {0} /\ Base \in Nat \ {0}
  BY RomAssumption
<1>3. d < Base * Base
  BY DEF Holds
<1>4. m \in Seq(Nat \ {0})
  BY <1>1, ListIs DEF Files
<1>5. n = Len(m)
  OBVIOUS
<1> HIDE DEF b, n, d, m
<1>6. NameLen(b) = n
  <2>1. n \in 0..MaxName /\ (\A j \in 0..(n - 1) : At(b + j) # 0) /\ At(b + n) = 0
    BY <1>1, <1>2
  <2> QED
    BY <1>1, <2>1, NameLenIs
<1>7. NameAt(b) = m
  <2>1. ASSUME NEW j \in 1..n PROVE At(b + j - 1) = m[j]
    <3>1. j - 1 \in 0..(n - 1) /\ (j - 1) + 1 = j /\ b + (j - 1) = b + j - 1
      BY <1>1
    <3>2. At(b + (j - 1)) = m[(j - 1) + 1]
      BY <1>1, <3>1
    <3> QED
      BY <3>1, <3>2
  <2>2. m = [j \in 1..n |-> m[j]]
    BY <1>4, <1>5
  <2>3. NameAt(b) = [j \in 1..n |-> At(b + j - 1)]
    BY <1>6, Zenon DEF NameAt
  <2> QED
    BY <2>1, <2>2, <2>3, Zenon
<1>8. SizeAt(b + n + 1) = d
  <2>1. (b + n + 1) + 1 = b + n + 2
    BY <1>1
  <2>2. SizeAt(b + n + 1) = (d % Base) + Base * ((d \div Base) % Base)
    BY <1>1, <2>1, Zenon DEF SizeAt
  <2> QED
    BY <1>1, <1>2, <1>3, <2>2, TwoBytes
<1>9. NextEntry(b) = b + n + 3 + d
  BY <1>6, <1>8, Zenon DEF NextEntry
<1> QED
  BY <1>1, <1>6, <1>7, <1>8, <1>9 DEF b, n, d, m

\* Behind the last file is an empty name.
LEMMA EndAt ==
  ASSUME list \in Lists, NEW a, Layout(a)
  PROVE  At(a[Len(list) + 1]) = 0 /\ NameLen(a[Len(list) + 1]) = 0
<1> DEFINE x == a[Len(list) + 1]
<1>1. Len(image) \in Nat \ {0} /\ x = Len(image) - 1 /\ image[Len(image)] = 0
  BY DEF Layout
<1>2. x \in Nat /\ x < Len(image) /\ x + 1 = Len(image)
  BY <1>1
<1>3. At(x) = 0
  BY <1>1, <1>2 DEF At
<1> HIDE DEF x
<1>4. NameLen(x) = 0
  <2>1. 0 \in 0..MaxName /\ x + 0 = x /\ 0..(0 - 1) = {}
    BY <1>2, RomAssumption
  <2>2. At(x + 0) = 0 /\ \A j \in 0..(0 - 1) : At(x + j) # 0
    BY <1>3, <2>1
  <2> QED
    BY <1>2, <2>1, <2>2, NameLenIs
<1> QED
  BY <1>3, <1>4 DEF x

-----------------------------------------------------------------------------
(* What romfs finds                                                        *)

\* Downward from the end of the list: what holds there, and in front of every file when
\* it holds behind it, holds at the beginning.
LEMMA Backwards ==
  ASSUME NEW n \in Nat, NEW P \in SUBSET (1..(n + 1)), n + 1 \in P,
         \A i \in 1..n : i + 1 \in P => i \in P
  PROVE  1 \in P
<1> DEFINE T == {m \in Nat : m <= n => (n + 1) - m \in P}
<1>1. 0 \in T
  OBVIOUS
<1>2. ASSUME NEW m \in T PROVE m + 1 \in T
  <2> SUFFICES ASSUME m + 1 <= n PROVE (n + 1) - (m + 1) \in P
    OBVIOUS
  <2>1. (n + 1) - m \in P
    OBVIOUS
  <2>2. (n + 1) - (m + 1) \in 1..n /\ ((n + 1) - (m + 1)) + 1 = (n + 1) - m
    OBVIOUS
  <2> QED
    BY <2>1, <2>2
<1>3. T \in SUBSET Nat
  OBVIOUS
<1> HIDE DEF T
<1>4. n \in T
  BY <1>1, <1>2, <1>3, Induction
<1>5. (n + 1) - n \in P /\ (n + 1) - n = 1
  BY <1>4 DEF T
<1> QED
  BY <1>5

Wanted(name) == {i \in Packed : SameName(name, list[i].name)}

\* romfs_open_file goes from entry to entry.
FindStep(u, name) ==
  \A x \in 0..Len(image) :
    u[x] = IF NameLen(x) = 0 THEN NoEntry
           ELSE IF SameName(name, NameAt(x)) THEN x
           ELSE IF NextEntry(x) <= Len(image) THEN u[NextEntry(x)] ELSE NoEntry

LEMMA FindWalks ==
  ASSUME image \in Seq(Nat), NEW name
  PROVE  \E u : Find(name) = u[0] /\ FindStep(u, name)
<1> DEFINE z == Len(image)
           Stops(x) == NameLen(x) = 0 \/ SameName(name, NameAt(x))
           next == [x \in 0..z |-> IF Stops(x) THEN z + 1 ELSE NextEntry(x)]
           e == [x \in 0..z |-> IF NameLen(x) = 0 THEN NoEntry
                                ELSE IF SameName(name, NameAt(x)) THEN x ELSE NoEntry]
           u == CHOOSE f : f = [addr \in 0..Len(image) |->
                  IF NameLen(addr) = 0 THEN NoEntry
                  ELSE IF SameName(name, NameAt(addr)) THEN addr
                  ELSE IF NextEntry(addr) <= Len(image) THEN f[NextEntry(addr)] ELSE NoEntry]
<1>1. Find(name) = u[0]
  BY DEF Find
<1>2. z \in Nat /\ image \in Seq(Nat)
  OBVIOUS
<1>3. ASSUME NEW x \in 0..z PROVE NextEntry(x) \in Nat /\ x < NextEntry(x)
  <2>1. x \in Nat /\ NameLen(x) \in Nat
    BY NameLenNat, RomAssumption
  <2>2. x + NameLen(x) + 1 \in Nat
    BY <2>1
  <2>3. SizeAt(x + NameLen(x) + 1) \in Nat
    BY <1>2, <2>2, AtNat
  <2> QED
    BY <2>1, <2>3 DEF NextEntry
<1>4. \A x \in 0..z : next[x] \in Nat /\ x < next[x]
  <2> HIDE DEF Stops
  <2> QED
    BY <1>2, <1>3
<1>5. PICK f : Walks(f, z, next, e, e, FALSE)
  <2> HIDE DEF z, next, e
  <2> QED
    BY <1>2, <1>4, WalkExists
<1>6. f = [x \in 0..z |-> IF next[x] <= z THEN f[next[x]] ELSE e[x]]
  <2> HIDE DEF z, next, e
  <2> QED
    BY <1>5 DEF Walks
<1>7. ASSUME NEW x \in 0..z
      PROVE  (IF next[x] <= z THEN f[next[x]] ELSE e[x])
               = (IF NameLen(x) = 0 THEN NoEntry
                  ELSE IF SameName(name, NameAt(x)) THEN x
                  ELSE IF NextEntry(x) <= z THEN f[NextEntry(x)] ELSE NoEntry)
  <2>1. ~(z + 1 <= z)
    BY <1>2
  <2>2. CASE Stops(x)
    <3>1. next[x] = z + 1
      BY <2>2
    <3>2. e[x] = IF NameLen(x) = 0 THEN NoEntry
                 ELSE IF SameName(name, NameAt(x)) THEN x ELSE NoEntry
      OBVIOUS
    <3> HIDE DEF next, e
    <3> QED
      BY <2>1, <2>2, <3>1, <3>2
  <2>3. CASE ~Stops(x)
    <3>1. next[x] = NextEntry(x) /\ NameLen(x) # 0 /\ ~SameName(name, NameAt(x))
      BY <2>3
    <3>2. e[x] = NoEntry
      BY <3>1
    <3> HIDE DEF next, e
    <3> QED
      BY <3>1, <3>2, Zenon
  <2> QED
    BY <2>2, <2>3
<1>8. f = [x \in 0..z |-> IF NameLen(x) = 0 THEN NoEntry
                          ELSE IF SameName(name, NameAt(x)) THEN x
                          ELSE IF NextEntry(x) <= z THEN f[NextEntry(x)] ELSE NoEntry]
  <2> HIDE DEF next, e, z
  <2> QED
    BY <1>6, <1>7, Zenon
<1>9. u = [x \in 0..z |-> IF NameLen(x) = 0 THEN NoEntry
                          ELSE IF SameName(name, NameAt(x)) THEN x
                          ELSE IF NextEntry(x) <= z THEN u[NextEntry(x)] ELSE NoEntry]
  BY <1>8, Zenon
<1> HIDE DEF u, next, e, z
<1>10. ASSUME NEW x \in 0..z
       PROVE  u[x] = IF NameLen(x) = 0 THEN NoEntry
                     ELSE IF SameName(name, NameAt(x)) THEN x
                     ELSE IF NextEntry(x) <= z THEN u[NextEntry(x)] ELSE NoEntry
  BY <1>9, Zenon
<1> QED
  BY <1>1, <1>10, Zenon DEF FindStep, z

\* What it returns is an address or NoEntry.
LEMMA FindRange ==
  ASSUME image \in Seq(Nat), NEW name
  PROVE  Find(name) \in Nat \cup {NoEntry}
<1>1. PICK u : Find(name) = u[0] /\ FindStep(u, name)
  BY FindWalks
<1> DEFINE z == Len(image)
           D == Nat \cup {NoEntry}
           T == {m \in Nat : \A x \in 0..z : z <= x + m => u[x] \in D}
<1>2. z \in Nat
  OBVIOUS
<1>3. ASSUME NEW x \in 0..z
      PROVE  /\ x \in Nat /\ NextEntry(x) \in Nat /\ x < NextEntry(x)
             /\ u[x] \in D \/ (NextEntry(x) <= z /\ u[x] = u[NextEntry(x)])
  <2>1. x \in Nat /\ NameLen(x) \in Nat
    BY NameLenNat, RomAssumption
  <2>2. x + NameLen(x) + 1 \in Nat
    BY <2>1
  <2>3. SizeAt(x + NameLen(x) + 1) \in Nat
    BY <2>2, AtNat
  <2>4. NextEntry(x) \in Nat /\ x < NextEntry(x)
    BY <2>1, <2>3 DEF NextEntry
  <2>5. u[x] = IF NameLen(x) = 0 THEN NoEntry
               ELSE IF SameName(name, NameAt(x)) THEN x
               ELSE IF NextEntry(x) <= z THEN u[NextEntry(x)] ELSE NoEntry
    BY <1>1 DEF FindStep
  <2> HIDE DEF z
  <2>6. u[x] \in D \/ (NextEntry(x) <= z /\ u[x] = u[NextEntry(x)])
    BY <2>1, <2>5
  <2> QED
    BY <2>1, <2>4, <2>6
<1> HIDE DEF z, D
<1>4. 0 \in T
  BY <1>2, <1>3
<1>5. ASSUME NEW m \in T PROVE m + 1 \in T
  <2>1. ASSUME NEW x \in 0..z, z <= x + (m + 1) PROVE u[x] \in D
    <3>1. NextEntry(x) <= z => NextEntry(x) \in 0..z /\ z <= NextEntry(x) + m
      BY <1>2, <1>3, <2>1
    <3>2. NextEntry(x) <= z => u[NextEntry(x)] \in D
      BY <3>1
    <3> QED
      BY <1>3, <3>2
  <2> QED
    BY <2>1
<1>6. T \in SUBSET Nat
  OBVIOUS
<1> HIDE DEF T
<1>7. z \in T
  BY <1>2, <1>4, <1>5, <1>6, Induction
<1>8. u[0] \in D
  BY <1>2, <1>7 DEF T
<1> QED
  BY <1>1, <1>8 DEF D

\* It finds the file of that name, if there is one.
LEMMA FindIs ==
  ASSUME list \in Lists, NEW a, Layout(a), Holds, NEW name
  PROVE  /\ \A i \in Wanted(name) : Find(name) = a[i]
         /\ Wanted(name) = {} => Find(name) = NoEntry
<1> DEFINE z == Len(image)
<1>2. z \in Nat /\ image \in Seq(Nat)
  BY DEF Layout
<1>1. PICK u : Find(name) = u[0] /\ FindStep(u, name)
  BY <1>2, FindWalks
<1>10. ASSUME NEW x \in 0..z
       PROVE  u[x] = IF NameLen(x) = 0 THEN NoEntry
                     ELSE IF SameName(name, NameAt(x)) THEN x
                     ELSE IF NextEntry(x) <= z THEN u[NextEntry(x)] ELSE NoEntry
  BY <1>1 DEF FindStep
<1> HIDE DEF z
<1> DEFINE n == Len(list)
           P == {i \in 1..(n + 1) :
                   /\ \A k \in Wanted(name) : i <= k => u[a[i]] = a[k]
                   /\ (\A k \in Wanted(name) : ~(i <= k)) => u[a[i]] = NoEntry}
<1>11. n \in Nat /\ \A k \in Packed : k \in 1..n
  BY ListIs
<1>12. \A i \in 1..(n + 1) : a[i] \in 0..z
  BY DEF Layout, z
<1>13. n + 1 \in P
  <2>1. u[a[n + 1]] = NoEntry
    <3>1. n + 1 \in 1..(n + 1)
      BY <1>11
    <3>2. a[n + 1] \in 0..z
      BY <1>12, <3>1
    <3> QED
      BY <1>10, <3>2, EndAt
  <2>2. \A k \in Wanted(name) : ~(n + 1 <= k)
    BY <1>11 DEF Wanted
  <2> QED
    BY <1>11, <2>1, <2>2
<1>14. ASSUME NEW i \in 1..n, i + 1 \in P PROVE i \in P
  <2>0. i \in 1..(n + 1) /\ i + 1 \in 1..(n + 1)
    BY <1>11
  <2>1. /\ \A k \in Wanted(name) : i + 1 <= k => u[a[i + 1]] = a[k]
        /\ (\A k \in Wanted(name) : ~(i + 1 <= k)) => u[a[i + 1]] = NoEntry
    BY <1>14
  <2>2. \A k \in Wanted(name) : k \in Nat /\ (i <= k <=> i = k \/ i + 1 <= k)
    BY <1>11 DEF Wanted
  <2>3. CASE i \in Wanted(name)
    <3>1. i \in Packed /\ SameName(name, list[i].name)
      BY <2>3 DEF Wanted
    <3>2. NameLen(a[i]) # 0 /\ NameAt(a[i]) = list[i].name
      <4>1. NameLen(a[i]) = Len(list[i].name) /\ NameAt(a[i]) = list[i].name
        BY <3>1, EntryAt
      <4>2. Len(list[i].name) # 0
        BY <3>1, BytesAt
      <4> QED
        BY <4>1, <4>2
    <3>3. u[a[i]] = a[i]
      BY <1>10, <1>12, <2>0, <3>1, <3>2
    <3>4. \A k \in Wanted(name) : k = i
      BY <3>1 DEF Wanted, Holds, SameName
    <3> QED
      BY <2>0, <2>3, <3>3, <3>4
  <2>4. CASE i \notin Wanted(name)
    <3>1. u[a[i]] = u[a[i + 1]]
      <4>1. CASE i \notin Packed
        <5>1. a[i + 1] = a[i]
          BY <4>1 DEF Layout
        <5> QED
          BY <5>1
      <4>2. CASE i \in Packed
        <5>1. ~SameName(name, list[i].name)
          BY <2>4, <4>2 DEF Wanted
        <5>2. NameLen(a[i]) = Len(list[i].name) /\ NameAt(a[i]) = list[i].name
              /\ NextEntry(a[i]) = a[i + 1]
          BY <4>2, EntryAt
        <5>3. Len(list[i].name) # 0
          BY <4>2, BytesAt
        <5>4. a[i] \in 0..z /\ a[i + 1] <= z
          BY <1>2, <1>12, <2>0
        <5> QED
          BY <1>10, <5>1, <5>2, <5>3, <5>4
      <4> QED
        BY <4>1, <4>2
    <3>2. \A k \in Wanted(name) : i <= k <=> i + 1 <= k
      BY <2>2, <2>4
    <3> QED
      BY <2>0, <2>1, <3>1, <3>2
  <2> QED
    BY <2>3, <2>4
<1>15. 1 \in P
  <2>1. P \in SUBSET (1..(n + 1))
    OBVIOUS
  <2> HIDE DEF P, n
  <2> QED
    BY <1>11, <1>13, <1>14, <2>1, Backwards
<1>16. a[1] = 0
  BY DEF Layout
<1>17. \A k \in Wanted(name) : 1 <= k
  BY <1>11 DEF Wanted
<1> QED
  BY <1>1, <1>15, <1>16, <1>17

\* romfs_get_dir_entry: the end of the name, the entry and where the next one is
Ends(x)  == Min({j \in x..(Len(image) + 1) : j >= Len(image) \/ At(j) = 0})
After(x) == Ends(x) + 3 + SizeAt(Ends(x) + 1)
Row(x)   == <<[name |-> [j \in 1..(Ends(x) - x) |-> At(x + j - 1)], size |-> SizeAt(Ends(x) + 1)]>>
RowOf(i) == <<[name |-> list[i].name, size |-> Len(list[i].data)]>>
Rows     == {[name |-> list[i].name, size |-> Len(list[i].data)] : i \in Packed}

LEMMA EndsNat ==
  ASSUME image \in Seq(Nat), NEW x \in 0..Len(image)
  PROVE  Ends(x) \in Nat /\ x <= Ends(x)
<1> DEFINE ends == {j \in x..(Len(image) + 1) : j >= Len(image) \/ At(j) = 0}
<1>1. Len(image) \in Nat
  OBVIOUS
<1>2. ends \in SUBSET Nat /\ Len(image) \in ends /\ \A j \in ends : x <= j
  BY <1>1
<1>3. Ends(x) = Min(ends)
  BY DEF Ends
<1> HIDE DEF ends
<1>4. PICK m \in ends : \A y \in ends : m <= y
  BY <1>2, Least
<1>5. Min(ends) = m
  BY <1>2, <1>4, MinIs
<1> QED
  BY <1>2, <1>3, <1>4, <1>5

LEMMA RowAt ==
  ASSUME list \in Lists, NEW a, Layout(a), NEW i \in Packed, Holds
  PROVE  At(a[i]) # 0 /\ Row(a[i]) = RowOf(i) /\ After(a[i]) = a[i + 1]
<1> DEFINE b == a[i]
           n == Len(list[i].name)
           d == Len(list[i].data)
           m == list[i].name
           ends == {j \in b..(Len(image) + 1) : j >= Len(image) \/ At(j) = 0}
<1>1. /\ b \in Nat /\ n \in Nat \ {0} /\ d \in Nat
      /\ \A j \in 0..(n - 1) : At(b + j) = m[j + 1] /\ At(b + j) # 0
      /\ At(b + n) = 0
      /\ a[i + 1] = b + n + 3 + d /\ a[i + 1] < Len(image)
  BY BytesAt
<1>2. NameAt(b) = m /\ NameLen(b) = n /\ SizeAt(b + n + 1) = d /\ NextEntry(b) = a[i + 1]
  BY EntryAt
<1>3. Len(image) \in Nat
  BY DEF Layout
<1>4. Ends(b) = Min(ends)
  BY DEF Ends
<1>5. RowOf(i) = <<[name |-> m, size |-> d]>>
  BY DEF RowOf
<1> HIDE DEF b, n, d, m
<1>6. b + n \in ends
  BY <1>1, <1>3
<1>7. ASSUME NEW j \in ends PROVE b + n <= j
  <2> SUFFICES ASSUME j < b + n PROVE FALSE
    BY <1>1, <1>3
  <2>1. j - b \in 0..(n - 1) /\ b + (j - b) = j /\ j < Len(image)
    BY <1>1, <1>3
  <2>2. At(b + (j - b)) # 0
    BY <1>1, <2>1
  <2> QED
    BY <1>3, <2>1, <2>2
<1>8. ends \in SUBSET Nat
  BY <1>1, <1>3
<1> HIDE DEF ends
<1>9. Ends(b) = b + n
  BY <1>4, <1>6, <1>7, <1>8, MinIs
<1>10. After(b) = a[i + 1]
  BY <1>1, <1>2, <1>9, Zenon DEF After
<1>11. At(b) # 0
  <2>1. 0 \in 0..(n - 1) /\ b + 0 = b
    BY <1>1
  <2> QED
    BY <1>1, <2>1
<1>12. [j \in 1..(Ends(b) - b) |-> At(b + j - 1)] = NameAt(b)
  <2>1. (b + n) - b = n
    BY <1>1
  <2> QED
    BY <1>2, <1>9, <2>1, Zenon DEF NameAt
<1>13. Row(b) = RowOf(i)
  BY <1>2, <1>5, <1>9, <1>12, Zenon DEF Row
<1> QED
  BY <1>10, <1>11, <1>13 DEF b

\* ls shows the packed files.
LEMMA DirectoryIs ==
  ASSUME list \in Lists, NEW a, Layout(a), Holds
  PROVE  Directory = Listing
<1> DEFINE z == Len(image)
           next == [x \in 0..z |-> IF At(x) = 0 THEN z + 1 ELSE After(x)]
           d == [x \in 0..z |-> Row(x)]
           e == [x \in 0..z |-> IF At(x) = 0 THEN <<>> ELSE Row(x) \o <<>>]
           u == CHOOSE f : f = [addr \in 0..Len(image) |->
                  IF At(addr) = 0 THEN <<>>
                  ELSE LET ends == Min({j \in addr..(Len(image) + 1) :
                                          j >= Len(image) \/ At(j) = 0})
                           nxt  == ends + 3 + SizeAt(ends + 1)
                       IN <<[name |-> [j \in 1..(ends - addr) |-> At(addr + j - 1)],
                             size |-> SizeAt(ends + 1)]>>
                          \o (IF nxt <= Len(image) THEN f[nxt] ELSE <<>>)]
<1>1. Directory = u[0]
  BY DEF Directory
<1>2. z \in Nat /\ image \in Seq(Nat)
  BY DEF Layout
<1>3. ASSUME NEW x \in 0..z PROVE After(x) \in Nat /\ x < After(x)
  <2>1. x \in Nat /\ Ends(x) \in Nat /\ x <= Ends(x)
    BY <1>2, EndsNat
  <2>2. Ends(x) + 1 \in Nat
    BY <2>1
  <2>3. SizeAt(Ends(x) + 1) \in Nat
    BY <1>2, <2>2, AtNat
  <2> QED
    BY <2>1, <2>3 DEF After
<1>4. \A x \in 0..z : next[x] \in Nat /\ x < next[x]
  BY <1>2, <1>3
<1>5. PICK f : Walks(f, z, next, e, d, TRUE)
  <2> HIDE DEF z, next, e, d
  <2> QED
    BY <1>2, <1>4, WalkExists
<1>6. f = [x \in 0..z |-> IF next[x] <= z THEN d[x] \o f[next[x]] ELSE e[x]]
  <2> HIDE DEF z, next, e, d
  <2> QED
    BY <1>5 DEF Walks
<1>7. ASSUME NEW x \in 0..z
      PROVE  (IF next[x] <= z THEN d[x] \o f[next[x]] ELSE e[x])
               = (IF At(x) = 0 THEN <<>>
                  ELSE Row(x) \o (IF After(x) <= z THEN f[After(x)] ELSE <<>>))
  <2>1. ~(z + 1 <= z)
    BY <1>2
  <2>2. CASE At(x) = 0
    <3>1. next[x] = z + 1 /\ e[x] = <<>>
      BY <2>2
    <3> HIDE DEF next, e, d
    <3> QED
      BY <2>1, <2>2, <3>1, Zenon
  <2>3. CASE At(x) # 0
    <3>1. next[x] = After(x) /\ e[x] = Row(x) \o <<>> /\ d[x] = Row(x)
      BY <2>3
    <3> HIDE DEF next, e, d
    <3> QED
      BY <2>3, <3>1, Zenon
  <2> QED
    BY <2>2, <2>3
<1>8. f = [x \in 0..z |-> IF At(x) = 0 THEN <<>>
                          ELSE Row(x) \o (IF After(x) <= z THEN f[After(x)] ELSE <<>>)]
  <2> HIDE DEF next, e, d, z
  <2> QED
    BY <1>6, <1>7, Zenon
<1>9. u = [x \in 0..z |-> IF At(x) = 0 THEN <<>>
                          ELSE Row(x) \o (IF After(x) <= z THEN u[After(x)] ELSE <<>>)]
  BY <1>8, Zenon DEF Row, After, Ends
<1> HIDE DEF u, next, e, d, z
<1>10. ASSUME NEW x \in 0..z
       PROVE  u[x] = IF At(x) = 0 THEN <<>>
                     ELSE Row(x) \o (IF After(x) <= z THEN u[After(x)] ELSE <<>>)
  BY <1>9, Zenon
<1> DEFINE n == Len(list)
           p == [i \in 1..n |-> IF i \in Packed THEN RowOf(i) ELSE <<>>]
           w == CHOOSE g : g = [i \in 0..n |->
                  IF i = 0 THEN <<>>
                  ELSE g[i - 1] \o (IF i \in Packed
                                    THEN <<[name |-> list[i].name, size |-> Len(list[i].data)]>>
                                    ELSE <<>>)]
<1>11. n \in Nat /\ \A k \in Packed : k \in 1..n
  BY ListIs
<1>12. \A i \in 1..n : p[i] \in Seq(Rows)
  <2>1. \A i \in Packed : RowOf(i) \in Seq(Rows)
    BY DEF RowOf, Rows
  <2> QED
    BY <2>1
<1>13. Listing = w[n]
  BY DEF Listing
<1>14. Appends(w, n, p)
  <2>1. PICK g : Appends(g, n, p)
    <3> HIDE DEF n, p
    <3> QED
      BY <1>11, <1>12, AppendsExists
  <2>2. g = [i \in 0..n |-> IF i = 0 THEN <<>> ELSE g[i - 1] \o p[i]]
    BY <2>1 DEF Appends
  <2>3. \A i \in 0..n : i # 0 => p[i] = IF i \in Packed THEN RowOf(i) ELSE <<>>
    BY <1>11
  <2>4. g = [i \in 0..n |-> IF i = 0 THEN <<>>
                ELSE g[i - 1] \o (IF i \in Packed THEN RowOf(i) ELSE <<>>)]
    <3> HIDE DEF p, n
    <3> QED
      BY <2>2, <2>3
  <2>5. w = [i \in 0..n |-> IF i = 0 THEN <<>>
                ELSE w[i - 1] \o (IF i \in Packed THEN RowOf(i) ELSE <<>>)]
    BY <2>4, Zenon DEF RowOf
  <2>6. w = [i \in 0..n |-> IF i = 0 THEN <<>> ELSE w[i - 1] \o p[i]]
    <3> HIDE DEF w, p, n
    <3> QED
      BY <2>3, <2>5
  <2> QED
    BY <2>6 DEF Appends
<1>15. \A i \in 1..n : p[i] = IF i \in Packed THEN RowOf(i) ELSE <<>>
  OBVIOUS
<1> HIDE DEF w, p
<1>16. /\ \A i \in 0..n : w[i] \in Seq(Rows)
       /\ w[0] = <<>> /\ \A i \in 1..n : w[i] = w[i - 1] \o p[i]
  <2>1. n \in Nat /\ (\A i \in 1..n : p[i] \in Seq(Rows)) /\ Appends(w, n, p)
    BY <1>11, <1>12, <1>14
  <2> HIDE DEF n
  <2>2. Appended(w, n, p, Rows)
    BY <2>1, AppendsIs
  <2> QED
    BY <2>2, Zenon DEF Appended
<1> DEFINE P == {i \in 1..(n + 1) : u[a[i]] \in Seq(Rows) /\ w[i - 1] \o u[a[i]] = w[n]}
<1>17. \A i \in 1..(n + 1) : a[i] \in 0..z
  BY DEF Layout, z
<1>18. n + 1 \in P
  <2>1. n + 1 \in 1..(n + 1) /\ (n + 1) - 1 = n /\ n \in 0..n
    BY <1>11
  <2>2. a[n + 1] \in 0..z
    BY <1>17, <2>1
  <2>3. u[a[n + 1]] = <<>>
    BY <1>10, <2>2, EndAt
  <2>4. w[n] \in Seq(Rows)
    BY <1>16, <2>1
  <2>5. w[n] \o <<>> = w[n] /\ <<>> \in Seq(Rows)
    BY <2>4
  <2> QED
    BY <2>1, <2>3, <2>5
<1>19. ASSUME NEW i \in 1..n, i + 1 \in P PROVE i \in P
  <2>0. i \in 1..(n + 1) /\ i + 1 \in 1..(n + 1) /\ (i + 1) - 1 = i /\ i - 1 \in 0..n
    BY <1>11
  <2>1. u[a[i + 1]] \in Seq(Rows) /\ w[i] \o u[a[i + 1]] = w[n]
    BY <1>19, <2>0
  <2>2. w[i] = w[i - 1] \o p[i] /\ w[i - 1] \in Seq(Rows)
    BY <1>16, <2>0
  <2>3. CASE i \notin Packed
    <3>1. a[i + 1] = a[i]
      BY <2>3 DEF Layout
    <3>2. p[i] = <<>>
      BY <1>15, <2>3
    <3>3. w[i] = w[i - 1]
      BY <2>2, <3>2
    <3> QED
      BY <2>0, <2>1, <3>1, <3>3
  <2>4. CASE i \in Packed
    <3>1. At(a[i]) # 0 /\ Row(a[i]) = RowOf(i) /\ After(a[i]) = a[i + 1]
      BY <2>4, RowAt
    <3>2. a[i] \in 0..z /\ a[i + 1] <= z
      BY <1>2, <1>17, <2>0 DEF z
    <3>3. u[a[i]] = RowOf(i) \o u[a[i + 1]]
      BY <1>10, <3>1, <3>2, Zenon
    <3>4. RowOf(i) \in Seq(Rows)
      BY <2>4 DEF RowOf, Rows
    <3>5. p[i] = RowOf(i)
      BY <1>15, <2>4
    <3> DEFINE x == w[i - 1]
               y == RowOf(i)
               v == u[a[i + 1]]
    <3>6. x \in Seq(Rows) /\ y \in Seq(Rows) /\ v \in Seq(Rows)
      BY <2>1, <2>2, <3>4
    <3>7. (x \o y) \o v = w[n] /\ u[a[i]] = y \o v
      BY <2>1, <2>2, <3>3, <3>5, Zenon
    <3> HIDE DEF x, y, v
    <3>8. y \o v \in Seq(Rows) /\ x \o (y \o v) = (x \o y) \o v
      BY <3>6
    <3>9. u[a[i]] \in Seq(Rows) /\ x \o u[a[i]] = w[n]
      BY <3>7, <3>8, Zenon
    <3> QED
      BY <2>0, <3>9 DEF x
  <2> QED
    BY <2>3, <2>4
<1>20. 1 \in P
  <2>1. P \in SUBSET (1..(n + 1))
    OBVIOUS
  <2> HIDE DEF P, n
  <2> QED
    BY <1>11, <1>18, <1>19, <2>1, Backwards
<1>21. a[1] = 0 /\ 1 - 1 = 0
  BY DEF Layout
<1>22. u[0] \in Seq(Rows) /\ w[0] \o u[0] = w[n]
  BY <1>20, <1>21
<1>23. w[0] \o u[0] = u[0]
  BY <1>16, <1>22
<1> QED
  BY <1>1, <1>13, <1>22, <1>23, Zenon

-----------------------------------------------------------------------------
(* The invariant: an open file has a descriptor of its own, on that file   *)

Entries == [base : Nat, offset : Nat, size : Nat, used : {TRUE, FALSE}]
Views   == [fd : 0..MaxFds, name : Asked \cup {<<>>}, pos : Nat]
Used    == {fd \in Fds : table[fd].used}
Opened  == {h \in Fds : view[h].fd # 0}

TypeOK ==
  /\ list \in Lists /\ image = Mkfs(list)
  /\ table \in [Fds -> Entries] /\ view \in [Fds -> Views]
  /\ num = Cardinality(Used) /\ num = Cardinality(Opened)

\* the descriptor of an open file is used, for no other one
OwnFd ==
  /\ \A h \in Opened : table[view[h].fd].used
  /\ \A g, h \in Opened : view[g].fd = view[h].fd => g = h

\* the data of the i-th file are those behind address b
DataAt(b, i) == \A j \in 1..Len(list[i].data) : At(b + j - 1) = list[i].data[j]

\* it stands where the program is, in the data of the file of that name
InFile ==
  \A h \in Opened :
    LET e == table[view[h].fd] IN
    /\ e.offset = view[h].pos /\ e.offset <= e.size
    /\ Holds => \A i \in Wanted(view[h].name) :
                  e.size = Len(list[i].data) /\ DataAt(e.base, i)

IInv == TypeOK /\ OwnFd /\ InFile

\* The first of Fds that is not taken is one that is not taken.
LEMMA FirstFree ==
  ASSUME NEW S \in SUBSET Fds, Cardinality(S) # MaxFds
  PROVE  Min({x \in Fds : x \notin S}) \in Fds \ S
<1> DEFINE free == {x \in Fds : x \notin S}
<1>1. Cardinality(Fds) = MaxFds
  <2>1. MaxFds \in Nat /\ 1 \in Int /\ MaxFds \in Int
    BY RomAssumption
  <2>2. Cardinality(1..MaxFds) = IF 1 > MaxFds THEN 0 ELSE MaxFds - 1 + 1
    BY <2>1, FS_Interval
  <2> QED
    BY <2>1, <2>2, RomAssumption DEF Fds
<1>2. S # Fds
  BY <1>1
<1>3. free # {}
  BY <1>2
<1>4. free \in SUBSET Nat
  BY DEF Fds
<1>5. \A x \in free : x \in Fds \ S
  OBVIOUS
<1> HIDE DEF free
<1>6. PICK m \in free : \A y \in free : m <= y
  BY <1>3, <1>4, Least
<1>7. Min(free) = m
  BY <1>4, <1>6, MinIs
<1> QED
  BY <1>5, <1>6, <1>7 DEF free

LEMMA FdsFinite ==
  ASSUME NEW S \in SUBSET Fds
  PROVE  /\ IsFiniteSet(S) /\ Cardinality(S) \in Nat /\ Cardinality(S) <= MaxFds
         /\ \A x \in S : Cardinality(S \ {x}) = Cardinality(S) - 1
         /\ \A x : x \notin S => Cardinality(S \cup {x}) = Cardinality(S) + 1
<1>1. IsFiniteSet(Fds) /\ Cardinality(Fds) = MaxFds
  <2>1. MaxFds \in Nat \ {0} /\ 1 \in Int /\ MaxFds \in Int
    BY RomAssumption
  <2>2. IsFiniteSet(1..MaxFds) /\ Cardinality(1..MaxFds) = IF 1 > MaxFds THEN 0 ELSE MaxFds - 1 + 1
    BY <2>1, FS_Interval
  <2> QED
    BY <2>1, <2>2 DEF Fds
<1>2. IsFiniteSet(S) /\ Cardinality(S) <= Cardinality(Fds)
  BY <1>1, FS_Subset
<1>3. Cardinality(S) \in Nat
  BY <1>2, FS_CardinalityType
<1>4. ASSUME NEW x \in S PROVE Cardinality(S \ {x}) = Cardinality(S) - 1
  BY <1>2, FS_RemoveElement
<1>5. ASSUME NEW x, x \notin S PROVE Cardinality(S \cup {x}) = Cardinality(S) + 1
  BY <1>2, <1>5, FS_AddElement
<1> QED
  BY <1>1, <1>2, <1>3, <1>4, <1>5

\* What depends on the list and the image stays as it is.
LEMMA Still ==
  ASSUME list' = list, image' = image
  PROVE  /\ Holds' <=> Holds
         /\ \A name : Wanted(name)' = Wanted(name)
         /\ \A b, i : DataAt(b, i)' <=> DataAt(b, i)
         /\ Mkfs(list)' = Mkfs(list)
<1>1. Packed' = Packed
  BY DEF Packed, Kept
<1>2. Holds' <=> Holds
  BY <1>1 DEF Holds
<1>3. \A name : Wanted(name)' = Wanted(name)
  BY <1>1 DEF Wanted
<1>4. \A x : At(x)' = At(x)
  BY DEF At
<1>5. \A b, i : DataAt(b, i)' <=> DataAt(b, i)
  BY <1>4 DEF DataAt
<1> QED
  BY <1>2, <1>3, <1>5

LEMMA Starts ==
  ASSUME Init
  PROVE  IInv
<1>1. list \in Lists /\ image = Mkfs(list)
  BY DEF Init
<1>2. MaxFds \in Nat
  BY RomAssumption
<1>3. table \in [Fds -> Entries] /\ view \in [Fds -> Views]
  BY <1>2 DEF Init, Entries, Views, Free, NoView
<1>4. Used = {} /\ Opened = {}
  BY DEF Init, Used, Opened, Free, NoView
<1>5. num = Cardinality(Used) /\ num = Cardinality(Opened)
  <2>1. num = 0
    BY DEF Init
  <2> QED
    BY <1>4, <2>1, FS_EmptySet
<1> QED
  BY <1>1, <1>3, <1>4, <1>5 DEF IInv, TypeOK, OwnFd, InFile

\* What changes in neither table nor view keeps the invariant.
LEMMA Stands ==
  ASSUME IInv, UNCHANGED <<list, image, table, num, view>>
  PROVE  IInv'
<1>1. Used' = Used /\ Opened' = Opened
  BY DEF Used, Opened
<1>2. TypeOK'
  BY <1>1, Still DEF IInv, TypeOK
<1>3. OwnFd'
  BY <1>1 DEF IInv, OwnFd
<1>4. InFile'
  BY <1>1, Still DEF IInv, InFile
<1> QED
  BY <1>2, <1>3, <1>4 DEF IInv

\* A file is moved in.
LEMMA Moves ==
  ASSUME IInv, NEW h \in Opened, NEW p \in Nat, p <= table[view[h].fd].size,
         table' = [table EXCEPT ![view[h].fd].offset = p],
         view' = [view EXCEPT ![h].pos = p], UNCHANGED <<list, image, num>>
  PROVE  IInv'
<1> DEFINE fd == view[h].fd
<1>1. h \in Fds /\ fd \in Fds
  BY RomAssumption DEF Opened, Fds, IInv, TypeOK, Views
<1>2. table \in [Fds -> Entries] /\ view \in [Fds -> Views]
  BY DEF IInv, TypeOK
<1> HIDE DEF fd
<1>3. table' = [table EXCEPT ![fd].offset = p]
  BY DEF fd
<1>4. /\ table' \in [Fds -> Entries] /\ view' \in [Fds -> Views]
      /\ \A x \in Fds : /\ table'[x].used = table[x].used /\ table'[x].base = table[x].base
                        /\ table'[x].size = table[x].size
                        /\ table'[x].offset = IF x = fd THEN p ELSE table[x].offset
      /\ \A g \in Fds : /\ view'[g].fd = view[g].fd /\ view'[g].name = view[g].name
                        /\ view'[g].pos = IF g = h THEN p ELSE view[g].pos
  <2> DEFINE r == [table[fd] EXCEPT !.offset = p]
             v == [view[h] EXCEPT !.pos = p]
  <2>1. r \in Entries /\ r.used = table[fd].used /\ r.base = table[fd].base
        /\ r.size = table[fd].size /\ r.offset = p
    BY <1>1, <1>2 DEF Entries
  <2>2. v \in Views /\ v.fd = view[h].fd /\ v.name = view[h].name /\ v.pos = p
    BY <1>1, <1>2 DEF Views
  <2>3. table' = [table EXCEPT ![fd] = r] /\ view' = [view EXCEPT ![h] = v]
    BY <1>3
  <2> HIDE DEF r, v
  <2>4. table' \in [Fds -> Entries] /\ view' \in [Fds -> Views]
    BY <1>2, <2>1, <2>2, <2>3
  <2>5. \A x \in Fds : table'[x] = IF x = fd THEN r ELSE table[x]
    BY <1>2, <2>3
  <2>6. \A g \in Fds : view'[g] = IF g = h THEN v ELSE view[g]
    BY <1>2, <2>3
  <2>7. ASSUME NEW x \in Fds
        PROVE  /\ table'[x].used = table[x].used /\ table'[x].base = table[x].base
               /\ table'[x].size = table[x].size
               /\ table'[x].offset = IF x = fd THEN p ELSE table[x].offset
    <3>1. CASE x = fd
      <4>1. table'[x] = r /\ table[x] = table[fd]
        BY <2>5, <3>1
      <4> QED
        BY <2>1, <3>1, <4>1
    <3>2. CASE x # fd
      <4>1. table'[x] = table[x]
        BY <2>5, <3>2
      <4>2. /\ table'[x].used = table[x].used /\ table'[x].base = table[x].base
            /\ table'[x].size = table[x].size /\ table'[x].offset = table[x].offset
        BY <4>1, Zenon
      <4> QED
        BY <3>2, <4>2, Zenon
    <3> QED
      BY <3>1, <3>2
  <2>8. ASSUME NEW g \in Fds
        PROVE  /\ view'[g].fd = view[g].fd /\ view'[g].name = view[g].name
               /\ view'[g].pos = IF g = h THEN p ELSE view[g].pos
    BY <2>2, <2>6
  <2> QED
    BY <2>4, <2>7, <2>8
<1>5. Used' = Used /\ Opened' = Opened
  BY <1>4 DEF Used, Opened
<1>6. TypeOK'
  BY <1>4, <1>5, Still DEF IInv, TypeOK
<1>7. \A g \in Opened : g \in Fds /\ view[g].fd \in Fds
  BY <1>2 DEF Opened, Views, Fds
<1>8. OwnFd'
  BY <1>4, <1>5, <1>7 DEF IInv, OwnFd
<1>9. ASSUME NEW g \in Opened
      PROVE  LET e == table'[view'[g].fd] IN
             /\ e.offset = view'[g].pos /\ e.offset <= e.size
             /\ Holds => \A i \in Wanted(view'[g].name) :
                           e.size = Len(list[i].data) /\ DataAt(e.base, i)
  <2>1. /\ view'[g].fd = view[g].fd /\ view'[g].name = view[g].name
        /\ table'[view[g].fd].base = table[view[g].fd].base
        /\ table'[view[g].fd].size = table[view[g].fd].size
    BY <1>4, <1>7
  <2>2. /\ table[view[g].fd].offset = view[g].pos
        /\ table[view[g].fd].offset <= table[view[g].fd].size
        /\ Holds => \A i \in Wanted(view[g].name) :
                      /\ table[view[g].fd].size = Len(list[i].data)
                      /\ DataAt(table[view[g].fd].base, i)
    BY DEF IInv, InFile
  <2>3. g = h <=> view[g].fd = fd
    BY DEF IInv, OwnFd, fd
  <2>4. /\ table'[view[g].fd].offset = view'[g].pos
        /\ table'[view[g].fd].offset <= table[view[g].fd].size
    <3>1. CASE g = h
      <4>1. p <= table[fd].size
        BY DEF fd
      <4> QED
        BY <1>4, <1>7, <2>3, <3>1, <4>1
    <3>2. CASE g # h
      BY <1>4, <1>7, <2>2, <2>3, <3>2
    <3> QED
      BY <3>1, <3>2
  <2> QED
    BY <2>1, <2>2, <2>4, Zenon
<1>10. InFile'
  BY <1>5, <1>9, Still DEF InFile
<1> QED
  BY <1>6, <1>8, <1>10 DEF IInv

\* A file that is wanted is found, its size and its data are those mkfs was given.
LEMMA FoundIs ==
  ASSUME list \in Lists, image = Mkfs(list), Holds, NEW name
  PROVE  /\ Wanted(name) = {} => Find(name) = NoEntry
         /\ \A i \in Wanted(name) :
              LET addr == Find(name)
                  data == addr + NameLen(addr) + 3
              IN /\ addr # NoEntry /\ SizeAt(data - 2) = Len(list[i].data)
                 /\ DataAt(data, i)
<1>1. PICK a : Layout(a)
  BY LayoutExists
<1>2. /\ \A i \in Wanted(name) : Find(name) = a[i]
      /\ Wanted(name) = {} => Find(name) = NoEntry
  BY <1>1, FindIs
<1>3. ASSUME NEW i \in Wanted(name)
      PROVE  LET addr == Find(name)
                 data == addr + NameLen(addr) + 3
             IN /\ addr # NoEntry /\ SizeAt(data - 2) = Len(list[i].data)
                /\ DataAt(data, i)
  <2> DEFINE b == a[i]
             n == Len(list[i].name)
             d == Len(list[i].data)
  <2>1. i \in Packed
    BY DEF Wanted
  <2>2. /\ b \in Nat /\ n \in Nat \ {0} /\ d \in Nat
        /\ \A j \in 1..d : At(b + n + 2 + j) = list[i].data[j]
    BY <1>1, <2>1, BytesAt
  <2>3. NameLen(b) = n /\ SizeAt(b + n + 1) = d
    BY <1>1, <2>1, EntryAt
  <2>4. Find(name) = b
    BY <1>2
  <2> HIDE DEF b, n, d
  <2>5. (b + n + 3) - 2 = b + n + 1 /\ b # NoEntry
    BY <2>2 DEF NoEntry
  <2>6. \A j \in 1..d : At((b + n + 3) + j - 1) = list[i].data[j]
    <3>1. ASSUME NEW j \in 1..d PROVE At((b + n + 3) + j - 1) = list[i].data[j]
      <4>1. (b + n + 3) + j - 1 = b + n + 2 + j
        BY <2>2
      <4> QED
        BY <2>2, <4>1
    <3> QED
      BY <3>1
  <2>7. DataAt(b + n + 3, i)
    BY <2>6 DEF DataAt, d
  <2>8. SizeAt((b + n + 3) - 2) = d
    BY <2>3, <2>5, Zenon
  <2> QED
    BY <2>3, <2>4, <2>5, <2>7, <2>8, Zenon DEF d
<1> QED
  BY <1>2, <1>3

\* Names are compared both ways alike.
LEMMA WantedIs ==
  ASSUME NEW name
  PROVE  {i \in Packed : SameName(list[i].name, name)} = Wanted(name)
BY DEF Wanted, SameName

LEMMA OpensFile ==
  ASSUME IInv, NEW name \in Asked, Open(name), num # MaxFds, Find(name) # NoEntry
  PROVE  IInv' /\ last'.fd \in Fds
<1> DEFINE addr == Find(name)
           data == addr + NameLen(addr) + 3
           fd == EmptySlot
           h == Min({g \in Fds : view[g].fd = 0})
           r == [base |-> data, offset |-> 0, size |-> SizeAt(data - 2), used |-> TRUE]
           v == [fd |-> fd, name |-> name, pos |-> 0]
<1>1. /\ table' = [table EXCEPT ![fd] = r] /\ num' = num + 1
      /\ view' = [view EXCEPT ![h] = v]
      /\ last' = [NoCall EXCEPT !.call = "open", !.name = name, !.fd = fd, !.n = num]
      /\ list' = list /\ image' = image
  BY Zenon DEF Open
<1>2. /\ list \in Lists /\ image = Mkfs(list)
      /\ table \in [Fds -> Entries] /\ view \in [Fds -> Views]
      /\ num = Cardinality(Used) /\ num = Cardinality(Opened)
  BY DEF IInv, TypeOK
<1>3. fd \in Fds \ Used
  <2>1. Used \in SUBSET Fds /\ Cardinality(Used) # MaxFds
    BY <1>2 DEF Used
  <2>2. {x \in Fds : x \notin Used} = {x \in Fds : ~table[x].used}
    BY DEF Used
  <2> QED
    BY <2>1, <2>2, FirstFree, Zenon DEF EmptySlot
<1>4. h \in Fds \ Opened
  <2>1. Opened \in SUBSET Fds /\ Cardinality(Opened) # MaxFds
    BY <1>2 DEF Opened
  <2>2. {x \in Fds : x \notin Opened} = {x \in Fds : view[x].fd = 0}
    BY DEF Opened
  <2> QED
    BY <2>1, <2>2, FirstFree, Zenon
<1>5. data \in Nat /\ SizeAt(data - 2) \in Nat
  <2>1. PICK a : Layout(a)
    BY <1>2, LayoutExists
  <2>2. image \in Seq(Nat)
    BY <2>1 DEF Layout
  <2>3. addr \in Nat
    BY <2>2, FindRange
  <2>4. NameLen(addr) \in Nat
    BY <2>3, NameLenNat, RomAssumption
  <2>5. data \in Nat /\ data - 2 \in Nat
    BY <2>3, <2>4
  <2> QED
    BY <2>2, <2>5, AtNat
<1>6. Holds => \A i \in Wanted(name) : SizeAt(data - 2) = Len(list[i].data) /\ DataAt(data, i)
  BY <1>2, FoundIs
<1>7. fd \in Fds /\ fd \in 0..MaxFds /\ fd # 0 /\ h \in Fds
  BY <1>3, <1>4, RomAssumption DEF Fds
<1> HIDE DEF addr, data, fd, h
<1>8. r \in Entries /\ r.used = TRUE /\ r.base = data /\ r.offset = 0 /\ r.size = SizeAt(data - 2)
  BY <1>5 DEF Entries
<1>9. v \in Views /\ v.fd = fd /\ v.name = name /\ v.pos = 0
  BY <1>7 DEF Views
<1>10. last'.fd = fd
  BY <1>1 DEF NoCall
<1> HIDE DEF r, v
<1>11. table' \in [Fds -> Entries] /\ \A x \in Fds : table'[x] = IF x = fd THEN r ELSE table[x]
  BY <1>1, <1>2, <1>8
<1>12. view' \in [Fds -> Views] /\ \A g \in Fds : view'[g] = IF g = h THEN v ELSE view[g]
  BY <1>1, <1>2, <1>9
<1>13. Used' = Used \cup {fd} /\ Opened' = Opened \cup {h}
  <2>1. \A x \in Fds : table'[x].used <=> x = fd \/ table[x].used
    BY <1>8, <1>11
  <2>2. \A g \in Fds : view'[g].fd # 0 <=> g = h \/ view[g].fd # 0
    BY <1>7, <1>9, <1>12
  <2>3. Used' = Used \cup {fd}
    BY <1>7, <2>1 DEF Used
  <2>4. Opened' = Opened \cup {h}
    BY <1>7, <2>2 DEF Opened
  <2> QED
    BY <2>3, <2>4
<1>14. num' = Cardinality(Used') /\ num' = Cardinality(Opened')
  <2>1. Used \in SUBSET Fds /\ Opened \in SUBSET Fds /\ fd \notin Used /\ h \notin Opened
    BY <1>3, <1>4 DEF Used, Opened
  <2>2. Cardinality(Used \cup {fd}) = Cardinality(Used) + 1
    BY <2>1, FdsFinite
  <2>3. Cardinality(Opened \cup {h}) = Cardinality(Opened) + 1
    BY <2>1, FdsFinite
  <2> QED
    BY <1>1, <1>2, <1>13, <2>2, <2>3, Zenon
<1>15. TypeOK'
  BY <1>1, <1>2, <1>11, <1>12, <1>14, Still DEF TypeOK
<1>16. \A g \in Opened : g \in Fds /\ g # h /\ view[g].fd \in Fds /\ view[g].fd # fd
                         /\ table[view[g].fd].used
  <2>1. ASSUME NEW g \in Opened
        PROVE  g \in Fds /\ g # h /\ view[g].fd \in Fds /\ table[view[g].fd].used
    <3>1. g \in Fds /\ view[g].fd # 0 /\ view[g].fd \in 0..MaxFds
      BY <1>2 DEF Opened, Views
    <3>2. view[g].fd \in Fds
      BY <3>1, RomAssumption DEF Fds
    <3>3. table[view[g].fd].used
      BY DEF IInv, OwnFd
    <3> QED
      BY <1>4, <3>1, <3>2, <3>3
  <2>2. ~table[fd].used
    BY <1>3 DEF Used
  <2> QED
    BY <2>1, <2>2
<1>17. ASSUME NEW g \in Opened'
       PROVE  \/ g = h /\ view'[g] = v /\ table'[fd] = r
              \/ /\ g \in Opened /\ g # h /\ view'[g] = view[g] /\ view[g].fd # fd
                 /\ table'[view[g].fd] = table[view[g].fd]
  BY <1>7, <1>11, <1>12, <1>13, <1>16
<1>18. OwnFd'
  <2>1. ASSUME NEW g \in Opened' PROVE table'[view'[g].fd].used
    BY <1>8, <1>9, <1>16, <1>17
  <2>2. ASSUME NEW g \in Opened', NEW k \in Opened', view'[g].fd = view'[k].fd PROVE g = k
    <3>1. CASE g = h /\ k = h
      BY <3>1
    <3>2. CASE g = h /\ k # h
      BY <1>9, <1>17, <2>2, <3>2
    <3>3. CASE g # h /\ k = h
      BY <1>9, <1>17, <2>2, <3>3
    <3>4. CASE g # h /\ k # h
      BY <1>17, <2>2, <3>4 DEF IInv, OwnFd
    <3> QED
      BY <3>1, <3>2, <3>3, <3>4
  <2> QED
    BY <2>1, <2>2 DEF OwnFd
<1>19. ASSUME NEW g \in Opened'
       PROVE  LET e == table'[view'[g].fd] IN
              /\ e.offset = view'[g].pos /\ e.offset <= e.size
              /\ Holds => \A i \in Wanted(view'[g].name) :
                            e.size = Len(list[i].data) /\ DataAt(e.base, i)
  <2>1. CASE g = h /\ view'[g] = v /\ table'[fd] = r
    <3>1. table'[view'[g].fd] = r
      BY <1>9, <2>1
    <3>2. r.offset = v.pos /\ r.offset <= r.size
      BY <1>5, <1>8, <1>9
    <3>3. Holds => \A i \in Wanted(v.name) : r.size = Len(list[i].data) /\ DataAt(r.base, i)
      BY <1>6, <1>8, <1>9, Zenon
    <3> QED
      BY <2>1, <3>1, <3>2, <3>3, Zenon
  <2>2. CASE g \in Opened /\ view'[g] = view[g] /\ table'[view[g].fd] = table[view[g].fd]
    <3>1. /\ table[view[g].fd].offset = view[g].pos
          /\ table[view[g].fd].offset <= table[view[g].fd].size
          /\ Holds => \A i \in Wanted(view[g].name) :
                        /\ table[view[g].fd].size = Len(list[i].data)
                        /\ DataAt(table[view[g].fd].base, i)
      BY <2>2 DEF IInv, InFile
    <3> QED
      BY <2>2, <3>1, Zenon
  <2> QED
    BY <1>17, <2>1, <2>2
<1>20. InFile'
  BY <1>1, <1>19, Still DEF InFile
<1> QED
  BY <1>7, <1>10, <1>15, <1>18, <1>20 DEF IInv

LEMMA StepOpen ==
  ASSUME IInv, NEW name \in Asked, Open(name)
  PROVE  IInv' /\ ReadsBack'
<1>1. list' = list /\ image' = image /\ last'.name = name /\ last'.call = "open" /\ last'.n = num
  BY DEF Open, NoCall
<1>2. num \in Nat /\ num <= MaxFds
  <2>1. Used \in SUBSET Fds
    BY DEF Used
  <2> QED
    BY <2>1, FdsFinite DEF IInv, TypeOK
<1>3. Holds => (Find(name) = NoEntry <=> Wanted(name) = {})
  BY FoundIs DEF IInv, TypeOK
<1>4. IInv' /\ (last'.fd # 0 <=> ~(num = MaxFds \/ Find(name) = NoEntry))
  <2>1. CASE num = MaxFds \/ Find(name) = NoEntry
    <3>1. UNCHANGED <<list, image, table, num, view>> /\ last'.fd = 0
      BY <2>1 DEF Open, NoCall
    <3> QED
      BY <2>1, <3>1, Stands
  <2>2. CASE ~(num = MaxFds \/ Find(name) = NoEntry)
    <3>1. IInv' /\ last'.fd \in Fds
      BY <2>2, OpensFile
    <3>2. last'.fd # 0
      BY <3>1 DEF Fds
    <3> QED
      BY <2>2, <3>1, <3>2
  <2> QED
    BY <2>1, <2>2
<1>5. Holds => (last'.fd # 0 <=> Wanted(name) # {} /\ num < MaxFds)
  BY <1>2, <1>3, <1>4, RomAssumption
<1>6. Packed' = Packed
  BY <1>1 DEF Packed, Kept
<1>7. {i \in Packed : SameName(list[i].name, name)} = Wanted(name)
  BY WantedIs
<1>8. Holds' <=> Holds
  BY <1>1, Still
<1>9. ReadsBack'
  <2> SUFFICES ASSUME Holds'
               PROVE  LET found == {i \in Packed : SameName(list[i].name, name)} IN
                      /\ last'.call = "open" => (last'.fd # 0 <=> found # {} /\ last'.n < MaxFds)
                      /\ last'.call # "read"
    BY <1>1, <1>6 DEF ReadsBack
  <2> QED
    BY <1>1, <1>5, <1>7, <1>8
<1> QED
  BY <1>4, <1>9

\* A read of len bytes, or fewer at the end of the file.
LEMMA StepRead ==
  ASSUME IInv, NEW h \in Fds, NEW n \in Chunks, Read(h, n)
  PROVE  IInv' /\ ReadsBack'
<1> DEFINE fd  == view[h].fd
           b   == table[fd].base
           s   == table[fd].size
           o   == table[fd].offset
           len == Smaller(n, s - o)
           got == [j \in 1..len |-> At(b + o + j - 1)]
<1>1. fd # 0 /\ h \in Opened
  BY DEF Read, Opened
<1>2. /\ list \in Lists /\ table \in [Fds -> Entries] /\ view \in [Fds -> Views]
  BY DEF IInv, TypeOK
<1>3. fd \in Fds
  BY <1>1, <1>2, RomAssumption DEF Views, Fds
<1>4. b \in Nat /\ s \in Nat /\ o \in Nat /\ n \in Nat
  BY <1>2, <1>3, RomAssumption DEF Entries
<1>5. /\ o = view[h].pos /\ o <= s
      /\ Holds => \A i \in Wanted(view[h].name) : s = Len(list[i].data) /\ DataAt(b, i)
  BY <1>1 DEF IInv, InFile
<1>6. /\ table' = [table EXCEPT ![fd].offset = @ + len]
      /\ view' = [view EXCEPT ![h].pos = @ + len]
      /\ last' = [call |-> "read", fd |-> fd, name |-> view[h].name, from |-> view[h].pos,
                  n |-> n, got |-> got]
      /\ UNCHANGED <<list, image, num>>
  BY Zenon DEF Read
<1>7. len \in Nat /\ o + len <= s /\ o + len = Smaller(o + n, s) /\ o + len \in Nat
  <2> HIDE DEF fd, b, s, o
  <2> QED
    BY <1>4, <1>5 DEF Smaller
<1>8. IInv'
  <2> DEFINE p == o + len
  <2>1. table' = [table EXCEPT ![fd].offset = p] /\ view' = [view EXCEPT ![h].pos = p]
    <3>1. view[h].pos + len = o + len
      BY <1>5
    <3> HIDE DEF len
    <3> QED
      BY <1>6, <3>1
  <2>2. p \in Nat /\ p <= s
    BY <1>7
  <2> HIDE DEF p
  <2> QED
    BY <1>1, <1>6, <2>1, <2>2, Moves
<1>9. ReadsBack'
  <2>1. Packed' = Packed /\ (Holds' <=> Holds)
    BY <1>6, Still DEF Packed, Kept
  <2>2. last'.call = "read" /\ last'.name = view[h].name /\ last'.from = o /\ last'.n = n
        /\ last'.got = got
    BY <1>5, <1>6
  <2>3. ASSUME Holds, NEW i \in Wanted(view[h].name)
        PROVE  got = SubSeq(list[i].data, o + 1, Smaller(o + n, Len(list[i].data)))
    <3> DEFINE d == list[i].data
               q == SubSeq(d, o + 1, o + len)
    <3>1. s = Len(d) /\ \A j \in 1..Len(d) : At(b + j - 1) = d[j]
      BY <1>5, <2>3 DEF DataAt
    <3>2. d \in Seq(0..(Base - 1))
      <4>1. i \in 1..Len(list) /\ list[i] \in Files
        BY <1>2, ListIs DEF Wanted
      <4> QED
        BY <4>1 DEF Files
    <3> HIDE DEF d, s, o, b, len, fd
    <3>3. o + 1 \in 1..(Len(d) + 1) /\ o + len \in ((o + 1) - 1)..Len(d)
      BY <1>4, <1>7, <3>1
    <3>4. q \in Seq(0..(Base - 1)) /\ Len(q) = (o + len) - (o + 1) + 1
          /\ \A j \in 1..((o + len) - (o + 1) + 1) : q[j] = d[(o + 1) + j - 1]
      <4> DEFINE S == 0..(Base - 1)
                 x == o + 1
                 y == o + len
      <4>1. d \in Seq(S) /\ x \in 1..(Len(d) + 1) /\ y \in (x - 1)..Len(d)
        BY <3>2, <3>3
      <4> HIDE DEF S, x, y
      <4>2. SubSeq(d, x, y) \in Seq(S) /\ Len(SubSeq(d, x, y)) = y - x + 1
            /\ \A j \in 1..(y - x + 1) : SubSeq(d, x, y)[j] = d[x + j - 1]
        BY <4>1, SubSeqProperties
      <4> QED
        BY <4>2, Zenon DEF S, x, y
    <3>5. (o + len) - (o + 1) + 1 = len
      BY <1>4, <1>7
    <3>6. q = [j \in 1..len |-> q[j]]
      <4>1. q \in Seq(0..(Base - 1)) /\ Len(q) = len
        BY <3>4, <3>5
      <4> HIDE DEF q
      <4> QED
        BY <4>1
    <3>7. ASSUME NEW j \in 1..len PROVE q[j] = At(b + o + j - 1)
      <4>1. (o + 1) + j - 1 = o + j /\ o + j \in 1..Len(d) /\ b + (o + j) - 1 = b + o + j - 1
        BY <1>4, <1>7, <3>1
      <4>2. q[j] = d[o + j]
        BY <3>4, <3>5, <4>1
      <4>3. At(b + (o + j) - 1) = d[o + j]
        BY <3>1, <4>1
      <4> QED
        BY <4>1, <4>2, <4>3, Zenon
    <3>8. got = q
      <4> HIDE DEF q
      <4> QED
        BY <3>6, <3>7, Zenon
    <3> QED
      BY <1>7, <3>1, <3>8, Zenon DEF d
  <2> SUFFICES ASSUME Holds'
               PROVE  LET found == {i \in Packed : SameName(list[i].name, last'.name)} IN
                      /\ last'.call # "open"
                      /\ \A i \in found :
                           last'.got = SubSeq(list[i].data, last'.from + 1,
                                          Smaller(last'.from + last'.n, Len(list[i].data)))
    BY <1>6, <2>1 DEF ReadsBack
  <2>4. {i \in Packed : SameName(list[i].name, view[h].name)} = Wanted(view[h].name)
    BY WantedIs
  <2>5. Holds /\ last'.call # "open"
    BY <2>1, <2>2
  <2> QED
    BY <2>2, <2>3, <2>4, <2>5, Zenon
<1> QED
  BY <1>8, <1>9

\* A call that is neither an open nor a read returns nothing to compare.
LEMMA NothingRead ==
  ASSUME last' = NoCall
  PROVE  ReadsBack'
BY DEF ReadsBack, NoCall

LEMMA StepSeek ==
  ASSUME IInv, NEW h \in Fds, NEW dir \in {"set", "cur", "end"}, NEW off \in Offsets,
         Seek(h, dir, off)
  PROVE  IInv' /\ ReadsBack'
<1> DEFINE fd  == view[h].fd
           e   == table[fd]
           new == off + CASE dir = "set" -> 0 [] dir = "cur" -> e.offset [] dir = "end" -> e.size
<1>1. /\ h \in Opened /\ last' = NoCall /\ UNCHANGED <<list, image, num>>
      /\ IF new \in 0..e.size
         THEN /\ table' = [table EXCEPT ![fd].offset = new]
              /\ view' = [view EXCEPT ![h].pos = new]
         ELSE UNCHANGED <<table, view>>
  BY DEF Seek, Opened
<1> HIDE DEF new
<1>2. CASE new \in 0..e.size
  <2>1. fd \in Fds /\ e \in Entries
    BY <1>1, RomAssumption DEF IInv, TypeOK, Views, Opened, Fds
  <2>2. e.size \in Nat
    BY <2>1 DEF Entries
  <2>3. new \in Nat /\ new <= e.size
    BY <1>2, <2>2
  <2>4. IInv'
    BY <1>1, <1>2, <2>3, Moves
  <2> QED
    BY <1>1, <2>4, NothingRead
<1>3. CASE new \notin 0..e.size
  <2>1. UNCHANGED <<list, image, table, num, view>>
    BY <1>1, <1>3
  <2> QED
    BY <1>1, <2>1, Stands, NothingRead
<1> QED
  BY <1>2, <1>3

LEMMA StepClose ==
  ASSUME IInv, NEW h \in Fds, Close(h)
  PROVE  IInv' /\ ReadsBack'
<1> DEFINE fd == view[h].fd
<1>1. /\ fd # 0 /\ h \in Opened /\ table' = [table EXCEPT ![fd] = Free]
      /\ num' = num - 1 /\ view' = [view EXCEPT ![h] = NoView] /\ last' = NoCall
      /\ list' = list /\ image' = image
  BY DEF Close, Opened
<1>2. /\ list \in Lists /\ image = Mkfs(list)
      /\ table \in [Fds -> Entries] /\ view \in [Fds -> Views]
      /\ num = Cardinality(Used) /\ num = Cardinality(Opened)
  BY DEF IInv, TypeOK
<1>3. fd \in Fds /\ table[fd].used
  BY <1>1, <1>2, RomAssumption DEF IInv, OwnFd, Views, Fds
<1>4. /\ Free \in Entries /\ Free.used = FALSE /\ NoView \in Views /\ NoView.fd = 0
  BY RomAssumption DEF Free, NoView, Entries, Views
<1>5. \A g \in Opened : g \in Fds /\ view[g].fd \in Fds /\ (view[g].fd = fd <=> g = h)
  BY <1>1, <1>2, RomAssumption DEF IInv, OwnFd, Views, Fds, Opened
<1> HIDE DEF fd
<1>6. table' \in [Fds -> Entries] /\ \A x \in Fds : table'[x] = IF x = fd THEN Free ELSE table[x]
  BY <1>1, <1>2, <1>4
<1>7. view' \in [Fds -> Views] /\ \A g \in Fds : view'[g] = IF g = h THEN NoView ELSE view[g]
  BY <1>1, <1>2, <1>4
<1>8. Used' = Used \ {fd} /\ Opened' = Opened \ {h}
  <2>1. \A x \in Fds : table'[x].used <=> x # fd /\ table[x].used
    BY <1>4, <1>6
  <2>2. \A g \in Fds : view'[g].fd # 0 <=> g # h /\ view[g].fd # 0
    BY <1>4, <1>7
  <2>3. Used' = Used \ {fd}
    BY <2>1 DEF Used
  <2>4. Opened' = Opened \ {h}
    BY <2>2 DEF Opened
  <2> QED
    BY <2>3, <2>4
<1>9. num' = Cardinality(Used') /\ num' = Cardinality(Opened')
  <2>1. Used \in SUBSET Fds /\ Opened \in SUBSET Fds /\ fd \in Used /\ h \in Opened
    BY <1>1, <1>3 DEF Used, Opened
  <2>2. Cardinality(Used \ {fd}) = Cardinality(Used) - 1
    BY <2>1, FdsFinite
  <2>3. Cardinality(Opened \ {h}) = Cardinality(Opened) - 1
    BY <2>1, FdsFinite
  <2> QED
    BY <1>1, <1>2, <1>8, <2>2, <2>3, Zenon
<1>10. TypeOK'
  BY <1>1, <1>2, <1>6, <1>7, <1>9, Still DEF TypeOK
<1>11. ASSUME NEW g \in Opened'
       PROVE  g \in Opened /\ view'[g] = view[g] /\ table'[view[g].fd] = table[view[g].fd]
  BY <1>5, <1>6, <1>7, <1>8
<1>12. OwnFd'
  <2>1. ASSUME NEW g \in Opened' PROVE table'[view'[g].fd].used
    BY <1>11 DEF IInv, OwnFd
  <2>2. ASSUME NEW g \in Opened', NEW k \in Opened', view'[g].fd = view'[k].fd PROVE g = k
    BY <1>11, <2>2 DEF IInv, OwnFd
  <2> QED
    BY <2>1, <2>2 DEF OwnFd
<1>13. InFile'
  <2>1. ASSUME NEW g \in Opened'
        PROVE  LET e == table'[view'[g].fd] IN
               /\ e.offset = view'[g].pos /\ e.offset <= e.size
               /\ Holds => \A i \in Wanted(view'[g].name) :
                             e.size = Len(list[i].data) /\ DataAt(e.base, i)
    <3>1. /\ table[view[g].fd].offset = view[g].pos
          /\ table[view[g].fd].offset <= table[view[g].fd].size
          /\ Holds => \A i \in Wanted(view[g].name) :
                        /\ table[view[g].fd].size = Len(list[i].data)
                        /\ DataAt(table[view[g].fd].base, i)
      BY <1>11 DEF IInv, InFile
    <3> QED
      BY <1>11, <3>1, Zenon
  <2> QED
    BY <1>1, <2>1, Still DEF InFile
<1> QED
  BY <1>1, <1>10, <1>12, <1>13, NothingRead DEF IInv

LEMMA Step ==
  ASSUME IInv, ReadsBack, [Next]_vars
  PROVE  IInv' /\ ReadsBack'
<1>1. CASE Next
  BY <1>1, StepOpen, StepRead, StepSeek, StepClose DEF Next
<1>2. CASE UNCHANGED vars
  <2>1. UNCHANGED <<list, image, table, num, view>> /\ last' = last
    BY <1>2 DEF vars
  <2>2. ReadsBack'
    <3>1. Packed' = Packed /\ (Holds' <=> Holds)
      BY <2>1, Still DEF Packed, Kept
    <3> QED
      BY <2>1, <3>1 DEF ReadsBack
  <2> QED
    BY <2>1, <2>2, Stands
<1> QED
  BY <1>1, <1>2

LEMMA Start ==
  ASSUME Init
  PROVE  IInv /\ ReadsBack
BY Starts DEF Init, ReadsBack, NoCall

-----------------------------------------------------------------------------
(* Theorems                                                                *)

\* What is read from an open file is what mkfs was given, and exactly the packed files
\* can be opened while there are descriptors.
THEOREM BoardReadsWhatWasPacked == Spec => []ReadsBack
<1>1. Init => IInv /\ ReadsBack
  BY Start
<1>2. IInv /\ ReadsBack /\ [Next]_vars => IInv' /\ ReadsBack'
  BY Step
<1> QED
  BY <1>1, <1>2, PTL DEF Spec

\* ls shows the packed files in the order of the list, with their sizes.
THEOREM DirectoryListsWhatWasPacked == Spec => []ListsAll
<1>1. Init => IInv /\ ReadsBack
  BY Start
<1>2. IInv /\ ReadsBack /\ [Next]_vars => IInv' /\ ReadsBack'
  BY Step
<1>3. IInv => ListsAll
  <2> SUFFICES ASSUME list \in Lists, image = Mkfs(list), Holds PROVE Directory = Listing
    BY DEF IInv, TypeOK, ListsAll
  <2>1. PICK a : Layout(a)
    BY LayoutExists
  <2> QED
    BY <2>1, DirectoryIs
<1> QED
  BY <1>1, <1>2, <1>3, PTL DEF Spec
=============================================================================
