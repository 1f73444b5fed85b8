----------------------------- MODULE LuaRpcProofs -----------------------------
(***************************************************************************)
(* Proofs about remote calls over a line that loses nothing: what a        *)
(* request and an answer are read as, and the talk of the two ends.        *)
(***************************************************************************)
EXTENDS LuaRpc, WellFoundedInduction, SequenceTheorems, TLAPS

-----------------------------------------------------------------------------
(* Reading one part                                                        *)

Cursor == [at : Nat \ {0}, st : {"ok", "more", "gap", "bad", "fault"}]

\* A read that succeeds moves over as many bytes as it asked for, and they were there.
LEMMA PieceReads ==
  ASSUME NEW s \in Seq(Nat), NEW c \in Cursor, NEW n \in Nat
  PROVE  /\ Piece(s, c, n) \in Cursor
         /\ Piece(s, c, n).st = "ok" =>
              c.st = "ok" /\ Piece(s, c, n).at = c.at + n /\ c.at + n - 1 <= Len(s)
<1>1. CASE c.st # "ok"
  BY <1>1 DEF Piece, Cursor
<1>2. CASE c.st = "ok" /\ c.at + n - 1 <= Len(s)
  BY <1>2 DEF Piece, Cursor
<1>3. CASE c.st = "ok" /\ ~(c.at + n - 1 <= Len(s))
  BY <1>3 DEF Piece, Cursor
<1> QED
  BY <1>1, <1>2, <1>3

\* The same of a count of two bytes, of which the number is a natural one.
LEMMA CountReads ==
  ASSUME NEW s \in Seq(Nat), NEW c \in Cursor
  PROVE  /\ Piece(s, c, 2) \in Cursor
         /\ Piece(s, c, 2).st = "ok" =>
              s[Piece(s, c, 2).at - 2] + 256 * s[Piece(s, c, 2).at - 1] \in Nat
<1> DEFINE d == Piece(s, c, 2)
<1>1. d \in Cursor /\ (d.st = "ok" => d.at = c.at + 2 /\ c.at + 1 <= Len(s))
  BY PieceReads
<1> HIDE DEF d
<1>2. ASSUME d.st = "ok" PROVE s[d.at - 2] + 256 * s[d.at - 1] \in Nat
  <2>1. c.at \in Nat \ {0}
    BY DEF Cursor
  <2>2. d.at - 2 = c.at /\ d.at - 1 = c.at + 1
    BY <1>1, <1>2, <2>1
  <2>3. s[c.at] \in Nat /\ s[c.at + 1] \in Nat
    BY <1>1, <1>2, <2>1
  <2> QED
    BY <2>2, <2>3
<1> QED
  BY <1>1, <1>2 DEF d

LEMMA StrReads ==
  ASSUME NEW s \in Seq(Nat), NEW c \in Cursor
  PROVE  Str(s, c) \in Cursor
<1> DEFINE d == Piece(s, c, 2)
           n == s[d.at - 2] + 256 * s[d.at - 1]
           f == [d EXCEPT !.st = "fault"]
<1>1. d \in Cursor /\ (d.st = "ok" => n \in Nat)
  BY CountReads
<1>2. f \in Cursor
  BY <1>1 DEF Cursor
<1>3. Str(s, c) = CASE d.st # "ok" -> d
                    [] d.st = "ok" /\ n > Stack -> f
                    [] OTHER -> Piece(s, d, n)
  BY Zenon DEF Str
<1> HIDE DEF d, n, f
<1>4. d.st = "ok" => Piece(s, d, n) \in Cursor
  BY <1>1, PieceReads
<1>5. CASE d.st # "ok"
  BY <1>1, <1>3, <1>5
<1>6. CASE d.st = "ok" /\ n > Stack
  BY <1>2, <1>3, <1>6
<1>7. CASE d.st = "ok" /\ ~(n > Stack)
  BY <1>3, <1>4, <1>7
<1> QED
  BY <1>5, <1>6, <1>7

LEMMA ItemReads ==
  ASSUME NEW s \in Seq(Nat), NEW c \in Cursor
  PROVE  Item(s, c) \in Cursor
<1> DEFINE d == Piece(s, c, 1)
<1>1. d \in Cursor
  BY PieceReads
<1>2. Piece(s, d, 1) \in Cursor /\ Str(s, d) \in Cursor
  BY <1>1, PieceReads, StrReads
<1>3. [d EXCEPT !.st = "bad"] \in Cursor
  BY <1>1 DEF Cursor
<1>4. Item(s, c) \in {d, Piece(s, d, 1), Str(s, d), [d EXCEPT !.st = "bad"]}
  BY DEF Item
<1> QED
  BY <1>1, <1>2, <1>3, <1>4

\* A reader of variables.
Reader(r) == /\ r = [c |-> r.c, left |-> r.left, open |-> r.open]
             /\ r.c \in Cursor

LEMMA ReaderGoesOn ==
  ASSUME NEW s \in Seq(Nat), NEW r, Reader(r)
  PROVE  Reader(ReadItem(s, r))
<1> DEFINE d == Item(s, r.c)
<1> DEFINE After(open) == IF open = <<>> THEN [c |-> d, left |-> r.left - 1, open |-> <<>>]
                          ELSE [r EXCEPT !.c = d, !.open = <<~Head(open)>> \o Tail(open)]
<1>1. d \in Cursor
  BY ItemReads DEF Reader
<1>2. [r EXCEPT !.c.st = "bad"].c = [r.c EXCEPT !.st = "bad"] /\ Reader([r EXCEPT !.c.st = "bad"])
  BY DEF Reader, Cursor
<1> HIDE DEF d
<1>3. ASSUME NEW o PROVE Reader([r EXCEPT !.c = d, !.open = o])
  <2>0. [r EXCEPT !.c = d, !.open = o] = [[r EXCEPT !.c = d] EXCEPT !.open = o]
    BY Zenon DEF Reader
  <2>a. [r EXCEPT !.c = d] = [c |-> d, left |-> r.left, open |-> r.open]
    BY DEF Reader
  <2>b. [[c |-> d, left |-> r.left, open |-> r.open] EXCEPT !.open = o]
          = [c |-> d, left |-> r.left, open |-> o]
    OBVIOUS
  <2>1. [r EXCEPT !.c = d, !.open = o] = [c |-> d, left |-> r.left, open |-> o]
    BY <2>0, <2>a, <2>b, Zenon
  <2>2. Reader([c |-> d, left |-> r.left, open |-> o])
    BY <1>1 DEF Reader
  <2> QED
    BY <2>1, <2>2, Zenon
<1>4. Reader([r EXCEPT !.c = d]) /\ Reader([c |-> d, left |-> r.left - 1, open |-> <<>>])
  <2>1. [r EXCEPT !.c = d] = [c |-> d, left |-> r.left, open |-> r.open]
    BY DEF Reader
  <2>2. \A n, o : Reader([c |-> d, left |-> n, open |-> o])
    BY <1>1 DEF Reader
  <2> QED
    BY <2>1, <2>2, Zenon
<1>5. \A open : Reader(After(open))
  BY <1>3, <1>4, Zenon
<1> HIDE DEF After
<1> DEFINE b == s[r.c.at]
<1>6. CASE r.c.st # "ok" \/ (r.left = 0 /\ r.open = <<>>)
  BY <1>6, Zenon DEF ReadItem
<1> DEFINE Answer == CASE d.st # "ok" -> [r EXCEPT !.c = d]
                       [] d.st = "ok" /\ b = RPC_TABLE -> [r EXCEPT !.c = d, !.open = <<TRUE>> \o @]
                       [] d.st = "ok" /\ b = RPC_TABLE_END /\ r.open # <<>> -> After(Tail(r.open))
                       [] d.st = "ok" /\ b = RPC_NIL /\ r.open # <<>> /\ Head(r.open) ->
                            [r EXCEPT !.c.st = "bad"]
                       [] OTHER -> After(r.open)
<1>7. CASE ~(r.c.st # "ok" \/ (r.left = 0 /\ r.open = <<>>))
  <2>1. ReadItem(s, r) = Answer
    BY <1>7, Zenon DEF ReadItem, After, d
  <2>2. Reader([r EXCEPT !.c = d, !.open = <<TRUE>> \o r.open])
    BY <1>3, Zenon
  <2>3. Reader(Answer)
    BY <1>2, <1>4, <1>5, <2>2, Zenon
  <2> QED
    BY <2>1, <2>3, Zenon
<1> QED
  BY <1>6, <1>7

-----------------------------------------------------------------------------
(* Reading several variables                                               *)

\* Every set of numbers that is not empty has a least one.
LEMMA Least ==
  ASSUME NEW S \in SUBSET Nat, S # {}
  PROVE  \E n \in S : \A m \in S : n <= m
<1> DEFINE R == {ss \in Nat \X Nat : ss[1] < ss[2]}
<1>1. IsWellFoundedOn(R, Nat)
  BY NatLessThanWellFounded DEF OpToRel
<1>2. \A m, n \in Nat : m < n => <<m, n>> \in R
  OBVIOUS
<1> HIDE DEF R
<1>3. PICK n \in S : \A m \in S : ~(<<m, n>> \in R)
  BY <1>1, WFMin
<1>4. \A m \in S : ~(m < n) /\ m \in Nat /\ n \in Nat
  BY <1>2, <1>3
<1> QED
  BY <1>4

\* A set of numbers with 0 and the successors of its numbers has all of them.
LEMMA Induction ==
  ASSUME NEW S \in SUBSET Nat, 0 \in S, \A n \in S : n + 1 \in S
  PROVE  \A n \in Nat : n \in S
<1> SUFFICES ASSUME Nat \ S # {} PROVE FALSE
  OBVIOUS
<1>1. PICK n \in Nat \ S : \A m \in Nat \ S : n <= m
  BY Least
<1>2. n - 1 \in Nat /\ n - 1 < n
  BY <1>1
<1> QED
  BY <1>1, <1>2

Begun(c, n) == [c |-> c, left |-> n, open |-> <<>>]

\* A function that reads up to m items.
Reads(f, m, s, c, n) ==
  f = [i \in 0..m |-> IF i = 0 THEN {Begun(c, n)} ELSE {ReadItem(s, r) : r \in f[i - 1]}]

LEMMA ReadsExists ==
  ASSUME NEW m \in Nat, NEW s, NEW c, NEW n
  PROVE  \E f : Reads(f, m, s, c, n)
<1> DEFINE T == {k \in Nat : \E f : Reads(f, k, s, c, n)}
<1>1. 0 \in T
  <2> DEFINE f == [i \in 0..0 |-> {Begun(c, n)}]
  <2>1. f = [i \in 0..0 |-> IF i = 0 THEN {Begun(c, n)} ELSE {ReadItem(s, r) : r \in f[i - 1]}]
    OBVIOUS
  <2> QED
    BY <2>1 DEF Reads
<1>2. ASSUME NEW k \in T PROVE k + 1 \in T
  <2>1. PICK f : Reads(f, k, s, c, n)
    OBVIOUS
  <2> DEFINE g == [i \in 0..(k + 1) |-> IF i <= k THEN f[i] ELSE {ReadItem(s, r) : r \in f[k]}]
  <2>2. \A i \in 0..k : f[i] = IF i = 0 THEN {Begun(c, n)} ELSE {ReadItem(s, r) : r \in f[i - 1]}
    BY <2>1 DEF Reads
  <2>3. ASSUME NEW i \in 0..(k + 1)
        PROVE  g[i] = IF i = 0 THEN {Begun(c, n)} ELSE {ReadItem(s, r) : r \in g[i - 1]}
    <3>1. CASE i = k + 1
      <4>1. g[k + 1] = {ReadItem(s, r) : r \in f[k]} /\ g[k] = f[k] /\ i - 1 = k /\ i # 0
        BY <3>1
      <4> HIDE DEF g
      <4> QED
        BY <3>1, <4>1
    <3>2. CASE i # k + 1 /\ i # 0
      <4>1. i \in 0..k /\ i - 1 \in 0..k
        BY <3>2
      <4>2. g[i] = f[i] /\ g[i - 1] = f[i - 1]
        BY <4>1
      <4> HIDE DEF g
      <4> QED
        BY <2>2, <3>2, <4>1, <4>2
    <3>3. CASE i = 0
      <4>0. 0 \in 0..k /\ 0 <= k /\ 0 \in 0..(k + 1)
        OBVIOUS
      <4>1. g[0] = f[0] /\ f[0] = {Begun(c, n)}
        BY <2>2, <4>0, Zenon
      <4> HIDE DEF g
      <4> QED
        BY <3>3, <4>1
    <3> QED
      BY <3>1, <3>2, <3>3
  <2>4. g = [i \in 0..(k + 1) |-> g[i]]
    OBVIOUS
  <2> HIDE DEF g
  <2>5. g = [i \in 0..(k + 1) |-> IF i = 0 THEN {Begun(c, n)} ELSE {ReadItem(s, r) : r \in g[i - 1]}]
    BY <2>3, <2>4
  <2> QED
    BY <2>5 DEF Reads
<1> HIDE DEF T
<1>3. T \in SUBSET Nat
  BY DEF T
<1>4. m \in T
  BY <1>1, <1>2, <1>3, Induction
<1> QED
  BY <1>4 DEF T

\* What Vars reads, item after item.
Steps(f, s, c, n) ==
  /\ f[0] = {Begun(c, n)}
  /\ \A i \in 0..Len(s) : f[i + 1] = {ReadItem(s, r) : r \in f[i]}
  /\ Vars(s, c, n) = (CHOOSE r \in f[Len(s) + 1] : TRUE).c

LEMMA VarsReads ==
  ASSUME NEW s, Len(s) \in Nat, NEW c, NEW n
  PROVE  \E f : Steps(f, s, c, n)
<1> DEFINE f == CHOOSE read : read = [i \in 0..(Len(s) + 1) |->
                  IF i = 0 THEN {[c |-> c, left |-> n, open |-> <<>>]}
                  ELSE {ReadItem(s, r) : r \in read[i - 1]}]
<1>1. \E g : Reads(g, Len(s) + 1, s, c, n)
  BY ReadsExists
<1>2. f = [i \in 0..(Len(s) + 1) |-> IF i = 0 THEN {[c |-> c, left |-> n, open |-> <<>>]}
                                     ELSE {ReadItem(s, r) : r \in f[i - 1]}]
  BY <1>1, Zenon DEF Reads, Begun
<1>3. Vars(s, c, n) = (CHOOSE r \in f[Len(s) + 1] : TRUE).c
  BY Zenon DEF Vars
<1> HIDE DEF f
<1>4. f[0] = {Begun(c, n)}
  BY <1>2 DEF Begun
<1>5. ASSUME NEW i \in 0..Len(s) PROVE f[i + 1] = {ReadItem(s, r) : r \in f[i]}
  <2>1. i + 1 \in 0..(Len(s) + 1) /\ i + 1 # 0 /\ (i + 1) - 1 = i
    OBVIOUS
  <2>2. f[i + 1] = {ReadItem(s, r) : r \in f[(i + 1) - 1]}
    BY <1>2, <2>1, Zenon
  <2> QED
    BY <2>1, <2>2, Zenon
<1> QED
  BY <1>3, <1>4, <1>5, Zenon DEF Steps

LEMMA VarsTyped ==
  ASSUME NEW s \in Seq(Nat), NEW c \in Cursor, NEW n
  PROVE  Vars(s, c, n) \in Cursor
<1>0. Len(s) \in Nat
  OBVIOUS
<1>a. \E f : Steps(f, s, c, n)
  BY <1>0, VarsReads, Zenon
<1>1. PICK f : /\ f[0] = {Begun(c, n)}
               /\ \A i \in 0..Len(s) : f[i + 1] = {ReadItem(s, r) : r \in f[i]}
               /\ Vars(s, c, n) = (CHOOSE r \in f[Len(s) + 1] : TRUE).c
  BY <1>a, Zenon DEF Steps
<1> DEFINE T == {i \in Nat : i <= Len(s) + 1 => \E r : f[i] = {r} /\ Reader(r)}
<1>2. 0 \in T
  <2>1. Reader(Begun(c, n))
    BY DEF Reader, Begun
  <2> QED
    BY <1>1, <2>1
<1>3. ASSUME NEW i \in T PROVE i + 1 \in T
  <2> SUFFICES ASSUME i + 1 <= Len(s) + 1 PROVE \E r : f[i + 1] = {r} /\ Reader(r)
    OBVIOUS
  <2>1. i \in 0..Len(s) /\ i <= Len(s) + 1
    BY <1>0
  <2>2. PICK r : f[i] = {r} /\ Reader(r)
    BY <2>1
  <2>3. f[i + 1] = {ReadItem(s, r)}
    BY <1>1, <2>1, <2>2
  <2> QED
    BY <2>2, <2>3, ReaderGoesOn
<1> HIDE DEF T
<1>4. Len(s) + 1 \in T
  <2>1. T \in SUBSET Nat
    BY DEF T
  <2> QED
    BY <1>0, <1>2, <1>3, <2>1, Induction
<1>5. PICK r : f[Len(s) + 1] = {r} /\ Reader(r)
  BY <1>0, <1>4 DEF T
<1> QED
  BY <1>1, <1>5 DEF Reader

\* A reader that is done stays where it is.
LEMMA VarsDone ==
  ASSUME NEW s, Len(s) \in Nat, NEW f, NEW k \in 0..(Len(s) + 1), NEW r,
         \A i \in 0..Len(s) : f[i + 1] = {ReadItem(s, q) : q \in f[i]},
         f[k] = {r}, ReadItem(s, r) = r
  PROVE  f[Len(s) + 1] = {r}
<1> DEFINE T == {i \in Nat : k + i <= Len(s) + 1 => f[k + i] = {r}}
<1>1. 0 \in T
  OBVIOUS
<1>2. ASSUME NEW i \in T PROVE i + 1 \in T
  <2> SUFFICES ASSUME k + (i + 1) <= Len(s) + 1 PROVE f[k + (i + 1)] = {r}
    OBVIOUS
  <2>1. k + i \in 0..Len(s) /\ k + i <= Len(s) + 1 /\ k + (i + 1) = (k + i) + 1
    OBVIOUS
  <2>2. f[k + i] = {r}
    BY <2>1
  <2>3. f[(k + i) + 1] = {ReadItem(s, r)}
    BY <2>1, <2>2
  <2> QED
    BY <2>1, <2>3
<1> HIDE DEF T
<1>3. Len(s) + 1 - k \in T
  <2>1. T \in SUBSET Nat /\ Len(s) + 1 - k \in Nat
    BY DEF T
  <2> QED
    BY <1>1, <1>2, <2>1, Induction
<1>4. k + (Len(s) + 1 - k) = Len(s) + 1
  OBVIOUS
<1> QED
  BY <1>3, <1>4 DEF T

-----------------------------------------------------------------------------
(* What is read when a stream holds what it should                         *)

LEMMA VarsLast ==
  ASSUME NEW s, Len(s) \in Nat, NEW c, NEW n, NEW f, Steps(f, s, c, n),
         NEW k \in 0..(Len(s) + 1), NEW r, f[k] = {r}, ReadItem(s, r) = r
  PROVE  Vars(s, c, n) = r.c
<1>1. \A i \in 0..Len(s) : f[i + 1] = {ReadItem(s, q) : q \in f[i]}
  BY Zenon DEF Steps
<1>2. f[Len(s) + 1] = {r}
  BY <1>1, VarsDone
<1>3. Vars(s, c, n) = (CHOOSE q \in f[Len(s) + 1] : TRUE).c
  BY Zenon DEF Steps
<1> QED
  BY <1>2, <1>3

LEMMA ReaderStays ==
  ASSUME NEW s, NEW c, NEW n, c.st # "ok" \/ n = 0
  PROVE  ReadItem(s, Begun(c, n)) = Begun(c, n)
BY Zenon DEF ReadItem, Begun

LEMMA ReaderTakesItem ==
  ASSUME NEW s, NEW c, c.st = "ok", NEW n \in Nat \ {0},
         s[c.at] # RPC_TABLE \/ Item(s, c).st # "ok"
  PROVE  ReadItem(s, Begun(c, n)) =
           Begun(Item(s, c), IF Item(s, c).st = "ok" THEN n - 1 ELSE n)
<1> DEFINE d == Item(s, c)
<1> HIDE DEF d
<1>1. CASE d.st # "ok"
  <2>1. ReadItem(s, Begun(c, n)) = [Begun(c, n) EXCEPT !.c = d]
    BY <1>1 DEF ReadItem, Begun, d
  <2>2. [Begun(c, n) EXCEPT !.c = d] = Begun(d, n)
    BY DEF Begun
  <2> QED
    BY <1>1, <2>1, <2>2 DEF d
<1>2. CASE d.st = "ok"
  <2>1. ReadItem(s, Begun(c, n)) = [c |-> d, left |-> n - 1, open |-> <<>>]
    BY <1>2 DEF ReadItem, Begun, d
  <2> QED
    BY <1>2, <2>1 DEF d, Begun
<1> QED
  BY <1>1, <1>2

\* Nothing is read by a cursor that has stopped.
LEMMA VarsStopped ==
  ASSUME NEW s, Len(s) \in Nat, NEW c, NEW n, c.st # "ok"
  PROVE  Vars(s, c, n) = c
<1>1. PICK f : Steps(f, s, c, n)
  BY VarsReads, Zenon
<1>2. f[0] = {Begun(c, n)}
  BY <1>1, Zenon DEF Steps
<1>3. ReadItem(s, Begun(c, n)) = Begun(c, n)
  BY ReaderStays
<1>4. 0 \in 0..(Len(s) + 1)
  OBVIOUS
<1>5. Vars(s, c, n) = Begun(c, n).c
  BY <1>1, <1>2, <1>3, <1>4, VarsLast
<1> QED
  BY <1>5 DEF Begun

\* One variable that is no table is one item.
LEMMA OneVar ==
  ASSUME NEW s, Len(s) \in Nat, NEW c, c.st = "ok",
         s[c.at] # RPC_TABLE \/ Item(s, c).st # "ok"
  PROVE  Vars(s, c, 1) = Item(s, c)
<1> DEFINE d == Item(s, c)
           n == IF d.st = "ok" THEN 0 ELSE 1
<1>1. PICK f : Steps(f, s, c, 1)
  BY VarsReads, Zenon
<1>2. f[0] = {Begun(c, 1)} /\ f[0 + 1] = {ReadItem(s, r) : r \in f[0]}
  BY <1>1 DEF Steps
<1>3. ReadItem(s, Begun(c, 1)) = Begun(d, n)
  BY ReaderTakesItem
<1>4. ReadItem(s, Begun(d, n)) = Begun(d, n)
  BY ReaderStays
<1> HIDE DEF d, n
<1>5. f[1] = {Begun(d, n)}
  BY <1>2, <1>3
<1>6. 1 \in 0..(Len(s) + 1)
  OBVIOUS
<1>7. Vars(s, c, 1) = Begun(d, n).c
  BY <1>1, <1>4, <1>5, <1>6, VarsLast
<1> QED
  BY <1>7 DEF Begun, d

\* Two variables that are no tables are two items.
LEMMA TwoVars ==
  ASSUME NEW s, Len(s) \in Nat \ {0}, NEW c, c.st = "ok",
         s[c.at] # RPC_TABLE, Item(s, c).st = "ok",
         s[Item(s, c).at] # RPC_TABLE, Item(s, Item(s, c)).st = "ok"
  PROVE  Vars(s, c, 2) = Item(s, Item(s, c))
<1> DEFINE d == Item(s, c)
           e == Item(s, d)
<1>1. PICK f : Steps(f, s, c, 2)
  BY VarsReads, Zenon
<1>2. /\ f[0] = {Begun(c, 2)} /\ f[0 + 1] = {ReadItem(s, r) : r \in f[0]}
      /\ f[1 + 1] = {ReadItem(s, r) : r \in f[1]}
  BY <1>1 DEF Steps
<1>3. ReadItem(s, Begun(c, 2)) = Begun(d, 1)
  BY ReaderTakesItem
<1>4. ReadItem(s, Begun(d, 1)) = Begun(e, 0)
  BY ReaderTakesItem
<1>5. ReadItem(s, Begun(e, 0)) = Begun(e, 0)
  BY ReaderStays
<1> HIDE DEF d, e
<1>6. f[1] = {Begun(d, 1)}
  BY <1>2, <1>3
<1>7. f[2] = {Begun(e, 0)}
  BY <1>2, <1>4, <1>6
<1>8. 2 \in 0..(Len(s) + 1)
  OBVIOUS
<1>9. Vars(s, c, 2) = Begun(e, 0).c
  BY <1>1, <1>5, <1>7, <1>8, VarsLast
<1> QED
  BY <1>9 DEF Begun, d, e

At(a) == [at |-> a, st |-> "ok"]
Short == [at |-> 1, st |-> "more"]

LEMMA PieceAt ==
  ASSUME NEW s, Len(s) \in Nat, NEW a \in Nat, NEW n \in Nat, a + n - 1 <= Len(s)
  PROVE  Piece(s, At(a), n) = At(a + n)
BY DEF Piece, At

\* A string the stack can hold.
LEMMA StrOf ==
  ASSUME NEW s, NEW c, NEW d, Piece(s, c, 2) = d, d.st = "ok", NEW n \in {0, 1},
         s[d.at - 2] + 256 * s[d.at - 1] = n
  PROVE  Str(s, c) = Piece(s, d, n)
<1>1. ~(n > Stack)
  BY RpcAssumption
<1>2. Str(s, c) = CASE d.st # "ok" -> d
                    [] d.st = "ok" /\ n > Stack -> [d EXCEPT !.st = "fault"]
                    [] OTHER -> Piece(s, d, n)
  BY Zenon DEF Str
<1> QED
  BY <1>1, <1>2

LEMMA StrAt ==
  ASSUME NEW s, Len(s) \in Nat, NEW a \in Nat, NEW n \in {0, 1},
         s[a] = n, s[a + 1] = 0, a + 2 + n - 1 <= Len(s)
  PROVE  Str(s, At(a)) = At(a + 2 + n)
<1>1. Piece(s, At(a), 2) = At(a + 2)
  BY PieceAt
<1>2. Piece(s, At(a + 2), n) = At(a + 2 + n)
  BY PieceAt
<1>3. (a + 2) - 2 = a /\ (a + 2) - 1 = a + 1 /\ n + 256 * 0 = n
  OBVIOUS
<1>4. At(a + 2).st = "ok" /\ At(a + 2).at = a + 2
  BY DEF At
<1>5. s[At(a + 2).at - 2] + 256 * s[At(a + 2).at - 1] = n
  BY <1>3, <1>4
<1> QED
  BY <1>1, <1>2, <1>4, <1>5, StrOf, Zenon

\* An item, once its type is read.
LEMMA ItemOf ==
  ASSUME NEW s, NEW c, Piece(s, c, 1).st = "ok"
  PROVE  /\ s[c.at] = 0 => Item(s, c) = Piece(s, c, 1)
         /\ s[c.at] = 1 => Item(s, c) = Piece(s, Piece(s, c, 1), 1)
         /\ s[c.at] = 3 => Item(s, c) = Str(s, Piece(s, c, 1))
<1> DEFINE d == Piece(s, c, 1)
           e == Piece(s, d, 1)
           t == Str(s, d)
           x == [d EXCEPT !.st = "bad"]
<1>1. Item(s, c) = CASE s[c.at] \in {0, 4, 5} -> d
                     [] s[c.at] \in {1, 2} -> e
                     [] s[c.at] = 3 -> t
                     [] OTHER -> x
  BY Zenon DEF Item, RPC_NUMBER, RPC_NIL, RPC_TABLE, RPC_TABLE_END, RPC_BOOLEAN, RPC_STRING
<1> HIDE DEF d, e, t, x
<1> QED
  BY <1>1 DEF d, e, t

LEMMA NumberItem ==
  ASSUME NEW s, Len(s) \in Nat, NEW a \in Nat, s[a] = RPC_NUMBER, a + 1 <= Len(s)
  PROVE  Item(s, At(a)) = At(a + 2)
<1>1. Piece(s, At(a), 1) = At(a + 1) /\ Piece(s, At(a + 1), 1) = At(a + 1 + 1) /\ a + 1 + 1 = a + 2
  BY PieceAt
<1>2. At(a + 1).st = "ok" /\ At(a).at = a
  BY DEF At
<1>3. s[At(a).at] = 1
  BY <1>2 DEF RPC_NUMBER
<1> QED
  BY <1>1, <1>2, <1>3, ItemOf, Zenon

LEMMA NilItem ==
  ASSUME NEW s, Len(s) \in Nat, NEW a \in Nat, s[a] = RPC_NIL, a <= Len(s)
  PROVE  Item(s, At(a)) = At(a + 1)
<1>1. Piece(s, At(a), 1) = At(a + 1)
  BY PieceAt
<1>2. At(a + 1).st = "ok" /\ At(a).at = a
  BY DEF At
<1>3. s[At(a).at] = 0
  BY <1>2 DEF RPC_NIL
<1> QED
  BY <1>1, <1>2, <1>3, ItemOf, Zenon

LEMMA StringItem ==
  ASSUME NEW s, Len(s) \in Nat, NEW a \in Nat, s[a] = RPC_STRING,
         s[a + 1] = 1, s[a + 2] = 0, a + 3 <= Len(s)
  PROVE  Item(s, At(a)) = At(a + 4)
<1>1. Piece(s, At(a), 1) = At(a + 1)
  BY PieceAt
<1>2. (a + 1) + 1 = a + 2 /\ a + 1 + 2 + 1 = a + 4
  OBVIOUS
<1>3. Str(s, At(a + 1)) = At(a + 4)
  BY <1>2, StrAt
<1>4. At(a + 1).st = "ok" /\ At(a).at = a
  BY DEF At
<1>5. s[At(a).at] = 3
  BY <1>4 DEF RPC_STRING
<1> QED
  BY <1>1, <1>3, <1>4, <1>5, ItemOf, Zenon

\* A count of one, and a number.
LEMMA CountedOne ==
  ASSUME NEW s, Len(s) \in Nat, NEW a \in Nat, s[a] = 1, s[a + 1] = 0, s[a + 2] = RPC_NUMBER,
         a + 3 <= Len(s)
  PROVE  Counted(s, At(a)) = At(a + 4)
<1>1. Piece(s, At(a), 2) = At(a + 2)
  BY PieceAt
<1>2. Item(s, At(a + 2)) = At(a + 4)
  <2>1. a + 2 + 2 = a + 4 /\ a + 2 + 1 <= Len(s)
    OBVIOUS
  <2> QED
    BY <2>1, NumberItem
<1>3. At(a + 2).st = "ok" /\ At(a + 2).at = a + 2 /\ At(a + 4).st = "ok"
  BY DEF At
<1>4. s[At(a + 2).at] # RPC_TABLE
  BY <1>3 DEF RPC_NUMBER, RPC_TABLE
<1>5. Vars(s, At(a + 2), 1) = At(a + 4)
  BY <1>2, <1>3, <1>4, OneVar
<1>6. (a + 2) - 2 = a /\ (a + 2) - 1 = a + 1 /\ 1 + 256 * 0 = 1
  OBVIOUS
<1> QED
  BY <1>1, <1>3, <1>5, <1>6 DEF Counted

\* A string of one byte and a number.
LEMMA StringAndNumber ==
  ASSUME NEW s, Len(s) \in Nat, NEW a \in Nat, s[a] = RPC_STRING,
         s[a + 1] = 1, s[a + 2] = 0, s[a + 4] = RPC_NUMBER, a + 5 <= Len(s)
  PROVE  Vars(s, At(a), 2) = At(a + 6)
<1>1. Item(s, At(a)) = At(a + 4)
  BY StringItem
<1>2. Item(s, At(a + 4)) = At(a + 6)
  <2>1. a + 4 + 2 = a + 6 /\ a + 4 + 1 <= Len(s)
    OBVIOUS
  <2> QED
    BY <2>1, NumberItem
<1>3. /\ At(a).st = "ok" /\ At(a).at = a /\ At(a + 4).st = "ok" /\ At(a + 4).at = a + 4
      /\ At(a + 6).st = "ok"
  BY DEF At
<1>4. s[At(a).at] # RPC_TABLE /\ s[At(a + 4).at] # RPC_TABLE
  BY <1>3 DEF RPC_STRING, RPC_NUMBER, RPC_TABLE
<1>5. Len(s) \in Nat \ {0}
  OBVIOUS
<1> QED
  BY <1>1, <1>2, <1>3, <1>4, <1>5, TwoVars

-----------------------------------------------------------------------------
(* Requests and answers                                                    *)

Asks == {RPC_CMD_CALL, RPC_CMD_GET, RPC_CMD_NEWINDEX}

LEMMA Counts == U32(0) = <<0, 0>> /\ U32(1) = <<1, 0>> /\ U32(2) = <<2, 0>>
BY DEF U32

LEMMA PairOf ==
  ASSUME NEW t \in Seq(Int), NEW i \in Int, NEW j \in Int, j = i + 1, i \in 1..Len(t), j \in 1..Len(t)
  PROVE  SubSeq(t, i, j) = <<t[i], t[j]>>
<1> DEFINE u == SubSeq(t, i, i + 1)
<1>1. u \in Seq(Int) /\ Len(u) = 2 /\ u[1] = t[i] /\ u[2] = t[i + 1] /\ t[i] \in Int /\ t[i + 1] \in Int
  OBVIOUS
<1> HIDE DEF u
<1>2. u = <<t[i], t[i + 1]>>
  BY <1>1
<1> QED
  BY <1>2 DEF u

LEMMA Requests ==
  ASSUME NEW s
  PROVE  /\ Request(s, RPC_CMD_CALL) = Counted(s, Str(s, Start))
         /\ Request(s, RPC_CMD_GET) = Str(s, Start)
         /\ Request(s, RPC_CMD_NEWINDEX) = Vars(s, Str(s, Start), 2)
         /\ Request(s, RPC_CMD_CON) = Piece(s, Start, Len(Header))
<1> DEFINE a == Counted(s, Str(s, Start))
           b == Str(s, Start)
           c == Vars(s, b, 2)
           d == Piece(s, Start, Len(Header))
<1>1. \A cmd : Request(s, cmd) = CASE cmd = 1 -> a [] cmd = 2 -> b [] cmd = 4 -> c [] OTHER -> d
  BY Zenon DEF Request, RPC_CMD_CALL, RPC_CMD_GET, RPC_CMD_NEWINDEX
<1> HIDE DEF a, b, c, d
<1>2. Request(s, 1) = a /\ Request(s, 2) = b /\ Request(s, 4) = c /\ Request(s, 3) = d
  BY <1>1
<1> QED
  BY <1>2, Zenon DEF a, b, c, d, RPC_CMD_CALL, RPC_CMD_GET, RPC_CMD_NEWINDEX, RPC_CMD_CON

\* What a connection exchanges.
LEMMA HeaderReads ==
  /\ Request(Header, RPC_CMD_CON) = At(4) /\ Reply(Header, RPC_CMD_CON) = At(4)
  /\ Request(<<RPC_CMD_CON>> \o Header, RPC_CMD_CON) = At(4)
<1>1. Len(Header) = 3 /\ Len(<<RPC_CMD_CON>> \o Header) = 4 /\ Start = At(1)
  BY DEF Header, Start, At
<1>2. Piece(Header, At(1), 3) = At(4) /\ Piece(<<RPC_CMD_CON>> \o Header, At(1), 3) = At(4)
  <2>1. 4 - 1 <= 3 /\ 4 - 1 <= 4 /\ 1 + 3 = 4
    OBVIOUS
  <2> QED
    BY <1>1, <2>1 DEF Piece, At
<1>3. \A s : /\ Request(s, RPC_CMD_CON) = Piece(s, Start, Len(Header))
             /\ Reply(s, RPC_CMD_CON) = Piece(s, Start, Len(Header))
  BY DEF Request, Reply, RPC_CMD_CALL, RPC_CMD_GET, RPC_CMD_CON, RPC_CMD_NEWINDEX
<1> QED
  BY <1>1, <1>2, <1>3

\* Of an empty stream nothing is read.
LEMMA NothingReads ==
  ASSUME NEW cmd
  PROVE  Request(<<>>, cmd) = Short /\ Reply(<<>>, cmd) = Short
<1>0. Len(<<>>) \in Nat /\ Len(Header) = 3
  BY DEF Header
<1>1. \A n \in Nat \ {0} : Piece(<<>>, Start, n) = Short
  BY DEF Piece, Start, Short
<1>2. \A n : Piece(<<>>, Short, n) = Short
  BY DEF Piece, Short
<1>3. \A n : Vars(<<>>, Short, n) = Short
  <2>1. Short.st # "ok"
    BY DEF Short
  <2> QED
    BY <1>0, <2>1, VarsStopped
<1>4. Str(<<>>, Start) = Short
  BY <1>1 DEF Str, Short
<1>5. Counted(<<>>, Short) = Short
  BY <1>2 DEF Counted, Short
<1>6. Request(<<>>, cmd) = Short
  BY <1>0, <1>1, <1>3, <1>4, <1>5 DEF Request
<1>7. Vars(<<>>, Start, 1) = Short
  <2>1. Item(<<>>, Start) = Short
    BY <1>1 DEF Item, Short
  <2>2. Start.st = "ok" /\ Short.st # "ok"
    BY DEF Start, Short
  <2> QED
    BY <1>0, <2>1, <2>2, OneVar
<1>8. Reply(<<>>, cmd) = Short
  BY <1>0, <1>1, <1>7 DEF Reply, Short
<1> QED
  BY <1>6, <1>8

\* A call of one number.
LEMMA CallBytes ==
  ASSUME NEW c \in Int, NEW v \in Int, NEW s, s = <<1, 0>> \o <<c>> \o <<1, 0>> \o <<1, v>>
  PROVE  /\ s \in Seq(Int) /\ Len(s) = 7
         /\ s[1] = 1 /\ s[2] = 0 /\ s[3] = c /\ s[4] = 1 /\ s[5] = 0 /\ s[6] = 1 /\ s[7] = v
OBVIOUS

LEMMA CallFields ==
  ASSUME NEW c \in Int, NEW v \in Int, NEW s \in Seq(Int), Len(s) = 7,
         s[1] = 1, s[2] = 0, s[3] = c, s[4] = 1, s[5] = 0, s[6] = 1, s[7] = v
  PROVE  /\ Request(s, RPC_CMD_CALL) = At(8) /\ Rest(s, At(8)) = <<>>
         /\ NumberAt(s, 6) = v /\ Named(s) = c
<1>1. Str(s, Start) = At(4)
  <2>1. Piece(s, Start, 2) = At(3)
    BY DEF Piece, Start, At
  <2>2. At(3).st = "ok" /\ s[At(3).at - 2] + 256 * s[At(3).at - 1] = 1
    BY DEF At
  <2>3. Piece(s, At(3), 1) = At(4)
    BY DEF Piece, At
  <2>4. Str(s, Start) = Piece(s, At(3), 1)
    <3> DEFINE d == At(3)
    <3>1. Piece(s, Start, 2) = d /\ d.st = "ok" /\ s[d.at - 2] + 256 * s[d.at - 1] = 1
      BY <2>1, <2>2
    <3> HIDE DEF d
    <3>2. Str(s, Start) = Piece(s, d, 1)
      BY <3>1, StrOf
    <3> QED
      BY <3>2 DEF d
  <2> QED
    BY <2>3, <2>4, Zenon
<1>2. Counted(s, At(4)) = At(8)
  <2>1. Len(s) \in Nat /\ 4 + 1 = 5 /\ 4 + 2 = 6 /\ 4 + 3 <= 7 /\ 4 + 4 = 8
    OBVIOUS
  <2> QED
    BY <2>1, CountedOne DEF RPC_NUMBER
<1>3. Request(s, RPC_CMD_CALL) = At(8)
  BY <1>1, <1>2, Requests, Zenon
<1>4. Rest(s, At(8)) = <<>>
  BY DEF Rest, At
<1>5. NumberAt(s, 6) = v
  BY DEF NumberAt, RPC_NUMBER
<1>6. SubSeq(s, 1, 2) = U32(1)
  <2>1. SubSeq(s, 1, 2) = <<s[1], s[2]>>
    BY PairOf
  <2> QED
    BY <2>1, Counts
<1>7. Named(s) = c
  BY <1>6, Zenon DEF Named
<1> QED
  BY <1>3, <1>4, <1>5, <1>7

LEMMA CallReads ==
  ASSUME NEW c \in Int, NEW v \in Int
  PROVE  LET s == String(c) \o U32(1) \o Number(v) IN
         /\ Request(s, RPC_CMD_CALL) = At(8) /\ Rest(s, At(8)) = <<>>
         /\ NumberAt(s, 6) = v /\ Named(s) = c
<1> DEFINE s == <<1, 0>> \o <<c>> \o <<1, 0>> \o <<1, v>>
<1>1. String(c) \o U32(1) \o Number(v) = s
  BY Counts, Zenon DEF String, Number, RPC_NUMBER
<1>2. /\ s \in Seq(Int) /\ Len(s) = 7
      /\ s[1] = 1 /\ s[2] = 0 /\ s[3] = c /\ s[4] = 1 /\ s[5] = 0 /\ s[6] = 1 /\ s[7] = v
  BY CallBytes
<1> HIDE DEF s
<1>3. /\ Request(s, RPC_CMD_CALL) = At(8) /\ Rest(s, At(8)) = <<>>
      /\ NumberAt(s, 6) = v /\ Named(s) = c
  BY <1>2, CallFields
<1> QED
  BY <1>1, <1>3, Zenon

\* A request for a variable.
LEMMA GetBytes ==
  ASSUME NEW s, s = <<1, 0>> \o << 120 >>
  PROVE  s \in Seq(Int) /\ Len(s) = 3 /\ s[1] = 1 /\ s[2] = 0 /\ s[3] = 120
OBVIOUS

LEMMA GetFields ==
  ASSUME NEW s \in Seq(Int), Len(s) = 3, s[1] = 1, s[2] = 0, s[3] = 120
  PROVE  Request(s, RPC_CMD_GET) = At(4) /\ Rest(s, At(4)) = <<>> /\ Named(s) = X
<1>1. Str(s, Start) = At(4)
  <2>1. Piece(s, Start, 2) = At(3)
    BY DEF Piece, Start, At
  <2>2. At(3).st = "ok" /\ s[At(3).at - 2] + 256 * s[At(3).at - 1] = 1
    BY DEF At
  <2>3. Piece(s, At(3), 1) = At(4)
    BY DEF Piece, At
  <2>4. Str(s, Start) = Piece(s, At(3), 1)
    <3> DEFINE d == At(3)
    <3>1. Piece(s, Start, 2) = d /\ d.st = "ok" /\ s[d.at - 2] + 256 * s[d.at - 1] = 1
      BY <2>1, <2>2
    <3> HIDE DEF d
    <3>2. Str(s, Start) = Piece(s, d, 1)
      BY <3>1, StrOf
    <3> QED
      BY <3>2 DEF d
  <2> QED
    BY <2>3, <2>4, Zenon
<1>2. Request(s, RPC_CMD_GET) = At(4)
  BY <1>1, Requests, Zenon
<1>3. Rest(s, At(4)) = <<>>
  BY DEF Rest, At
<1>4. SubSeq(s, 1, 2) = U32(1)
  <2>1. SubSeq(s, 1, 2) = <<s[1], s[2]>>
    BY PairOf
  <2> QED
    BY <2>1, Counts
<1>5. Named(s) = X
  BY <1>4, Zenon DEF Named, X
<1> QED
  BY <1>2, <1>3, <1>5

LEMMA GetReads ==
  /\ Request(String(X), RPC_CMD_GET) = At(4) /\ Rest(String(X), At(4)) = <<>>
  /\ Named(String(X)) = X
<1> DEFINE s == <<1, 0>> \o << 120 >>
<1>1. String(X) = s
  BY Counts, Zenon DEF String, X
<1>2. s \in Seq(Int) /\ Len(s) = 3 /\ s[1] = 1 /\ s[2] = 0 /\ s[3] = 120
  BY GetBytes
<1> HIDE DEF s
<1>3. Request(s, RPC_CMD_GET) = At(4) /\ Rest(s, At(4)) = <<>> /\ Named(s) = X
  BY <1>2, GetFields
<1> QED
  BY <1>1, <1>3, Zenon

\* An assignment to a global.
LEMMA NewindexBytes ==
  ASSUME NEW v \in Int, NEW s, s = <<0, 0>> \o << 3 >> \o (<<1, 0>> \o << 120 >>) \o <<1, v>>
  PROVE  /\ s \in Seq(Int) /\ Len(s) = 8
         /\ s[1] = 0 /\ s[2] = 0 /\ s[3] = 3 /\ s[4] = 1 /\ s[5] = 0 /\ s[6] = 120
         /\ s[7] = 1 /\ s[8] = v
OBVIOUS

LEMMA NewindexFields ==
  ASSUME NEW v \in Int, NEW s \in Seq(Int), Len(s) = 8,
         s[1] = 0, s[2] = 0, s[3] = 3, s[4] = 1, s[5] = 0, s[6] = 120, s[7] = 1, s[8] = v
  PROVE  /\ Request(s, RPC_CMD_NEWINDEX) = At(9) /\ Rest(s, At(9)) = <<>>
         /\ SubSeq(s, 1, 2) = U32(0) /\ SubSeq(s, 3, 6) = <<RPC_STRING>> \o String(X)
         /\ NumberAt(s, 7) = v /\ Len(s) > 6
<1>1. Str(s, Start) = At(3)
  <2>1. Piece(s, Start, 2) = At(3)
    BY DEF Piece, Start, At
  <2>2. At(3).st = "ok" /\ s[At(3).at - 2] + 256 * s[At(3).at - 1] = 0
    BY DEF At
  <2>3. Piece(s, At(3), 0) = At(3)
    BY DEF Piece, At
  <2>4. Str(s, Start) = Piece(s, At(3), 0)
    <3> DEFINE d == At(3)
    <3>1. Piece(s, Start, 2) = d /\ d.st = "ok" /\ s[d.at - 2] + 256 * s[d.at - 1] = 0
      BY <2>1, <2>2
    <3> HIDE DEF d
    <3>2. Str(s, Start) = Piece(s, d, 0)
      BY <3>1, StrOf
    <3> QED
      BY <3>2 DEF d
  <2> QED
    BY <2>3, <2>4, Zenon
<1>4. Vars(s, At(3), 2) = At(9)
  <2>1. Len(s) \in Nat /\ 3 + 1 = 4 /\ 3 + 2 = 5 /\ 3 + 4 = 7 /\ 3 + 5 <= 8 /\ 3 + 6 = 9
    OBVIOUS
  <2> QED
    BY <2>1, StringAndNumber DEF RPC_STRING, RPC_NUMBER
<1>5. Request(s, RPC_CMD_NEWINDEX) = At(9)
  <2>1. Request(s, RPC_CMD_NEWINDEX) = Vars(s, Str(s, Start), 2)
    BY Requests
  <2> QED
    BY <1>1, <1>4, <2>1
<1>6. Rest(s, At(9)) = <<>>
  BY DEF Rest, At
<1>7. SubSeq(s, 1, 2) = U32(0)
  <2>1. SubSeq(s, 1, 2) = <<s[1], s[2]>>
    BY PairOf
  <2> QED
    BY <2>1, Counts
<1>8. SubSeq(s, 3, 6) = <<RPC_STRING>> \o String(X)
  <2> DEFINE t == SubSeq(s, 3, 6)
             u == << 3 >> \o (<<1, 0>> \o << 120 >>)
  <2>3. /\ t \in Seq(Int) /\ Len(t) = 4 /\ t[1] = 3 /\ t[2] = 1 /\ t[3] = 0 /\ t[4] = 120
    OBVIOUS
  <2>4. u \in Seq(Int) /\ Len(u) = 4 /\ u[1] = 3 /\ u[2] = 1 /\ u[3] = 0 /\ u[4] = 120
    OBVIOUS
  <2>5. u = <<RPC_STRING>> \o String(X)
    BY Counts, Zenon DEF String, RPC_STRING, X
  <2> HIDE DEF t, u
  <2>6. t = <<3, 1, 0, 120>> /\ u = <<3, 1, 0, 120>>
    BY <2>3, <2>4
  <2> QED
    BY <2>5, <2>6, Zenon DEF t
<1>9. NumberAt(s, 7) = v /\ Len(s) > 6
  BY DEF NumberAt, RPC_NUMBER
<1> QED
  BY <1>5, <1>6, <1>7, <1>8, <1>9

LEMMA NewindexReads ==
  ASSUME NEW v \in Int
  PROVE  LET s == U32(0) \o <<RPC_STRING>> \o String(X) \o Number(v) IN
         /\ Request(s, RPC_CMD_NEWINDEX) = At(9) /\ Rest(s, At(9)) = <<>>
         /\ SubSeq(s, 1, 2) = U32(0) /\ SubSeq(s, 3, 6) = <<RPC_STRING>> \o String(X)
         /\ NumberAt(s, 7) = v /\ Len(s) > 6
<1> DEFINE s == <<0, 0>> \o << 3 >> \o (<<1, 0>> \o << 120 >>) \o <<1, v>>
<1>1. U32(0) \o <<RPC_STRING>> \o String(X) \o Number(v) = s
  BY Counts, Zenon DEF String, Number, RPC_NUMBER, RPC_STRING, X
<1>2. /\ s \in Seq(Int) /\ Len(s) = 8
      /\ s[1] = 0 /\ s[2] = 0 /\ s[3] = 3 /\ s[4] = 1 /\ s[5] = 0 /\ s[6] = 120
      /\ s[7] = 1 /\ s[8] = v
  BY NewindexBytes
<1> HIDE DEF s
<1>3. /\ Request(s, RPC_CMD_NEWINDEX) = At(9) /\ Rest(s, At(9)) = <<>>
      /\ SubSeq(s, 1, 2) = U32(0) /\ SubSeq(s, 3, 6) = <<RPC_STRING>> \o String(X)
      /\ NumberAt(s, 7) = v /\ Len(s) > 6
  BY <1>2, NewindexFields
<1> QED
  BY <1>1, <1>3, Zenon

LEMMA Replies ==
  ASSUME NEW s
  PROVE  /\ Reply(s, RPC_CMD_CON) = Piece(s, Start, Len(Header))
         /\ Reply(s, RPC_CMD_GET) = Vars(s, Start, 1)
         /\ Piece(s, Start, 1).st = "ok" =>
              /\ s[1] # 0 => Reply(s, RPC_CMD_CALL) = Str(s, Piece(s, Piece(s, Start, 1), 2))
              /\ s[1] = 0 => Reply(s, RPC_CMD_CALL) = Counted(s, Piece(s, Start, 1))
              /\ s[1] = 0 => Reply(s, RPC_CMD_NEWINDEX) = Piece(s, Start, 1)
<1> DEFINE code == Piece(s, Start, 1)
           a == Piece(s, Start, Len(Header))
           b == Vars(s, Start, 1)
           e == Str(s, Piece(s, code, 2))
           n == Counted(s, code)
<1>1. \A cmd : Reply(s, cmd) = CASE cmd = 3 -> a [] cmd = 2 -> b
                 [] OTHER -> CASE code.st # "ok" -> code [] code.st = "ok" /\ s[1] # 0 -> e
                               [] OTHER -> IF cmd = 1 THEN n ELSE code
  BY Zenon DEF Reply, RPC_CMD_CALL, RPC_CMD_GET, RPC_CMD_CON
<1> HIDE DEF a, b, code, e, n
<1>2. Reply(s, 3) = a /\ Reply(s, 2) = b
  BY <1>1
<1>3. code.st = "ok" => /\ s[1] # 0 => Reply(s, 1) = e
                        /\ s[1] = 0 => Reply(s, 1) = n /\ Reply(s, 4) = code
  BY <1>1
<1> QED
  BY <1>2, <1>3, Zenon DEF a, b, code, e, n, RPC_CMD_CALL, RPC_CMD_GET, RPC_CMD_NEWINDEX, RPC_CMD_CON

\* The answers: a number, an error, a variable, and a return code alone.
LEMMA NumberBytes ==
  ASSUME NEW v \in Int, NEW s, s = << 0 >> \o <<1, 0>> \o <<1, v>>
  PROVE  s \in Seq(Int) /\ Len(s) = 5 /\ s[1] = 0 /\ s[2] = 1 /\ s[3] = 0 /\ s[4] = 1 /\ s[5] = v
OBVIOUS

LEMMA NumberFields ==
  ASSUME NEW v \in Int, NEW s \in Seq(Int), Len(s) = 5,
         s[1] = 0, s[2] = 1, s[3] = 0, s[4] = 1, s[5] = v
  PROVE  /\ Reply(s, RPC_CMD_CALL) = At(6) /\ Rest(s, At(6)) = <<>>
         /\ s[1] = 0 /\ SubSeq(s, 2, 3) = U32(1) /\ NumberAt(s, 4) = v
<1>1. Piece(s, Start, 1) = At(2)
  BY DEF Piece, Start, At
<1>2. Counted(s, At(2)) = At(6)
  <2>1. Len(s) \in Nat /\ 2 + 1 = 3 /\ 2 + 2 = 4 /\ 2 + 3 <= 5 /\ 2 + 4 = 6
    OBVIOUS
  <2> QED
    BY <2>1, CountedOne DEF RPC_NUMBER
<1>3. At(2).st = "ok"
  BY DEF At
<1>4. Reply(s, RPC_CMD_CALL) = At(6)
  BY <1>1, <1>2, <1>3, Replies, Zenon
<1>5. Rest(s, At(6)) = <<>>
  BY DEF Rest, At
<1>6. SubSeq(s, 2, 3) = U32(1)
  <2>1. SubSeq(s, 2, 3) = <<s[2], s[3]>>
    BY PairOf
  <2> QED
    BY <2>1, Counts
<1>7. NumberAt(s, 4) = v
  BY DEF NumberAt, RPC_NUMBER
<1> QED
  BY <1>4, <1>5, <1>6, <1>7

LEMMA NumberReads ==
  ASSUME NEW v \in Int
  PROVE  LET s == << 0 >> \o U32(1) \o Number(v) IN
         /\ Reply(s, RPC_CMD_CALL) = At(6) /\ Rest(s, At(6)) = <<>>
         /\ s[1] = 0 /\ SubSeq(s, 2, 3) = U32(1) /\ NumberAt(s, 4) = v
<1> DEFINE s == << 0 >> \o <<1, 0>> \o <<1, v>>
<1>1. << 0 >> \o U32(1) \o Number(v) = s
  BY Counts, Zenon DEF Number, RPC_NUMBER
<1>2. s \in Seq(Int) /\ Len(s) = 5 /\ s[1] = 0 /\ s[2] = 1 /\ s[3] = 0 /\ s[4] = 1 /\ s[5] = v
  BY NumberBytes
<1> HIDE DEF s
<1>3. /\ Reply(s, RPC_CMD_CALL) = At(6) /\ Rest(s, At(6)) = <<>>
      /\ s[1] = 0 /\ SubSeq(s, 2, 3) = U32(1) /\ NumberAt(s, 4) = v
  BY <1>2, NumberFields
<1> QED
  BY <1>1, <1>3, Zenon

LEMMA ErrorBytes ==
  ASSUME NEW c \in Int, NEW s, s = << 1 >> \o <<2, 0>> \o (<<1, 0>> \o <<c>>)
  PROVE  s \in Seq(Int) /\ Len(s) = 6 /\ s[1] = 1 /\ s[4] = 1 /\ s[5] = 0
OBVIOUS

LEMMA ErrorFields ==
  ASSUME NEW s \in Seq(Int), Len(s) = 6, s[1] = 1, s[4] = 1, s[5] = 0
  PROVE  Reply(s, RPC_CMD_CALL) = At(7) /\ Rest(s, At(7)) = <<>> /\ s[1] # 0
<1>1. Piece(s, Start, 1) = At(2)
  BY DEF Piece, Start, At
<1>2. Piece(s, At(2), 2) = At(4)
  BY DEF Piece, At
<1>3. Str(s, At(4)) = At(7)
  <2>1. Piece(s, At(4), 2) = At(6)
    BY DEF Piece, At
  <2>2. At(6).st = "ok" /\ s[At(6).at - 2] + 256 * s[At(6).at - 1] = 1
    BY DEF At
  <2>3. Piece(s, At(6), 1) = At(7)
    BY DEF Piece, At
  <2>4. Str(s, At(4)) = Piece(s, At(6), 1)
    <3> DEFINE d == At(6)
    <3>1. Piece(s, At(4), 2) = d /\ d.st = "ok" /\ s[d.at - 2] + 256 * s[d.at - 1] = 1
      BY <2>1, <2>2
    <3> HIDE DEF d
    <3>2. Str(s, At(4)) = Piece(s, d, 1)
      BY <3>1, StrOf
    <3> QED
      BY <3>2 DEF d
  <2> QED
    BY <2>3, <2>4, Zenon
<1>4. At(2).st = "ok" /\ s[1] # 0
  BY DEF At
<1>5. Reply(s, RPC_CMD_CALL) = At(7)
  BY <1>1, <1>2, <1>3, <1>4, Replies, Zenon
<1>6. Rest(s, At(7)) = <<>>
  BY DEF Rest, At
<1> QED
  BY <1>4, <1>5, <1>6

LEMMA ErrorReads ==
  ASSUME NEW c \in Int
  PROVE  /\ Reply(Error(c), RPC_CMD_CALL) = At(7) /\ Rest(Error(c), At(7)) = <<>>
         /\ Error(c)[1] # 0
<1> DEFINE s == << 1 >> \o <<2, 0>> \o (<<1, 0>> \o <<c>>)
<1>1. Error(c) = s
  BY Counts, Zenon DEF Error, String
<1>2. s \in Seq(Int) /\ Len(s) = 6 /\ s[1] = 1 /\ s[4] = 1 /\ s[5] = 0
  BY ErrorBytes
<1> HIDE DEF s
<1>3. Reply(s, RPC_CMD_CALL) = At(7) /\ Rest(s, At(7)) = <<>> /\ s[1] # 0
  BY <1>2, ErrorFields
<1> QED
  BY <1>1, <1>3, Zenon

LEMMA VariableReads ==
  ASSUME NEW v \in Int
  PROVE  /\ Reply(Number(v), RPC_CMD_GET) = At(3) /\ Rest(Number(v), At(3)) = <<>>
         /\ NumberAt(Number(v), 1) = v
<1> DEFINE s == Number(v)
<1>1. s \in Seq(Int) /\ Len(s) = 2 /\ s[1] = 1 /\ s[2] = v
  BY DEF Number, RPC_NUMBER
<1> HIDE DEF s
<1>2. Item(s, Start) = At(3)
  <2>1. Len(s) \in Nat /\ 1 + 1 <= 2 /\ 1 + 2 = 3 /\ Start = At(1)
    BY <1>1 DEF Start, At
  <2> QED
    BY <1>1, <2>1, NumberItem DEF RPC_NUMBER
<1>3. Vars(s, Start, 1) = At(3)
  <2>1. Start.st = "ok" /\ s[Start.at] # RPC_TABLE /\ Len(s) \in Nat
    BY <1>1 DEF Start, RPC_TABLE
  <2> QED
    BY <1>2, <2>1, OneVar
<1>4. Reply(s, RPC_CMD_GET) = At(3)
  BY <1>3, Replies, Zenon
<1>5. Rest(s, At(3)) = <<>> /\ NumberAt(s, 1) = v
  BY <1>1 DEF Rest, At, NumberAt, RPC_NUMBER
<1> QED
  BY <1>4, <1>5 DEF s

LEMMA NilReads ==
  /\ Reply(<<RPC_NIL>>, RPC_CMD_GET) = At(2) /\ Rest(<<RPC_NIL>>, At(2)) = <<>>
  /\ NumberAt(<<RPC_NIL>>, 1) = NoValue
<1> DEFINE s == <<RPC_NIL>>
<1>1. s \in Seq(Int) /\ Len(s) = 1 /\ s[1] = 0
  BY DEF RPC_NIL
<1> HIDE DEF s
<1>2. Item(s, Start) = At(2)
  <2>1. Len(s) \in Nat /\ 1 <= 1 /\ 1 + 1 = 2 /\ Start = At(1)
    BY <1>1 DEF Start, At
  <2> QED
    BY <1>1, <2>1, NilItem DEF RPC_NIL
<1>3. Vars(s, Start, 1) = At(2)
  <2>1. Start.st = "ok" /\ s[Start.at] # RPC_TABLE /\ Len(s) \in Nat
    BY <1>1 DEF Start, RPC_TABLE
  <2> QED
    BY <1>2, <2>1, OneVar
<1>4. Reply(s, RPC_CMD_GET) = At(2)
  BY <1>3, Replies, Zenon
<1>5. Rest(s, At(2)) = <<>> /\ NumberAt(s, 1) = NoValue
  BY <1>1 DEF Rest, At, NumberAt
<1> QED
  BY <1>4, <1>5 DEF s

LEMMA DoneReads ==
  Reply(<< 0 >>, RPC_CMD_NEWINDEX) = At(2) /\ Rest(<< 0 >>, At(2)) = <<>>
<1> DEFINE s == << 0 >>
<1>1. s \in Seq(Int) /\ Len(s) = 1 /\ s[1] = 0
  OBVIOUS
<1> HIDE DEF s
<1>2. Piece(s, Start, 1) = At(2)
  BY <1>1 DEF Piece, Start, At
<1>3. At(2).st = "ok"
  BY DEF At
<1>4. Reply(s, RPC_CMD_NEWINDEX) = At(2)
  BY <1>1, <1>2, <1>3, Replies, Zenon
<1>5. Rest(s, At(2)) = <<>>
  BY <1>1 DEF Rest, At
<1> QED
  BY <1>4, <1>5 DEF s

-----------------------------------------------------------------------------
(***************************************************************************)
(* The invariant                                                           *)
(***************************************************************************)

Commands == Asks \cup {RPC_CMD_CON}
Names == {F, U, X}
Servers == [up : {TRUE, FALSE}, open : {TRUE, FALSE}, errs : Nat, pc : {"cmd", "read", "run"},
            cmd : {0, 1, 2, 3, 4}, arg : Int]
Clients == [handle : {TRUE, FALSE}, pc : {"idle", "ready", "answer"}, cmd : Commands,
            name : Names, fits : {TRUE, FALSE}]

\* The request the client is in.
Req == nextReq - 1

Types ==
  /\ c2s \in Seq(Nat) /\ srv \in Servers /\ store \in Int /\ cl \in Clients
  /\ nextReq \in Nat /\ lost \in Nat
  /\ pending \in SUBSET Nat

\* What the program counters and the rest say of each other.
Control ==
  /\ srv.pc = "read" => srv.cmd \in Commands
  /\ ~srv.up => srv.pc = "cmd"
  /\ cl.pc = "answer" => (cl.handle <=> cl.cmd # RPC_CMD_CON)
  /\ cl.pc = "ready" => cl.handle /\ cl.cmd # RPC_CMD_CON
  /\ cl.pc # "idle" /\ cl.cmd # RPC_CMD_CON =>
       /\ Req \in DOMAIN Values
       /\ cl.name \in (IF cl.cmd = RPC_CMD_CALL THEN {F, U} ELSE {X})
  /\ \A k \in pending : k < nextReq

\* While the client connects: the server is about to greet it, or does not understand
\* it and will come to a rest, or has greeted it, or has said something else.
Hello == <<RPC_CMD_CON>> \o Header
Greeted ==
  /\ srv.up
  /\ \/ srv.pc = "cmd" /\ c2s = Hello
     \/ srv.pc = "read" /\ srv.cmd = RPC_CMD_CON /\ c2s = Header
Deaf ==
  \/ ~srv.up
  \/ srv.pc = "run"
  \/ srv.pc = "read" /\ srv.cmd # RPC_CMD_CON
  \/ srv.pc = "read" /\ srv.cmd = RPC_CMD_CON /\ c2s = Hello
  \/ srv.pc = "cmd" /\ c2s \in {<<>>, <<RPC_CMD_CALL>>}
Met == s2c = Header /\ c2s = <<>> /\ srv.up /\ srv.open /\ srv.pc = "cmd"
Strange(s) == s \in Seq(Int) /\ Len(s) > 0 /\ s[1] # 76
Attempt ==
  cl.pc = "answer" /\ cl.cmd = RPC_CMD_CON =>
    \/ s2c = <<>> /\ (Greeted \/ Deaf)
    \/ Met
    \/ Strange(s2c)

\* What a request is written as.
Written(cmd, name, v) ==
  CASE cmd = RPC_CMD_CALL -> String(name) \o U32(1) \o Number(v)
    [] cmd = RPC_CMD_GET  -> String(name)
    [] OTHER              -> U32(0) \o <<RPC_STRING>> \o String(name) \o Number(v)

\* While nothing has gone wrong, who holds what of the request.
Asked ==
  \/ srv.pc = "cmd" /\ c2s = <<cl.cmd>> /\ s2c = <<>>
  \/ srv.pc = "read" /\ srv.cmd = cl.cmd /\ c2s = <<>> /\ s2c = <<RPC_READY>>
InFull ==
  /\ srv.pc = "read" /\ srv.cmd = cl.cmd /\ s2c = <<>>
  /\ c2s = Written(cl.cmd, cl.name, Values[Req])
  /\ cl.name # F => Req \notin pending
Running ==
  /\ srv.pc = "run" /\ cl.cmd = RPC_CMD_CALL /\ srv.arg = Values[Req]
  /\ cl.name = F /\ Req \notin pending
  /\ c2s = <<>> /\ s2c = <<>>
Right ==
  CASE cl.cmd = RPC_CMD_CALL ->
         /\ Req \notin pending
         /\ s2c \in {<< 0 >> \o U32(1) \o Number(Values[Req]), Error(F), Error(U)}
    [] cl.cmd = RPC_CMD_GET -> s2c = IF store # NoValue THEN Number(store) ELSE <<RPC_NIL>>
    [] OTHER -> s2c = << 0 >> /\ store = Values[Req]
Told == srv.pc = "cmd" /\ c2s = <<>> /\ Right
Talk ==
  cl.handle /\ trouble = {} =>
    /\ srv.up /\ srv.open
    /\ cl.pc = "idle" => InStep
    /\ cl.pc = "ready" => Asked /\ Req \notin pending
    /\ cl.pc = "answer" => InFull \/ Running \/ Told

\* Without a handle it is the connecting that ended last.
Alone == cl.pc = "idle" /\ trouble = {} /\ ~cl.handle => last.cmd = RPC_CMD_CON

Inv == Types /\ Control /\ (lost = 0 => Attempt /\ Talk /\ Alone /\ RightAnswer)

-----------------------------------------------------------------------------
(* Types and control                                                       *)

LEMMA RequestTyped ==
  ASSUME NEW s \in Seq(Nat), NEW cmd \in Commands
  PROVE  Request(s, cmd) \in Cursor
<1>1. Start \in Cursor /\ Len(Header) \in Nat
  BY DEF Start, Cursor, Header
<1>2. Str(s, Start) \in Cursor
  BY <1>1, StrReads
<1>3. Counted(s, Str(s, Start)) \in Cursor
  <2> DEFINE d == Piece(s, Str(s, Start), 2)
  <2>1. d \in Cursor
    BY <1>2, CountReads
  <2>2. Vars(s, d, s[d.at - 2] + 256 * s[d.at - 1]) \in Cursor
    BY <2>1, VarsTyped
  <2> QED
    BY <2>1, <2>2, Zenon DEF Counted
<1>4. Vars(s, Str(s, Start), 2) \in Cursor
  BY <1>2, VarsTyped
<1>5. Piece(s, Start, Len(Header)) \in Cursor
  BY <1>1, PieceReads
<1> QED
  BY <1>2, <1>3, <1>4, <1>5, Requests, Zenon DEF Commands, Asks

\* What is left of a stream is a stream.
LEMMA RestTyped ==
  ASSUME NEW s \in Seq(Nat), NEW c \in Cursor
  PROVE  Rest(s, c) \in Seq(Nat)
<1>1. c.at \in Nat \ {0}
  BY DEF Cursor
<1> DEFINE a == c.at
<1>2. a \in Nat \ {0}
  BY <1>1
<1> HIDE DEF a
<1>3. SubSeq(s, a, Len(s)) \in Seq(Nat)
  BY <1>2
<1> QED
  BY <1>3, Zenon DEF Rest, a

LEMMA NumberTyped ==
  ASSUME NEW s \in Seq(Nat), NEW i \in Nat \ {0}
  PROVE  NumberAt(s, i) \in Int
<1>1. CASE i < Len(s)
  <2>1. s[i + 1] \in Nat
    BY <1>1
  <2> QED
    BY <2>1 DEF NumberAt, NoValue
<1>2. CASE ~(i < Len(s))
  BY <1>2 DEF NumberAt, NoValue
<1> QED
  BY <1>1, <1>2

LEMMA LinkErrorTyped ==
  ASSUME NEW v \in Servers
  PROVE  /\ LinkError(v) \in Servers /\ LinkError(v).pc = "cmd" /\ LinkError(v).up = v.up
<1> DEFINE w == [v EXCEPT !.pc = "cmd", !.cmd = 0]
<1>1. w \in Servers /\ w.pc = "cmd" /\ w.up = v.up
  <2>1. w \in Servers
    <3> DEFINE u == [v EXCEPT !.pc = "cmd"]
    <3>1. u \in Servers
      BY DEF Servers
    <3>2. w = [u EXCEPT !.cmd = 0]
      BY DEF Servers
    <3> HIDE DEF u
    <3> QED
      BY <3>1, <3>2 DEF Servers
  <2>2. w.pc = "cmd"
    BY DEF Servers
  <2>3. w.up = v.up
    BY DEF Servers
  <2> QED
    BY <2>1, <2>2, <2>3
<1>2. LinkError(v) \in {[w EXCEPT !.errs = @ + 1], [w EXCEPT !.open = FALSE, !.errs = 0]}
  BY DEF LinkError
<1> HIDE DEF w
<1>3. /\ [w EXCEPT !.errs = @ + 1] \in Servers
      /\ [w EXCEPT !.errs = @ + 1].pc = "cmd" /\ [w EXCEPT !.errs = @ + 1].up = w.up
  <2>1. [w EXCEPT !.errs = @ + 1] \in Servers
    <3>0. w \in Servers
      BY <1>1, Zenon
    <3>a. w.errs \in Nat
      BY <3>0 DEF Servers
    <3>1. w \in Servers /\ w.errs + 1 \in Nat
      BY <3>0, <3>a
    <3> DEFINE e == w.errs + 1
    <3>2. e \in Nat /\ [w EXCEPT !.errs = @ + 1] = [w EXCEPT !.errs = e]
      BY <3>1
    <3> HIDE DEF e
    <3> QED
      BY <3>1, <3>2 DEF Servers
  <2>2. [w EXCEPT !.errs = @ + 1].pc = "cmd" /\ [w EXCEPT !.errs = @ + 1].up = w.up
    BY <1>1 DEF Servers
  <2> QED
    BY <2>1, <2>2
<1>4. /\ [w EXCEPT !.open = FALSE, !.errs = 0] \in Servers
      /\ [w EXCEPT !.open = FALSE, !.errs = 0].pc = "cmd"
      /\ [w EXCEPT !.open = FALSE, !.errs = 0].up = w.up
  <2>1. [w EXCEPT !.open = FALSE, !.errs = 0] \in Servers
    <3> DEFINE u == [w EXCEPT !.open = FALSE]
    <3>1. u \in Servers
      BY <1>1 DEF Servers
    <3>2. [w EXCEPT !.open = FALSE, !.errs = 0] = [u EXCEPT !.errs = 0]
      BY <1>1 DEF Servers
    <3> HIDE DEF u
    <3> QED
      BY <3>1, <3>2 DEF Servers
  <2>2. /\ [w EXCEPT !.open = FALSE, !.errs = 0].pc = "cmd"
        /\ [w EXCEPT !.open = FALSE, !.errs = 0].up = w.up
    BY <1>1 DEF Servers
  <2> QED
    BY <2>1, <2>2
<1> QED
  BY <1>1, <1>2, <1>3, <1>4, Zenon

LEMMA ServedTyped ==
  /\ Served \in Servers /\ Served.pc = "cmd" /\ Served.up /\ Served.open
  /\ Down \in Servers /\ Down.pc = "cmd" /\ ~Down.up
<1>1. Served \in Servers
  BY DEF Served, Servers, NoValue
<1>2. Down \in Servers
  BY <1>1 DEF Down, Servers
<1>3. Served.pc = "cmd" /\ Served.up = TRUE /\ Served.open = TRUE
  BY DEF Served
<1>4. Down.pc = "cmd" /\ Down.up = FALSE
  BY DEF Served, Down
<1> QED
  BY <1>1, <1>2, <1>3, <1>4, Zenon

\* What is sent is a sequence of numbers.
LEMMA SentTyped ==
  ASSUME NEW c \in Names, NEW v \in Int
  PROVE  /\ Header \in Seq(Nat) /\ String(c) \in Seq(Nat) /\ Error(c) \in Seq(Nat)
         /\ U32(0) \in Seq(Nat) /\ U32(1) \in Seq(Nat) /\ Number(v) \in Seq(Int)
         /\ v \in Nat => Number(v) \in Seq(Nat)
<1>1. c \in Nat
  BY DEF Names, F, U, X
<1>2. U32(0) \in Seq(Nat) /\ U32(1) \in Seq(Nat) /\ U32(2) \in Seq(Nat)
  <2>1. <<0, 0>> \in Seq(Nat) /\ <<1, 0>> \in Seq(Nat) /\ <<2, 0>> \in Seq(Nat)
    OBVIOUS
  <2> QED
    BY <2>1, Counts, Zenon
<1>3. String(c) \in Seq(Nat)
  BY <1>1, <1>2 DEF String
<1>4. Error(c) \in Seq(Nat)
  BY <1>2, <1>3 DEF Error
<1> QED
  BY <1>2, <1>3, <1>4 DEF Header, Number, RPC_NUMBER

LEMMA MemberTyped ==
  ASSUME NEW S, NEW V \in Seq(S), NEW k \in DOMAIN V
  PROVE  V[k] \in S /\ k \in Nat \ {0}
<1>1. Len(V) \in Nat /\ DOMAIN V = 1..Len(V)
  OBVIOUS
<1>2. V[k] \in S
  OBVIOUS
<1> QED
  BY <1>1, <1>2

LEMMA ValueTyped ==
  ASSUME NEW k \in DOMAIN Values
  PROVE  Values[k] \in Nat /\ Values[k] \in Int /\ k \in Nat \ {0}
<1>1. Values \in Seq(0..255)
  BY RpcAssumption
<1> DEFINE B == 0..255
<1>2. B \subseteq Nat /\ B \subseteq Int
  OBVIOUS
<1> HIDE DEF B
<1>3. Values[k] \in B /\ k \in Nat \ {0}
  BY <1>1, MemberTyped, Zenon DEF B
<1> QED
  BY <1>2, <1>3

\* What has been written is the request.
LEMMA Wrote ==
  ASSUME Types, Control, cl.pc = "ready", cl.fits
  PROVE  /\ <<>> \o Body \o Argument = Written(cl.cmd, cl.name, Values[Req])
         /\ Written(cl.cmd, cl.name, Values[Req]) \in Seq(Nat)
<1>1. /\ cl.cmd \in Asks /\ cl.name \in Names /\ Req \in DOMAIN Values
  BY DEF Types, Control, Clients, Commands
<1>2. Values[Req] \in Nat
  BY <1>1, ValueTyped
<1> DEFINE v == Values[Req]
<1>3. /\ String(cl.name) \in Seq(Nat) /\ U32(0) \in Seq(Nat) /\ U32(1) \in Seq(Nat)
      /\ Number(v) \in Seq(Nat) /\ <<RPC_STRING>> \in Seq(Nat)
  BY <1>1, <1>2, SentTyped DEF RPC_STRING
<1>4. Values[nextReq - 1] = v
  BY Zenon DEF Req
<1>5. RPC_CMD_CALL # RPC_CMD_GET /\ RPC_CMD_CALL # RPC_CMD_NEWINDEX /\ RPC_CMD_GET # RPC_CMD_NEWINDEX
  BY DEF RPC_CMD_CALL, RPC_CMD_GET, RPC_CMD_NEWINDEX
<1> HIDE DEF v
<1> DEFINE n == String(cl.name)
           a == U32(0)
           b == U32(1)
           m == Number(v)
           t == <<RPC_STRING>>
<1>6. n \in Seq(Nat) /\ a \in Seq(Nat) /\ b \in Seq(Nat) /\ m \in Seq(Nat) /\ t \in Seq(Nat)
  BY <1>3
<1>7. CASE cl.cmd = RPC_CMD_CALL
  <2>1. Body = n \o b /\ Argument = m
    BY <1>4, <1>5, <1>7, Zenon DEF Body, Argument
  <2>2. Written(cl.cmd, cl.name, v) = n \o b \o m
    BY <1>5, <1>7, Zenon DEF Written
  <2> HIDE DEF n, b, m
  <2>3. n \o b \in Seq(Nat) /\ n \o b \o m \in Seq(Nat)
    BY <1>6
  <2>4. <<>> \o (n \o b) = n \o b
    BY <2>3, ConcatEmptySeq
  <2> QED
    BY <2>1, <2>2, <2>3, <2>4, Zenon DEF v
<1>8. CASE cl.cmd = RPC_CMD_GET
  <2>1. Body = n /\ Argument = <<>>
    BY <1>5, <1>8, Zenon DEF Body, Argument
  <2>2. Written(cl.cmd, cl.name, v) = n
    BY <1>5, <1>8, Zenon DEF Written
  <2> HIDE DEF n
  <2>3. <<>> \o n = n /\ n \o <<>> = n
    BY <1>6, ConcatEmptySeq
  <2> QED
    BY <1>6, <2>1, <2>2, <2>3, Zenon DEF v
<1>9. CASE cl.cmd = RPC_CMD_NEWINDEX
  <2>1. Body = a \o t \o n /\ Argument = m
    BY <1>4, <1>5, <1>9, Zenon DEF Body, Argument
  <2>2. Written(cl.cmd, cl.name, v) = a \o t \o n \o m
    BY <1>5, <1>9, Zenon DEF Written
  <2> HIDE DEF n, a, t, m
  <2>3. a \o t \o n \in Seq(Nat) /\ a \o t \o n \o m \in Seq(Nat)
    BY <1>6
  <2>4. <<>> \o (a \o t \o n) = a \o t \o n
    BY <2>3, ConcatEmptySeq
  <2> QED
    BY <2>1, <2>2, <2>3, <2>4, Zenon DEF v
<1> QED
  BY <1>1, <1>7, <1>8, <1>9 DEF Asks

LEMMA ReadingTyped ==
  ASSUME NEW v \in Servers, NEW b \in Commands
  PROVE  LET w == [v EXCEPT !.pc = "read", !.cmd = b] IN
         w \in Servers /\ w.pc = "read" /\ w.cmd = b /\ w.up = v.up /\ w.open = v.open
<1> DEFINE u == [v EXCEPT !.pc = "read"]
           w == [v EXCEPT !.pc = "read", !.cmd = b]
<1>1. b \in {0, 1, 2, 3, 4}
  BY DEF Commands, Asks, RPC_CMD_CALL, RPC_CMD_GET, RPC_CMD_CON, RPC_CMD_NEWINDEX
<1>2. u \in Servers /\ w = [u EXCEPT !.cmd = b]
  BY DEF Servers
<1>3. u.pc = "read" /\ u.up = v.up /\ u.open = v.open
  BY DEF Servers
<1> HIDE DEF u
<1>4. [u EXCEPT !.cmd = b] \in Servers
  BY <1>1, <1>2 DEF Servers
<1>5. /\ [u EXCEPT !.cmd = b].pc = u.pc /\ [u EXCEPT !.cmd = b].cmd = b
      /\ [u EXCEPT !.cmd = b].up = u.up /\ [u EXCEPT !.cmd = b].open = u.open
  BY <1>2 DEF Servers
<1> QED
  BY <1>2, <1>3, <1>4, <1>5, Zenon

LEMMA RunningTyped ==
  ASSUME NEW v \in Servers, NEW a \in Int
  PROVE  LET w == [v EXCEPT !.pc = "run", !.arg = a] IN
         w \in Servers /\ w.pc = "run" /\ w.arg = a /\ w.up = v.up /\ w.open = v.open
<1> DEFINE u == [v EXCEPT !.pc = "run"]
           w == [v EXCEPT !.pc = "run", !.arg = a]
<1>2. u \in Servers /\ w = [u EXCEPT !.arg = a]
  BY DEF Servers
<1>3. u.pc = "run" /\ u.up = v.up /\ u.open = v.open
  BY DEF Servers
<1> HIDE DEF u
<1>4. [u EXCEPT !.arg = a] \in Servers
  BY <1>2 DEF Servers
<1>5. /\ [u EXCEPT !.arg = a].pc = u.pc /\ [u EXCEPT !.arg = a].arg = a
      /\ [u EXCEPT !.arg = a].up = u.up /\ [u EXCEPT !.arg = a].open = u.open
  BY <1>2 DEF Servers
<1> QED
  BY <1>2, <1>3, <1>4, <1>5, Zenon

\* The server reads, and it is up.
LEMMA Reads1 ==
  ASSUME Types, Control, NEW st, HasRead(st)
  PROVE  srv.pc = "read" /\ srv.up = TRUE /\ srv.cmd \in Commands /\ Request(c2s, srv.cmd).st = st
BY DEF Types, Control, HasRead, Servers

LEMMA ServerKeeps ==
  ASSUME Types, Control, UNCHANGED clientVars, lost' = lost, c2s' \in Seq(Nat), srv' \in Servers,
         store' \in Int, pending' \subseteq pending,
         srv'.pc = "read" => srv'.cmd \in Commands, ~srv'.up => srv'.pc = "cmd"
  PROVE  Types' /\ Control'
<1>1. cl' = cl /\ nextReq' = nextReq
  BY DEF clientVars
<1>2. Types'
  BY <1>1 DEF Types
<1>3. Req' = Req
  BY <1>1 DEF Req
<1>4. Control'
  BY <1>1, <1>3 DEF Control
<1> QED
  BY <1>2, <1>4

LEMMA CommandKeeps ==
  ASSUME Types, Control, Command
  PROVE  Types' /\ Control'
<1>1. srv \in Servers /\ c2s \in Seq(Nat)
  BY DEF Types
<1>2. Tail(c2s) \in Seq(Nat)
  BY <1>1, HeadTailProperties DEF Command
<1>3. srv' \in Servers /\ (srv'.pc = "read" => srv'.cmd \in Commands) /\ (~srv'.up => srv'.pc = "cmd")
  <2> DEFINE b == Head(c2s)
             w == [srv EXCEPT !.pc = "read", !.cmd = b]
  <2>1. (srv' = w /\ b \in Commands) \/ srv' = LinkError(srv)
    BY Zenon DEF Command, Commands, Asks
  <2>2. CASE srv' = w /\ b \in Commands
    <3>1. w \in Servers /\ w.cmd = b /\ w.up = srv.up
      BY <1>1, <2>2, ReadingTyped, Zenon
    <3> QED
      BY <2>2, <3>1, Zenon DEF Command
  <2>3. CASE srv' = LinkError(srv)
    BY <1>1, <2>3, LinkErrorTyped
  <2> QED
    BY <2>1, <2>2, <2>3
<1>4. UNCHANGED clientVars /\ lost' = lost /\ c2s' = Tail(c2s) /\ store' = store /\ pending' = pending
  BY Zenon DEF Command
<1>5. store' \in Int /\ pending' \subseteq pending /\ c2s' \in Seq(Nat)
  BY <1>2, <1>4 DEF Types
<1> QED
  BY <1>3, <1>4, <1>5, ServerKeeps

\* The other actions of the server, but for one.
LEMMA ServesKeeps ==
  ASSUME Types, Control, UNCHANGED clientVars, lost' = lost, c2s' \in Seq(Nat),
         store' \in Int, pending' \subseteq pending, srv' \in {Served, Down, LinkError(srv)}
  PROVE  Types' /\ Control'
<1>1. srv \in Servers
  BY DEF Types
<1>2. srv' \in Servers /\ srv'.pc = "cmd"
  BY <1>1, ServedTyped, LinkErrorTyped, Zenon
<1>3. (srv'.pc = "read" => srv'.cmd \in Commands) /\ (~srv'.up => srv'.pc = "cmd")
  BY <1>2
<1> QED
  BY <1>2, <1>3, ServerKeeps

LEMMA RestKeeps ==
  ASSUME Types, Control, NEW st, HasRead(st)
  PROVE  Rest(c2s, Request(c2s, srv.cmd)) \in Seq(Nat)
<1>1. c2s \in Seq(Nat) /\ srv.cmd \in Commands
  BY Reads1 DEF Types
<1>2. Request(c2s, srv.cmd) \in Cursor
  BY <1>1, RequestTyped
<1> QED
  BY <1>1, <1>2, RestTyped

LEMMA ReadCallKeeps ==
  ASSUME Types, Control, ReadCall
  PROVE  Types' /\ Control'
<1>0. srv.cmd = RPC_CMD_CALL /\ HasRead("ok")
  BY Zenon DEF ReadCall
<1>1. c2s' \in Seq(Nat)
  <2>1. c2s' = Rest(c2s, Request(c2s, srv.cmd))
    BY <1>0, Zenon DEF ReadCall
  <2> QED
    BY <1>0, <2>1, RestKeeps
<1>2. /\ UNCHANGED clientVars /\ lost' = lost /\ store' = store
      /\ store \in Int /\ srv \in Servers /\ c2s \in Seq(Nat)
  BY DEF ReadCall, Types
<1>3. CASE Named(c2s) = F
  <2> DEFINE v == NumberAt(c2s, 6)
  <2>1. v \in Int
    BY <1>2, NumberTyped
  <2>2. /\ srv' = [srv EXCEPT !.pc = "run", !.arg = v]
        /\ pending' = pending \ {k \in pending : Values[k] = v}
    BY <1>3, Zenon DEF ReadCall
  <2> HIDE DEF v
  <2>3. srv' \in Servers /\ srv'.pc = "run" /\ srv'.up = srv.up
    BY <1>2, <2>1, <2>2, RunningTyped, Zenon
  <2>4. srv.up = TRUE /\ pending' \subseteq pending
    BY <1>0, <2>2, Reads1
  <2>5. (srv'.pc = "read" => srv'.cmd \in Commands) /\ (~srv'.up => srv'.pc = "cmd")
    BY <2>3, <2>4
  <2> QED
    BY <1>1, <1>2, <2>3, <2>4, <2>5, ServerKeeps
<1>4. CASE Named(c2s) # F
  <2>1. srv' = Served /\ pending' = pending
    BY <1>4, Zenon DEF ReadCall
  <2> QED
    BY <1>1, <1>2, <2>1, ServesKeeps
<1> QED
  BY <1>3, <1>4

LEMMA ServerActionsKeep ==
  ASSUME Types, Control, Server
  PROVE  Types' /\ Control'
<1>0. srv \in Servers /\ c2s \in Seq(Nat) /\ store \in Int
  BY DEF Types
<1>1. CASE Command
  BY <1>1, CommandKeeps
<1>2. CASE Negotiate
  <2>1. /\ HasRead("ok") /\ c2s' = Rest(c2s, Request(c2s, srv.cmd))
        /\ srv' \in {Served, Down, LinkError(srv)}
        /\ UNCHANGED clientVars /\ lost' = lost /\ store' = store /\ pending' = pending
    BY <1>2, Zenon DEF Negotiate
  <2> QED
    BY <1>0, <2>1, RestKeeps, ServesKeeps
<1>3. CASE ReadCall
  BY <1>3, ReadCallKeeps
<1>4. CASE Run
  <2>1. /\ c2s' = c2s /\ srv' \in {Served, Down, LinkError(srv)}
        /\ UNCHANGED clientVars /\ lost' = lost /\ store' = store /\ pending' = pending
    BY <1>4, Zenon DEF Run
  <2> QED
    BY <1>0, <2>1, ServesKeeps
<1>5. CASE ReadGet
  <2>1. /\ HasRead("ok") /\ c2s' = Rest(c2s, Request(c2s, srv.cmd))
        /\ srv' \in {Served, Down, LinkError(srv)}
        /\ UNCHANGED clientVars /\ lost' = lost /\ store' = store /\ pending' = pending
    BY <1>5, Zenon DEF ReadGet
  <2> QED
    BY <1>0, <2>1, RestKeeps, ServesKeeps
<1>6. CASE ReadNewindex
  <2>1. /\ HasRead("ok") /\ c2s' = Rest(c2s, Request(c2s, srv.cmd))
        /\ srv' \in {Served, Down, LinkError(srv)}
        /\ UNCHANGED clientVars /\ lost' = lost /\ store' \in {store, NumberAt(c2s, 7)} /\ pending' = pending
    BY <1>6, Zenon DEF ReadNewindex
  <2>2. NumberAt(c2s, 7) \in Int
    BY <1>0, NumberTyped
  <2> QED
    BY <1>0, <2>1, <2>2, RestKeeps, ServesKeeps
<1>7. CASE ServerTimeout
  <2>1. /\ c2s' = <<>> /\ srv' \in {Served, Down, LinkError(srv)}
        /\ UNCHANGED clientVars /\ lost' = lost /\ store' = store /\ pending' = pending
    BY <1>7, Zenon DEF ServerTimeout
  <2> QED
    BY <1>0, <2>1, ServesKeeps
<1>8. CASE Refuse
  <2>1. /\ HasRead("bad") /\ c2s' = Rest(c2s, Request(c2s, srv.cmd))
        /\ srv' \in {Served, Down, LinkError(srv)}
        /\ UNCHANGED clientVars /\ lost' = lost /\ store' = store /\ pending' = pending
    BY <1>8, Zenon DEF Refuse
  <2> QED
    BY <1>0, <2>1, RestKeeps, ServesKeeps
<1>9. CASE ServerDies
  <2>1. /\ HasRead("fault") /\ c2s' = Rest(c2s, Request(c2s, srv.cmd))
        /\ srv' \in {Served, Down, LinkError(srv)}
        /\ UNCHANGED clientVars /\ lost' = lost /\ store' = store /\ pending' = pending
    BY <1>9, Zenon DEF ServerDies
  <2> QED
    BY <1>0, <2>1, RestKeeps, ServesKeeps
<1> QED
  BY <1>1, <1>2, <1>3, <1>4, <1>5, <1>6, <1>7, <1>8, <1>9 DEF Server

LEMMA EndsTyped ==
  ASSUME NEW v \in Clients, NEW h \in {TRUE, FALSE}
  PROVE  LET w == [v EXCEPT !.pc = "idle", !.handle = h] IN
         w \in Clients /\ w.pc = "idle" /\ w.handle = h /\ w.cmd = v.cmd
<1> DEFINE u == [v EXCEPT !.pc = "idle"]
           w == [v EXCEPT !.pc = "idle", !.handle = h]
<1>1. u \in Clients /\ w = [u EXCEPT !.handle = h]
  BY DEF Clients
<1>2. u.pc = "idle" /\ u.cmd = v.cmd
  BY DEF Clients
<1> HIDE DEF u
<1>3. [u EXCEPT !.handle = h] \in Clients
  BY <1>1 DEF Clients
<1>4. /\ [u EXCEPT !.handle = h].pc = u.pc /\ [u EXCEPT !.handle = h].handle = h
      /\ [u EXCEPT !.handle = h].cmd = u.cmd
  BY <1>1 DEF Clients
<1> QED
  BY <1>1, <1>2, <1>3, <1>4, Zenon

LEMMA AnswerTyped ==
  ASSUME NEW v \in Clients
  PROVE  LET w == [v EXCEPT !.pc = "answer"] IN
         /\ w \in Clients /\ w.pc = "answer" /\ w.handle = v.handle /\ w.cmd = v.cmd
         /\ w.name = v.name /\ w.fits = v.fits
BY DEF Clients

LEMMA ConnectTyped ==
  ASSUME NEW v \in Clients
  PROVE  LET w == [v EXCEPT !.pc = "answer", !.cmd = RPC_CMD_CON, !.handle = FALSE] IN
         w \in Clients /\ w.pc = "answer" /\ w.handle = FALSE /\ w.cmd = RPC_CMD_CON
<1> DEFINE u == [v EXCEPT !.pc = "answer"]
           t == [u EXCEPT !.cmd = RPC_CMD_CON]
           w == [v EXCEPT !.pc = "answer", !.cmd = RPC_CMD_CON, !.handle = FALSE]
<1>1. u \in Clients /\ w = [t EXCEPT !.handle = FALSE] /\ u.pc = "answer"
  BY DEF Clients
<1>2. RPC_CMD_CON \in Commands
  BY DEF Commands
<1> HIDE DEF u
<1>3. t \in Clients /\ t.cmd = RPC_CMD_CON /\ t.pc = u.pc
  BY <1>1, <1>2 DEF Clients
<1> HIDE DEF t
<1>4. [t EXCEPT !.handle = FALSE] \in Clients
  BY <1>3 DEF Clients
<1>5. /\ [t EXCEPT !.handle = FALSE].pc = t.pc /\ [t EXCEPT !.handle = FALSE].handle = FALSE
      /\ [t EXCEPT !.handle = FALSE].cmd = t.cmd
  BY <1>3 DEF Clients
<1> QED
  BY <1>1, <1>3, <1>4, <1>5, Zenon

LEMMA AskTyped ==
  ASSUME NEW v \in Clients, NEW cmd \in Commands, NEW name \in Names, NEW fits \in {TRUE, FALSE}
  PROVE  [v EXCEPT !.pc = "ready", !.cmd = cmd, !.name = name, !.fits = fits] \in Clients
<1> DEFINE u == [v EXCEPT !.pc = "ready"]
           t == [u EXCEPT !.cmd = cmd]
           q == [t EXCEPT !.name = name]
           w == [v EXCEPT !.pc = "ready", !.cmd = cmd, !.name = name, !.fits = fits]
<1>1. u \in Clients /\ w = [q EXCEPT !.fits = fits] 
  BY DEF Clients
<1> HIDE DEF u
<1>2. t \in Clients
  BY <1>1 DEF Clients
<1> HIDE DEF t
<1>3. q \in Clients
  BY <1>2 DEF Clients
<1> HIDE DEF q
<1>4. [q EXCEPT !.fits = fits] \in Clients
  BY <1>3 DEF Clients
<1> QED
  BY <1>1, <1>4, Zenon

\* A request that is over leaves nothing to say.
LEMMA EndsKeep ==
  ASSUME Types, Control, NEW h \in {TRUE, FALSE}, cl' = [cl EXCEPT !.pc = "idle", !.handle = h],
         UNCHANGED <<srv, store, nextReq, lost>>, c2s' \in Seq(Nat),
         pending' \in SUBSET Nat, \A k \in pending' : k < nextReq
  PROVE  Types' /\ Control'
<1>1. cl' \in Clients /\ cl'.pc = "idle"
  <2>1. cl \in Clients
    BY DEF Types
  <2> QED
    BY <2>1, EndsTyped, Zenon
<1>2. Types'
  BY <1>1 DEF Types
<1>3. Control'
  BY <1>1 DEF Control
<1> QED
  BY <1>2, <1>3

LEMMA ConnectTypes ==
  ASSUME Types, Control, Connect
  PROVE  Types' /\ Control'
<1>1. cl' \in Clients /\ cl'.pc = "answer" /\ cl'.handle = FALSE /\ cl'.cmd = RPC_CMD_CON
  <2>1. cl \in Clients /\ cl' = [cl EXCEPT !.pc = "answer", !.cmd = RPC_CMD_CON, !.handle = FALSE]
    BY DEF Types, Connect
  <2> QED
    BY <2>1, ConnectTyped, Zenon
<1>2. c2s' \in Seq(Nat)
  <2>1. c2s \in Seq(Nat) /\ <<RPC_CMD_CON>> \in Seq(Nat) /\ Header \in Seq(Nat)
    BY DEF Types, Header, RPC_CMD_CON
  <2>2. c2s' = c2s \o <<RPC_CMD_CON>> \o Header
    BY Zenon DEF Connect
  <2> QED
    BY <2>1, <2>2
<1>3. UNCHANGED <<srv, store, nextReq, pending, lost>>
  BY DEF Connect
<1>4. Types'
  BY <1>1, <1>2, <1>3 DEF Types
<1>5. Control'
  BY <1>1, <1>3 DEF Control
<1> QED
  BY <1>4, <1>5

LEMMA AskKeeps ==
  ASSUME Types, Control, NEW cmd \in Asks, NEW name \in Names, NEW fits \in {TRUE, FALSE},
         name \in (IF cmd = RPC_CMD_CALL THEN {F, U} ELSE {X}), Ask(cmd, name, fits)
  PROVE  Types' /\ Control'
<1>1. cl' \in Clients /\ cl'.pc = "ready" /\ cl'.handle = cl.handle /\ cl'.cmd = cmd /\ cl'.name = name
  <2>1. /\ cl \in Clients /\ cmd \in Commands
        /\ cl' = [cl EXCEPT !.pc = "ready", !.cmd = cmd, !.name = name, !.fits = fits]
    BY DEF Types, Ask, Commands
  <2> QED
    <3>1. cl \in Clients /\ cmd \in Commands /\ name \in Names /\ fits \in {TRUE, FALSE}
      BY <2>1, Zenon
    <3> DEFINE w == cl'
    <3>2. w = [cl EXCEPT !.pc = "ready", !.cmd = cmd, !.name = name, !.fits = fits]
      BY <2>1, Zenon
    <3> HIDE DEF w
    <3>3. w \in Clients /\ w.pc = "ready" /\ w.handle = cl.handle /\ w.cmd = cmd /\ w.name = name
      <4>1. w \in Clients
        BY <3>1, <3>2, AskTyped, Zenon
      <4>2. w.pc = "ready"
        BY <3>1, <3>2 DEF Clients
      <4>3. w.handle = cl.handle
        BY <3>1, <3>2 DEF Clients
      <4>4. w.cmd = cmd
        BY <3>1, <3>2 DEF Clients
      <4>5. w.name = name
        BY <3>1, <3>2 DEF Clients
      <4> QED
        BY <4>1, <4>2, <4>3, <4>4, <4>5
    <3> QED
      BY <3>3 DEF w
<1>2. c2s' \in Seq(Nat)
  <2>1. c2s \in Seq(Nat) /\ cmd \in Nat
    BY DEF Types, Asks, RPC_CMD_CALL, RPC_CMD_GET, RPC_CMD_NEWINDEX
  <2>2. c2s' = Append(c2s, cmd)
    BY Zenon DEF Ask
  <2> QED
    BY <2>1, <2>2
<1>3. UNCHANGED <<srv, store, pending, lost>> /\ nextReq' = nextReq + 1 /\ nextReq \in Nat
  BY DEF Ask, Types
<1>4. Types'
  BY <1>1, <1>2, <1>3 DEF Types
<1>5. Req' = nextReq /\ nextReq \in DOMAIN Values /\ cl.handle
  BY <1>3 DEF Req, Ask
<1>6. cmd # RPC_CMD_CON
  BY DEF Asks, RPC_CMD_CALL, RPC_CMD_GET, RPC_CMD_NEWINDEX, RPC_CMD_CON
<1>7. \A k \in pending' : k < nextReq'
  BY <1>3 DEF Types, Control
<1>8. Control'
  <2>1. cl'.handle /\ cl'.cmd # RPC_CMD_CON
    BY <1>1, <1>5, <1>6, Zenon
  <2>2. (srv'.pc = "read" => srv'.cmd \in Commands) /\ (~srv'.up => srv'.pc = "cmd")
    BY <1>3 DEF Control
  <2> QED
    BY <1>1, <1>5, <1>7, <2>1, <2>2 DEF Control
<1> QED
  BY <1>4, <1>8

LEMMA WaitReadyKeeps ==
  ASSUME Types, Control, WaitReady
  PROVE  Types' /\ Control'
<1>0. /\ cl.pc = "ready" /\ UNCHANGED <<srv, store, nextReq, lost>> /\ cl \in Clients
      /\ cl.handle \in {TRUE, FALSE} /\ cl.handle /\ cl.cmd # RPC_CMD_CON
  BY DEF WaitReady, Types, Control, Clients
<1>1. /\ cl.cmd \in Asks /\ cl.name \in Names /\ Req \in DOMAIN Values /\ Req \in Nat /\ Req < nextReq
      /\ cl.name \in (IF cl.cmd = RPC_CMD_CALL THEN {F, U} ELSE {X})
  BY <1>0 DEF Types, Control, Clients, Commands, Req
<1>2. CASE Head(s2c) # RPC_READY
  <2>1. cl' = [cl EXCEPT !.pc = "idle", !.handle = cl.handle] /\ c2s' = c2s /\ pending' = pending
    BY <1>2, Zenon DEF WaitReady, Ends
  <2>2. c2s' \in Seq(Nat) /\ pending' \in SUBSET Nat /\ \A k \in pending' : k < nextReq
    BY <2>1 DEF Types, Control
  <2> QED
    BY <1>0, <2>1, <2>2, EndsKeep
<1>3. CASE Head(s2c) = RPC_READY
  <2>1. c2s' = c2s \o Body \o Argument /\ pending' = pending \cup Calling
    BY <1>3, Zenon DEF WaitReady
  <2>2. Body \in Seq(Nat) /\ Argument \in Seq(Nat)
    <3>1. Values[Req] \in Nat
      BY <1>1, ValueTyped
    <3>2. /\ String(cl.name) \in Seq(Nat) /\ U32(0) \in Seq(Nat) /\ U32(1) \in Seq(Nat)
          /\ Number(Values[Req]) \in Seq(Nat) /\ <<RPC_STRING>> \in Seq(Nat)
      BY <1>1, <3>1, SentTyped DEF RPC_STRING
    <3>3. Body \in {String(cl.name) \o U32(1), String(cl.name), U32(0) \o <<RPC_STRING>> \o String(cl.name)}
      BY Zenon DEF Body
    <3>4. Argument \in {<<>>, Number(Values[Req])}
      BY Zenon DEF Argument, Req
    <3> DEFINE n == String(cl.name)
               b == U32(1)
               a == U32(0)
               t == <<RPC_STRING>>
    <3>5. n \in Seq(Nat) /\ a \in Seq(Nat) /\ b \in Seq(Nat) /\ t \in Seq(Nat)
      BY <3>2
    <3> HIDE DEF n, b, a, t
    <3>6. n \o b \in Seq(Nat) /\ a \o t \o n \in Seq(Nat)
      BY <3>5
    <3>7. Body \in Seq(Nat)
      BY <3>2, <3>3, <3>6, Zenon DEF n, b, a, t
    <3>8. <<>> \in Seq(Nat)
      OBVIOUS
    <3> QED
      BY <3>2, <3>4, <3>7, <3>8, Zenon
  <2>3. c2s' \in Seq(Nat)
    BY <2>1, <2>2 DEF Types
  <2>4. pending' \in SUBSET Nat /\ \A k \in pending' : k < nextReq
    <3>1. Calling \subseteq {Req}
      BY DEF Calling, Req
    <3> QED
      BY <1>1, <2>1, <3>1 DEF Types, Control
  <2>5. CASE cl.fits
    <3>1. cl' = [cl EXCEPT !.pc = "answer"]
      BY <1>3, <2>5, Zenon DEF WaitReady
    <3>2. /\ cl' \in Clients /\ cl'.pc = "answer" /\ cl'.handle = cl.handle /\ cl'.cmd = cl.cmd
          /\ cl'.name = cl.name
      BY <1>0, <3>1, AnswerTyped, Zenon
    <3>3. Types'
      BY <1>0, <2>3, <2>4, <3>2 DEF Types
    <3>4. Control'
      <4>1. cl'.handle /\ cl'.cmd # RPC_CMD_CON /\ Req' = Req
        BY <1>0, <3>2, Zenon DEF Req
      <4>2. (srv'.pc = "read" => srv'.cmd \in Commands) /\ (~srv'.up => srv'.pc = "cmd")
        BY <1>0 DEF Control
      <4> QED
        BY <1>0, <1>1, <2>4, <3>2, <4>1, <4>2 DEF Control
    <3> QED
      BY <3>3, <3>4
  <2>6. CASE ~cl.fits
    <3>1. cl' = [cl EXCEPT !.pc = "idle", !.handle = cl.handle]
      BY <1>3, <2>6, Zenon DEF WaitReady, Ends
    <3> QED
      BY <1>0, <2>3, <2>4, <3>1, EndsKeep
  <2> QED
    BY <2>5, <2>6
<1> QED
  BY <1>2, <1>3

\* The other actions of the client end a request.
LEMMA ClientEnds ==
  ASSUME Types, Answered \/ Refused \/ ClientDies \/ ClientTimeout
  PROVE  /\ \E h \in {TRUE, FALSE} : cl' = [cl EXCEPT !.pc = "idle", !.handle = h]
         /\ UNCHANGED <<c2s, srv, store, nextReq, lost, pending>>
<1>1. cl.handle \in {TRUE, FALSE}
  BY DEF Types, Clients
<1>2. CASE Answered
  <2>1. Handle \in {TRUE, FALSE}
    BY Zenon DEF Handle
  <2>2. \/ cl' = [cl EXCEPT !.pc = "idle", !.handle = Handle]
        \/ cl' = [cl EXCEPT !.pc = "idle", !.handle = cl.handle]
    BY <1>2, Zenon DEF Answered, Ends
  <2>3. UNCHANGED <<c2s, srv, store, nextReq, lost, pending>>
    BY <1>2, Zenon DEF Answered
  <2> QED
    BY <1>1, <2>1, <2>2, <2>3, Zenon
<1>3. CASE Refused
  <2>2. \E h \in {FALSE, cl.handle} : cl' = [cl EXCEPT !.pc = "idle", !.handle = h]
    BY <1>3, Zenon DEF Refused, Ends
  <2>3. UNCHANGED <<c2s, srv, store, nextReq, lost, pending>>
    BY <1>3, Zenon DEF Refused
  <2> QED
    BY <1>1, <2>2, <2>3, Zenon
<1>4. CASE ClientTimeout
  <2>2. cl' = [cl EXCEPT !.pc = "idle", !.handle = cl.handle]
    BY <1>4, Zenon DEF ClientTimeout, Ends
  <2>3. UNCHANGED <<c2s, srv, store, nextReq, lost, pending>>
    BY <1>4, Zenon DEF ClientTimeout
  <2> QED
    BY <1>1, <2>2, <2>3, Zenon
<1>5. CASE ClientDies
  <2>2. cl' = [cl EXCEPT !.pc = "idle", !.handle = FALSE]
    BY <1>5, Zenon DEF ClientDies, Ends
  <2>3. UNCHANGED <<c2s, srv, store, nextReq, lost, pending>>
    BY <1>5, Zenon DEF ClientDies
  <2> QED
    BY <2>2, <2>3, Zenon
<1> QED
  BY <1>2, <1>3, <1>4, <1>5

LEMMA LoseKeeps ==
  ASSUME Types, Control, Lose
  PROVE  Types' /\ Control'
<1>1. UNCHANGED <<srv, store, cl, nextReq, pending>> /\ lost' = lost + 1
  BY DEF Lose, clientVars
<1>2. c2s' \in Seq(Nat)
  <2>1. CASE c2s' = c2s
    BY <2>1 DEF Types
  <2>2. ASSUME NEW i \in DOMAIN c2s, c2s' = Without(c2s, i) PROVE c2s' \in Seq(Nat)
    <3>1. c2s \in Seq(Nat) /\ i \in 1..Len(c2s) /\ Len(c2s) \in Nat
      BY DEF Types
    <3>2. SubSeq(c2s, 1, i - 1) \in Seq(Nat) /\ SubSeq(c2s, i + 1, Len(c2s)) \in Seq(Nat)
      BY <3>1
    <3> QED
      BY <2>2, <3>2 DEF Without
  <2> QED
    BY <2>1, <2>2 DEF Lose
<1>3. Types'
  BY <1>1, <1>2 DEF Types
<1>4. Control'
  BY <1>1 DEF Control, Req
<1> QED
  BY <1>3, <1>4

LEMMA TypesKept ==
  ASSUME Types, Control, [Next]_vars
  PROVE  Types' /\ Control'
<1>1. CASE Server
  BY <1>1, ServerActionsKeep
<1>2. CASE WaitReady
  BY <1>2, WaitReadyKeeps
<1>3. CASE Answered \/ Refused \/ ClientDies \/ ClientTimeout
  <2>1. PICK h \in {TRUE, FALSE} : cl' = [cl EXCEPT !.pc = "idle", !.handle = h]
    BY <1>3, ClientEnds, Zenon
  <2>2. UNCHANGED <<c2s, srv, store, nextReq, lost, pending>>
    BY <1>3, ClientEnds, Zenon
  <2>3. c2s' \in Seq(Nat) /\ pending' \in SUBSET Nat /\ \A k \in pending' : k < nextReq
    BY <2>2 DEF Types, Control
  <2> QED
    BY <2>1, <2>2, <2>3, EndsKeep
<1>4. CASE Connect
  BY <1>4, ConnectTypes
<1>5. CASE Lose
  BY <1>5, LoseKeeps
<1>6. ASSUME NEW fits \in BOOLEAN,
             \/ Ask(RPC_CMD_CALL, F, fits) \/ Ask(RPC_CMD_CALL, U, fits)
             \/ Ask(RPC_CMD_GET, X, fits) \/ Ask(RPC_CMD_NEWINDEX, X, fits)
      PROVE  Types' /\ Control'
  <2>1. /\ fits \in {TRUE, FALSE} /\ F \in Names /\ U \in Names /\ X \in Names
        /\ RPC_CMD_CALL \in Asks /\ RPC_CMD_GET \in Asks /\ RPC_CMD_NEWINDEX \in Asks
        /\ RPC_CMD_GET # RPC_CMD_CALL /\ RPC_CMD_NEWINDEX # RPC_CMD_CALL
    <3>1. fits \in {TRUE, FALSE}
      BY Zenon
    <3>2. F \in Names /\ U \in Names /\ X \in Names
      BY DEF Names
    <3>3. RPC_CMD_GET # RPC_CMD_CALL /\ RPC_CMD_NEWINDEX # RPC_CMD_CALL
      BY DEF RPC_CMD_CALL, RPC_CMD_GET, RPC_CMD_NEWINDEX
    <3> QED
      BY <3>1, <3>2, <3>3, Zenon DEF Asks
  <2>2. /\ F \in (IF RPC_CMD_CALL = RPC_CMD_CALL THEN {F, U} ELSE {X})
        /\ U \in (IF RPC_CMD_CALL = RPC_CMD_CALL THEN {F, U} ELSE {X})
        /\ X \in (IF RPC_CMD_GET = RPC_CMD_CALL THEN {F, U} ELSE {X})
        /\ X \in (IF RPC_CMD_NEWINDEX = RPC_CMD_CALL THEN {F, U} ELSE {X})
    BY <2>1
  <2> QED
    BY <1>6, <2>1, <2>2, AskKeeps
<1>7. CASE UNCHANGED vars
  BY <1>7 DEF vars, Types, Control, Req
<1> QED
  BY <1>1, <1>2, <1>3, <1>4, <1>5, <1>6, <1>7 DEF Next, Client

-----------------------------------------------------------------------------
(* While the client connects                                               *)

Ints == Seq(Int)

LEMMA Assoc ==
  ASSUME NEW a, NEW b, NEW c, a \in Ints, b \in Ints, c \in Ints
  PROVE  a \o b \o c = a \o (b \o c)
BY ConcatAssociative DEF Ints

LEMMA EmptyFirst ==
  ASSUME NEW s \in Seq(Int)
  PROVE  <<>> \o s = s
BY ConcatEmptySeq

LEMMA StrangeGrows ==
  ASSUME NEW s, Strange(s), NEW x \in Seq(Int)
  PROVE  Strange(s \o x)
BY DEF Strange

\* The server begins no answer with the first byte of a header.
LEMMA StrangeAnswers ==
  ASSUME NEW c \in Names, NEW v \in Int
  PROVE  /\ Strange(Error(c)) /\ Strange(Number(v)) /\ Strange(<<RPC_NIL>>) /\ Strange(<< 0 >>)
         /\ Strange(<< 0 >> \o U32(1) \o Number(v)) /\ Strange(<< 0 >> \o U32(1))
         /\ Strange(<<RPC_READY>>) /\ Strange(<<RPC_UNSUPPORTED_CMD>>)
<1>1. Strange(Error(c))
  <2> DEFINE s == << 1 >> \o <<2, 0>> \o (<<1, 0>> \o <<c>>)
  <2>1. Error(c) = s
    BY Counts, Zenon DEF Error, String
  <2>2. c \in Int
    BY DEF Names, F, U, X
  <2>3. s \in Seq(Int) /\ Len(s) = 6 /\ s[1] = 1
    BY <2>2, ErrorBytes
  <2> HIDE DEF s
  <2>4. Strange(s)
    BY <2>3 DEF Strange
  <2> QED
    BY <2>1, <2>4, Zenon
<1>2. Strange(Number(v))
  BY DEF Number, RPC_NUMBER, Strange
<1>3. Strange(<< 0 >> \o U32(1) \o Number(v))
  <2> DEFINE s == << 0 >> \o <<1, 0>> \o <<1, v>>
  <2>1. << 0 >> \o U32(1) \o Number(v) = s
    BY Counts, Zenon DEF Number, RPC_NUMBER
  <2>2. s \in Seq(Int) /\ Len(s) = 5 /\ s[1] = 0
    BY NumberBytes
  <2> HIDE DEF s
  <2>3. Strange(s)
    BY <2>2 DEF Strange
  <2> QED
    BY <2>1, <2>3, Zenon
<1>4. Strange(<< 0 >> \o U32(1))
  <2> DEFINE s == << 0 >> \o <<1, 0>>
  <2>1. << 0 >> \o U32(1) = s
    BY Counts, Zenon
  <2>2. s \in Seq(Int) /\ Len(s) = 3 /\ s[1] = 0
    OBVIOUS
  <2> HIDE DEF s
  <2>3. Strange(s)
    BY <2>2 DEF Strange
  <2> QED
    BY <2>1, <2>3, Zenon
<1>5. Strange(<<RPC_NIL>>) /\ Strange(<< 0 >>)
  BY DEF Strange, RPC_NIL
<1>6. Strange(<<RPC_READY>>) /\ Strange(<<RPC_UNSUPPORTED_CMD>>)
  BY DEF Strange, RPC_READY, RPC_UNSUPPORTED_CMD
<1> QED
  BY <1>1, <1>2, <1>3, <1>4, <1>5, <1>6

\* The server says nothing, or something that is no header.
Says == s2c' = s2c \/ \E x : Strange(x) /\ s2c' = s2c \o x

LEMMA SaysBy ==
  ASSUME NEW x, Strange(x), s2c' = s2c \o x
  PROVE  Says
BY Zenon DEF Says

LEMMA AppendSays ==
  ASSUME s2c \in Seq(Int), NEW e \in Int, Strange(<<e>>), s2c' = Append(s2c, e)
  PROVE  Says
<1>1. Append(s2c, e) = s2c \o <<e>>
  BY AppendIsConcat
<1> QED
  BY <1>1, SaysBy, Zenon

LEMMA ServerSays ==
  ASSUME Types, s2c \in Seq(Int), Server, ~Negotiate
  PROVE  Says
<1>0. /\ srv.arg \in Int /\ store \in Int /\ U \in Names /\ F \in Names /\ 0 \in Int
      /\ RPC_READY \in Int /\ RPC_UNSUPPORTED_CMD \in Int
  BY DEF Types, Servers, Names, RPC_READY, RPC_UNSUPPORTED_CMD
<1>1. CASE Command
  <2>1. s2c' \in {s2c, Append(s2c, RPC_READY), Append(s2c, RPC_UNSUPPORTED_CMD)}
    BY <1>1, Zenon DEF Command
  <2>2. CASE s2c' = s2c
    BY <2>2, Zenon DEF Says
  <2>3. CASE s2c' = Append(s2c, RPC_READY)
    BY <1>0, <2>3, StrangeAnswers, AppendSays, Zenon
  <2>4. CASE s2c' = Append(s2c, RPC_UNSUPPORTED_CMD)
    BY <1>0, <2>4, StrangeAnswers, AppendSays, Zenon
  <2> QED
    BY <2>1, <2>2, <2>3, <2>4
<1>2. CASE ReadCall
  <2>1. s2c' \in {s2c, s2c \o Error(U)}
    BY <1>2, Zenon DEF ReadCall
  <2>2. Strange(Error(U))
    BY <1>0, StrangeAnswers, Zenon
  <2> QED
    BY <2>1, <2>2, Zenon DEF Says
<1>3. CASE Run
  <2> DEFINE a == << 0 >>
             b == U32(1)
             n == Number(srv.arg)
  <2>1. s2c' \in {s2c \o a \o b \o n, s2c \o Error(F), s2c \o a \o b}
    BY <1>3, Zenon DEF Run
  <2>2. Strange(Error(F)) /\ Strange(a \o b \o n) /\ Strange(a \o b)
    BY <1>0, StrangeAnswers, Zenon
  <2>3. s2c \in Ints /\ a \in Ints /\ b \in Ints /\ n \in Ints
    BY <1>0 DEF U32, Number, RPC_NUMBER, Ints
  <2> HIDE DEF a, b, n
  <2>4. s2c \o a \o b \o n = s2c \o (a \o b \o n) /\ s2c \o a \o b = s2c \o (a \o b)
    <3>1. s2c \o a \o b = s2c \o (a \o b)
      BY <2>3, Assoc
    <3>2. s2c \o a \o b \o n = s2c \o (a \o b \o n)
      <4> DEFINE e == a \o b
      <4>1. e \in Ints
        BY <2>3 DEF Ints
      <4>2. s2c \o a \o b = s2c \o e
        BY <3>1, Zenon
      <4> HIDE DEF e
      <4>3. s2c \o e \o n = s2c \o (e \o n)
        BY <2>3, <4>1, Assoc
      <4> QED
        BY <4>2, <4>3, Zenon DEF e
    <3> QED
      BY <3>1, <3>2
  <2> QED
    BY <2>1, <2>2, <2>4, Zenon DEF Says
<1>4. CASE ReadGet
  <2>1. s2c' \in {s2c \o Number(store), s2c \o <<RPC_NIL>>}
    BY <1>4, Zenon DEF ReadGet
  <2>2. Strange(Number(store)) /\ Strange(<<RPC_NIL>>)
    BY <1>0, StrangeAnswers, Zenon
  <2> QED
    BY <2>1, <2>2, Zenon DEF Says
<1>5. CASE ReadNewindex
  <2>1. s2c' \in {s2c, Append(s2c, 0)}
    BY <1>5, Zenon DEF ReadNewindex
  <2>2. CASE s2c' = s2c
    BY <2>2, Zenon DEF Says
  <2>3. CASE s2c' = Append(s2c, 0)
    BY <1>0, <2>3, StrangeAnswers, AppendSays, Zenon
  <2> QED
    BY <2>1, <2>2, <2>3
<1>6. CASE ServerTimeout \/ Refuse \/ ServerDies
  <2>1. s2c' = s2c
    BY <1>6, Zenon DEF ServerTimeout, Refuse, ServerDies
  <2> QED
    BY <2>1, Zenon DEF Says
<1> QED
  BY <1>1, <1>2, <1>3, <1>4, <1>5, <1>6, Zenon DEF Server

\* What has been strange stays so.
LEMMA StrangeStays ==
  ASSUME Types, Server, Strange(s2c)
  PROVE  Strange(s2c')
<1>1. s2c \in Seq(Int)
  BY DEF Strange
<1>2. CASE Negotiate
  <2>1. s2c' = s2c \o Header \/ s2c' = s2c
    BY <1>2, Zenon DEF Negotiate
  <2>2. Header \in Seq(Int)
    BY DEF Header
  <2> QED
    BY <2>1, <2>2, StrangeGrows
<1>3. CASE ~Negotiate
  <2>1. Says
    BY <1>1, <1>3, ServerSays
  <2>2. CASE s2c' = s2c
    BY <2>2
  <2>3. ASSUME NEW x, Strange(x), s2c' = s2c \o x PROVE Strange(s2c')
    <3>1. x \in Seq(Int)
      BY <2>3 DEF Strange
    <3> QED
      BY <2>3, <3>1, StrangeGrows
  <2> QED
    BY <2>1, <2>2, <2>3 DEF Says
<1> QED
  BY <1>2, <1>3

\* The first thing said is nothing, or strange.
LEMMA FirstSaid ==
  ASSUME Types, Server, ~Negotiate, s2c = <<>>
  PROVE  s2c' = <<>> \/ Strange(s2c')
<1>1. s2c \in Seq(Int)
  OBVIOUS
<1>2. Says
  BY <1>1, ServerSays
<1>3. ASSUME NEW x, Strange(x), s2c' = s2c \o x PROVE Strange(s2c')
  <2>1. x \in Seq(Int)
    BY <1>3 DEF Strange
  <2>2. s2c' = x
    BY <1>3, <2>1, EmptyFirst
  <2> QED
    BY <1>3, <2>2
<1> QED
  BY <1>2, <1>3 DEF Says

\* The server at work.
LEMMA ServerBy ==
  ASSUME Types, Control, Server
  PROVE  /\ srv.up
         /\ \/ srv.pc = "cmd" /\ Command
            \/ srv.pc = "run" /\ Run
            \/ srv.pc = "read" /\ srv.cmd = RPC_CMD_CON /\ HasRead("ok") /\ Negotiate
            \/ srv.pc = "read" /\ srv.cmd = RPC_CMD_CALL /\ HasRead("ok") /\ ReadCall
            \/ srv.pc = "read" /\ srv.cmd = RPC_CMD_GET /\ HasRead("ok") /\ ReadGet
            \/ srv.pc = "read" /\ srv.cmd = RPC_CMD_NEWINDEX /\ HasRead("ok") /\ ReadNewindex
            \/ srv.pc = "read" /\ HasRead("gap") /\ ServerTimeout
            \/ srv.pc = "read" /\ HasRead("bad") /\ Refuse
            \/ srv.pc = "read" /\ HasRead("fault") /\ ServerDies
<1>1. \A st : HasRead(st) => srv.pc = "read"
  BY DEF HasRead
<1>2. srv.pc = "read" => srv.up
  BY DEF Control
<1>3. /\ Command => srv.up /\ srv.pc = "cmd"
      /\ Run => srv.up /\ srv.pc = "run"
  BY Zenon DEF Command, Run
<1>4. /\ Negotiate => srv.cmd = RPC_CMD_CON /\ HasRead("ok")
      /\ ReadCall => srv.cmd = RPC_CMD_CALL /\ HasRead("ok")
      /\ ReadGet => srv.cmd = RPC_CMD_GET /\ HasRead("ok")
      /\ ReadNewindex => srv.cmd = RPC_CMD_NEWINDEX /\ HasRead("ok")
      /\ ServerTimeout => HasRead("gap")
      /\ Refuse => HasRead("bad")
      /\ ServerDies => HasRead("fault")
  BY Zenon DEF Negotiate, ReadCall, ReadGet, ReadNewindex, ServerTimeout, Refuse, ServerDies
<1> QED
  BY <1>1, <1>2, <1>3, <1>4, Zenon DEF Server

LEMMA ServerLeaves ==
  ASSUME Server
  PROVE  UNCHANGED <<cl, nextReq, last, lost>> /\ trouble \subseteq trouble'
<1>1. UNCHANGED <<clientVars, lost>>
  BY Zenon DEF Server, Command, Run, Negotiate, ReadCall, ReadGet, ReadNewindex, ServerTimeout, Refuse,
               ServerDies
<1>2. trouble' \in {trouble, trouble \cup {"raised"}}
  BY Zenon DEF Server, Command, Run, Negotiate, ReadCall, ReadGet, ReadNewindex, ServerTimeout, Refuse,
               ServerDies
<1> QED
  BY <1>1, <1>2 DEF clientVars

\* A server that has nothing to read waits.
LEMMA ServerWaits ==
  ASSUME Types, Control, srv.pc # "run", c2s = <<>>
  PROVE  ~Server
<1> SUFFICES ASSUME Server PROVE FALSE
  OBVIOUS
<1>1. srv.pc # "read"
  <2> SUFFICES ASSUME srv.pc = "read" PROVE FALSE
    OBVIOUS
  <2>1. \A st : HasRead(st) => st = "more"
    BY NothingReads DEF HasRead, Short
  <2> QED
    BY <2>1, ServerBy
<1>2. Command
  BY <1>1, ServerBy, Zenon
<1> QED
  BY <1>2 DEF Command

\* The numbers of the commands.
Codes == /\ RPC_CMD_CALL = 1 /\ RPC_CMD_GET = 2 /\ RPC_CMD_CON = 3 /\ RPC_CMD_NEWINDEX = 4
LEMMA CodesHold == Codes
BY DEF Codes, RPC_CMD_CALL, RPC_CMD_GET, RPC_CMD_CON, RPC_CMD_NEWINDEX

LEMMA HelloBytes ==
  ASSUME NEW g, g = << 3 >> \o <<76, 3, 1>>
  PROVE  /\ g \in Seq(Int) /\ Len(g) = 4 /\ g[1] = 3 /\ g[2] = 76 /\ g[3] = 3 /\ g[4] = 1
OBVIOUS

LEMMA TailOfFour ==
  ASSUME NEW g \in Seq(Int), Len(g) = 4
  PROVE  /\ Tail(g) \in Seq(Int) /\ Len(Tail(g)) = 3
         /\ Tail(g)[1] = g[2] /\ Tail(g)[2] = g[3] /\ Tail(g)[3] = g[4]
<1>1. g # <<>>
  <2> SUFFICES ASSUME g = <<>> PROVE FALSE
    OBVIOUS
  <2>1. Len(g) = 0
    BY EmptySeq
  <2> QED
    BY <2>1
<1>2. Tail(g) \in Seq(Int) /\ Len(Tail(g)) = Len(g) - 1 /\ \A i \in 1..Len(Tail(g)) : Tail(g)[i] = g[i + 1]
  BY <1>1, HeadTailProperties
<1>3. 4 - 1 = 3 /\ 1 \in 1..3 /\ 2 \in 1..3 /\ 3 \in 1..3 /\ 1 + 1 = 2 /\ 2 + 1 = 3 /\ 3 + 1 = 4
  OBVIOUS
<1> DEFINE t == Tail(g)
<1> HIDE DEF t
<1>4. Len(t) = 3 /\ \A i \in 1..3 : t[i] = g[i + 1]
  BY <1>2, <1>3 DEF t
<1>5. t[1] = g[2] /\ t[2] = g[3] /\ t[3] = g[4]
  BY <1>3, <1>4
<1> QED
  BY <1>2, <1>4, <1>5 DEF t

LEMMA HelloIs ==
  /\ Hello # <<>> /\ Head(Hello) = RPC_CMD_CON /\ Tail(Hello) = Header
  /\ Rest(Header, At(4)) = <<>> /\ Rest(Hello, At(4)) = <<RPC_CMD_CALL>>
  /\ SubSeq(Header, 1, Len(Header)) = Header /\ SubSeq(Hello, 1, Len(Header)) # Header
<1> DEFINE h == Header
           b == <<3, 76, 3, 1>>
           g == << 3 >> \o h
<1>1. h \in Seq(Int) /\ Len(h) = 3 /\ h[1] = 76 /\ h[2] = 3 /\ h[3] = 1
  BY DEF Header
<1>2. Hello = g
  BY Zenon DEF Hello, RPC_CMD_CON
<1>3. g \in Seq(Int) /\ Len(g) = 4 /\ g[1] = 3 /\ g[2] = 76 /\ g[3] = 3 /\ g[4] = 1
  <2>1. g = << 3 >> \o <<76, 3, 1>>
    BY Zenon DEF h, Header
  <2> HIDE DEF g
  <2> QED
    BY <2>1, HelloBytes
<1> HIDE DEF h, g
<1>4. g # <<>> /\ Head(g) = 3
  BY <1>3
<1>5. Tail(g) = h
  <2> DEFINE t == Tail(g)
  <2>1. t \in Seq(Int) /\ Len(t) = 3 /\ t[1] = 76 /\ t[2] = 3 /\ t[3] = 1
    BY <1>3, TailOfFour
  <2> HIDE DEF t
  <2>2. t = <<76, 3, 1>> /\ h = <<76, 3, 1>>
    BY <1>1, <2>1
  <2> QED
    BY <2>2 DEF t
<1>6. Rest(h, At(4)) = <<>>
  BY <1>1 DEF Rest, At
<1>7. Rest(g, At(4)) = << 1 >>
  <2> DEFINE t == SubSeq(g, 4, Len(g))
  <2>1. t \in Seq(Int) /\ Len(t) = 1 /\ t[1] = 1
    BY <1>3
  <2>2. Rest(g, At(4)) = t
    BY DEF Rest, At
  <2> HIDE DEF t
  <2>3. t = << 1 >>
    BY <2>1
  <2> QED
    BY <2>2, <2>3
<1>8. SubSeq(h, 1, Len(h)) = h
  BY <1>1, SubSeqFull
<1>9. SubSeq(g, 1, Len(h)) # h
  <2> DEFINE t == SubSeq(g, 1, 3)
  <2>1. t[1] = 3
    BY <1>3
  <2> HIDE DEF t
  <2>2. t # h
    BY <1>1, <2>1
  <2> QED
    BY <1>1, <2>2 DEF t
<1> QED
  BY <1>2, <1>4, <1>5, <1>6, <1>7, <1>8, <1>9, CodesHold, Zenon DEF h, Codes

\* What Attempt says of a client that connects.
Answering == (s2c = <<>> /\ (Greeted \/ Deaf)) \/ Met \/ Strange(s2c)

\* What the server says first is not a header, unless it greets.
LEMMA Speaks ==
  ASSUME NEW x, Strange(x), s2c = <<>>, s2c' = s2c \o x
  PROVE  Strange(s2c')
<1>1. x \in Seq(Int)
  BY DEF Strange
<1>2. s2c' = x
  BY <1>1, EmptyFirst, Zenon
<1> QED
  BY <1>2, Zenon

LEMMA Appends ==
  ASSUME NEW e \in Int, Strange(<<e>>), s2c = <<>>, s2c' = Append(s2c, e)
  PROVE  Strange(s2c')
<1>1. s2c \in Seq(Int)
  OBVIOUS
<1>2. s2c' = s2c \o <<e>>
  BY <1>1, AppendIsConcat
<1> QED
  BY <1>2, Speaks, Zenon

LEMMA RunSpeaks ==
  ASSUME Types, Run, s2c = <<>>
  PROVE  Strange(s2c')
<1>1. srv.arg \in Int /\ F \in Names
  BY DEF Types, Servers, Names
<1> DEFINE a == << 0 >>
<1>2. <<>> \o a = a
  OBVIOUS
<1>3. s2c' \in {<<>> \o a \o U32(1) \o Number(srv.arg), <<>> \o a \o U32(1)} \/ s2c' = s2c \o Error(F)
  BY Zenon DEF Run
<1>4. CASE s2c' = s2c \o Error(F)
  <2>1. Strange(Error(F))
    BY <1>1, StrangeAnswers, Zenon
  <2> QED
    BY <1>4, <2>1, Speaks, Zenon
<1>5. CASE s2c' \in {<<>> \o a \o U32(1) \o Number(srv.arg), <<>> \o a \o U32(1)}
  BY <1>1, <1>2, <1>5, StrangeAnswers, Zenon
<1> QED
  BY <1>3, <1>4, <1>5

\* A server that is greeted greets.
LEMMA GreetedAnswers ==
  ASSUME Types, Control, s2c = <<>>, Greeted, Server
  PROVE  (Greeted' /\ s2c' = <<>>) \/ Met'
<1>1. srv \in Servers
  BY DEF Types
<1>2. CASE srv.pc = "cmd" /\ c2s = Hello
  <2>1. Command
    BY <1>2, ServerBy
  <2>2. Head(c2s) = RPC_CMD_CON /\ Tail(c2s) = Header
    BY <1>2, HelloIs, Zenon
  <2>3. /\ c2s' = Header /\ s2c' = <<>>
        /\ srv' = [srv EXCEPT !.pc = "read", !.cmd = RPC_CMD_CON]
    <3>1. RPC_CMD_CON # RPC_CMD_CALL /\ RPC_CMD_CON # RPC_CMD_GET /\ RPC_CMD_CON # RPC_CMD_NEWINDEX
      BY CodesHold DEF Codes
    <3> QED
      BY <2>1, <2>2, <3>1, Zenon DEF Command
  <2>4. srv'.up = srv.up
    BY <1>1, <2>3 DEF Servers
  <2>5. srv'.pc = "read"
    BY <1>1, <2>3 DEF Servers
  <2>6. srv'.cmd = RPC_CMD_CON
    BY <1>1, <2>3 DEF Servers
  <2>7. srv.up
    BY DEF Greeted
  <2> QED
    BY <2>3, <2>4, <2>5, <2>6, <2>7, Zenon DEF Greeted
<1>3. CASE srv.pc = "read" /\ srv.cmd = RPC_CMD_CON /\ c2s = Header
  <2>1. Request(c2s, RPC_CMD_CON) = At(4) /\ At(4).st = "ok"
    BY <1>3, HeaderReads DEF At
  <2>2. ~HasRead("gap") /\ ~HasRead("bad") /\ ~HasRead("fault")
    BY <1>3, <2>1 DEF HasRead
  <2>3. Negotiate
    BY <1>3, <2>2, ServerBy, CodesHold DEF Codes
  <2>4. c2s' = <<>> /\ srv' = Served /\ s2c' = <<>> \o Header
    BY <1>3, <2>1, <2>3, HelloIs, Zenon DEF Negotiate
  <2>5. <<>> \o Header = Header
    <3>1. Header \in Seq(Int)
      BY DEF Header
    <3> QED
      BY <3>1, EmptyFirst
  <2> QED
    BY <2>4, <2>5, ServedTyped, Zenon DEF Met
<1> QED
  BY <1>2, <1>3 DEF Greeted

\* One that does not understand says something else or comes to a rest.
LEMMA DeafAnswers ==
  ASSUME Types, Control, s2c = <<>>, Deaf, Server
  PROVE  (s2c' = <<>> /\ Deaf') \/ Strange(s2c')
<1>1. /\ srv \in Servers /\ store \in Int /\ U \in Names /\ 0 \in Int
      /\ RPC_READY \in Int /\ RPC_UNSUPPORTED_CMD \in Int
  BY DEF Types, Names, RPC_READY, RPC_UNSUPPORTED_CMD
<1>2. srv.up
  BY ServerBy, Zenon
<1>3. CASE srv.pc = "run"
  <2>1. Run
    BY <1>3, ServerBy
  <2> QED
    BY <2>1, RunSpeaks
<1>4. CASE srv.pc = "read" /\ srv.cmd # RPC_CMD_CON
  <2>1. CASE ReadCall
    <3>1. CASE s2c' = s2c \o Error(U)
      BY <1>1, <3>1, StrangeAnswers, Speaks, Zenon
    <3>2. CASE s2c' = s2c /\ \E v : srv' = [srv EXCEPT !.pc = "run", !.arg = v]
      <4>1. srv'.pc = "run"
        BY <1>1, <3>2 DEF Servers
      <4> QED
        BY <3>2, <4>1 DEF Deaf
    <3> QED
      BY <2>1, <3>1, <3>2, Zenon DEF ReadCall
  <2>2. CASE ReadGet
    <3>1. s2c' = s2c \o Number(store) \/ s2c' = s2c \o <<RPC_NIL>>
      BY <2>2, Zenon DEF ReadGet
    <3> QED
      BY <1>1, <3>1, StrangeAnswers, Speaks, Zenon
  <2>3. CASE ReadNewindex
    <3>1. s2c' = Append(s2c, 0) \/ (s2c' = s2c /\ srv' = Down)
      BY <2>3, Zenon DEF ReadNewindex
    <3>2. CASE s2c' = Append(s2c, 0)
      BY <1>1, <3>2, StrangeAnswers, Appends, Zenon
    <3>3. CASE s2c' = s2c /\ srv' = Down
      BY <3>3, ServedTyped, Zenon DEF Deaf
    <3> QED
      BY <3>1, <3>2, <3>3
  <2>4. CASE ServerTimeout
    <3>1. c2s' = <<>> /\ srv' = LinkError(srv) /\ s2c' = <<>>
      BY <2>4, Zenon DEF ServerTimeout
    <3>2. srv'.pc = "cmd"
      BY <1>1, <3>1, LinkErrorTyped, Zenon
    <3> QED
      BY <3>1, <3>2 DEF Deaf
  <2>5. CASE Refuse \/ ServerDies
    <3>1. srv' = Down /\ s2c' = <<>>
      BY <2>5, Zenon DEF Refuse, ServerDies
    <3> QED
      BY <3>1, ServedTyped, Zenon DEF Deaf
  <2> QED
    BY <1>4, <2>1, <2>2, <2>3, <2>4, <2>5, ServerBy
<1>5. CASE srv.pc = "read" /\ srv.cmd = RPC_CMD_CON /\ c2s = Hello
  <2>1. Request(c2s, RPC_CMD_CON) = At(4) /\ At(4).st = "ok"
    <3>1. Request(c2s, RPC_CMD_CON) = At(4)
      BY <1>5, HeaderReads, Zenon DEF Hello
    <3> QED
      BY <3>1 DEF At
  <2>2. ~HasRead("gap") /\ ~HasRead("bad") /\ ~HasRead("fault")
    BY <1>5, <2>1 DEF HasRead
  <2>3. Negotiate
    BY <1>5, <2>2, ServerBy, CodesHold DEF Codes
  <2>4. c2s' = <<RPC_CMD_CALL>> /\ srv' = LinkError(srv) /\ s2c' = <<>>
    BY <1>5, <2>1, <2>3, HelloIs, Zenon DEF Negotiate
  <2>5. srv'.pc = "cmd"
    BY <1>1, <2>4, LinkErrorTyped, Zenon
  <2> QED
    BY <2>4, <2>5 DEF Deaf
<1>6. CASE srv.pc = "cmd" /\ c2s \in {<<>>, <<RPC_CMD_CALL>>}
  <2>1. Command
    BY <1>6, ServerBy
  <2>2. c2s = <<RPC_CMD_CALL>>
    BY <1>6, <2>1 DEF Command
  <2>3. Head(c2s) = RPC_CMD_CALL /\ Tail(c2s) = <<>>
    BY <2>2
  <2>4. RPC_CMD_CALL # RPC_CMD_CON
    BY CodesHold DEF Codes
  <2>5. c2s' = <<>>
    BY <2>1, <2>3, Zenon DEF Command
  <2>6. \/ s2c' = Append(s2c, RPC_READY) \/ s2c' = Append(s2c, RPC_UNSUPPORTED_CMD)
        \/ srv' = LinkError(srv) /\ s2c' = s2c
    BY <2>1, <2>3, <2>4, Zenon DEF Command
  <2>7. CASE srv' = LinkError(srv) /\ s2c' = s2c
    <3>1. srv'.pc = "cmd"
      BY <1>1, <2>7, LinkErrorTyped, Zenon
    <3> QED
      BY <2>5, <2>7, <3>1 DEF Deaf
  <2>8. CASE s2c' = Append(s2c, RPC_READY)
    BY <1>1, <2>8, StrangeAnswers, Appends, Zenon
  <2>9. CASE s2c' = Append(s2c, RPC_UNSUPPORTED_CMD)
    BY <1>1, <2>9, StrangeAnswers, Appends, Zenon
  <2> QED
    BY <2>6, <2>7, <2>8, <2>9
<1> QED
  BY <1>2, <1>3, <1>4, <1>5, <1>6 DEF Deaf

LEMMA AttemptServer ==
  ASSUME Types, Control, Attempt, Server
  PROVE  Attempt'
<1>1. cl' = cl
  BY ServerLeaves, Zenon
<1> SUFFICES ASSUME cl.pc = "answer", cl.cmd = RPC_CMD_CON
             PROVE  Answering'
  BY <1>1, Zenon DEF Attempt, Answering
<1>2. CASE Strange(s2c)
  BY <1>2, StrangeStays, Zenon DEF Answering
<1>3. CASE Met
  BY <1>3, ServerWaits DEF Met
<1>4. CASE s2c = <<>> /\ Greeted
  BY <1>4, GreetedAnswers, Zenon DEF Answering
<1>5. CASE s2c = <<>> /\ Deaf
  BY <1>5, DeafAnswers, Zenon DEF Answering
<1> QED
  BY <1>2, <1>3, <1>4, <1>5 DEF Attempt

\* A client that connects is understood, or the server is in the middle of something.
LEMMA AttemptConnect ==
  ASSUME Types, Control, Connect
  PROVE  Attempt'
<1>1. c2s' = c2s \o <<RPC_CMD_CON>> \o Header /\ s2c' = <<>> /\ srv' = srv /\ Quiet
  BY Zenon DEF Connect
<1>2. CASE ~srv.up \/ srv.pc = "run"
  BY <1>1, <1>2, Zenon DEF Attempt, Deaf
<1>3. c2s = <<>> => c2s' = Hello
  <2> DEFINE a == <<RPC_CMD_CON>>
  <2>1. <<>> \o a = a
    OBVIOUS
  <2> QED
    BY <1>1, <2>1, Zenon DEF Hello
<1>4. CASE srv.up /\ srv.pc = "cmd" /\ c2s = <<>>
  BY <1>1, <1>3, <1>4, Zenon DEF Attempt, Greeted
<1>5. CASE srv.up /\ HasRead("more")
  <2>1. srv.pc = "read"
    BY <1>5 DEF HasRead
  <2>2. CASE srv.cmd # RPC_CMD_CON
    BY <1>1, <2>1, <2>2, Zenon DEF Attempt, Deaf
  <2>3. CASE srv.cmd = RPC_CMD_CON
    <3>1. Piece(c2s, Start, Len(Header)).st = "more"
      BY <1>5, <2>3, Requests, Zenon DEF HasRead
    <3>2. c2s \in Seq(Nat) /\ Len(c2s) \in Nat
      BY DEF Types
    <3>3. Start.at = 1 /\ Start.st = "ok"
      BY DEF Start
    <3>4. Len(c2s) = 0
      BY <3>1, <3>2, <3>3 DEF Piece, Start
    <3>5. c2s = <<>>
      BY <3>2, <3>4, EmptySeq
    <3> QED
      BY <1>1, <1>3, <2>1, <2>3, <3>5, Zenon DEF Attempt, Deaf
  <2> QED
    BY <2>2, <2>3
<1> QED
  BY <1>1, <1>2, <1>4, <1>5 DEF Quiet

\* Nothing else begins an attempt.
LEMMA AttemptElse ==
  ASSUME Types, Control, WaitReady \/ Answered \/ Refused \/ ClientDies \/ ClientTimeout
  PROVE  Attempt'
<1>1. cl \in Clients
  BY DEF Types
<1>2. CASE Answered \/ Refused \/ ClientDies \/ ClientTimeout
  <2>1. PICK h \in {TRUE, FALSE} : cl' = [cl EXCEPT !.pc = "idle", !.handle = h]
    BY <1>2, ClientEnds, Zenon
  <2>2. cl'.pc = "idle"
    BY <1>1, <2>1 DEF Clients
  <2> QED
    BY <2>2 DEF Attempt
<1>3. CASE WaitReady
  <2>1. cl' = [cl EXCEPT !.pc = "idle", !.handle = cl.handle] \/ cl' = [cl EXCEPT !.pc = "answer"]
    BY <1>3, Zenon DEF WaitReady, Ends
  <2>2. cl.cmd # RPC_CMD_CON
    BY <1>3 DEF WaitReady, Control
  <2>3. cl'.cmd = cl.cmd
    BY <1>1, <2>1 DEF Clients
  <2> QED
    BY <2>2, <2>3 DEF Attempt
<1> QED
  BY <1>2, <1>3

LEMMA AttemptAsk ==
  ASSUME Types, NEW cmd, NEW name, NEW fits, Ask(cmd, name, fits)
  PROVE  Attempt'
<1>1. cl \in Clients /\ cl' = [cl EXCEPT !.pc = "ready", !.cmd = cmd, !.name = name, !.fits = fits]
  BY Zenon DEF Types, Ask
<1>2. cl'.pc = "ready"
  BY <1>1 DEF Clients
<1> QED
  BY <1>2 DEF Attempt

-----------------------------------------------------------------------------
(* While nothing has gone wrong                                            *)

Apart == /\ RPC_CMD_CALL # RPC_CMD_GET /\ RPC_CMD_CALL # RPC_CMD_NEWINDEX /\ RPC_CMD_CALL # RPC_CMD_CON
         /\ RPC_CMD_GET # RPC_CMD_NEWINDEX /\ RPC_CMD_GET # RPC_CMD_CON
         /\ RPC_CMD_NEWINDEX # RPC_CMD_CON
LEMMA CommandsApart == Apart
BY CodesHold DEF Codes, Apart

\* The server takes a command.
LEMMA AskedTaken ==
  ASSUME Types, Control, Server, srv.open, cl.cmd \in Asks,
         srv.pc = "cmd", c2s = <<cl.cmd>>, s2c = <<>>
  PROVE  /\ srv'.up /\ srv'.open /\ srv'.pc = "read" /\ srv'.cmd = cl.cmd
         /\ c2s' = <<>> /\ s2c' = <<RPC_READY>> /\ pending' = pending
<1>1. Command /\ srv.up /\ srv \in Servers
  BY ServerBy DEF Types
<1>2. Head(c2s) = cl.cmd /\ Tail(c2s) = <<>> /\ Append(s2c, RPC_READY) = <<RPC_READY>>
  OBVIOUS
<1>3. cl.cmd # RPC_CMD_CON /\ cl.cmd \in {RPC_CMD_CALL, RPC_CMD_GET, RPC_CMD_NEWINDEX}
  BY CommandsApart, Zenon DEF Apart, Asks
<1>4. /\ c2s' = <<>> /\ s2c' = <<RPC_READY>> /\ pending' = pending
      /\ srv' = [srv EXCEPT !.pc = "read", !.cmd = cl.cmd]
  BY <1>1, <1>2, <1>3, Zenon DEF Command
<1>5. srv'.up = srv.up
  BY <1>1, <1>4 DEF Servers
<1>6. srv'.open = srv.open
  BY <1>1, <1>4 DEF Servers
<1>7. srv'.pc = "read"
  BY <1>1, <1>4 DEF Servers
<1>8. srv'.cmd = cl.cmd
  BY <1>1, <1>4 DEF Servers
<1> QED
  BY <1>1, <1>4, <1>5, <1>6, <1>7, <1>8, Zenon

\* What is in full is read.
LEMMA ReadInFull ==
  ASSUME Types, Control, Server, srv.pc = "read", NEW a, Request(c2s, srv.cmd) = At(a)
  PROVE  /\ srv.cmd = RPC_CMD_CALL => ReadCall
         /\ srv.cmd = RPC_CMD_GET => ReadGet
         /\ srv.cmd = RPC_CMD_NEWINDEX => ReadNewindex
<1>1. At(a).st = "ok"
  BY DEF At
<1>2. ~HasRead("gap") /\ ~HasRead("bad") /\ ~HasRead("fault")
  BY <1>1 DEF HasRead
<1> QED
  BY <1>2, ServerBy, CommandsApart, Zenon DEF Apart

LEMMA CallInFull ==
  ASSUME Types, Control, Server, InFull, cl.cmd = RPC_CMD_CALL, cl.pc = "answer", cl.handle
  PROVE  \/ /\ cl.name = F /\ srv'.up = srv.up /\ srv'.open = srv.open
            /\ srv'.pc = "run" /\ srv'.arg = Values[Req]
            /\ c2s' = <<>> /\ s2c' = <<>> /\ Req \notin pending'
         \/ srv' = Served /\ c2s' = <<>> /\ s2c' = Error(U) /\ Req \notin pending'
<1> DEFINE v == Values[Req]
<1>1. /\ cl.name \in {F, U} /\ Req \in DOMAIN Values /\ srv \in Servers
      /\ srv.pc = "read" /\ srv.cmd = RPC_CMD_CALL /\ s2c = <<>>
  BY CommandsApart DEF InFull, Control, Types, Apart
<1>2. cl.name \in Int /\ v \in Int /\ F # U
  BY <1>1, ValueTyped DEF F, U
<1>3. c2s = String(cl.name) \o U32(1) \o Number(v)
  BY CommandsApart, Zenon DEF InFull, Written, Apart
<1>4. /\ Request(c2s, RPC_CMD_CALL) = At(8) /\ Rest(c2s, At(8)) = <<>>
      /\ NumberAt(c2s, 6) = v /\ Named(c2s) = cl.name
  BY <1>2, <1>3, CallReads, Zenon
<1>5. ReadCall
  BY <1>1, <1>4, ReadInFull, Zenon
<1>6. CASE cl.name = F
  <2>1. /\ srv' = [srv EXCEPT !.pc = "run", !.arg = v] /\ c2s' = <<>> /\ s2c' = <<>>
        /\ pending' = pending \ {k \in pending : Values[k] = v}
    BY <1>1, <1>4, <1>5, <1>6, Zenon DEF ReadCall
  <2>2. Req \notin pending'
    BY <2>1, Zenon
  <2>3. srv'.up = srv.up
    BY <1>1, <2>1 DEF Servers
  <2>4. srv'.open = srv.open
    BY <1>1, <2>1 DEF Servers
  <2>5. srv'.pc = "run"
    BY <1>1, <2>1 DEF Servers
  <2>6. srv'.arg = v
    BY <1>1, <2>1 DEF Servers
  <2> QED
    BY <1>6, <2>1, <2>2, <2>3, <2>4, <2>5, <2>6, Zenon
<1>7. CASE cl.name # F
  <2>1. srv' = Served /\ c2s' = <<>> /\ s2c' = s2c \o Error(U) /\ pending' = pending
    BY <1>4, <1>5, <1>7, Zenon DEF ReadCall
  <2>2. s2c' = Error(U)
    <3>1. Error(U) \in Seq(Int) /\ U \in Names /\ 0 \in Int
      <4>1. Strange(Error(U))
        BY StrangeAnswers DEF Names
      <4> QED
        BY <4>1 DEF Strange, Names
    <3> QED
      BY <1>1, <2>1, <3>1, EmptyFirst
  <2>3. Req \notin pending'
    BY <1>7, <2>1 DEF InFull
  <2> QED
    BY <2>1, <2>2, <2>3
<1> QED
  BY <1>6, <1>7

LEMMA GetInFull ==
  ASSUME Types, Control, Server, InFull, cl.cmd = RPC_CMD_GET, cl.pc = "answer", cl.handle
  PROVE  /\ srv' = Served /\ c2s' = <<>> /\ store' = store
         /\ s2c' = IF store # NoValue THEN Number(store) ELSE <<RPC_NIL>>
<1>1. cl.name = X /\ srv.pc = "read" /\ srv.cmd = RPC_CMD_GET /\ s2c = <<>> /\ store \in Int
  BY CommandsApart DEF InFull, Control, Apart, Types
<1>2. c2s = String(X)
  BY <1>1, CommandsApart, Zenon DEF InFull, Written, Apart
<1>3. Request(c2s, RPC_CMD_GET) = At(4) /\ Rest(c2s, At(4)) = <<>> /\ Named(c2s) = X
  BY <1>2, GetReads, Zenon
<1>4. ReadGet
  BY <1>1, <1>3, ReadInFull, Zenon
<1> DEFINE t == IF store # NoValue THEN Number(store) ELSE <<RPC_NIL>>
<1>5. srv' = Served /\ c2s' = <<>> /\ store' = store /\ s2c' = <<>> \o t
  BY <1>1, <1>3, <1>4, Zenon DEF ReadGet
<1>6. t \in Seq(Int)
  BY <1>1 DEF Number, RPC_NUMBER, RPC_NIL
<1>7. <<>> \o t = t
  BY <1>6, EmptyFirst
<1> QED
  BY <1>5, <1>7, Zenon

LEMMA NewindexInFull ==
  ASSUME Types, Control, Server, InFull, cl.cmd = RPC_CMD_NEWINDEX, cl.pc = "answer", cl.handle
  PROVE  srv' = Served /\ c2s' = <<>> /\ store' = Values[Req] /\ s2c' = << 0 >>
<1> DEFINE v == Values[Req]
<1>1. /\ cl.name = X /\ Req \in DOMAIN Values /\ srv.pc = "read" /\ srv.cmd = RPC_CMD_NEWINDEX
      /\ s2c = <<>>
  BY CommandsApart DEF InFull, Control, Apart
<1>2. v \in Int
  BY <1>1, ValueTyped
<1>3. c2s = U32(0) \o <<RPC_STRING>> \o String(X) \o Number(v)
  BY <1>1, CommandsApart, Zenon DEF InFull, Written, Apart
<1>4. /\ Request(c2s, RPC_CMD_NEWINDEX) = At(9) /\ Rest(c2s, At(9)) = <<>>
      /\ SubSeq(c2s, 1, 2) = U32(0) /\ SubSeq(c2s, 3, 6) = <<RPC_STRING>> \o String(X)
      /\ NumberAt(c2s, 7) = v /\ Len(c2s) > 6
  BY <1>2, <1>3, NewindexReads, Zenon
<1>5. ReadNewindex
  BY <1>1, <1>4, ReadInFull, Zenon
<1>6. srv' = Served /\ c2s' = <<>> /\ store' = v /\ s2c' = Append(s2c, 0)
  BY <1>4, <1>5, Zenon DEF ReadNewindex
<1>7. s2c' = << 0 >>
  BY <1>1, <1>6
<1> QED
  BY <1>6, <1>7

LEMMA CallRuns ==
  ASSUME Types, Control, Server, Running, trouble = {}, trouble' = {}
  PROVE  /\ srv' = Served /\ c2s' = <<>> /\ pending' = pending
         /\ s2c' \in {<< 0 >> \o U32(1) \o Number(Values[Req]), Error(F)}
<1>1. Run
  BY ServerBy DEF Running
<1> DEFINE a == << 0 >>
           v == Values[Req]
<1>2. <<>> \o a = a
  OBVIOUS
<1>3. <<>> \o Error(F) = Error(F)
  <2>1. Strange(Error(F)) 
    BY StrangeAnswers DEF Names
  <2> QED
    BY <2>1, EmptyFirst DEF Strange
<1>4. ~(trouble' = trouble \cup {"raised"})
  OBVIOUS
<1>5. srv.arg = v /\ s2c = <<>> /\ c2s = <<>>
  BY Zenon DEF Running
<1>6. /\ srv' = Served /\ c2s' = <<>> /\ pending' = pending
      /\ s2c' \in {<<>> \o a \o U32(1) \o Number(v), <<>> \o Error(F)}
  BY <1>1, <1>4, <1>5, Zenon DEF Run
<1> QED
  BY <1>2, <1>3, <1>6, Zenon

\* An answer is in.
LEMMA CallAnswered ==
  ASSUME cl'.cmd = RPC_CMD_CALL, srv' = Served, c2s' = <<>>, Req' \notin pending',
         s2c' \in {<< 0 >> \o U32(1) \o Number(Values[Req']), Error(F), Error(U)}
  PROVE  Told' /\ srv'.up /\ srv'.open
BY ServedTyped, CommandsApart, Zenon DEF Told, Right, Apart

LEMMA GetAnswered ==
  ASSUME cl'.cmd = RPC_CMD_GET, srv' = Served, c2s' = <<>>,
         s2c' = IF store' # NoValue THEN Number(store') ELSE <<RPC_NIL>>
  PROVE  Told' /\ srv'.up /\ srv'.open
BY ServedTyped, CommandsApart, Zenon DEF Told, Right, Apart

LEMMA NewindexAnswered ==
  ASSUME cl'.cmd = RPC_CMD_NEWINDEX, srv' = Served, c2s' = <<>>, s2c' = << 0 >>,
         store' = Values[Req']
  PROVE  Told' /\ srv'.up /\ srv'.open
BY ServedTyped, CommandsApart, Zenon DEF Told, Right, Apart

\* A step of the server on behalf of the request that is made.
LEMMA ServerTalks ==
  ASSUME Types, Control, Server, cl.pc = "answer", cl.handle, InFull \/ Running \/ Told,
         srv.up, srv.open, trouble = {}, trouble' = {}
  PROVE  srv'.up /\ srv'.open /\ (Running' \/ Told')
<1>1. cl' = cl /\ Req' = Req /\ cl.cmd \in Asks /\ cl.name \in Names
  <2>1. cl' = cl /\ nextReq' = nextReq
    BY ServerLeaves, Zenon
  <2>2. Req' = Req
    BY <2>1 DEF Req
  <2>3. cl.cmd # RPC_CMD_CON /\ cl.cmd \in Commands /\ cl.name \in Names
    BY DEF Control, Types, Clients
  <2> QED
    BY <2>1, <2>2, <2>3 DEF Commands
<1>2. CASE Told
  BY <1>2, ServerWaits DEF Told
<1>3. CASE Running
  <2>1. cl.cmd = RPC_CMD_CALL /\ Req \notin pending
    BY <1>3 DEF Running
  <2>2. /\ srv' = Served /\ c2s' = <<>> /\ pending' = pending
        /\ s2c' \in {<< 0 >> \o U32(1) \o Number(Values[Req]), Error(F)}
    BY <1>3, CallRuns
  <2>3. Told' /\ srv'.up /\ srv'.open
    <3>1. /\ cl'.cmd = RPC_CMD_CALL /\ srv' = Served /\ c2s' = <<>>
          /\ Req' \notin pending'
          /\ s2c' \in {<< 0 >> \o U32(1) \o Number(Values[Req']), Error(F), Error(U)}
      BY <1>1, <2>1, <2>2, Zenon
    <3> QED
      BY <3>1, CallAnswered, Zenon
  <2> QED
    BY <2>3, Zenon
<1>4. CASE InFull
  <2>1. CASE cl.cmd = RPC_CMD_CALL
    <3>1. CASE /\ cl.name = F /\ srv'.up = srv.up /\ srv'.open = srv.open
               /\ srv'.pc = "run" /\ srv'.arg = Values[Req]
               /\ c2s' = <<>> /\ s2c' = <<>> /\ Req \notin pending'
      BY <1>1, <2>1, <3>1, Zenon DEF Running
    <3>2. CASE srv' = Served /\ c2s' = <<>> /\ s2c' = Error(U) /\ Req \notin pending'
      <4>1. Told' /\ srv'.up /\ srv'.open
        <5>1. /\ cl'.cmd = RPC_CMD_CALL /\ srv' = Served /\ c2s' = <<>>
              /\ Req' \notin pending'
              /\ s2c' \in {<< 0 >> \o U32(1) \o Number(Values[Req']), Error(F), Error(U)}
          BY <1>1, <2>1, <3>2, Zenon
        <5> QED
          BY <5>1, CallAnswered, Zenon
      <4> QED
        BY <4>1, Zenon
    <3> QED
      BY <1>4, <2>1, <3>1, <3>2, CallInFull
  <2>2. CASE cl.cmd = RPC_CMD_GET
    <3>1. Told' /\ srv'.up /\ srv'.open
      <4>1. /\ cl'.cmd = RPC_CMD_GET /\ srv' = Served /\ c2s' = <<>>
            /\ s2c' = IF store' # NoValue THEN Number(store') ELSE <<RPC_NIL>>
        BY <1>1, <1>4, <2>2, GetInFull, Zenon
      <4> QED
        BY <4>1, GetAnswered, Zenon
    <3> QED
      BY <3>1, Zenon
  <2>3. CASE cl.cmd = RPC_CMD_NEWINDEX
    <3>1. Told' /\ srv'.up /\ srv'.open
      <4>1. /\ cl'.cmd = RPC_CMD_NEWINDEX /\ srv' = Served /\ c2s' = <<>> /\ s2c' = << 0 >>
            /\ store' = Values[Req']
        BY <1>1, <1>4, <2>3, NewindexInFull, Zenon
      <4> QED
        BY <4>1, NewindexAnswered, Zenon
    <3> QED
      BY <3>1, Zenon
  <2> QED
    BY <1>1, <2>1, <2>2, <2>3 DEF Asks
<1> QED
  BY <1>2, <1>3, <1>4

LEMMA TalkServer ==
  ASSUME Types, Control, Talk, Server
  PROVE  Talk'
<1>1. UNCHANGED <<cl, nextReq, last>> /\ trouble \subseteq trouble' /\ Req' = Req
  BY ServerLeaves, Zenon DEF Req
<1> SUFFICES ASSUME cl.handle, trouble' = {}
             PROVE  (/\ srv.up /\ srv.open
                     /\ cl.pc = "idle" => InStep
                     /\ cl.pc = "ready" => Asked /\ Req \notin pending
                     /\ cl.pc = "answer" => InFull \/ Running \/ Told)'
  BY <1>1, Zenon DEF Talk
<1>2. /\ trouble = {} /\ srv.up /\ srv.open
      /\ cl.pc = "idle" => InStep
      /\ cl.pc = "ready" => Asked /\ Req \notin pending
      /\ cl.pc = "answer" => InFull \/ Running \/ Told
  BY <1>1 DEF Talk
<1>3. CASE cl.pc = "idle"
  BY <1>2, <1>3, ServerWaits DEF InStep
<1>4. CASE cl.pc = "ready"
  <2>1. cl.cmd \in Asks /\ srv.open /\ Asked /\ Req \notin pending
    BY <1>2, <1>4 DEF Control, Types, Clients, Commands
  <2>2. CASE srv.pc = "cmd" /\ c2s = <<cl.cmd>> /\ s2c = <<>>
    <3>1. /\ srv'.up /\ srv'.open /\ srv'.pc = "read" /\ srv'.cmd = cl.cmd
          /\ c2s' = <<>> /\ s2c' = <<RPC_READY>> /\ pending' = pending
      BY <2>1, <2>2, AskedTaken, Zenon
    <3> QED
      BY <1>1, <1>4, <2>1, <3>1, Zenon DEF Asked
  <2>3. CASE srv.pc = "read" /\ srv.cmd = cl.cmd /\ c2s = <<>> /\ s2c = <<RPC_READY>>
    BY <2>3, ServerWaits
  <2> QED
    BY <2>1, <2>2, <2>3 DEF Asked
<1>5. CASE cl.pc = "answer"
  BY <1>1, <1>2, <1>5, ServerTalks, Zenon
<1> QED
  BY <1>3, <1>4, <1>5 DEF Types, Clients

\* The client reads the answer that is in.
LEMMA CallRead ==
  ASSUME Told, cl.cmd = RPC_CMD_CALL, Values[Req] \in Int
  PROVE  /\ Reply(s2c, cl.cmd).st = "ok" /\ Rest(s2c, Reply(s2c, cl.cmd)) = <<>>
         /\ Result \in {<<"error">>, <<"number", Values[Req]>>} /\ Req \notin pending
<1> DEFINE v == Values[Req]
           n == << 0 >> \o U32(1) \o Number(v)
<1>1. Req \notin pending /\ s2c \in {n, Error(F), Error(U)}
  BY CommandsApart, Zenon DEF Told, Right, Apart
<1>2. At(6).st = "ok" /\ At(7).st = "ok"
  BY DEF At
<1>3. CASE s2c = n
  <2>1. /\ Reply(s2c, RPC_CMD_CALL) = At(6) /\ Rest(s2c, At(6)) = <<>>
        /\ s2c[1] = 0 /\ SubSeq(s2c, 2, 3) = U32(1) /\ NumberAt(s2c, 4) = v
    BY <1>3, NumberReads, Zenon
  <2>2. Result = <<"number", v>>
    BY <2>1, CommandsApart, Zenon DEF Result, Apart
  <2> QED
    BY <1>1, <1>2, <2>1, <2>2, Zenon
<1>4. CASE s2c \in {Error(F), Error(U)}
  <2>1. Reply(s2c, RPC_CMD_CALL) = At(7) /\ Rest(s2c, At(7)) = <<>> /\ s2c[1] # 0
    <3>1. F \in Int /\ U \in Int
      BY DEF F, U
    <3> QED
      BY <1>4, <3>1, ErrorReads, Zenon
  <2>2. Result = <<"error">>
    BY <2>1, CommandsApart, Zenon DEF Result, Apart
  <2> QED
    BY <1>1, <1>2, <2>1, <2>2, Zenon
<1> QED
  BY <1>1, <1>3, <1>4, Zenon

LEMMA GetRead ==
  ASSUME Told, cl.cmd = RPC_CMD_GET, store \in Int
  PROVE  /\ Reply(s2c, cl.cmd).st = "ok" /\ Rest(s2c, Reply(s2c, cl.cmd)) = <<>>
         /\ Result = <<"number", store>>
<1>1. s2c = IF store # NoValue THEN Number(store) ELSE <<RPC_NIL>>
  BY CommandsApart, Zenon DEF Told, Right, Apart
<1>2. At(3).st = "ok" /\ At(2).st = "ok"
  BY DEF At
<1>3. Result = <<"number", NumberAt(s2c, 1)>>
  BY CommandsApart, Zenon DEF Result, Apart
<1>4. CASE store # NoValue
  BY <1>1, <1>2, <1>3, <1>4, VariableReads, Zenon
<1>5. CASE store = NoValue
  BY <1>1, <1>2, <1>3, <1>5, NilReads, Zenon
<1> QED
  BY <1>4, <1>5

LEMMA NewindexRead ==
  ASSUME Told, cl.cmd = RPC_CMD_NEWINDEX
  PROVE  /\ Reply(s2c, cl.cmd).st = "ok" /\ Rest(s2c, Reply(s2c, cl.cmd)) = <<>>
         /\ Result = <<"done">> /\ store = Values[Req]
<1>1. s2c = << 0 >> /\ store = Values[Req]
  BY CommandsApart, Zenon DEF Told, Right, Apart
<1>2. At(2).st = "ok"
  BY DEF At
<1>3. s2c[1] = 0
  BY <1>1
<1>4. Result = <<"done">>
  BY <1>3, CommandsApart, Zenon DEF Result, Apart
<1> QED
  BY <1>1, <1>2, <1>4, DoneReads, Zenon

\* An answer is read to its end or not at all.
LEMMA AnswerIn ==
  ASSUME Types, Control, Talk, trouble = {}, cl.pc = "answer", cl.cmd # RPC_CMD_CON,
         NEW st, HasAnswer(st), st \in {"ok", "bad", "fault"}
  PROVE  st = "ok" /\ Told /\ srv.up /\ srv.open /\ cl.cmd \in Asks /\ cl.handle
<1>1. cl.handle /\ cl.cmd \in Asks /\ Req \in DOMAIN Values /\ store \in Int
  BY DEF Control, Types, Clients, Commands
<1>2. srv.up /\ srv.open /\ (InFull \/ Running \/ Told)
  BY <1>1 DEF Talk
<1>3. Reply(s2c, cl.cmd).st = st
  BY DEF HasAnswer
<1>4. s2c # <<>>
  BY <1>3, NothingReads DEF Short
<1>5. Told
  BY <1>2, <1>4 DEF InFull, Running
<1>6. Values[Req] \in Int
  BY <1>1, ValueTyped
<1>7. Reply(s2c, cl.cmd).st = "ok"
  BY <1>1, <1>5, <1>6, CallRead, GetRead, NewindexRead, Zenon DEF Asks
<1> QED
  BY <1>1, <1>2, <1>3, <1>5, <1>7

\* What is claimed while nothing has gone wrong.
Fine == Talk /\ Alone /\ RightAnswer

\* Once something is wrong nothing is claimed.
LEMMA WrongIsFine ==
  ASSUME trouble' # {}
  PROVE  Fine'
BY Zenon DEF Fine, Talk, Alone, RightAnswer

LEMMA WaitReadyFine ==
  ASSUME Types, Control, Talk, WaitReady
  PROVE  Fine'
<1> SUFFICES ASSUME trouble' = {} PROVE Fine'
  BY WrongIsFine
<1>1. /\ cl.pc = "ready" /\ s2c # <<>> /\ UNCHANGED <<srv, store, nextReq>>
      /\ cl.handle /\ cl \in Clients /\ s2c' = Tail(s2c) /\ Req' = Req
  BY DEF WaitReady, Control, Types, Req
<1>2. trouble = {} /\ (Head(s2c) = RPC_READY => cl.fits)
  BY Zenon DEF WaitReady
<1>3. srv.up /\ srv.open /\ Req \notin pending /\ Asked
  BY <1>1, <1>2 DEF Talk
<1>4. srv.pc = "read" /\ srv.cmd = cl.cmd /\ c2s = <<>> /\ s2c = <<RPC_READY>>
  BY <1>1, <1>3 DEF Asked
<1>5. Head(s2c) = RPC_READY /\ Tail(s2c) = <<>>
  BY <1>4
<1>6. /\ c2s' = <<>> \o Body \o Argument /\ pending' = pending \cup Calling
      /\ cl' = [cl EXCEPT !.pc = "answer"]
  BY <1>2, <1>4, <1>5, Zenon DEF WaitReady
<1>7. c2s' = Written(cl.cmd, cl.name, Values[Req])
  BY <1>1, <1>2, <1>5, <1>6, Wrote, Zenon
<1>8. /\ cl'.pc = "answer" /\ cl'.handle = cl.handle /\ cl'.cmd = cl.cmd /\ cl'.name = cl.name
  BY <1>1, <1>6, AnswerTyped, Zenon
<1>9. cl.name # F => Req \notin pending'
  BY <1>3, <1>6, Zenon DEF Calling
<1>10. InFull'
  BY <1>1, <1>4, <1>5, <1>7, <1>8, <1>9, Zenon DEF InFull
<1>11. Talk'
  BY <1>1, <1>3, <1>8, <1>10 DEF Talk
<1> QED
  BY <1>8, <1>11 DEF Fine, Alone, RightAnswer

\* What a request leaves behind when it ends.
LEMMA EndsLeaves ==
  ASSUME cl \in Clients, NEW got, NEW handle, Ends(got, handle)
  PROVE  /\ cl'.pc = "idle" /\ cl'.handle = handle
         /\ last'.cmd = cl.cmd /\ last'.req = Req /\ last'.got = got
<1>1. /\ cl' = [cl EXCEPT !.pc = "idle", !.handle = handle]
      /\ last' = [cmd |-> cl.cmd, req |-> Req, got |-> got]
  BY Zenon DEF Ends, Req
<1>2. cl'.pc = "idle"
  BY <1>1 DEF Clients
<1>3. cl'.handle = handle
  BY <1>1 DEF Clients
<1>4. last'.cmd = cl.cmd
  BY <1>1
<1>5. last'.req = Req
  BY <1>1
<1>6. last'.got = got
  BY <1>1
<1> QED
  BY <1>2, <1>3, <1>4, <1>5, <1>6

\* An attempt of the client to connect that ends well has been met.
LEMMA HandleMet ==
  ASSUME Attempt, Handle
  PROVE  Met /\ Rest(s2c, Reply(s2c, cl.cmd)) = <<>>
<1>1. /\ cl.pc = "answer" /\ cl.cmd = RPC_CMD_CON
      /\ Reply(s2c, RPC_CMD_CON).st = "ok" /\ SubSeq(s2c, 1, Len(Header)) = Header
  BY DEF Handle, HasAnswer
<1>2. s2c # <<>>
  BY <1>1, NothingReads DEF Short
<1>3. ~Strange(s2c)
  <2> SUFFICES ASSUME Strange(s2c) PROVE FALSE
    OBVIOUS
  <2>1. Len(Header) = 3 /\ Header[1] = 76
    BY DEF Header
  <2> DEFINE h == Header
  <2>2. SubSeq(s2c, 1, 3) = h /\ h[1] = 76
    BY <1>1, <2>1, Zenon
  <2> HIDE DEF h
  <2>3. s2c \in Seq(Int) /\ s2c[1] # 76
    BY DEF Strange
  <2>4. SubSeq(s2c, 1, 3)[1] = s2c[1]
    BY <2>3
  <2> QED
    BY <2>2, <2>3, <2>4
<1>4. Met
  BY <1>1, <1>2, <1>3 DEF Attempt
<1>5. Reply(s2c, cl.cmd) = At(4) /\ Rest(s2c, At(4)) = <<>>
  BY <1>1, <1>4, HeaderReads, HelloIs, Zenon DEF Met
<1> QED
  BY <1>4, <1>5, Zenon

LEMMA AnsweredFine ==
  ASSUME Types, Control, Attempt, Talk, Answered
  PROVE  Fine'
<1> SUFFICES ASSUME trouble' = {} PROVE Fine'
  BY WrongIsFine
<1>1. /\ cl.pc = "answer" /\ cl \in Clients /\ HasAnswer("ok")
      /\ UNCHANGED <<c2s, srv, store, nextReq, pending>>
      /\ s2c' = Rest(s2c, Reply(s2c, cl.cmd))
  BY Zenon DEF Answered, HasAnswer, Types
<1>2. CASE cl.cmd = RPC_CMD_CON
  <2>1. Ends(<<"connected">>, Handle)
    BY <1>2, Zenon DEF Answered
  <2>2. cl'.pc = "idle" /\ (cl'.handle <=> Handle) /\ last'.cmd = RPC_CMD_CON
    <3>1. cl'.pc = "idle" /\ cl'.handle = Handle /\ last'.cmd = cl.cmd
      BY <1>1, <2>1, EndsLeaves, Zenon
    <3>2. CASE Handle
      <4>1. cl'.handle
        BY <3>1, <3>2, Zenon
      <4> QED
        BY <1>2, <3>1, <3>2, <4>1, Zenon
    <3>3. CASE ~Handle
      <4>1. ~cl'.handle
        BY <3>1, <3>3, Zenon
      <4> QED
        BY <1>2, <3>1, <3>3, <4>1, Zenon
    <3> QED
      BY <3>2, <3>3
  <2>3. Handle => InStep'
    <3> SUFFICES ASSUME Handle PROVE InStep'
      OBVIOUS
    <3>1. Met /\ s2c' = <<>>
      BY <1>1, HandleMet, Zenon
    <3> QED
      BY <1>1, <3>1, Zenon DEF Met, InStep
  <2>4. Talk'
    BY <2>2, <2>3 DEF Talk, InStep
  <2>5. RightAnswer' /\ Alone'
    BY <2>2, CommandsApart, Zenon DEF RightAnswer, Alone, Apart
  <2> QED
    BY <2>4, <2>5 DEF Fine
<1>3. CASE cl.cmd # RPC_CMD_CON
  <2>1. Ends(Result, cl.handle) /\ trouble' = trouble
    BY <1>3, Zenon DEF Answered, Handle
  <2>2. Told /\ srv.up /\ srv.open /\ cl.cmd \in Asks /\ cl.handle
    BY <1>1, <1>3, <2>1, AnswerIn
  <2>3. /\ cl'.pc = "idle" /\ cl'.handle
        /\ last'.cmd = cl.cmd /\ last'.req = Req /\ last'.got = Result
    BY <1>1, <2>1, <2>2, EndsLeaves, Zenon
  <2>4. Values[Req] \in Int /\ store \in Int
    BY <1>1, <1>3, ValueTyped DEF Control, Types
  <2>5. s2c' = <<>>
    BY <1>1, <2>2, <2>4, CallRead, GetRead, NewindexRead, Zenon DEF Asks
  <2>6. InStep'
    BY <1>1, <2>2, <2>5, Zenon DEF InStep, Told
  <2>7. Talk'
    BY <2>3, <2>6 DEF Talk, InStep
  <2>8. RightAnswer'
    <3>1. CASE cl.cmd = RPC_CMD_CALL
      <4>1. last'.got \in {<<"error">>, <<"number", Values[last'.req]>>} /\ last'.req \notin pending'
        BY <1>1, <2>2, <2>3, <2>4, <3>1, CallRead, Zenon
      <4> QED
        BY <2>3, <3>1, <4>1, CommandsApart, Zenon DEF RightAnswer, Apart
    <3>2. CASE cl.cmd = RPC_CMD_GET
      <4>1. last'.got = <<"number", store'>>
        BY <1>1, <2>2, <2>3, <2>4, <3>2, GetRead, Zenon
      <4> QED
        BY <2>3, <3>2, <4>1, CommandsApart, Zenon DEF RightAnswer, Apart
    <3>3. CASE cl.cmd = RPC_CMD_NEWINDEX
      <4>1. last'.got = <<"done">> /\ store' = Values[last'.req]
        BY <1>1, <2>2, <2>3, <3>3, NewindexRead, Zenon
      <4> QED
        BY <2>3, <3>3, <4>1, CommandsApart, Zenon DEF RightAnswer, Apart
    <3> QED
      BY <2>2, <3>1, <3>2, <3>3 DEF Asks
  <2>9. Alone'
    BY <2>3 DEF Alone
  <2> QED
    BY <2>7, <2>8, <2>9 DEF Fine
<1> QED
  BY <1>2, <1>3

LEMMA RefusedFine ==
  ASSUME Types, Control, Talk, Refused \/ ClientDies
  PROVE  Fine'
<1> SUFFICES ASSUME trouble' = {} PROVE Fine'
  BY WrongIsFine
<1>1. /\ cl.pc = "answer" /\ cl \in Clients /\ trouble' = trouble
      /\ HasAnswer("bad") \/ HasAnswer("fault")
  BY Zenon DEF Refused, ClientDies, HasAnswer, Types
<1>2. cl.cmd = RPC_CMD_CON
  BY <1>1, AnswerIn
<1>3. ~cl.handle
  BY <1>1, <1>2 DEF Control
<1>4. PICK open \in {FALSE, cl.handle} : Ends(<<"nil">>, open)
  BY Zenon DEF Refused, ClientDies
<1>5. cl'.pc = "idle" /\ ~cl'.handle /\ last'.cmd = RPC_CMD_CON
  BY <1>1, <1>2, <1>3, <1>4, EndsLeaves, Zenon
<1> QED
  BY <1>5, CommandsApart, Zenon DEF Fine, Talk, Alone, RightAnswer, Apart

LEMMA ConnectFine ==
  ASSUME Types, Connect
  PROVE  Fine'
<1>1. cl \in Clients /\ cl' = [cl EXCEPT !.pc = "answer", !.cmd = RPC_CMD_CON, !.handle = FALSE]
  BY Zenon DEF Types, Connect
<1>2. cl'.pc = "answer"
  BY <1>1 DEF Clients
<1>3. cl'.handle = FALSE
  BY <1>1 DEF Clients
<1> QED
  BY <1>2, <1>3 DEF Fine, Talk, Alone, RightAnswer

LEMMA AskFine ==
  ASSUME Types, Control, Talk, NEW cmd \in Asks, NEW name, NEW fits, Ask(cmd, name, fits)
  PROVE  Fine'
<1> SUFFICES ASSUME trouble' = {} PROVE Fine'
  BY WrongIsFine
<1>1. /\ cl \in Clients /\ cl.pc = "idle" /\ cl.handle
      /\ cl' = [cl EXCEPT !.pc = "ready", !.cmd = cmd, !.name = name, !.fits = fits]
      /\ nextReq' = nextReq + 1 /\ c2s' = Append(c2s, cmd)
      /\ UNCHANGED <<s2c, srv, store, pending, trouble>>
  BY Zenon DEF Types, Ask
<1>2. InStep
  BY <1>1 DEF Talk
<1>3. cl'.pc = "ready"
  BY <1>1 DEF Clients
<1>4. cl'.cmd = cmd
  BY <1>1 DEF Clients
<1>5. c2s' = <<cl'.cmd>>
  BY <1>1, <1>2, <1>4 DEF InStep
<1>6. Asked' /\ srv'.up /\ srv'.open
  BY <1>1, <1>2, <1>5, Zenon DEF InStep, Asked
<1>7. Req' \notin pending'
  <2>1. Req' = nextReq /\ nextReq \in Nat
    BY <1>1 DEF Req, Types
  <2> QED
    BY <1>1, <2>1 DEF Control
<1>8. Talk'
  BY <1>3, <1>6, <1>7 DEF Talk
<1> QED
  BY <1>3, <1>8 DEF Fine, Alone, RightAnswer

LEMMA ServerFine ==
  ASSUME Types, Control, Fine, Server
  PROVE  Fine'
<1> SUFFICES ASSUME trouble' = {} PROVE Fine'
  BY WrongIsFine
<1>1. UNCHANGED <<cl, nextReq, last>> /\ trouble = {}
  BY ServerLeaves
<1>2. Talk'
  BY TalkServer DEF Fine
<1>3. CASE cl.pc = "idle" /\ cl.handle
  BY <1>1, <1>3, ServerWaits DEF Fine, Talk, InStep
<1>4. CASE cl.pc = "idle" /\ ~cl.handle
  <2>1. last'.cmd = RPC_CMD_CON
    BY <1>1, <1>4 DEF Fine, Alone
  <2> QED
    BY <1>2, <2>1, CommandsApart, Zenon DEF Fine, Alone, RightAnswer, Apart
<1>5. CASE cl.pc # "idle"
  BY <1>1, <1>2, <1>5 DEF Fine, Alone, RightAnswer
<1> QED
  BY <1>3, <1>4, <1>5

-----------------------------------------------------------------------------
(* The theorems                                                            *)

LEMMA InitInv ==
  ASSUME Init
  PROVE  Inv
<1>1. srv \in Servers /\ srv.pc = "cmd" /\ srv.up
  BY DEF Init, Servers, NoValue
<1>2. cl \in Clients /\ cl.pc = "idle" /\ ~cl.handle
  BY DEF Init, Clients, Names, Commands
<1>3. c2s \in Seq(Nat) /\ store \in Int /\ nextReq \in Nat /\ lost \in Nat /\ pending = {}
  BY DEF Init, NoValue
<1>4. Types
  BY <1>1, <1>2, <1>3 DEF Types
<1>5. Control
  BY <1>1, <1>2, <1>3 DEF Control
<1>6. last.cmd = RPC_CMD_CON /\ last.req = 0
  BY DEF Init
<1>7. Attempt /\ Talk /\ Alone /\ RightAnswer
  BY <1>2, <1>6 DEF Attempt, Talk, Alone, RightAnswer
<1> QED
  BY <1>4, <1>5, <1>7 DEF Inv

LEMMA NextInv ==
  ASSUME Inv, [Next]_vars
  PROVE  Inv'
<1>1. Types /\ Control /\ Types' /\ Control'
  BY TypesKept DEF Inv
<1> SUFFICES ASSUME lost' = 0 PROVE (Attempt /\ Fine)'
  BY <1>1 DEF Inv, Fine
<1>2. CASE Lose
  BY <1>2 DEF Lose, Inv, Types
<1>3. ~Lose => lost' = lost
  BY Zenon DEF Next, Server, Client, Command, Negotiate, ReadCall, Run, ReadGet, ReadNewindex,
    ServerTimeout, Refuse, ServerDies, WaitReady, Answered, Refused, ClientDies, ClientTimeout,
    Connect, Ask, vars
<1>4. CASE ~Lose
  <2>1. Attempt /\ Fine /\ Talk
    BY <1>3, <1>4 DEF Inv, Fine
  <2>2. CASE Server
    BY <1>1, <2>1, <2>2, AttemptServer, ServerFine
  <2>3. CASE WaitReady
    BY <1>1, <2>1, <2>3, AttemptElse, WaitReadyFine
  <2>4. CASE Answered
    BY <1>1, <2>1, <2>4, AttemptElse, AnsweredFine
  <2>5. CASE Refused \/ ClientDies
    BY <1>1, <2>1, <2>5, AttemptElse, RefusedFine
  <2>6. CASE ClientTimeout
    <3>1. trouble' # {}
      BY <2>6, Zenon DEF ClientTimeout
    <3> QED
      BY <1>1, <2>6, <3>1, AttemptElse, WrongIsFine
  <2>7. CASE Connect
    BY <1>1, <2>7, AttemptConnect, ConnectFine
  <2>8. ASSUME NEW cmd \in Asks, NEW name, NEW fits, Ask(cmd, name, fits)
        PROVE  (Attempt /\ Fine)'
    BY <1>1, <2>1, <2>8, AttemptAsk, AskFine
  <2>9. CASE UNCHANGED vars
    <3>1. Attempt' <=> Attempt
      BY <2>9, Zenon DEF vars, Attempt, Greeted, Deaf, Met
    <3>2. Talk' <=> Talk
      BY <2>9, Zenon DEF vars, Talk, InStep, Asked, InFull, Running, Told, Right, Req
    <3>3. (Alone' <=> Alone) /\ (RightAnswer' <=> RightAnswer)
      BY <2>9, Zenon DEF vars, Alone, RightAnswer
    <3> QED
      BY <2>1, <3>1, <3>2, <3>3, Zenon DEF Fine
  <2>10. RPC_CMD_CALL \in Asks /\ RPC_CMD_GET \in Asks /\ RPC_CMD_NEWINDEX \in Asks
    BY Zenon DEF Asks
  <2> QED
    BY <1>4, <2>2, <2>3, <2>4, <2>5, <2>6, <2>7, <2>8, <2>9, <2>10, Zenon DEF Next, Client
<1> QED
  BY <1>2, <1>4

(***************************************************************************)
(* The types, where the two ends can be at the same time, and, on a line   *)
(* that loses nothing, what an attempt to connect can meet (Attempt) and   *)
(* who holds what of a request (Talk).                                     *)
(***************************************************************************)
THEOREM RpcInvariant == Spec => []Inv
<1>1. Inv /\ [Next]_vars => Inv'
  BY NextInv
<1>2. Init => Inv
  BY InitInv
<1> QED
  BY <1>1, <1>2, PTL DEF Spec

(***************************************************************************)
(* On a line that loses nothing, nothing is left over between two requests *)
(* of a client that has a handle while nothing has gone wrong: whatever    *)
(* calls that could not be sent, functions that failed and clients that    *)
(* lost patience had left in either stream, in whatever order, rpc.connect *)
(* (src/modules/luarpc.c: rpc_connect, client_negotiate, server_negotiate) *)
(* hands out a handle only when both ends are in step again.               *)
(***************************************************************************)
THEOREM ConnectPutsInStep == Spec => [](lost = 0 => HandleInStep)
<1>1. Inv => (lost = 0 => HandleInStep)
  BY DEF Inv, Talk, HandleInStep
<1> QED
  BY <1>1, RpcInvariant, PTL

(***************************************************************************)
(* On such a line what a request returns is the answer to this request,    *)
(* not to one before it, and the call it made has run, as long as nothing  *)
(* has gone wrong since the handle was returned (src/modules/luarpc.c:     *)
(* helper_call, helper_get, helper_newindex, read_cmd_call, read_cmd_get,  *)
(* read_cmd_newindex).                                                     *)
(***************************************************************************)
THEOREM AnswersAreRight == Spec => [](lost = 0 => RightAnswer)
<1>1. Inv => (lost = 0 => RightAnswer)
  BY DEF Inv
<1> QED
  BY <1>1, RpcInvariant, PTL
=============================================================================
