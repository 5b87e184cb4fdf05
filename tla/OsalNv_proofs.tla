------------------------------ MODULE OsalNv_proofs ------------------------------
(***************************************************************************)
(* Proofs about OsalNv, for every set of items and of values, every number *)
(* of pages and every size of the items that fits on a page.               *)
(*                                                                         *)
(* NvInv is inductive.  It says what the flash holds whatever the code is  *)
(* doing (FlashInv), what the headers of the pages are at each step of an  *)
(* operation, of compactPage and of initNV (Phase), that the reserve page  *)
(* holds copies of what compactPage has passed and has room for the rest   *)
(* (ReserveInv), which copy of an item is spare (OpInv, ServeInv), and     *)
(* what the walk of initNV leaves behind it (ScanInv, PickInv).  The       *)
(* safety of the pages and of reads follows from it.                       *)
(*                                                                         *)
(* The flash implements NvStore but for one step, in which initNV erases   *)
(* the page that it picks when no header tells which one it was            *)
(* compacting (Picking): exactly what is on that page is lost.  That step  *)
(* does not occur where an interrupted erasing never takes the xfer word   *)
(* alone (ReserveKnown).                                                   *)
(*                                                                         *)
(* Induction over the sums of lengths is done with a set of numbers in the *)
(* place of a property (NatSet, UpTo).                                     *)
(***************************************************************************)
EXTENDS OsalNv, SequenceTheorems, WellFoundedInduction, TLAPS

--------------------------------------------------------------------------------
(* Sums of numbers. *)

(* A set of numbers has a smallest one. *)
LEMMA Smallest ==
  ASSUME NEW S, S \subseteq Nat, S # {}
  PROVE  \E m \in S : \A n \in S : m <= n
<1>1. \E i \in S : \A j \in S : ~ (<<j, i>> \in OpToRel(<, Nat))
  BY NatLessThanWellFounded, WFMin
<1>2. \A i, j \in Nat : <<j, i>> \in OpToRel(<, Nat) <=> j < i  BY DEF OpToRel
<1>3. \A i, j \in Nat : ~ (j < i) => i <= j  OBVIOUS
<1> QED  BY <1>1, <1>2, <1>3, Zenon

(* Induction, with a set for the property. *)
LEMMA NatSet ==
  ASSUME NEW S, 0 \in S, \A n \in Nat : n \in S => n + 1 \in S
  PROVE  \A n \in Nat : n \in S
<1>1. SUFFICES ASSUME Nat \ S # {} PROVE FALSE
  OBVIOUS
<1>2. PICK x \in Nat \ S : \A y \in Nat \ S : x <= y
  BY <1>1, Smallest
<1>3. x # 0 /\ x - 1 \in Nat /\ x - 1 \in S
  BY <1>2
<1> QED  BY <1>2, <1>3

(* The recursive function in Total. *)
Sums(s, n) == {f \in [0 .. n -> Nat] :
                  f[0] = 0 /\ \A i \in 1 .. n : f[i] = f[i - 1] + s[i]}

(* A sum over n numbers goes on to n + 1 of them. *)
LEMMA SumsExtended ==
  ASSUME NEW s \in Seq(Nat), NEW n \in Nat, n + 1 <= Len(s), NEW f \in Sums(s, n)
  PROVE  \E g : g \in Sums(s, n + 1)
<1> DEFINE g == [i \in 0 .. n + 1 |-> IF i <= n THEN f[i] ELSE f[n] + s[n + 1]]
<1>0. s[n + 1] \in Nat
  OBVIOUS
<1>1. f \in [0 .. n -> Nat] /\ f[0] = 0 /\ \A i \in 1 .. n : f[i] = f[i - 1] + s[i]
  BY DEF Sums
<1>2. g \in [0 .. n + 1 -> Nat]
  BY <1>0, <1>1
<1>3. g[0] = 0
  BY <1>1
<1>4. \A i \in 1 .. n : g[i] = g[i - 1] + s[i]
  <2>1. \A i \in 1 .. n : g[i] = f[i] /\ g[i - 1] = f[i - 1]
    OBVIOUS
  <2> QED BY <2>1, <1>1
<1>5. g[n + 1] = g[n] + s[n + 1]
  OBVIOUS
<1>6. \A i \in 1 .. n + 1 : i \in 1 .. n \/ i = n + 1
  OBVIOUS
<1>7. \A i \in 1 .. n + 1 : g[i] = g[i - 1] + s[i]
  <2>1. (n + 1) - 1 = n
    OBVIOUS
  <2> QED BY <1>4, <1>5, <1>6, <2>1
<1> HIDE DEF g
<1> QED BY <1>2, <1>3, <1>7 DEF Sums

(* Every sequence of numbers has a function of its partial sums. *)
LEMMA SumsExist ==
  ASSUME NEW s \in Seq(Nat)
  PROVE  \E f : f \in Sums(s, Len(s))
<1> DEFINE S == {n \in Nat : n <= Len(s) => Sums(s, n) # {}}
<1>1. 0 \in S
  <2>1. [i \in 0 .. 0 |-> 0] \in Sums(s, 0)
    BY DEF Sums
  <2> QED BY <2>1
<1>2. \A n \in Nat : n \in S => n + 1 \in S
  <2> TAKE n \in Nat
  <2> HAVE n \in S
  <2>1. ASSUME n + 1 <= Len(s) PROVE Sums(s, n + 1) # {}
    <3>1. n <= Len(s)
      BY <2>1
    <3>2. PICK f : f \in Sums(s, n)
      BY <3>1
    <3> QED BY <2>1, <3>2, SumsExtended
  <2> QED BY <2>1
<1>3. \A n \in Nat : n \in S
  <2> HIDE DEF S
  <2> QED BY <1>1, <1>2, NatSet
<1> QED BY <1>3

(* Total is the last of the sums. *)
LEMMA TotalIs ==
  ASSUME NEW s \in Seq(Nat)
  PROVE  \E f \in Sums(s, Len(s)) : Total(s) = f[Len(s)]
<1> DEFINE Def(h) == [i \in 0 .. Len(s) |-> IF i = 0 THEN 0 ELSE h[i - 1] + s[i]]
           c == CHOOSE h : h = Def(h)
<1>0. Len(s) \in Nat /\ \A i \in 1 .. Len(s) : s[i] \in Nat
  OBVIOUS
<1>1. PICK f : f \in Sums(s, Len(s))
  BY SumsExist
<1>2. f \in [0 .. Len(s) -> Nat] /\ f[0] = 0 /\ \A i \in 1 .. Len(s) : f[i] = f[i - 1] + s[i]
  BY <1>1 DEF Sums
<1>3. f = Def(f)
  BY <1>2, <1>0
<1>4. c = Def(c)
  BY <1>3
<1>5. \A i \in 0 .. Len(s) : c[i] = IF i = 0 THEN 0 ELSE c[i - 1] + s[i]
  BY <1>4
<1>6. \A i \in 0 .. Len(s) : c[i] = f[i]
  <2> DEFINE R == {n \in Nat : n <= Len(s) => c[n] = f[n]}
  <2> HIDE DEF c
  <2>1. 0 \in R
    BY <1>0, <1>2, <1>5
  <2>2. ASSUME NEW n \in Nat, n \in R PROVE n + 1 \in R
    <3>1. ASSUME n + 1 <= Len(s) PROVE c[n + 1] = f[n + 1]
      <4>1. n + 1 \in 1 .. Len(s) /\ n + 1 \in 0 .. Len(s) /\ n + 1 # 0 /\ (n + 1) - 1 = n
        BY <3>1, <1>0
      <4>2. c[n] = f[n]
        BY <2>2, <3>1, <1>0
      <4> QED BY <4>1, <4>2, <1>2, <1>5
    <3> QED BY <3>1
  <2>3. \A n \in Nat : n \in R
    <3> HIDE DEF R
    <3> QED BY <2>1, <2>2, NatSet
  <2> QED BY <2>3, <1>0
<1>7. Total(s) = c[Len(s)]
  BY DEF Total
<1> QED BY <1>0, <1>1, <1>6, <1>7

(* Induction up to a bound. *)
LEMMA UpTo ==
  ASSUME NEW n \in Nat, NEW S, 0 \in S, \A i \in Nat : i < n /\ i \in S => i + 1 \in S
  PROVE  \A i \in 0 .. n : i \in S
<1> DEFINE T == {i \in Nat : i <= n => i \in S}
<1>1. 0 \in T
  OBVIOUS
<1>2. \A i \in Nat : i \in T => i + 1 \in T
  OBVIOUS
<1>3. \A i \in Nat : i \in T
  <2> HIDE DEF T
  <2> QED BY <1>1, <1>2, NatSet
<1> QED BY <1>3

(* What the partial sums of a sequence are. *)
LEMMA SumsFacts ==
  ASSUME NEW s \in Seq(Nat), NEW f \in Sums(s, Len(s))
  PROVE  /\ f \in [0 .. Len(s) -> Nat] /\ f[0] = 0
         /\ \A i \in 0 .. Len(s) : f[i] \in Nat
         /\ \A i \in Nat : i < Len(s) =>
               f[i + 1] = f[i] + s[i + 1] /\ s[i + 1] \in Nat /\ f[i] \in Nat
<1>1. f \in [0 .. Len(s) -> Nat] /\ f[0] = 0 /\ \A i \in 1 .. Len(s) : f[i] = f[i - 1] + s[i]
  BY DEF Sums
<1>2. ASSUME NEW i \in Nat, i < Len(s)
      PROVE  f[i + 1] = f[i] + s[i + 1] /\ s[i + 1] \in Nat /\ f[i] \in Nat
  <2>1. i + 1 \in 1 .. Len(s) /\ (i + 1) - 1 = i /\ i \in 0 .. Len(s)
    BY <1>2
  <2> QED BY <2>1, <1>1, SMTT(30)
<1> QED BY <1>1, <1>2

(* The sum of numbers is a number, and 0 when there are none. *)
LEMMA TotalType ==
  ASSUME NEW s \in Seq(Nat)
  PROVE  Total(s) \in Nat /\ (Len(s) = 0 => Total(s) = 0)
<1>1. PICK f \in Sums(s, Len(s)) : Total(s) = f[Len(s)]
  BY TotalIs
<1> QED BY <1>1, SumsFacts

(* Total is monotone. *)
LEMMA TotalOfMore ==
  ASSUME NEW s \in Seq(Nat), NEW t \in Seq(Nat), Len(s) = Len(t),
         \A i \in 1 .. Len(s) : s[i] <= t[i]
  PROVE  Total(s) <= Total(t)
<1>1. PICK f \in Sums(s, Len(s)) : Total(s) = f[Len(s)]
  BY TotalIs
<1>2. PICK g \in Sums(t, Len(t)) : Total(t) = g[Len(t)]
  BY TotalIs
<1>3. Len(s) \in Nat
  OBVIOUS
<1> DEFINE S == {i \in Nat : f[i] <= g[i]}
<1>4. 0 \in S
  BY SumsFacts
<1>5. \A i \in Nat : i < Len(s) /\ i \in S => i + 1 \in S
  <2> TAKE i \in Nat
  <2> HAVE i < Len(s) /\ i \in S
  <2>1. f[i + 1] = f[i] + s[i + 1] /\ s[i + 1] \in Nat /\ f[i] \in Nat
    BY SumsFacts
  <2>2. g[i + 1] = g[i] + t[i + 1] /\ t[i + 1] \in Nat /\ g[i] \in Nat
    BY SumsFacts
  <2>3. s[i + 1] <= t[i + 1]
    OBVIOUS
  <2> QED BY <2>1, <2>2, <2>3, SMTT(30)
<1>6. \A i \in 0 .. Len(s) : i \in S
  <2> HIDE DEF S
  <2> QED BY <1>3, <1>4, <1>5, UpTo
<1> QED BY <1>1, <1>2, <1>3, <1>6

(* The sum of the sums is the sum of both. *)
LEMMA TotalOfSum ==
  ASSUME NEW s \in Seq(Nat), NEW t \in Seq(Nat), NEW u \in Seq(Nat),
         Len(s) = Len(t), Len(s) = Len(u), \A i \in 1 .. Len(s) : u[i] = s[i] + t[i]
  PROVE  Total(u) = Total(s) + Total(t)
<1>1. PICK f \in Sums(s, Len(s)) : Total(s) = f[Len(s)]
  BY TotalIs
<1>2. PICK g \in Sums(t, Len(t)) : Total(t) = g[Len(t)]
  BY TotalIs
<1>3. PICK h \in Sums(u, Len(u)) : Total(u) = h[Len(u)]
  BY TotalIs
<1>4. Len(s) \in Nat
  OBVIOUS
<1> DEFINE S == {i \in Nat : h[i] = f[i] + g[i]}
<1>5. 0 \in S
  <2>1. f[0] = 0 BY SumsFacts
  <2>2. g[0] = 0 BY SumsFacts
  <2>3. h[0] = 0 BY SumsFacts
  <2> QED BY <2>1, <2>2, <2>3
<1>6. \A i \in Nat : i < Len(s) /\ i \in S => i + 1 \in S
  <2> TAKE i \in Nat
  <2> HAVE i < Len(s) /\ i \in S
  <2>1. f[i + 1] = f[i] + s[i + 1] /\ s[i + 1] \in Nat /\ f[i] \in Nat
    BY SumsFacts
  <2>2. g[i + 1] = g[i] + t[i + 1] /\ t[i + 1] \in Nat /\ g[i] \in Nat
    BY SumsFacts
  <2>3. h[i + 1] = h[i] + u[i + 1]
    BY SumsFacts
  <2>4. u[i + 1] = s[i + 1] + t[i + 1]
    BY <1>4, i + 1 \in 1 .. Len(s)
  <2>5. h[i] = f[i] + g[i]
    OBVIOUS
  <2>6. f[i] \in Nat /\ g[i] \in Nat /\ s[i + 1] \in Nat /\ t[i + 1] \in Nat
    BY <2>1, <2>2
  <2>7. h[i + 1] = f[i + 1] + g[i + 1]
    <3> HIDE DEF S
    <3>1. PICK a, b, c, d : a = f[i] /\ b = g[i] /\ c = s[i + 1] /\ d = t[i + 1]
      OBVIOUS
    <3>2. (f[i] + g[i]) + (s[i + 1] + t[i + 1]) = (f[i] + s[i + 1]) + (g[i] + t[i + 1])
      <4>1. a \in Nat /\ b \in Nat /\ c \in Nat /\ d \in Nat
        BY <2>6, <3>1
      <4>2. (a + b) + (c + d) = (a + c) + (b + d)
        BY <4>1
      <4> QED BY <3>1, <4>2
    <3> QED BY <2>1, <2>2, <2>3, <2>4, <2>5, <3>2, Zenon
  <2> QED BY <2>7
<1>7. \A i \in 0 .. Len(s) : i \in S
  <2> HIDE DEF S
  <2> QED BY <1>4, <1>5, <1>6, UpTo
<1>8. Len(s) \in S
  BY <1>4, <1>7
<1> QED BY <1>1, <1>2, <1>3, <1>8

(* One number more adds that number. *)
LEMMA TotalOfAppend ==
  ASSUME NEW s \in Seq(Nat), NEW t \in Seq(Nat), Len(t) = Len(s) + 1,
         \A i \in 1 .. Len(s) : t[i] = s[i]
  PROVE  Total(t) = Total(s) + t[Len(t)]
<1>1. PICK f \in Sums(s, Len(s)) : Total(s) = f[Len(s)]
  BY TotalIs
<1>2. PICK g \in Sums(t, Len(t)) : Total(t) = g[Len(t)]
  BY TotalIs
<1>3. Len(s) \in Nat
  OBVIOUS
<1> DEFINE S == {i \in Nat : f[i] = g[i]}
<1>4. 0 \in S
  BY SumsFacts
<1>5. \A i \in Nat : i < Len(s) /\ i \in S => i + 1 \in S
  <2> TAKE i \in Nat
  <2> HAVE i < Len(s) /\ i \in S
  <2>1. f[i + 1] = f[i] + s[i + 1] /\ s[i + 1] \in Nat /\ f[i] \in Nat
    BY SumsFacts
  <2>2. g[i + 1] = g[i] + t[i + 1] /\ t[i + 1] \in Nat /\ g[i] \in Nat
    BY SumsFacts, i < Len(t)
  <2>3. s[i + 1] = t[i + 1]
    BY <1>3, i + 1 \in 1 .. Len(s)
  <2> QED BY <2>1, <2>2, <2>3
<1>6. \A i \in 0 .. Len(s) : i \in S
  <2> HIDE DEF S
  <2> QED BY <1>3, <1>4, <1>5, UpTo
<1>7. g[Len(s) + 1] = g[Len(s)] + t[Len(s) + 1]
  BY <1>3, SumsFacts, Len(s) < Len(t)
<1> QED BY <1>1, <1>2, <1>3, <1>6, <1>7

(* A change of one number changes the sum by as much. *)
LEMMA TotalChanged ==
  ASSUME NEW s \in Seq(Nat), NEW t \in Seq(Nat), Len(t) = Len(s), NEW k \in 1 .. Len(s),
         \A i \in 1 .. Len(s) : i # k => t[i] = s[i]
  PROVE  Total(t) + s[k] = Total(s) + t[k]
<1>1. PICK f \in Sums(s, Len(s)) : Total(s) = f[Len(s)]
  BY TotalIs
<1>2. PICK g \in Sums(t, Len(t)) : Total(t) = g[Len(t)]
  BY TotalIs
<1>3. Len(s) \in Nat /\ k \in Nat /\ s[k] \in Nat /\ t[k] \in Nat
  OBVIOUS
<1> DEFINE S == {i \in Nat : IF i < k THEN f[i] = g[i] ELSE g[i] + s[k] = f[i] + t[k]}
<1>4. 0 \in S
  BY SumsFacts
<1>5. \A i \in Nat : i < Len(s) /\ i \in S => i + 1 \in S
  <2> TAKE i \in Nat
  <2> HAVE i < Len(s) /\ i \in S
  <2>1. f[i + 1] = f[i] + s[i + 1] /\ s[i + 1] \in Nat /\ f[i] \in Nat
    BY SumsFacts
  <2>2. g[i + 1] = g[i] + t[i + 1] /\ t[i + 1] \in Nat /\ g[i] \in Nat
    BY SumsFacts, i < Len(t)
  <2>3. CASE i + 1 < k
    <3>1. s[i + 1] = t[i + 1] /\ f[i] = g[i]
      BY <2>3
    <3> QED BY <2>1, <2>2, <2>3, <3>1
  <2>4. CASE i + 1 = k
    <3>1. f[i] = g[i] /\ ~ (i + 1 < k)
      BY <2>4
    <3>2. g[i + 1] + s[k] = f[i + 1] + t[k]
      <4> HIDE DEF S
      <4>1. \A a, b, c \in Nat : (a + b) + c = (a + c) + b
        OBVIOUS
      <4>2. (g[i] + t[i + 1]) + s[i + 1] = (g[i] + s[i + 1]) + t[i + 1]
        BY <2>1, <2>2, <4>1, SMTT(30)
      <4> QED BY <2>1, <2>2, <2>4, <3>1, <4>2, Zenon
    <3> QED BY <3>1, <3>2
  <2>5. CASE i + 1 > k
    <3>1. s[i + 1] = t[i + 1]
      BY <1>3, <2>5, i + 1 \in 1 .. Len(s)
    <3>2. ~ (i < k) /\ ~ (i + 1 < k)
      BY <1>3, <2>5
    <3>3. g[i] + s[k] = f[i] + t[k]
      BY <3>2
    <3>4. f[i] \in Nat /\ g[i] \in Nat /\ s[i + 1] \in Nat /\ t[i + 1] \in Nat
      BY <2>1, <2>2
    <3>5. g[i + 1] + s[k] = f[i + 1] + t[k]
      <4> HIDE DEF S
      <4>1. PICK a, b, c, d, e : a = g[i] /\ b = s[k] /\ c = f[i] /\ d = t[k] /\ e = t[i + 1]
        OBVIOUS
      <4>2. (g[i] + t[i + 1]) + s[k] = (f[i] + t[i + 1]) + t[k]
        <5>1. a \in Nat /\ c \in Nat /\ e \in Nat
          BY <3>4, <4>1
        <5>2. b \in Nat /\ d \in Nat
          BY <1>3, <4>1
        <5>3. a + b = c + d
          BY <3>3, <4>1
        <5>4. (a + e) + b = (c + e) + d
          BY <5>1, <5>2, <5>3
        <5> QED BY <4>1, <5>4
      <4> QED BY <2>1, <2>2, <3>1, <4>2, Zenon
    <3> QED BY <3>2, <3>5
  <2> QED BY <2>3, <2>4, <2>5, <1>3
<1>6. \A i \in 0 .. Len(s) : i \in S
  <2> HIDE DEF S
  <2> QED BY <1>3, <1>4, <1>5, UpTo
<1> QED BY <1>1, <1>2, <1>3, <1>6

--------------------------------------------------------------------------------
(* Pages, items and what they take up. *)

(* What a page can hold, and what the code keeps of it. *)
ItemType == [id : Items \cup {Zeroed, Torn}, len : 0 .. PageSize,
             val : Values \cup {Erased}, old : BOOLEAN]
PageType == [active : BOOLEAN, xfer : BOOLEAN, items : Seq(ItemType)]
PlaceType == (Pages \X Nat) \cup {NoPlace}

(* Numbers along a sequence of items. *)
LEMMA Along ==
  ASSUME NEW n \in Nat, NEW F \in [1 .. n -> Nat]
  PROVE  F \in Seq(Nat) /\ Len(F) = n /\ \A i \in 1 .. n : F[i] \in Nat
OBVIOUS

(* The items of a page, by number. *)
LEMMA ItemFacts ==
  ASSUME NEW items \in Seq(ItemType)
  PROVE  /\ Len(items) \in Nat /\ DOMAIN items = 1 .. Len(items)
         /\ \A i \in 1 .. Len(items) :
               items[i] \in ItemType /\ items[i].len \in Nat
<1>1. /\ Len(items) \in Nat /\ DOMAIN items = 1 .. Len(items)
      /\ \A i \in 1 .. Len(items) : items[i] \in ItemType
  OBVIOUS
<1>2. \A it \in ItemType : it.len \in Nat
  BY DEF ItemType
<1> QED BY <1>1, <1>2

(* The lengths that LenOfZeroed and LenOf add up. *)
ZeroLens(items) == [i \in DOMAIN items |-> IF items[i].id = Zeroed THEN items[i].len ELSE 0]
Lens(items) == [i \in DOMAIN items |-> items[i].len]

(* LenOf and LenOfZeroed are sums of numbers. *)
LEMMA LensType ==
  ASSUME NEW items \in Seq(ItemType)
  PROVE  /\ Lens(items) \in Seq(Nat) /\ Len(Lens(items)) = Len(items)
         /\ ZeroLens(items) \in Seq(Nat) /\ Len(ZeroLens(items)) = Len(items)
         /\ \A i \in 1 .. Len(items) :
               /\ Lens(items)[i] = items[i].len
               /\ ZeroLens(items)[i] = IF items[i].id = Zeroed THEN items[i].len ELSE 0
         /\ LenOf(items) = Total(Lens(items)) /\ LenOfZeroed(items) = Total(ZeroLens(items))
<1>1. Lens(items) \in [1 .. Len(items) -> Nat] /\ ZeroLens(items) \in [1 .. Len(items) -> Nat]
  BY ItemFacts DEF Lens, ZeroLens
<1>2. \A i \in 1 .. Len(items) :
               /\ Lens(items)[i] = items[i].len
               /\ ZeroLens(items)[i] = IF items[i].id = Zeroed THEN items[i].len ELSE 0
  BY ItemFacts DEF Lens, ZeroLens
<1>3. LenOf(items) = Total(Lens(items)) /\ LenOfZeroed(items) = Total(ZeroLens(items))
  BY DEF LenOf, LenOfZeroed, Lens, ZeroLens
<1>4. Len(items) \in Nat
  OBVIOUS
<1> QED BY <1>1, <1>2, <1>3, <1>4, Along

(* Lost room is in the used part of the page. *)
LEMMA LostFacts ==
  ASSUME NEW items \in Seq(ItemType)
  PROVE  /\ LenOf(items) \in Nat /\ LenOfZeroed(items) \in Nat
         /\ LenOfZeroed(items) <= LenOf(items)
         /\ LenOf(items) <= PageSize =>
               /\ Used(items) \in 0 .. PageSize /\ Lost(items) \in 0 .. PageSize
               /\ Used(items) - Lost(items) = LenOf(items) - LenOfZeroed(items)
               /\ LenOf(items) <= Used(items)
<1>1. LenOf(items) \in Nat /\ LenOfZeroed(items) \in Nat
  BY LensType, TotalType
<1>2. LenOfZeroed(items) <= LenOf(items)
  <2>1. \A i \in 1 .. Len(items) : ZeroLens(items)[i] <= Lens(items)[i]
    BY LensType, ItemFacts
  <2> QED BY <2>1, LensType, TotalOfMore
<1>3. ASSUME LenOf(items) <= PageSize
      PROVE  /\ Used(items) \in 0 .. PageSize /\ Lost(items) \in 0 .. PageSize
             /\ Used(items) - Lost(items) = LenOf(items) - LenOfZeroed(items)
             /\ LenOf(items) <= Used(items)
  BY <1>1, <1>2, <1>3, PagesAssumption DEF Used, Lost
<1> QED BY <1>1, <1>2, <1>3

(* Nothing is used, and nothing lost, on an erased page. *)
LEMMA EmptyItems ==
  LenOf(<<>>) = 0 /\ LenOfZeroed(<<>>) = 0 /\ ~IsTorn(<<>>) /\ Used(<<>>) = 0 /\ Lost(<<>>) = 0
<1>1. <<>> \in Seq(ItemType) /\ Len(<<>>) = 0
  OBVIOUS
<1>2. LenOf(<<>>) = 0 /\ LenOfZeroed(<<>>) = 0
  BY <1>1, LensType, TotalType
<1>3. ~IsTorn(<<>>)
  BY DEF IsTorn
<1> QED BY <1>2, <1>3 DEF Used, Lost

(* An item that is appended. *)
LEMMA AppendedItems ==
  ASSUME NEW items \in Seq(ItemType), NEW it \in ItemType
  PROVE  LET new == Append(items, it) IN
         /\ new \in Seq(ItemType) /\ Len(new) = Len(items) + 1
         /\ \A i \in 1 .. Len(items) : new[i] = items[i]
         /\ new[Len(items) + 1] = it
         /\ LenOf(new) = LenOf(items) + it.len
         /\ LenOfZeroed(new) = LenOfZeroed(items) + IF it.id = Zeroed THEN it.len ELSE 0
         /\ IsTorn(new) <=> IsTorn(items) \/ it.id = Torn
<1> DEFINE new == Append(items, it)
<1>1. /\ new \in Seq(ItemType) /\ Len(new) = Len(items) + 1 /\ Len(items) \in Nat
      /\ \A i \in 1 .. Len(items) : new[i] = items[i]
      /\ new[Len(items) + 1] = it
      /\ DOMAIN new = 1 .. Len(items) + 1 /\ DOMAIN items = 1 .. Len(items)
  OBVIOUS
<1> HIDE DEF new
<1>2. LenOf(new) = LenOf(items) + it.len
  <2>1. ASSUME NEW i \in 1 .. Len(items)
        PROVE  i \in 1 .. Len(new) /\ Lens(new)[i] = Lens(items)[i]
    <3>1. i \in 1 .. Len(new) /\ new[i] = items[i]
      BY <1>1
    <3> QED BY <3>1, <1>1, LensType
  <2>2. Lens(new)[Len(items) + 1] = it.len
    <3>1. Len(items) + 1 \in 1 .. Len(new)
      BY <1>1
    <3> QED BY <3>1, <1>1, LensType
  <2>3. Total(Lens(new)) = Total(Lens(items)) + Lens(new)[Len(Lens(new))]
    <3>1. /\ Lens(new) \in Seq(Nat) /\ Len(Lens(new)) = Len(new)
          /\ Lens(items) \in Seq(Nat) /\ Len(Lens(items)) = Len(items)
      BY <1>1, LensType
    <3> QED BY <1>1, <2>1, <3>1, TotalOfAppend
  <2> QED BY <1>1, <2>2, <2>3, LensType
<1>3. LenOfZeroed(new) = LenOfZeroed(items) + IF it.id = Zeroed THEN it.len ELSE 0
  <2>1. ASSUME NEW i \in 1 .. Len(items)
        PROVE  i \in 1 .. Len(new) /\ ZeroLens(new)[i] = ZeroLens(items)[i]
    <3>1. i \in 1 .. Len(new) /\ new[i] = items[i]
      BY <1>1
    <3> QED BY <3>1, <1>1, LensType
  <2>2. ZeroLens(new)[Len(items) + 1] = IF it.id = Zeroed THEN it.len ELSE 0
    <3>1. Len(items) + 1 \in 1 .. Len(new)
      BY <1>1
    <3> QED BY <3>1, <1>1, LensType
  <2>3. Total(ZeroLens(new)) = Total(ZeroLens(items)) + ZeroLens(new)[Len(ZeroLens(new))]
    <3>1. /\ ZeroLens(new) \in Seq(Nat) /\ Len(ZeroLens(new)) = Len(new)
          /\ ZeroLens(items) \in Seq(Nat) /\ Len(ZeroLens(items)) = Len(items)
      BY <1>1, LensType
    <3> QED BY <1>1, <2>1, <3>1, TotalOfAppend
  <2> QED BY <1>1, <2>2, <2>3, LensType
<1>4. IsTorn(new) <=> IsTorn(items) \/ it.id = Torn
  BY <1>1 DEF IsTorn
<1>5. QED BY <1>1, <1>2, <1>3, <1>4 DEF new

(* An item that is changed but keeps its place and its length. *)
LEMMA ChangedItems ==
  ASSUME NEW items \in Seq(ItemType), NEW k \in 1 .. Len(items), NEW it \in ItemType,
         it.len = items[k].len, it.id # Torn, items[k].id # Torn
  PROVE  LET new == [items EXCEPT ![k] = it] IN
         /\ new \in Seq(ItemType) /\ Len(new) = Len(items)
         /\ \A i \in 1 .. Len(items) : new[i] = IF i = k THEN it ELSE items[i]
         /\ LenOf(new) = LenOf(items)
         /\ LenOfZeroed(new) + (IF items[k].id = Zeroed THEN it.len ELSE 0)
               = LenOfZeroed(items) + (IF it.id = Zeroed THEN it.len ELSE 0)
         /\ IsTorn(new) <=> IsTorn(items)
<1> DEFINE new == [items EXCEPT ![k] = it]
<1>1. /\ new \in Seq(ItemType) /\ Len(new) = Len(items) /\ Len(items) \in Nat
      /\ \A i \in 1 .. Len(items) : new[i] = IF i = k THEN it ELSE items[i]
      /\ DOMAIN new = 1 .. Len(items) /\ DOMAIN items = 1 .. Len(items)
  OBVIOUS
<1> HIDE DEF new
<1>2. LenOf(new) = LenOf(items)
  <2>1. \A i \in 1 .. Len(items) : Lens(new)[i] = Lens(items)[i] /\ Lens(items)[i] \in Nat
    BY <1>1, LensType, ItemFacts, ZenonT(40)
  <2>2. Lens(new)[k] = Lens(items)[k] /\ Lens(items)[k] \in Nat
    BY <2>1
  <2>3. Total(Lens(new)) + Lens(items)[k] = Total(Lens(items)) + Lens(new)[k]
    BY <1>1, <2>1, LensType, TotalChanged
  <2>4. LenOf(new) \in Nat /\ LenOf(items) \in Nat
    BY <1>1, LostFacts
  <2>5. LenOf(new) = Total(Lens(new)) /\ LenOf(items) = Total(Lens(items))
    BY <1>1, LensType
  <2>6. \A a, b, c \in Nat : a + c = b + c => a = b
    OBVIOUS
  <2>7. LenOf(new) + Lens(items)[k] = LenOf(items) + Lens(items)[k]
    BY <2>2, <2>3, <2>5, Zenon
  <2> QED BY <2>2, <2>4, <2>6, <2>7
<1>3. LenOfZeroed(new) + (IF items[k].id = Zeroed THEN it.len ELSE 0)
               = LenOfZeroed(items) + (IF it.id = Zeroed THEN it.len ELSE 0)
  <2>1. ASSUME NEW i \in 1 .. Len(items), i # k PROVE ZeroLens(new)[i] = ZeroLens(items)[i]
    <3>1. i \in 1 .. Len(new) /\ new[i] = items[i]
      BY <1>1, <2>1
    <3> QED BY <3>1, <1>1, LensType, ZenonT(40)
  <2>2. /\ ZeroLens(new)[k] = IF it.id = Zeroed THEN it.len ELSE 0
        /\ ZeroLens(items)[k] = IF items[k].id = Zeroed THEN it.len ELSE 0
    <3>1. k \in 1 .. Len(new) /\ new[k] = it
      BY <1>1
    <3>2. ZeroLens(new)[k] = IF new[k].id = Zeroed THEN new[k].len ELSE 0
      BY <1>1, <3>1, LensType
    <3>3. ZeroLens(items)[k] = IF items[k].id = Zeroed THEN items[k].len ELSE 0
      BY LensType
    <3> QED BY <3>1, <3>2, <3>3
  <2>3. Total(ZeroLens(new)) + ZeroLens(items)[k] = Total(ZeroLens(items)) + ZeroLens(new)[k]
    BY <1>1, <2>1, LensType, TotalChanged
  <2> QED BY <1>1, <2>2, <2>3, LensType
<1>4. IsTorn(new) <=> IsTorn(items)
  BY <1>1 DEF IsTorn
<1>5. QED BY <1>1, <1>2, <1>3, <1>4 DEF new

--------------------------------------------------------------------------------
(* Places, and the steps that change one item or one header. *)

FlashType == flash \in [Pages -> PageType]

(* A place is a page and the number of an item on it. *)
LEMMA PlaceFacts ==
  ASSUME FlashType
  PROVE  /\ \A a \in Place : /\ a[1] \in Pages /\ a[2] \in 1 .. Len(flash[a[1]].items)
                             /\ a = <<a[1], a[2]>> /\ At(a) \in ItemType
                             /\ a[1] \in Nat \ {0} /\ a[2] \in Nat \ {0} /\ a \in Pages \X Nat
         /\ \A p \in Pages : \A i \in 1 .. Len(flash[p].items) : <<p, i>> \in Place
         /\ \A p \in Pages : Len(flash[p].items) \in Nat /\ flash[p] \in PageType
<1>1. \A p \in Pages : /\ flash[p] \in PageType /\ flash[p].items \in Seq(ItemType)
                       /\ Len(flash[p].items) \in Nat
                       /\ \A i \in 1 .. Len(flash[p].items) : flash[p].items[i] \in ItemType
  BY DEF FlashType, PageType
<1>2. Pages \subseteq Nat \ {0}
  BY PagesAssumption DEF Pages
<1>3. ASSUME NEW a \in Place
      PROVE  /\ a[1] \in Pages /\ a[2] \in 1 .. Len(flash[a[1]].items)
             /\ a = <<a[1], a[2]>> /\ At(a) \in ItemType
             /\ a[1] \in Nat \ {0} /\ a[2] \in Nat \ {0} /\ a \in Pages \X Nat
  <2>1. PICK p \in Pages : a \in {p} \X (1 .. Len(flash[p].items))
    BY DEF Place
  <2>2. a = <<a[1], a[2]>> /\ a[1] = p /\ a[2] \in 1 .. Len(flash[p].items)
    BY <2>1
  <2> QED BY <2>2, <1>1, <1>2 DEF At
<1>4. ASSUME NEW p \in Pages, NEW i \in 1 .. Len(flash[p].items) PROVE <<p, i>> \in Place
  <2>1. <<p, i>> \in {p} \X (1 .. Len(flash[p].items))
    OBVIOUS
  <2> QED BY <2>1 DEF Place
<1> QED BY <1>1, <1>3, <1>4

(* Steps that leave all items where they are. *)
LEMMA SameItems ==
  ASSUME FlashType, FlashType', \A p \in Pages : flash'[p].items = flash[p].items
  PROVE  /\ Place' = Place /\ \A a \in Place : At(a)' = At(a)
         /\ \A p \in Pages : LastOf(p)' = LastOf(p)
<1>1. Place' = Place
  BY DEF Place
<1>2. \A a \in Place : At(a)' = At(a)
  BY PlaceFacts DEF At
<1> QED BY <1>1, <1>2 DEF LastOf

(* WithItem: one item is changed, and keeps its length. *)
LEMMA ItemChanged ==
  ASSUME FlashType, NEW a \in Place, NEW it \in ItemType, flash' = WithItem(a, it),
         it.len = At(a).len, it.id # Torn, At(a).id # Torn
  PROVE  /\ FlashType' /\ Place' = Place
         /\ \A b \in Place : At(b)' = IF b = a THEN it ELSE At(b)
         /\ \A p \in Pages :
               /\ flash'[p].active = flash[p].active /\ flash'[p].xfer = flash[p].xfer
               /\ LastOf(p)' = LastOf(p) /\ Len(flash'[p].items) = Len(flash[p].items)
               /\ DOMAIN flash'[p].items = DOMAIN flash[p].items
               /\ p # a[1] => flash'[p] = flash[p]
               /\ \A i \in 1 .. Len(flash[p].items) :
                     flash'[p].items[i] = IF <<p, i>> = a THEN it ELSE flash[p].items[i]
               /\ LenOf(flash'[p].items) = LenOf(flash[p].items)
               /\ IsTorn(flash'[p].items) <=> IsTorn(flash[p].items)
               /\ Used(flash'[p].items) = Used(flash[p].items)
         /\ LenOfZeroed(flash'[a[1]].items) + (IF At(a).id = Zeroed THEN it.len ELSE 0)
               = LenOfZeroed(flash[a[1]].items) + (IF it.id = Zeroed THEN it.len ELSE 0)
<1>1. /\ a[1] \in Pages /\ a[2] \in 1 .. Len(flash[a[1]].items) /\ a = <<a[1], a[2]>>
      /\ flash[a[1]] \in PageType /\ flash[a[1]].items \in Seq(ItemType)
      /\ Len(flash[a[1]].items) \in Nat
  BY PlaceFacts DEF PageType
<1> DEFINE items == flash[a[1]].items
           new == [items EXCEPT ![a[2]] = it]
<1>2. /\ new \in Seq(ItemType) /\ Len(new) = Len(items)
      /\ \A i \in 1 .. Len(items) : new[i] = IF i = a[2] THEN it ELSE items[i]
      /\ LenOf(new) = LenOf(items)
      /\ LenOfZeroed(new) + (IF items[a[2]].id = Zeroed THEN it.len ELSE 0)
            = LenOfZeroed(items) + (IF it.id = Zeroed THEN it.len ELSE 0)
      /\ IsTorn(new) <=> IsTorn(items)
  BY <1>1, ChangedItems DEF At
<1>3. flash' = [flash EXCEPT ![a[1]] = [@ EXCEPT !.items = new]]
  BY DEF WithItem
<1> HIDE DEF new
<1>4. /\ flash'[a[1]] = [flash[a[1]] EXCEPT !.items = new]
      /\ flash'[a[1]] \in PageType /\ flash'[a[1]].items = new
      /\ flash'[a[1]].active = flash[a[1]].active /\ flash'[a[1]].xfer = flash[a[1]].xfer
  BY <1>1, <1>2, <1>3, SMTT(30) DEF FlashType, PageType
<1>5. \A p \in Pages : p # a[1] => flash'[p] = flash[p]
  BY <1>3 DEF FlashType
<1>6. FlashType'
  BY <1>3, <1>4, <1>5 DEF FlashType
<1>7. ASSUME NEW p \in Pages
      PROVE  /\ flash'[p].active = flash[p].active /\ flash'[p].xfer = flash[p].xfer
             /\ Len(flash'[p].items) = Len(flash[p].items)
             /\ \A i \in 1 .. Len(flash[p].items) :
                     flash'[p].items[i] = IF <<p, i>> = a THEN it ELSE flash[p].items[i]
             /\ LenOf(flash'[p].items) = LenOf(flash[p].items)
             /\ IsTorn(flash'[p].items) <=> IsTorn(flash[p].items)
  <2>1. CASE p = a[1]
    <3>1. \A i \in 1 .. Len(items) : <<p, i>> = a <=> i = a[2]
      BY <1>1, <2>1
    <3> QED BY <1>1, <1>2, <1>4, <2>1, <3>1
  <2>2. CASE p # a[1]
    <3>1. \A i \in 1 .. Len(flash[p].items) : <<p, i>> # a
      BY <1>1, <2>2
    <3> QED BY <1>5, <2>2, <3>1
  <2> QED BY <2>1, <2>2
<1>8. Place' = Place
  BY <1>7 DEF Place
<1>9. ASSUME NEW b \in Place PROVE At(b)' = IF b = a THEN it ELSE At(b)
  <2>1. b[1] \in Pages /\ b[2] \in 1 .. Len(flash[b[1]].items) /\ b = <<b[1], b[2]>>
    BY PlaceFacts
  <2> QED BY <2>1, <1>7 DEF At
<1>10. \A p \in Pages : /\ LastOf(p)' = LastOf(p) /\ Used(flash'[p].items) = Used(flash[p].items)
                        /\ DOMAIN flash'[p].items = DOMAIN flash[p].items
  <2>1. ASSUME NEW p \in Pages PROVE DOMAIN flash'[p].items = DOMAIN flash[p].items
    <3>1. flash[p].items \in Seq(ItemType) /\ flash'[p].items \in Seq(ItemType)
      BY <1>6 DEF FlashType, PageType
    <3> QED BY <3>1, <1>7
  <2> QED BY <1>7, <2>1 DEF LastOf, Used
<1>11. LenOfZeroed(flash'[a[1]].items) + (IF At(a).id = Zeroed THEN it.len ELSE 0)
               = LenOfZeroed(flash[a[1]].items) + (IF it.id = Zeroed THEN it.len ELSE 0)
  BY <1>1, <1>2, <1>4 DEF At
<1> QED BY <1>5, <1>6, <1>7, <1>8, <1>9, <1>10, <1>11

(* Appended: a page has one more item. *)
LEMMA ItemAppended ==
  ASSUME FlashType, NEW p \in Pages, NEW it \in ItemType, flash' = Appended(p, it),
         NEW n, n = <<p, Len(flash[p].items) + 1>>
  PROVE  /\ FlashType' /\ n \notin Place /\ Place' = Place \cup {n} /\ At(n)' = it
         /\ n[1] = p /\ n[2] = Len(flash[p].items) + 1
         /\ \A b \in Place : At(b)' = At(b) /\ (b[1] = p => b[2] < n[2])
         /\ LastOf(p)' = n
         /\ flash'[p].items = Append(flash[p].items, it)
         /\ Len(flash'[p].items) = Len(flash[p].items) + 1
         /\ \A q \in Pages : /\ flash'[q].active = flash[q].active
                             /\ flash'[q].xfer = flash[q].xfer
                             /\ q # p => flash'[q] = flash[q] /\ LastOf(q)' = LastOf(q)
         /\ LenOf(flash'[p].items) = LenOf(flash[p].items) + it.len
         /\ LenOfZeroed(flash'[p].items)
               = LenOfZeroed(flash[p].items) + IF it.id = Zeroed THEN it.len ELSE 0
         /\ IsTorn(flash'[p].items) <=> IsTorn(flash[p].items) \/ it.id = Torn
<1> DEFINE items == flash[p].items
           new == Append(items, it)
<1>1. /\ flash[p] \in PageType /\ items \in Seq(ItemType) /\ Len(items) \in Nat
  BY PlaceFacts DEF PageType
<1>2. /\ new \in Seq(ItemType) /\ Len(new) = Len(items) + 1
      /\ \A i \in 1 .. Len(items) : new[i] = items[i]
      /\ new[Len(items) + 1] = it
      /\ LenOf(new) = LenOf(items) + it.len
      /\ LenOfZeroed(new) = LenOfZeroed(items) + IF it.id = Zeroed THEN it.len ELSE 0
      /\ IsTorn(new) <=> IsTorn(items) \/ it.id = Torn
  BY <1>1, AppendedItems
<1>3. flash' = [flash EXCEPT ![p] = [@ EXCEPT !.items = new]]
  BY DEF Appended
<1>40. flash'[p].items = Append(flash[p].items, it)
  BY <1>1, <1>3 DEF FlashType, PageType
<1> HIDE DEF new
<1>4. /\ flash'[p] \in PageType /\ flash'[p].items = new
      /\ flash'[p].active = flash[p].active /\ flash'[p].xfer = flash[p].xfer
  BY <1>1, <1>2, <1>3 DEF FlashType, PageType
<1>5. \A q \in Pages : q # p => flash'[q] = flash[q]
  BY <1>3 DEF FlashType
<1>6. FlashType'
  BY <1>3, <1>4, <1>5 DEF FlashType
<1>7. n \notin Place /\ \A b \in Place : b[1] = p => b[2] < n[2]
  BY <1>1, PlaceFacts
<1>8. \A b \in Place : At(b)' = At(b)
  <2> TAKE b \in Place
  <2>1. b[1] \in Pages /\ b[2] \in 1 .. Len(flash[b[1]].items)
    BY PlaceFacts
  <2> QED BY <2>1, <1>2, <1>4, <1>5, SMTT(30) DEF At
<1>9. At(n)' = it
  BY <1>2, <1>4 DEF At
<1>10. Place' = Place \cup {n}
  <2>1. ASSUME NEW b \in Place PROVE b \in Place'
    <3>1. b[1] \in Pages /\ b[2] \in 1 .. Len(flash[b[1]].items) /\ b = <<b[1], b[2]>>
      BY PlaceFacts
    <3>2. b[2] \in 1 .. Len(flash'[b[1]].items)
      BY <3>1, <1>1, <1>2, <1>4, <1>5
    <3>3. b \in {b[1]} \X (1 .. Len(flash'[b[1]].items))
      BY <3>1, <3>2
    <3> QED BY <3>1, <3>3 DEF Place
  <2>2. n \in Place'
    <3>1. n \in {p} \X (1 .. Len(flash'[p].items))
      BY <1>1, <1>2, <1>4
    <3> QED BY <3>1 DEF Place
  <2>3. ASSUME NEW b \in Place' PROVE b \in Place \/ b = n
    <3>1. PICK q \in Pages : b \in {q} \X (1 .. Len(flash'[q].items))
      BY DEF Place
    <3>2. b = <<b[1], b[2]>> /\ b[1] = q /\ b[2] \in 1 .. Len(flash'[q].items)
      BY <3>1
    <3>3. CASE q # p
      <4>1. b[2] \in 1 .. Len(flash[q].items)
        BY <3>2, <3>3, <1>5
      <4> QED BY <3>2, <4>1, PlaceFacts
    <3>4. CASE q = p
      <4>1. b[2] \in 1 .. Len(flash[p].items) \/ b[2] = Len(flash[p].items) + 1
        BY <3>2, <3>4, <1>1, <1>2, <1>4
      <4>2. b[2] \in 1 .. Len(flash[p].items) => b \in Place
        BY <3>2, <3>4, PlaceFacts
      <4> QED BY <3>2, <3>4, <4>1, <4>2
    <3> QED BY <3>3, <3>4
  <2> QED BY <2>1, <2>2, <2>3
<1>11. LastOf(p)' = n /\ n[1] = p /\ n[2] = Len(flash[p].items) + 1 /\ \A q \in Pages : q # p => LastOf(q)' = LastOf(q)
  BY <1>2, <1>4, <1>5 DEF LastOf
<1>12. /\ LenOf(flash'[p].items) = LenOf(flash[p].items) + it.len
       /\ LenOfZeroed(flash'[p].items)
               = LenOfZeroed(flash[p].items) + IF it.id = Zeroed THEN it.len ELSE 0
       /\ IsTorn(flash'[p].items) <=> IsTorn(flash[p].items) \/ it.id = Torn
       /\ Len(flash'[p].items) = Len(flash[p].items) + 1
  BY <1>2, <1>4
<1>13. \A q \in Pages : flash'[q].active = flash[q].active /\ flash'[q].xfer = flash[q].xfer
  BY <1>4, <1>5
<1> QED BY <1>40, <1>5, <1>6, <1>7, <1>8, <1>9, <1>10, <1>11, <1>12, <1>13

(* A page is erased. *)
LEMMA PageErased ==
  ASSUME FlashType, NEW p \in Pages, flash' = [flash EXCEPT ![p] = Blank]
  PROVE  /\ FlashType' /\ Place' = {a \in Place : a[1] # p}
         /\ \A a \in Place' : a \in Place /\ a[1] # p /\ At(a)' = At(a)
         /\ flash'[p] = Blank /\ ~flash'[p].active /\ ~flash'[p].xfer /\ flash'[p].items = <<>>
         /\ \A q \in Pages : q # p => flash'[q] = flash[q]
<1>1. Blank \in PageType /\ ~Blank.active /\ ~Blank.xfer /\ Blank.items = <<>>
  BY DEF Blank, PageType
<1>2. FlashType' /\ flash'[p] = Blank /\ \A q \in Pages : q # p => flash'[q] = flash[q]
  BY <1>1 DEF FlashType
<1>3. ASSUME NEW a \in Place' PROVE a \in Place /\ a[1] # p /\ At(a)' = At(a)
  <2>1. PICK q \in Pages : a \in {q} \X (1 .. Len(flash'[q].items))
    BY DEF Place
  <2>2. q # p
    BY <2>1, <1>1, <1>2
  <2>3. a \in {q} \X (1 .. Len(flash[q].items)) /\ a[1] = q
    BY <2>1, <2>2, <1>2
  <2> QED BY <2>2, <2>3, <1>2 DEF Place, At
<1>4. ASSUME NEW a \in Place, a[1] # p PROVE a \in Place'
  <2>1. PICK q \in Pages : a \in {q} \X (1 .. Len(flash[q].items))
    BY DEF Place
  <2>2. q # p /\ a \in {q} \X (1 .. Len(flash'[q].items))
    BY <2>1, <1>4, <1>2
  <2> QED BY <2>2 DEF Place
<1> QED BY <1>1, <1>2, <1>3, <1>4

--------------------------------------------------------------------------------
(* The inductive invariant. *)

OpType == [kind : {"none", "init", "write", "boot", "pick"}, id : Items \cup {Missing},
           val : Values \cup {Missing}, src : PlaceType, com : Pages \cup {NoPage},
           dst : Pages \cup {NoPage}, k : Nat]
ScanType == [dups : BOOLEAN, pg : 1 .. NumPages + 1, i : Nat \ {0}, lost : Nat]

Types ==
    /\ FlashType
    /\ pgOff \in [Pages -> 0 .. PageSize] /\ pgLost \in [Pages -> Nat]
    /\ pgRes \in Pages \cup {NoPage}
    /\ hot \in [HotIds -> PlaceType]
    /\ pc \in {"idle", "markPage", "compact", "copy", "header", "markSource", "data",
               "use", "erase", "zero", "boot", "eraseRes", "scan"}
    /\ op \in OpType /\ scan \in ScanType

--------------------------------------------------------------------------------
(* What the flash holds, whatever the code is doing. *)

(* Old items are complete; nothing follows a header that was not completely written. *)
ItemsSound ==
    \A a \in Place : /\ At(a).id \in Items => At(a).len = Size[At(a).id]
                     /\ At(a).old => Good(At(a))
                     /\ At(a).id = Torn => a = LastOf(a[1]) /\ At(a).len = 0

(* Only an active page can be marked, and one at a time; more than one page without a
   header there is only when there is nothing in the flash. *)
HeadersSound ==
    /\ \A p \in Pages : flash[p].xfer => flash[p].active
    /\ \A p, q \in MarkedPages : p = q
    /\ (\E p, q \in InErasedState : p # q) =>
          \A r \in Pages : flash[r].items = <<>> /\ ~flash[r].xfer

(* A complete copy on a page with a header. *)
Kept(a) == flash[a[1]].active /\ Good(At(a))
Same(a, b) == At(a).id = At(b).id

(* Of two complete copies of an item one is old. *)
CopiesSound ==
    \A a, b \in Place : Kept(a) /\ Kept(b) /\ Same(a, b) /\ At(a).old = At(b).old => a = b
OnlyCopies ==
    \A a, b \in Place : Kept(a) /\ Kept(b) /\ Same(a, b) => a = b

(* While there is a reserve page an item has one copy on the others when one of them is
   marked; once the reserve page was put in use, what is left on the marked page are
   old copies. *)
MarkedSound ==
    \A m \in MarkedPages :
        IF InErasedState # {} THEN OnlyCopies
        ELSE \A a \in Place : a[1] = m /\ Good(At(a)) =>
                /\ At(a).old
                /\ \E b \in Place : Good(At(b)) /\ Same(a, b) /\ ~At(b).old

(* No page is overrun, and no more room is counted as lost than is. *)
RoomSound ==
    \A p \in Pages : /\ LenOf(flash[p].items) <= PageSize
                     /\ pgLost[p] <= Lost(flash[p].items)

FlashInv == ItemsSound /\ HeadersSound /\ CopiesSound /\ MarkedSound /\ RoomSound

--------------------------------------------------------------------------------
(* Where the code is, and what the pages' headers say then. *)

Operating == op.kind \in {"init", "write"}

ReserveBlank == /\ pgRes \in Pages /\ flash[pgRes] = Blank
                /\ \A p \in Pages \ {pgRes} : flash[p].active /\ ~flash[p].xfer
NoReserve == pgRes = NoPage /\ \A p \in Pages : flash[p].active /\ ~flash[p].xfer
(* op.com is being compacted onto the reserve page. *)
Compacting ==
    /\ pgRes \in Pages /\ op.com \in Pages \ {pgRes} /\ ~flash[pgRes].active
    /\ \A p \in Pages \ {pgRes} : flash[p].active
    /\ flash[op.com].xfer
    /\ Operating => op.dst = pgRes

Phase ==
    /\ pc # "scan" => scan = NoScan
    /\ ~Operating => op.id = Missing
    /\ pc = "idle" => op = NoOp /\ ReserveBlank
    /\ pc = "markPage" => /\ Operating /\ ReserveBlank
                          /\ op.com \in Pages \ {pgRes} /\ op.dst = pgRes /\ op.k = 1
    /\ pc \in {"compact", "copy", "use"} =>
          (Operating \/ op.kind = "boot") /\ Compacting /\ op.k # 0
    /\ pc \in {"header", "markSource", "data"} =>
          /\ Operating /\ (pc = "markSource" => op.kind = "write")
          /\ IF op.com = NoPage THEN ReserveBlank /\ op.dst \in Pages \ {pgRes}
                                ELSE Compacting /\ op.k # 0
    /\ pc = "erase" =>
          /\ Operating \/ op.kind = "boot"
          /\ op.com \in Pages \ {pgRes} /\ flash[op.com].xfer /\ InErasedState = {}
          /\ Operating => pgRes \in Pages
    /\ pc = "zero" => op.kind = "write" /\ ReserveBlank
    /\ pc = "boot" => op = NoOp /\ pgRes = NoPage
    /\ pc = "eraseRes" =>
          \/ /\ op.kind = "boot" /\ InErasedState = {pgRes} /\ op.k = 1
             /\ IF op.com = NoPage THEN MarkedPages = {}
                                   ELSE op.com # pgRes /\ flash[op.com].xfer
          \/ op.kind = "pick" /\ pgRes \in Pages /\ InErasedState = {} /\ MarkedPages = {}
    /\ pc = "scan" => op.kind = "boot" /\ (ReserveBlank \/ NoReserve)

--------------------------------------------------------------------------------
(* The reserve page while op.com is compacted onto it. *)

Filling == \/ pc \in {"compact", "copy", "use"}
           \/ pc \in {"header", "markSource", "data"} /\ op.com # NoPage

InReserve(a) == a \in Place /\ a[1] = pgRes
(* The items of op.com that were copied. *)
Passed(b) ==
    b \in Place /\ b[1] = op.com /\ b[2] < op.k /\ Good(At(b)) /\ At(b).id # op.id
IsCopyOf(a, b) == Same(a, b) /\ At(a).val = At(b).val
(* The header of a copy is written and its data is not. *)
Bad(a) == \/ pc = "copy" /\ a = LastOf(pgRes)
          \/ pc \in {"markSource", "data"} /\ a = LastOf(op.dst)

ReserveItems ==
    \A a \in Place : InReserve(a) =>
        /\ Live(At(a)) /\ ~At(a).old
        /\ ~Good(At(a)) => Bad(a)
        /\ At(a).id = op.id => pc \in {"markSource", "data", "use"}
        /\ At(a).id # op.id /\ Good(At(a)) => \E b \in Place : Passed(b) /\ IsCopyOf(a, b)
ReserveOnce ==
    \A a, b \in Place : InReserve(a) /\ InReserve(b) /\ Same(a, b) => a = b
PassedCopied ==
    \A b \in Place : Passed(b) =>
        At(b).old /\ \E a \in Place : InReserve(a) /\ IsCopyOf(a, b)
CopyUnderWay ==
    /\ pc = "copy" => /\ ToCopy # {} /\ At(Source).old
                      /\ LastOf(pgRes) \in Place /\ At(LastOf(pgRes)).id = At(Source).id
                      /\ At(LastOf(pgRes)).val = Erased
    /\ pc \notin {"compact", "copy"} => ToCopy = {}

(* What is still to be copied fits, and the new item behind it. *)
From == IF pc = "copy" THEN Source[2] + 1 ELSE op.k
LensToCome(from) ==
    [i \in DOMAIN flash[op.com].items |->
        LET it == flash[op.com].items[i]
        IN IF i >= from /\ Good(it) /\ it.id # op.id THEN it.len ELSE 0]
LenOfNew == IF Operating /\ pc \in {"compact", "copy", "header"} THEN Size[op.id] ELSE 0
ReserveRoom ==
    /\ LenOf(flash[pgRes].items) + Total(LensToCome(From)) + LenOfNew <= PageSize
    /\ pgOff[pgRes] = LenOf(flash[pgRes].items)

ReserveInv ==
    Filling => /\ ReserveItems /\ ReserveOnce /\ PassedCopied
               /\ CopyUnderWay /\ ReserveRoom

--------------------------------------------------------------------------------
(* An operation: its old copy, and where its new one is. *)

SourceSound ==
    /\ op.src \in Place /\ Kept(op.src) /\ At(op.src).id = op.id
    /\ pc \in {"data", "use", "erase", "zero"} => At(op.src).old
NewCopyOn(S) == \E a \in Place : /\ a[1] \in S /\ At(a).id = op.id /\ At(a).val = op.val
                                 /\ ~At(a).old
OpInv ==
    Operating =>
    /\ op.id \in Items /\ op.val \in Values
    /\ op.kind = "write" => SourceSound
    /\ op.kind = "init" /\ pc # "erase" => \A a \in Place : Kept(a) => At(a).id # op.id
    /\ pc = "header" /\ op.com = NoPage => Fits(op.id, op.dst)
    /\ pc = "markPage" => Size[op.id] <= PageSize - pgOff[op.com] + pgLost[op.com]
    /\ pc \in {"markSource", "data"} =>
          /\ LastOf(op.dst) \in Place /\ At(LastOf(op.dst)).id = op.id
          /\ At(LastOf(op.dst)).val = Erased
    /\ pc \in {"use", "erase"} => NewCopyOn({pgRes})
    /\ pc = "zero" => NewCopyOn(Pages \ {pgRes})

(* The copies that are about to go. *)
Spare(a) == \/ pc = "zero" /\ a = op.src
            \/ pc = "erase" /\ (a[1] = op.com \/ (op.kind = "write" /\ a = op.src))
Serving == Operating \/ pc = "idle"
ServeInv ==
    Serving =>
    /\ \A a, b \in Place :
          Kept(a) /\ ~Spare(a) /\ Kept(b) /\ ~Spare(b) /\ Same(a, b) => a = b
    /\ \A a \in Place : Live(At(a)) => Good(At(a)) \/ Bad(a)
    /\ \A p \in Pages : pgOff[p] = Used(flash[p].items)

--------------------------------------------------------------------------------
(* The walk of initNV: what it has left behind is in order. *)

LensZeroed(p, i) ==
    [j \in DOMAIN flash[p].items |->
        LET it == flash[p].items[j] IN IF j < i /\ it.id = Zeroed THEN it.len ELSE 0]
HasNoOlder(a) == \A b \in Place : Same(a, b) => ~At(b).old
ScanInv ==
    pc = "scan" =>
    /\ IF scan.pg \in Pages
       THEN /\ scan.i <= Len(flash[scan.pg].items) + 1
            /\ scan.lost <= Total(LensZeroed(scan.pg, scan.i))
       ELSE scan.i = 1 /\ scan.lost = 0
    /\ \A a \in Place : Before(a, ScanAt) /\ Live(At(a)) =>
          /\ Good(At(a))
          /\ IF scan.dups THEN At(a).old \/ HasNoOlder(a) ELSE ~At(a).old
    /\ \A p \in Pages : p < scan.pg => pgOff[p] = Used(flash[p].items)

(* A page is about to be taken for the reserve page. *)
PickInv ==
    pc = "eraseRes" /\ op.kind = "pick" =>
    /\ \A a \in Place : Live(At(a)) => Good(At(a))
    /\ OnlyCopies
    /\ \A p \in Pages : pgOff[p] = Used(flash[p].items)

--------------------------------------------------------------------------------
(* Hot items: the place in RAM is that of the only copy that nothing has replaced. *)

Replaced(a) ==
    \/ /\ Filling \/ pc = "erase"
       /\ a[1] = op.com
       /\ IF At(a).id = op.id THEN pc \in {"use", "erase"} ELSE a[2] < op.k
    \/ op.kind = "write" /\ pc \in {"use", "erase", "zero"} /\ a = op.src
HotInv ==
    /\ \A id \in HotIds : hot[id] # NoPlace =>
          \A a \in Place : At(a).id = id /\ Good(At(a)) /\ ~Replaced(a) => a = hot[id]
    /\ pc \in {"boot", "eraseRes"} \/ pgRes = NoPage => hot = NoneHot

NvInv == /\ Types /\ FlashInv /\ Phase /\ ReserveInv /\ OpInv /\ ServeInv
         /\ ScanInv /\ PickInv /\ HotInv

--------------------------------------------------------------------------------
(* What steps leave as it was, and what findItem finds. *)

(* A step that changes no header changes neither the reserve page nor the marked ones. *)
LEMMA FlagsKept ==
  ASSUME \A p \in Pages : flash'[p].active = flash[p].active /\ flash'[p].xfer = flash[p].xfer
  PROVE  InErasedState' = InErasedState /\ MarkedPages' = MarkedPages
BY DEF InErasedState, MarkedPages

(* A step that leaves the flash alone leaves all that is read from it. *)
LEMMA FlashSame ==
  ASSUME FlashType, flash' = flash
  PROVE  /\ FlashType' /\ Place' = Place
         /\ \A a \in Place : At(a)' = At(a) /\ (Kept(a)' <=> Kept(a)) /\ (Good(At(a))' <=> Good(At(a)))
         /\ \A a, b \in Place : Same(a, b)' <=> Same(a, b)
         /\ \A p \in Pages : LastOf(p)' = LastOf(p)
         /\ InErasedState' = InErasedState /\ MarkedPages' = MarkedPages
<1>1. FlashType'
  BY DEF FlashType
<1>2. /\ Place' = Place /\ \A a \in Place : At(a)' = At(a)
      /\ \A p \in Pages : LastOf(p)' = LastOf(p)
  BY <1>1, SameItems
<1>3. InErasedState' = InErasedState /\ MarkedPages' = MarkedPages
  BY FlagsKept
<1> QED BY <1>1, <1>2, <1>3 DEF Kept, Same, Good, Live

(* FlashInv survives a step that only changes what RAM holds, when no more room is
   counted as lost than is. *)
LEMMA FlashInvKept ==
  ASSUME FlashType, FlashInv, flash' = flash,
         \A p \in Pages : pgLost'[p] <= Lost(flash[p].items)
  PROVE  FlashInv'
<1> USE FlashSame
<1>1. ItemsSound'
  BY PlaceFacts DEF FlashInv, ItemsSound, Good, Live
<1>2. HeadersSound'
  BY DEF FlashInv, HeadersSound
<1>3. CopiesSound' /\ (OnlyCopies => OnlyCopies')
  BY DEF FlashInv, CopiesSound, OnlyCopies
<1>4. MarkedSound'
  BY <1>3 DEF FlashInv, MarkedSound
<1>5. RoomSound'
  BY DEF FlashInv, RoomSound
<1> QED BY <1>1, <1>2, <1>3, <1>4, <1>5 DEF FlashInv

(* An item is zeroed while no page is marked. *)
LEMMA ItemZeroed ==
  ASSUME FlashType, FlashInv, NEW a \in Place, Live(At(a)), flash' = WithItem(a, Zero(At(a))),
         pgLost \in [Pages -> Nat],
         pgLost' = [pgLost EXCEPT ![a[1]] = @ + At(a).len], MarkedPages = {}
  PROVE  /\ FlashInv' /\ FlashType' /\ Place' = Place
         /\ Zero(At(a)) \in ItemType /\ ~Live(Zero(At(a))) /\ ~Zero(At(a)).old
         /\ At(a).id # Torn /\ At(a).id # Zeroed
         /\ \A b \in Place : At(b)' = IF b = a THEN Zero(At(a)) ELSE At(b)
         /\ pgLost' \in [Pages -> Nat]
         /\ InErasedState' = InErasedState /\ MarkedPages' = MarkedPages
         /\ \A p \in Pages :
               /\ flash'[p].active = flash[p].active /\ flash'[p].xfer = flash[p].xfer
               /\ LastOf(p)' = LastOf(p) /\ Len(flash'[p].items) = Len(flash[p].items)
               /\ p # a[1] => flash'[p] = flash[p]
               /\ LenOf(flash'[p].items) = LenOf(flash[p].items)
               /\ IsTorn(flash'[p].items) <=> IsTorn(flash[p].items)
               /\ Used(flash'[p].items) = Used(flash[p].items)
<1> DEFINE it == Zero(At(a))
<1>0. At(a) \in ItemType /\ a[1] \in Pages
  BY PlaceFacts
<1>1. /\ it \in ItemType /\ it.id = Zeroed /\ it.val = Erased /\ ~it.old /\ it.len = At(a).len
      /\ At(a).id # Torn /\ At(a).id # Zeroed /\ it.id # Torn /\ ~Live(it)
      /\ At(a).len \in Nat
  BY <1>0, ValuesAssumption DEF ItemType, Zero, Live
<1> HIDE DEF it
<1>2. /\ FlashType' /\ Place' = Place
      /\ \A b \in Place : At(b)' = IF b = a THEN it ELSE At(b)
      /\ \A p \in Pages :
               /\ flash'[p].active = flash[p].active /\ flash'[p].xfer = flash[p].xfer
               /\ LastOf(p)' = LastOf(p) /\ Len(flash'[p].items) = Len(flash[p].items)
               /\ p # a[1] => flash'[p] = flash[p]
               /\ LenOf(flash'[p].items) = LenOf(flash[p].items)
               /\ IsTorn(flash'[p].items) <=> IsTorn(flash[p].items)
               /\ Used(flash'[p].items) = Used(flash[p].items)
      /\ LenOfZeroed(flash'[a[1]].items) + 0 = LenOfZeroed(flash[a[1]].items) + it.len
      /\ \A p \in Pages : flash[p].items = <<>> => flash'[p].items = <<>>
  <2>1. flash' = WithItem(a, it)
    BY DEF it
  <2>2. \A p \in Pages : p = a[1] => flash[p].items # <<>>
    BY PlaceFacts
  <2> QED BY <1>1, <2>1, <2>2, ItemChanged
<1>3. MarkedPages' = {} /\ InErasedState' = InErasedState
  BY <1>2, FlagsKept
<1>4. ItemsSound'
  BY <1>1, <1>2, PlaceFacts, ValuesAssumption DEF FlashInv, ItemsSound, Good, Live
<1>5. HeadersSound'
  BY <1>2, <1>3 DEF FlashInv, HeadersSound
<1>6. CopiesSound'
  BY <1>1, <1>2, PlaceFacts, SMTT(30) DEF FlashInv, CopiesSound, Kept, Same, Good
<1>7. MarkedSound'
  BY <1>3 DEF MarkedSound
<1>8. RoomSound'
  <2> SUFFICES ASSUME NEW p \in Pages
               PROVE  /\ LenOf(flash'[p].items) <= PageSize
                      /\ pgLost'[p] <= Lost(flash'[p].items)
    BY DEF RoomSound
  <2>1. LenOf(flash'[p].items) <= PageSize
    BY <1>2 DEF FlashInv, RoomSound
  <2>2. CASE p # a[1]
    BY <1>0, <1>2, <2>1, <2>2 DEF FlashInv, RoomSound
  <2>3. CASE p = a[1]
    <3>1. Lost(flash'[p].items) = Lost(flash[p].items) + it.len
      <4>1. /\ LenOfZeroed(flash[p].items) \in Nat /\ LenOfZeroed(flash'[p].items) \in Nat
            /\ LenOf(flash[p].items) \in Nat
        BY <1>2, LostFacts DEF FlashType, PageType
      <4>2. /\ LenOfZeroed(flash'[p].items) = LenOfZeroed(flash[p].items) + it.len
            /\ LenOf(flash'[p].items) = LenOf(flash[p].items)
            /\ IsTorn(flash'[p].items) <=> IsTorn(flash[p].items)
        BY <1>1, <1>2, <2>3, <4>1
      <4>3. CASE IsTorn(flash[p].items)
        BY <1>1, <4>1, <4>2, <4>3, PagesAssumption DEF Lost
      <4>4. CASE ~IsTorn(flash[p].items)
        BY <1>1, <4>1, <4>2, <4>4 DEF Lost
      <4> QED BY <4>3, <4>4
    <3>2. Lost(flash[p].items) \in Nat
      BY LostFacts DEF FlashType, PageType, FlashInv, RoomSound
    <3>3. pgLost'[p] = pgLost[p] + it.len
      BY <1>1, <2>3
    <3> QED BY <1>1, <2>1, <3>1, <3>2, <3>3 DEF FlashInv, RoomSound
  <2> QED BY <2>2, <2>3
<1>9. pgLost' \in [Pages -> Nat]
  BY <1>0, <1>1
<1> QED BY <1>1, <1>2, <1>3, <1>4, <1>5, <1>6, <1>7, <1>8, <1>9 DEF FlashInv, it

(* An item is changed that keeps its id and its length. *)
LEMMA ItemKept ==
  ASSUME FlashType, NEW a \in Place, NEW it \in ItemType, flash' = WithItem(a, it),
         it.len = At(a).len, it.id = At(a).id, Live(it)
  PROVE  /\ FlashType' /\ Place' = Place
         /\ \A b \in Place : At(b)' = IF b = a THEN it ELSE At(b)
         /\ \A p \in Pages :
               /\ flash'[p].active = flash[p].active /\ flash'[p].xfer = flash[p].xfer
               /\ LastOf(p)' = LastOf(p) /\ Len(flash'[p].items) = Len(flash[p].items)
               /\ p # a[1] => flash'[p] = flash[p]
               /\ flash[p].items = <<>> => flash'[p].items = <<>>
               /\ LenOf(flash'[p].items) = LenOf(flash[p].items)
               /\ IsTorn(flash'[p].items) <=> IsTorn(flash[p].items)
               /\ Used(flash'[p].items) = Used(flash[p].items)
               /\ Lost(flash'[p].items) = Lost(flash[p].items)
<1>0. At(a) \in ItemType /\ a[1] \in Pages /\ it.id # Torn /\ it.id # Zeroed
  BY PlaceFacts, ValuesAssumption DEF Live
<1>1. /\ FlashType' /\ Place' = Place
      /\ \A b \in Place : At(b)' = IF b = a THEN it ELSE At(b)
      /\ \A p \in Pages :
               /\ flash'[p].active = flash[p].active /\ flash'[p].xfer = flash[p].xfer
               /\ LastOf(p)' = LastOf(p) /\ Len(flash'[p].items) = Len(flash[p].items)
               /\ p # a[1] => flash'[p] = flash[p]
               /\ LenOf(flash'[p].items) = LenOf(flash[p].items)
               /\ IsTorn(flash'[p].items) <=> IsTorn(flash[p].items)
               /\ Used(flash'[p].items) = Used(flash[p].items)
  BY <1>0, ItemChanged
<1>2. LenOfZeroed(flash'[a[1]].items) + (IF At(a).id = Zeroed THEN it.len ELSE 0)
               = LenOfZeroed(flash[a[1]].items) + (IF it.id = Zeroed THEN it.len ELSE 0)
  BY <1>0, ItemChanged
<1>3. LenOfZeroed(flash'[a[1]].items) + 0 = LenOfZeroed(flash[a[1]].items) + 0
  BY <1>0, <1>2, Zenon
<1>4. \A p \in Pages : LenOfZeroed(flash[p].items) \in Nat /\ LenOfZeroed(flash'[p].items) \in Nat
  BY <1>1, LostFacts DEF FlashType, PageType
<1>5. LenOfZeroed(flash'[a[1]].items) = LenOfZeroed(flash[a[1]].items)
  BY <1>0, <1>3, <1>4
<1>6. \A p \in Pages : LenOfZeroed(flash'[p].items) = LenOfZeroed(flash[p].items)
  BY <1>1, <1>5
<1>7. \A p \in Pages : Lost(flash'[p].items) = Lost(flash[p].items)
  BY <1>1, <1>6 DEF Lost
<1>8. \A p \in Pages : flash[p].items = <<>> => flash'[p].items = <<>>
  <2> SUFFICES ASSUME NEW p \in Pages, flash[p].items = <<>> PROVE flash'[p] = flash[p]
    OBVIOUS
  <2>1. p # a[1]
    BY PlaceFacts
  <2> QED BY <1>1, <2>1
<1> QED BY <1>1, <1>7, <1>8

(* The only kept copy of an item is marked old. *)
LEMMA ItemMarked ==
  ASSUME FlashType, FlashInv, NEW a \in Place, Kept(a),
         \A b \in Place : Kept(b) /\ Same(a, b) => b = a,
         flash' = WithItem(a, [At(a) EXCEPT !.old = TRUE]), pgLost' = pgLost,
         MarkedPages = {} \/ InErasedState # {}
  PROVE  /\ FlashInv' /\ FlashType' /\ Place' = Place
         /\ \A b \in Place : IF b = a
               THEN /\ At(b)'.id = At(b).id /\ At(b)'.len = At(b).len /\ At(b)'.val = At(b).val
                    /\ At(b)'.old
               ELSE At(b)' = At(b)
         /\ InErasedState' = InErasedState /\ MarkedPages' = MarkedPages
         /\ \A p \in Pages :
               /\ flash'[p].active = flash[p].active /\ flash'[p].xfer = flash[p].xfer
               /\ LastOf(p)' = LastOf(p) /\ Len(flash'[p].items) = Len(flash[p].items)
               /\ p # a[1] => flash'[p] = flash[p]
               /\ LenOf(flash'[p].items) = LenOf(flash[p].items)
               /\ IsTorn(flash'[p].items) <=> IsTorn(flash[p].items)
               /\ Used(flash'[p].items) = Used(flash[p].items)
<1> DEFINE it == [At(a) EXCEPT !.old = TRUE]
<1>0. At(a) \in ItemType /\ a[1] \in Pages
  BY PlaceFacts
<1>1. /\ it \in ItemType /\ it.id = At(a).id /\ it.val = At(a).val /\ it.old /\ it.len = At(a).len
      /\ At(a).id # Torn /\ At(a).id # Zeroed /\ it.id # Torn /\ Good(it) /\ Live(it)
  BY <1>0, ValuesAssumption DEF ItemType, Live, Kept, Good
<1> HIDE DEF it
<1>2. /\ FlashType' /\ Place' = Place
      /\ \A b \in Place : At(b)' = IF b = a THEN it ELSE At(b)
      /\ \A p \in Pages :
               /\ flash'[p].active = flash[p].active /\ flash'[p].xfer = flash[p].xfer
               /\ LastOf(p)' = LastOf(p) /\ Len(flash'[p].items) = Len(flash[p].items)
               /\ p # a[1] => flash'[p] = flash[p]
               /\ flash[p].items = <<>> => flash'[p].items = <<>>
               /\ LenOf(flash'[p].items) = LenOf(flash[p].items)
               /\ IsTorn(flash'[p].items) <=> IsTorn(flash[p].items)
               /\ Used(flash'[p].items) = Used(flash[p].items)
               /\ Lost(flash'[p].items) = Lost(flash[p].items)
  <2>1. flash' = WithItem(a, it)
    BY DEF it
  <2> QED BY <1>1, <2>1, ItemKept
<1>3. MarkedPages' = MarkedPages /\ InErasedState' = InErasedState
  BY <1>2, FlagsKept
<1>4. ItemsSound'
  BY <1>1, <1>2, PlaceFacts, ValuesAssumption DEF FlashInv, ItemsSound, Good, Live
<1>5. HeadersSound'
  BY <1>2, <1>3 DEF FlashInv, HeadersSound
<1>60. \A b, c \in Place : (Kept(b)' <=> Kept(b)) /\ (Same(b, c)' <=> Same(b, c))
  BY <1>1, <1>2, PlaceFacts, ZenonT(40) DEF Kept, Same, Good, Live
<1>6. CopiesSound' /\ (OnlyCopies => OnlyCopies')
  <2>1. \A b \in Place : Kept(b) /\ Same(a, b) => b = a
    OBVIOUS
  <2>2. \A b \in Place : Same(b, a) <=> Same(a, b)
    BY DEF Same
  <2> QED BY <1>1, <1>2, <1>60, <2>1, <2>2 DEF FlashInv, CopiesSound, OnlyCopies
<1>7. MarkedSound'
  BY <1>3, <1>6 DEF FlashInv, MarkedSound
<1>8. RoomSound'
  BY <1>2 DEF FlashInv, RoomSound
<1> QED BY <1>1, <1>2, <1>3, <1>4, <1>5, <1>6, <1>7, <1>8 DEF FlashInv

(* A header is appended to a page that has room for the item. *)
LEMMA HeaderAppended ==
  ASSUME FlashType, FlashInv, NEW p \in Pages, NEW id \in Items,
         flash' = Appended(p, Header(id)), pgLost' = pgLost,
         ~IsTorn(flash[p].items), LenOf(flash[p].items) + Size[id] <= PageSize,
         InErasedState = {} \/ (\A q \in InErasedState : \A r \in InErasedState : q = r),
         NEW n, n = <<p, Len(flash[p].items) + 1>>
  PROVE  /\ FlashInv' /\ FlashType'
         /\ n \notin Place /\ Place' = Place \cup {n} /\ n[1] = p
         /\ At(n)' = Header(id) /\ Header(id) \in ItemType /\ LastOf(p)' = n
         /\ At(n)'.id = id /\ At(n)'.len = Size[id] /\ At(n)'.val = Erased /\ ~At(n)'.old
         /\ \A b \in Place : At(b)' = At(b) /\ (b[1] = p => b[2] < n[2])
         /\ LenOf(flash'[p].items) = LenOf(flash[p].items) + Size[id]
         /\ ~IsTorn(flash'[p].items)
         /\ InErasedState' = InErasedState /\ MarkedPages' = MarkedPages
         /\ \A q \in Pages : /\ flash'[q].active = flash[q].active
                             /\ flash'[q].xfer = flash[q].xfer
                             /\ q # p => flash'[q] = flash[q] /\ LastOf(q)' = LastOf(q)
<1> DEFINE it == Header(id)
<1>1. /\ it \in ItemType /\ it.id = id /\ it.val = Erased /\ ~it.old /\ it.len = Size[id]
      /\ Live(it) /\ ~Good(it) /\ it.id # Torn /\ it.id # Zeroed
  <2>1. Size[id] \in 1 .. PageSize
    BY SizeAssumption
  <2> QED BY <2>1, ValuesAssumption, PagesAssumption DEF ItemType, Header, Live, Good
<1> HIDE DEF it
<1>2. /\ FlashType' /\ n \notin Place /\ Place' = Place \cup {n} /\ At(n)' = it
      /\ n[1] = p /\ n[2] = Len(flash[p].items) + 1
      /\ \A b \in Place : At(b)' = At(b) /\ (b[1] = p => b[2] < n[2])
      /\ LastOf(p)' = n
      /\ \A q \in Pages : /\ flash'[q].active = flash[q].active
                          /\ flash'[q].xfer = flash[q].xfer
                          /\ q # p => flash'[q] = flash[q] /\ LastOf(q)' = LastOf(q)
      /\ LenOf(flash'[p].items) = LenOf(flash[p].items) + it.len
      /\ LenOfZeroed(flash'[p].items) = LenOfZeroed(flash[p].items)
      /\ ~IsTorn(flash'[p].items)
  <2>1. flash' = Appended(p, it)
    BY DEF it
  <2>2. LenOfZeroed(flash[p].items) \in Nat
    BY LostFacts DEF FlashType, PageType
  <2> QED BY <1>1, <2>1, <2>2, ItemAppended
<1>3. MarkedPages' = MarkedPages /\ InErasedState' = InErasedState
  BY <1>2, FlagsKept
<1>4. ItemsSound'
  <2> SUFFICES ASSUME NEW b \in Place'
               PROVE  /\ At(b)'.id \in Items => At(b)'.len = Size[At(b)'.id]
                      /\ At(b)'.old => Good(At(b)')
                      /\ At(b)'.id = Torn => b = LastOf(b[1])' /\ At(b)'.len = 0
    BY DEF ItemsSound
  <2>1. CASE b = n
    BY <1>1, <1>2, <2>1
  <2>2. CASE b # n
    <3>1. b \in Place /\ At(b)' = At(b) /\ b[1] \in Pages
      BY <2>2, <1>2, PlaceFacts
    <3>2. At(b).id = Torn => b[1] # p
      <4>1. b[1] = p => b[2] \in DOMAIN flash[p].items /\ At(b) = flash[p].items[b[2]]
        BY <3>1, PlaceFacts DEF FlashType, PageType, At
      <4> QED BY <4>1 DEF IsTorn
    <3> QED BY <3>1, <3>2, <1>2 DEF FlashInv, ItemsSound
  <2> QED BY <2>1, <2>2
<1>5. HeadersSound'
  BY <1>2, <1>3 DEF FlashInv, HeadersSound
<1>60. /\ \A b, c \in Place : (Kept(b)' <=> Kept(b)) /\ (Same(b, c)' <=> Same(b, c))
       /\ ~Kept(n)'
  BY <1>1, <1>2, PlaceFacts DEF Kept, Same, Good, Live
<1>6. CopiesSound' /\ (OnlyCopies => OnlyCopies')
  BY <1>2, <1>60 DEF FlashInv, CopiesSound, OnlyCopies
<1>7. MarkedSound'
  <2> SUFFICES ASSUME NEW m \in MarkedPages, InErasedState = {}, NEW b \in Place', b[1] = m, Good(At(b)')
               PROVE  /\ At(b)'.old
                      /\ \E c \in Place' : Good(At(c)') /\ Same(b, c)' /\ ~At(c)'.old
    BY <1>3, <1>6 DEF FlashInv, MarkedSound
  <2>1. b \in Place /\ At(b)' = At(b)
    BY <1>1, <1>2
  <2>2. PICK c \in Place : Good(At(c)) /\ Same(b, c) /\ ~At(c).old
    BY <2>1 DEF FlashInv, MarkedSound
  <2>3. At(b).old
    BY <2>1 DEF FlashInv, MarkedSound
  <2> QED BY <1>2, <1>60, <2>1, <2>2, <2>3
<1>8. RoomSound'
  <2> SUFFICES ASSUME NEW q \in Pages
               PROVE  /\ LenOf(flash'[q].items) <= PageSize
                      /\ pgLost'[q] <= Lost(flash'[q].items)
    BY DEF RoomSound
  <2>2. CASE q # p
    BY <1>2, <2>2 DEF FlashInv, RoomSound
  <2>3. CASE q = p
    BY <1>1, <1>2, <2>3 DEF Lost, FlashInv, RoomSound
  <2> QED BY <2>2, <2>3
<1> QED BY <1>1, <1>2, <1>3, <1>4, <1>5, <1>6, <1>7, <1>8 DEF FlashInv, it

(* The data of an item is written: the first kept copy of its id that is not old, or one
   on the page without a header. *)
LEMMA DataWritten ==
  ASSUME FlashType, FlashInv, NEW n \in Place, NEW v \in Values,
         Live(At(n)), At(n).val = Erased,
         flash' = WithItem(n, [At(n) EXCEPT !.val = v]), pgLost' = pgLost,
         IF flash[n[1]].active
         THEN MarkedPages = {} /\ \A b \in Place : Kept(b) /\ Same(b, n) => At(b).old
         ELSE TRUE
  PROVE  /\ FlashInv' /\ FlashType' /\ Place' = Place
         /\ \A b \in Place : IF b = n
               THEN /\ At(b)'.id = At(b).id /\ At(b)'.len = At(b).len /\ At(b)'.val = v
                    /\ ~At(b)'.old /\ Good(At(b)')
               ELSE At(b)' = At(b)
         /\ InErasedState' = InErasedState /\ MarkedPages' = MarkedPages
         /\ \A p \in Pages :
               /\ flash'[p].active = flash[p].active /\ flash'[p].xfer = flash[p].xfer
               /\ LastOf(p)' = LastOf(p) /\ Len(flash'[p].items) = Len(flash[p].items)
               /\ p # n[1] => flash'[p] = flash[p]
               /\ LenOf(flash'[p].items) = LenOf(flash[p].items)
               /\ IsTorn(flash'[p].items) <=> IsTorn(flash[p].items)
               /\ Used(flash'[p].items) = Used(flash[p].items)
<1> DEFINE it == [At(n) EXCEPT !.val = v]
<1>0. At(n) \in ItemType /\ n[1] \in Pages /\ ~At(n).old /\ ~Good(At(n))
  BY PlaceFacts DEF FlashInv, ItemsSound, Good
<1>1. /\ it \in ItemType /\ it.id = At(n).id /\ it.val = v /\ ~it.old /\ it.len = At(n).len
      /\ At(n).id # Torn /\ At(n).id # Zeroed /\ it.id # Torn /\ Good(it) /\ Live(it)
      /\ it.id # Zeroed
  BY <1>0, ValuesAssumption DEF ItemType, Live, Kept, Good
<1> HIDE DEF it
<1>2. /\ FlashType' /\ Place' = Place
      /\ \A b \in Place : At(b)' = IF b = n THEN it ELSE At(b)
      /\ \A p \in Pages :
               /\ flash'[p].active = flash[p].active /\ flash'[p].xfer = flash[p].xfer
               /\ LastOf(p)' = LastOf(p) /\ Len(flash'[p].items) = Len(flash[p].items)
               /\ p # n[1] => flash'[p] = flash[p]
               /\ flash[p].items = <<>> => flash'[p].items = <<>>
               /\ LenOf(flash'[p].items) = LenOf(flash[p].items)
               /\ IsTorn(flash'[p].items) <=> IsTorn(flash[p].items)
               /\ Used(flash'[p].items) = Used(flash[p].items)
               /\ Lost(flash'[p].items) = Lost(flash[p].items)
  <2>1. flash' = WithItem(n, it)
    BY DEF it
  <2> QED BY <1>1, <2>1, ItemKept
<1>3. MarkedPages' = MarkedPages /\ InErasedState' = InErasedState
  BY <1>2, FlagsKept
<1>4. ItemsSound'
  BY <1>1, <1>2, PlaceFacts, ValuesAssumption DEF FlashInv, ItemsSound, Good, Live
<1>5. HeadersSound'
  BY <1>2, <1>3 DEF FlashInv, HeadersSound
<1>60. /\ \A b, c \in Place : Same(b, c)' <=> Same(b, c)
       /\ \A b \in Place : b # n => (Kept(b)' <=> Kept(b))
       /\ Kept(n)' => flash[n[1]].active
  BY <1>1, <1>2, PlaceFacts DEF Kept, Same, Good, Live
<1>6. CopiesSound'
  <2> SUFFICES ASSUME NEW b \in Place, NEW c \in Place, Kept(b)', Kept(c)', Same(b, c)',
                      At(b)'.old = At(c)'.old, b # c
               PROVE  FALSE
    BY <1>2 DEF CopiesSound
  <2>1. CASE b # n /\ c # n
    BY <1>2, <1>60, <2>1 DEF FlashInv, CopiesSound
  <2>2. CASE b = n
    BY <1>1, <1>2, <1>60, <2>2 DEF Same
  <2>3. CASE c = n
    BY <1>1, <1>2, <1>60, <2>3 DEF Same
  <2> QED BY <2>1, <2>2, <2>3
<1>61. ~flash[n[1]].active /\ OnlyCopies => OnlyCopies'
  BY <1>2, <1>60 DEF OnlyCopies
<1>7. MarkedSound'
  <2>1. CASE flash[n[1]].active
    BY <2>1, <1>3 DEF MarkedSound
  <2>2. CASE ~flash[n[1]].active
    <3>1. InErasedState # {}
      BY <2>2, <1>0 DEF InErasedState
    <3> QED BY <2>2, <3>1, <1>3, <1>61 DEF FlashInv, MarkedSound
  <2> QED BY <2>1, <2>2
<1>8. RoomSound'
  BY <1>2 DEF FlashInv, RoomSound
<1> QED BY <1>1, <1>2, <1>3, <1>4, <1>5, <1>6, <1>7, <1>8 DEF FlashInv

(* Next1, Last1 and First choose what they say. *)
LEMMA Next1Facts ==
  ASSUME NEW S, S \subseteq Nat, S # {}
  PROVE  Next1(S) \in S /\ \A j \in S : Next1(S) <= j
BY Smallest DEF Next1

(* The last of one page is that page. *)
LEMMA Last1Only ==
  ASSUME NEW S, NEW m \in S, m \in Nat, \A x \in S : x = m
  PROVE  Last1(S) = m
<1>1. \E i \in S : \A j \in S : j <= i
  OBVIOUS
<1> QED BY <1>1 DEF Last1

(* First is the first of the places in the order of Before (findItem stops at the first
   match). *)
LEMMA FirstFacts ==
  ASSUME FlashType, NEW S, S \subseteq Place
  PROVE  /\ NoPlace \notin Place
         /\ S = {} => First(S) = NoPlace
         /\ S # {} => First(S) \in S /\ \A b \in S \ {First(S)} : Before(First(S), b)
<1>1. NoPlace \notin Place
  BY PlaceFacts DEF NoPlace, NoPage
<1>2. ASSUME S # {} PROVE \E a \in S : \A b \in S \ {a} : Before(a, b)
  <2> DEFINE P == {a[1] : a \in S}
  <2>1. P \subseteq Nat /\ P # {}
    BY <1>2, PlaceFacts
  <2>2. PICK p \in P : \A q \in P : p <= q
    BY <2>1, Smallest
  <2> DEFINE I == {a[2] : a \in {b \in S : b[1] = p}}
  <2>3. I \subseteq Nat /\ I # {}
    BY <1>2, PlaceFacts
  <2>4. PICK i \in I : \A j \in I : i <= j
    BY <2>3, Smallest
  <2>5. PICK a \in S : a[1] = p /\ a[2] = i
    OBVIOUS
  <2>6. ASSUME NEW b \in S \ {a} PROVE Before(a, b)
    <3>1. p <= b[1] /\ p \in Nat /\ b[1] \in Nat
      BY <2>1, <2>2
    <3>2. CASE b[1] # p
      BY <2>5, <3>1, <3>2 DEF Before
    <3>3. CASE b[1] = p
      <4>1. i <= b[2] /\ i \in Nat /\ b[2] \in Nat
        BY <2>3, <2>4, <3>3
      <4>2. b[2] # i
        BY <2>5, <2>6, <3>3, PlaceFacts
      <4> QED BY <2>5, <3>3, <4>1, <4>2 DEF Before
    <3> QED BY <3>2, <3>3
  <2> QED BY <2>6
<1> QED BY <1>1, <1>2 DEF First

(* The first of one place is that place. *)
LEMMA FirstOnly ==
  ASSUME FlashType, NEW S, S \subseteq Place, NEW a \in S, \A b \in S : b = a
  PROVE  First(S) = a
BY FirstFacts

(* What FindOld returns: an old copy of the item, or nothing when there is none. *)
LEMMA FindOldFacts ==
  ASSUME FlashType, NEW id
  PROVE  /\ FindOld(id) # NoPlace => FindOld(id) \in Place /\ At(FindOld(id)).id = id
                                     /\ At(FindOld(id)).old
         /\ FindOld(id) = NoPlace => \A a \in Place : At(a).id = id => ~At(a).old
BY FirstFacts DEF FindOld

(* What findItem returns: a copy of the item, or nothing when there is none. *)
LEMMA FindItemFacts ==
  ASSUME FlashType, NEW id
  PROVE  /\ FindItem(id) # NoPlace => FindItem(id) \in Place /\ At(FindItem(id)).id = id
         /\ FindItem(id) = NoPlace => \A a \in Place : At(a).id # id
         /\ FindItem(id) \in PlaceType
<1> DEFINE S == {a \in Place : At(a).id = id /\ ~At(a).old}
<1>1. S \subseteq Place /\ FindItem(id) = IF First(S) # NoPlace THEN First(S) ELSE FindOld(id)
  BY DEF FindItem
<1>2. CASE First(S) # NoPlace
  <2>1. First(S) \in S
    BY <1>1, <1>2, FirstFacts
  <2> QED BY <1>1, <1>2, <2>1, PlaceFacts DEF PlaceType
<1>3. CASE First(S) = NoPlace
  <2>1. S = {}
    BY <1>1, <1>3, FirstFacts
  <2>2. FindItem(id) = FindOld(id)
    BY <1>1, <1>3
  <2> QED BY <2>1, <2>2, FindOldFacts, PlaceFacts DEF PlaceType
<1> QED BY <1>2, <1>3

(* An item with one copy is found there. *)
LEMMA FindItemOnly ==
  ASSUME FlashType, NEW a \in Place, \A b \in Place : At(b).id = At(a).id => b = a
  PROVE  FindItem(At(a).id) = a
BY FindItemFacts

(* initItem and initNV choose pages. *)
LEMMA PageForFacts ==
  ASSUME NEW id \in Items, RoomFor(id) # {}, pgRes \in Pages
  PROVE  PageFor(id) \in RoomFor(id)
<1>1. ASSUME NEW p \in Pages PROVE Turn(p) \in Nat
  <2>1. p + NumPages - pgRes - 1 \in Nat /\ NumPages \in Nat \ {0}
    BY <1>1, PagesAssumption DEF Pages
  <2>2. \A a \in Nat, b \in Nat \ {0} : a % b \in Nat
    OBVIOUS
  <2> QED BY <2>1, <2>2 DEF Turn
<1> DEFINE T == {Turn(p) : p \in RoomFor(id)}
<1>2. T \subseteq Nat /\ T # {}
  BY <1>1 DEF RoomFor
<1>3. PICK t \in T : \A u \in T : t <= u
  BY <1>2, Smallest
<1>4. \E p \in RoomFor(id) : \A q \in RoomFor(id) : Turn(p) <= Turn(q)
  BY <1>3
<1> QED BY <1>4 DEF PageFor

(* initNV's choice of a reserve page is a page, and no page has lost more than it. *)
LEMMA MostLostFacts ==
  ASSUME \A p \in Pages : Counted(p) \in 0 .. PageSize
  PROVE  MostLost \in Pages /\ \A q \in Pages : Counted(q) <= Counted(MostLost)
<1> DEFINE K == {PageSize - Counted(p) : p \in Pages}
<1>1. K \subseteq Nat /\ K # {}
  BY PagesAssumption DEF Pages
<1>2. PICK k \in K : \A j \in K : k <= j
  BY <1>1, Smallest
<1>3. PICK x \in Pages : k = PageSize - Counted(x)
  OBVIOUS
<1> DEFINE M == {p \in Pages : Counted(p) = Counted(x)}
<1>4. M \subseteq Nat /\ M # {}
  BY DEF Pages
<1>5. PICK m \in M : \A n \in M : m <= n
  BY <1>4, Smallest
<1>6. ASSUME NEW q \in Pages, q # m PROVE Counted(m) > Counted(q) \/ (Counted(m) = Counted(q) /\ m < q)
  <2>1. PageSize - Counted(x) <= PageSize - Counted(q)
    BY <1>2, <1>3
  <2>2. Counted(x) \in Nat /\ Counted(q) \in Nat /\ PageSize \in Nat /\ Counted(m) = Counted(x)
    BY PagesAssumption
  <2>3. Counted(q) = Counted(x) => q \in M
    OBVIOUS
  <2>4. m \in Nat /\ q \in Nat
    BY DEF Pages
  <2>5. q \in M => m < q
    BY <1>5, <1>6, <2>4
  <2> HIDE DEF M
  <2> QED BY <2>1, <2>2, <2>3, <2>5
<1>7. m \in Pages
  OBVIOUS
<1>8. \E p \in Pages : \A q \in Pages \ {p} :
         Counted(p) > Counted(q) \/ (Counted(p) = Counted(q) /\ p < q)
  <2> HIDE DEF M
  <2> QED BY <1>6, <1>7, Zenon
<1>9. PICK p : p = MostLost
  OBVIOUS
<1>10. p \in Pages /\ \A q \in Pages \ {p} :
          Counted(p) > Counted(q) \/ (Counted(p) = Counted(q) /\ p < q)
  BY <1>8, <1>9 DEF MostLost
<1>11. ASSUME NEW q \in Pages PROVE Counted(q) <= Counted(p)
  <2>1. Counted(q) \in Nat /\ Counted(p) \in Nat
    BY <1>10, PagesAssumption
  <2> QED BY <1>10, <2>1
<1> QED BY <1>9, <1>10, <1>11

(* The item that compactPage copies next. *)
LEMMA SourceFacts ==
  ASSUME FlashType, op.com \in Pages, op.k \in Nat \ {0}, ToCopy # {}
  PROVE  /\ Source \in Place /\ Source[1] = op.com /\ Source = <<op.com, Source[2]>>
         /\ Good(At(Source)) /\ At(Source).id # op.id
         /\ Source[2] \in ToCopy /\ Source[2] \in 1 .. Len(flash[op.com].items)
         /\ op.k <= Source[2]
         /\ \A i \in ToCopy : Source[2] <= i
<1>1. ToCopy \subseteq 1 .. Len(flash[op.com].items) /\ Len(flash[op.com].items) \in Nat
  BY PlaceFacts DEF ToCopy
<1>2. Next1(ToCopy) \in ToCopy /\ \A i \in ToCopy : Next1(ToCopy) <= i
  <2>1. ToCopy \subseteq Nat
    BY <1>1
  <2> HIDE DEF ToCopy
  <2> QED BY <2>1, Next1Facts
<1>3. Source[1] = op.com /\ Source[2] = Next1(ToCopy) /\ Source = <<op.com, Source[2]>>
  BY DEF Source
<1>4. Source \in Place
  BY <1>1, <1>2, <1>3, PlaceFacts
<1>5. At(Source) = flash[op.com].items[Next1(ToCopy)]
  BY <1>3 DEF At
<1>6. Good(At(Source)) /\ At(Source).id # op.id /\ op.k <= Source[2]
  <2>1. \A i \in ToCopy : /\ op.k <= i /\ Good(flash[op.com].items[i])
                         /\ flash[op.com].items[i].id # op.id
    BY <1>1 DEF ToCopy
  <2> QED BY <1>2, <1>3, <1>5, <2>1
<1> QED BY <1>1, <1>2, <1>3, <1>4, <1>6

(* What compactPage has still to copy is a sum of numbers. *)
LEMMA ToComeType ==
  ASSUME FlashType, op.com \in Pages, NEW from \in Nat
  PROVE  /\ LensToCome(from) \in Seq(Nat)
         /\ Len(LensToCome(from)) = Len(flash[op.com].items)
         /\ \A i \in 1 .. Len(flash[op.com].items) :
               LensToCome(from)[i] = IF /\ i >= from /\ Good(flash[op.com].items[i])
                                        /\ flash[op.com].items[i].id # op.id
                                     THEN flash[op.com].items[i].len ELSE 0
         /\ Total(LensToCome(from)) \in Nat
<1> DEFINE items == flash[op.com].items
<1>1. items \in Seq(ItemType)
  BY DEF FlashType, PageType
<1>2. /\ Len(items) \in Nat /\ DOMAIN items = 1 .. Len(items)
      /\ \A i \in 1 .. Len(items) : items[i] \in ItemType /\ items[i].len \in Nat
  BY <1>1, ItemFacts
<1>3. /\ LensToCome(from) \in [1 .. Len(items) -> Nat]
      /\ \A i \in 1 .. Len(items) :
               LensToCome(from)[i] = IF i >= from /\ Good(items[i]) /\ items[i].id # op.id
                                     THEN items[i].len ELSE 0
  BY <1>2 DEF LensToCome
<1>4. LensToCome(from) \in Seq(Nat) /\ Len(LensToCome(from)) = Len(items)
  BY <1>2, <1>3, Along
<1> QED BY <1>3, <1>4, TotalType

(* Zeroed items are not copied. *)
LEMMA ToComeFits ==
  ASSUME FlashType, op.com \in Pages, NEW from \in Nat
  PROVE  Total(LensToCome(from)) + LenOfZeroed(flash[op.com].items)
           <= LenOf(flash[op.com].items)
<1> DEFINE items == flash[op.com].items
<1>1. items \in Seq(ItemType)
  BY DEF FlashType, PageType
<1>2. /\ Len(items) \in Nat
      /\ \A i \in 1 .. Len(items) : items[i] \in ItemType /\ items[i].len \in Nat
  BY <1>1, ItemFacts
<1> DEFINE s == LensToCome(from)
           t == ZeroLens(items)
           u == [i \in 1 .. Len(items) |-> s[i] + t[i]]
<1>3. s \in Seq(Nat) /\ Len(s) = Len(items) /\ t \in Seq(Nat) /\ Len(t) = Len(items)
  BY <1>1, ToComeType, LensType
<1>4. \A i \in 1 .. Len(items) : s[i] \in Nat /\ t[i] \in Nat
  BY <1>3, SMTT(30)
<1>5. \A i \in 1 .. Len(items) : s[i] + t[i] <= Lens(items)[i]
  <2> SUFFICES ASSUME NEW i \in 1 .. Len(items) PROVE s[i] + t[i] <= Lens(items)[i]
    OBVIOUS
  <2>1. Lens(items)[i] = items[i].len /\ items[i].len \in Nat
    BY <1>1, <1>2, LensType
  <2>2. t[i] = IF items[i].id = Zeroed THEN items[i].len ELSE 0
    BY <1>1, LensType
  <2>3. s[i] = 0 \/ (s[i] = items[i].len /\ Good(items[i]))
    BY ToComeType
  <2>4. Good(items[i]) => items[i].id # Zeroed
    BY ValuesAssumption DEF Good, Live
  <2> HIDE DEF s, t, items
  <2> QED BY <2>1, <2>2, <2>3, <2>4
<1> HIDE DEF s, t
<1>6. u \in Seq(Nat) /\ Len(u) = Len(items) /\ \A i \in 1 .. Len(items) : u[i] = s[i] + t[i]
  <2>1. u \in [1 .. Len(items) -> Nat]
    BY <1>4
  <2> QED BY <1>2, <2>1, Along
<1> HIDE DEF u
<1>7. Total(u) = Total(s) + Total(t)
  BY <1>3, <1>6, TotalOfSum
<1>8. Lens(items) \in Seq(Nat) /\ Len(Lens(items)) = Len(items)
  BY <1>1, LensType
<1>9. \A i \in 1 .. Len(u) : u[i] <= Lens(items)[i]
  BY <1>5, <1>6
<1>10. Total(u) <= Total(Lens(items))
  BY <1>6, <1>8, <1>9, TotalOfMore
<1>11. LenOfZeroed(items) = Total(t) /\ LenOf(items) = Total(Lens(items))
  BY <1>1, LensType DEF t
<1> QED BY <1>7, <1>10, <1>11 DEF s

(* The room that copying the next item takes. *)
LEMMA ToComeNext ==
  ASSUME FlashType, op.com \in Pages, op.k \in Nat \ {0}, ToCopy # {}
  PROVE  Total(LensToCome(Source[2] + 1)) + At(Source).len = Total(LensToCome(op.k))
<1> DEFINE items == flash[op.com].items
           k == Source[2]
           s == LensToCome(op.k)
           t == LensToCome(k + 1)
<1>1. /\ k \in 1 .. Len(items) /\ k \in ToCopy /\ op.k <= k /\ \A i \in ToCopy : k <= i
      /\ Source = <<op.com, k>>
  BY SourceFacts
<1>2. Len(items) \in Nat /\ k \in Nat /\ k + 1 \in Nat /\ op.k \in Nat
  BY <1>1, PlaceFacts
<1>20. /\ \A i \in 1 .. Len(items) :
             s[i] = IF i >= op.k /\ Good(items[i]) /\ items[i].id # op.id
                    THEN items[i].len ELSE 0
       /\ \A i \in 1 .. Len(items) :
             t[i] = IF i >= k + 1 /\ Good(items[i]) /\ items[i].id # op.id
                    THEN items[i].len ELSE 0
  <2> HIDE DEF k
  <2> QED BY <1>2, ToComeType
<1>3. s \in Seq(Nat) /\ t \in Seq(Nat) /\ Len(s) = Len(items) /\ Len(t) = Len(items)
  <2> HIDE DEF k
  <2> QED BY <1>2, ToComeType
<1>4. t[k] = 0 /\ s[k] = At(Source).len
  <2>1. At(Source) = items[k]
    BY <1>1 DEF At
  <2>2. Good(items[k]) /\ items[k].id # op.id
    BY SourceFacts, <2>1
  <2>3. t[k] = 0
    BY <1>1, <1>2, <1>20
  <2>4. s[k] = items[k].len
    BY <1>1, <1>2, <2>2, <1>20
  <2> QED BY <2>1, <2>3, <2>4
<1>5. ASSUME NEW i \in 1 .. Len(items), i # k PROVE t[i] = s[i]
  <2> DEFINE g == Good(items[i]) /\ items[i].id # op.id
  <2>1. t[i] = IF i >= k + 1 /\ g THEN items[i].len ELSE 0
    BY <1>20
  <2>2. s[i] = IF i >= op.k /\ g THEN items[i].len ELSE 0
    BY <1>20
  <2>3. i >= op.k /\ g => k <= i
    BY <1>1, <1>2, <1>5 DEF ToCopy
  <2>4. op.k \in Nat /\ i \in Nat
    BY <1>2
  <2> HIDE DEF g, k, s, t, items
  <2>5. (i >= k + 1 /\ g) <=> (i >= op.k /\ g)
    BY <1>1, <1>2, <1>5, <2>3, <2>4
  <2> QED BY <2>1, <2>2, <2>5
<1> HIDE DEF s, t, k, items
<1>6. Total(t) + s[k] = Total(s) + t[k]
  BY <1>1, <1>3, <1>5, TotalChanged
<1>7. Total(s) \in Nat /\ Total(t) \in Nat
  BY <1>3, TotalType
<1>8. Total(t) + At(Source).len = Total(s)
  BY <1>4, <1>6, <1>7
<1> QED BY <1>8 DEF s, t, k

(* What initPage has counted. *)
LEMMA ZeroedType ==
  ASSUME FlashType, NEW p \in Pages, NEW i \in Nat
  PROVE  /\ LensZeroed(p, i) \in Seq(Nat)
         /\ Len(LensZeroed(p, i)) = Len(flash[p].items)
         /\ \A j \in 1 .. Len(flash[p].items) :
               LensZeroed(p, i)[j] = IF j < i /\ flash[p].items[j].id = Zeroed
                                     THEN flash[p].items[j].len ELSE 0
         /\ Total(LensZeroed(p, i)) \in Nat
<1> DEFINE items == flash[p].items
<1>1. items \in Seq(ItemType)
  BY DEF FlashType, PageType
<1>2. /\ Len(items) \in Nat /\ DOMAIN items = 1 .. Len(items)
      /\ \A j \in 1 .. Len(items) : items[j] \in ItemType /\ items[j].len \in Nat
  BY <1>1, ItemFacts
<1>3. /\ LensZeroed(p, i) \in [1 .. Len(items) -> Nat]
      /\ \A j \in 1 .. Len(items) :
               LensZeroed(p, i)[j] = IF j < i /\ items[j].id = Zeroed
                                     THEN items[j].len ELSE 0
  BY <1>2 DEF LensZeroed
<1>4. LensZeroed(p, i) \in Seq(Nat) /\ Len(LensZeroed(p, i)) = Len(items)
  BY <1>2, <1>3, Along
<1> QED BY <1>3, <1>4, TotalType

(* The zeroed items up to the walk's place are at most all that the page has. *)
LEMMA ZeroedAll ==
  ASSUME FlashType, NEW p \in Pages, NEW i \in Nat
  PROVE  Total(LensZeroed(p, i)) <= LenOfZeroed(flash[p].items)
<1> DEFINE items == flash[p].items
<1>1. items \in Seq(ItemType)
  BY DEF FlashType, PageType
<1>2. /\ Len(items) \in Nat
      /\ \A j \in 1 .. Len(items) : items[j] \in ItemType /\ items[j].len \in Nat
  BY <1>1, ItemFacts
<1>3. /\ LensZeroed(p, i) \in Seq(Nat) /\ Len(LensZeroed(p, i)) = Len(items)
      /\ ZeroLens(items) \in Seq(Nat) /\ Len(ZeroLens(items)) = Len(items)
      /\ LenOfZeroed(items) = Total(ZeroLens(items))
  BY <1>1, ZeroedType, LensType
<1>4. ASSUME NEW j \in 1 .. Len(items) PROVE LensZeroed(p, i)[j] <= ZeroLens(items)[j]
  <2>1. ZeroLens(items)[j] = IF items[j].id = Zeroed THEN items[j].len ELSE 0
    BY <1>1, LensType
  <2>2. LensZeroed(p, i)[j] = IF j < i /\ items[j].id = Zeroed THEN items[j].len ELSE 0
    BY ZeroedType
  <2>3. items[j].len \in Nat
    BY <1>2
  <2> HIDE DEF items
  <2> QED BY <2>1, <2>2, <2>3
<1> QED BY <1>3, <1>4, TotalOfMore


(* The same of the next state. *)
LEMMA ZeroedTypeNext ==
  ASSUME FlashType', NEW p \in Pages, NEW i \in Nat
  PROVE  Total(LensZeroed(p, i)') \in Nat
<1>1. PICK items : items = flash'[p].items
  OBVIOUS
<1>2. items \in Seq(ItemType)
  BY <1>1 DEF FlashType, PageType
<1>3. /\ Len(items) \in Nat /\ DOMAIN items = 1 .. Len(items)
      /\ \A j \in 1 .. Len(items) : items[j] \in ItemType /\ items[j].len \in Nat
  BY <1>2, ItemFacts
<1>4. LensZeroed(p, i)' \in [1 .. Len(items) -> Nat]
  BY <1>1, <1>3 DEF LensZeroed
<1>5. LensZeroed(p, i)' \in Seq(Nat)
  BY <1>3, <1>4, Along
<1> QED BY <1>5, TotalType

--------------------------------------------------------------------------------
(* Every step keeps NvInv. *)

(* NvInv survives a stutter. *)
LEMMA Unchanged ==
  ASSUME NvInv, UNCHANGED vars
  PROVE  NvInv'
<1> USE DEF vars
<1>1. Types' /\ FlashInv'
  <2>1. Types'
    BY DEF NvInv, Types, FlashType
  <2> QED BY <2>1, FlashInvKept DEF NvInv, Types, FlashInv, RoomSound
<1>2. Phase'
  BY DEF NvInv, Phase, ReserveBlank, NoReserve, Compacting, Operating, MarkedPages, InErasedState
<1>3. ReserveInv'
  <2>1. Filling' = Filling
    BY DEF Filling
  <2>2. /\ Place' = Place /\ ToCopy' = ToCopy /\ Source' = Source /\ From' = From
        /\ \A from : LensToCome(from)' = LensToCome(from)
        /\ LenOfNew' = LenOfNew
    BY DEF Place, ToCopy, Source, From, LensToCome, LenOfNew, Operating
  <2>3. /\ \A a : At(a)' = At(a) /\ (InReserve(a)' <=> InReserve(a)) /\ (Passed(a)' <=> Passed(a))
        /\ \A a : Bad(a)' <=> Bad(a)
        /\ \A a, b : (Same(a, b)' <=> Same(a, b)) /\ (IsCopyOf(a, b)' <=> IsCopyOf(a, b))
        /\ \A p : LastOf(p)' = LastOf(p)
    BY <2>2 DEF At, InReserve, Passed, Bad, Same, IsCopyOf, LastOf
  <2>4. ReserveItems => ReserveItems'
    BY <2>2, <2>3 DEF ReserveItems
  <2>5. ReserveOnce => ReserveOnce'
    BY <2>2, <2>3 DEF ReserveOnce
  <2>6. PassedCopied => PassedCopied'
    BY <2>2, <2>3 DEF PassedCopied
  <2>7. CopyUnderWay => CopyUnderWay'
    BY <2>2, <2>3 DEF CopyUnderWay
  <2>8. ReserveRoom => ReserveRoom'
    BY <2>2 DEF ReserveRoom
  <2> QED BY <2>1, <2>4, <2>5, <2>6, <2>7, <2>8 DEF NvInv, ReserveInv
<1>4. OpInv' /\ ServeInv'
  <2>1. /\ Place' = Place
        /\ \A a : At(a)' = At(a) /\ (Kept(a)' <=> Kept(a)) /\ (Bad(a)' <=> Bad(a))
                 /\ (Spare(a)' <=> Spare(a))
        /\ \A a, b : Same(a, b)' <=> Same(a, b)
        /\ \A p : LastOf(p)' = LastOf(p)
    BY DEF Place, At, Kept, Bad, Spare, Same, LastOf
  <2>2. OpInv'
    BY <2>1 DEF NvInv, OpInv, Operating, SourceSound, NewCopyOn, Fits
  <2>3. ServeInv'
    BY <2>1, SMTT(30) DEF NvInv, ServeInv, Serving, Operating
  <2> QED BY <2>2, <2>3
<1>5. ScanInv' /\ PickInv'
  BY DEF NvInv, ScanInv, PickInv, LensZeroed, ScanAt, HasNoOlder, OnlyCopies, Place, At, Kept,
         Same
<1>6. HotInv'
  BY DEF NvInv, HotInv, Replaced, Filling, Place, At
<1> QED BY <1>1, <1>2, <1>3, <1>4, <1>5, <1>6 DEF NvInv

(* Between operations every item has one copy, and it is complete. *)
LEMMA IdleFacts ==
  ASSUME NvInv, pc = "idle"
  PROVE  /\ op = NoOp /\ scan = NoScan /\ ReserveBlank /\ FlashType /\ FlashInv
         /\ MarkedPages = {} /\ InErasedState = {pgRes}
         /\ ~Operating /\ ~Filling
         /\ \A a \in Place : a[1] # pgRes /\ ~Bad(a) /\ ~Replaced(a) /\ ~Spare(a)
         /\ \A a \in Place : Live(At(a)) => Good(At(a)) /\ Kept(a)
         /\ \A a, b \in Place : Live(At(a)) /\ Same(a, b) => a = b
         /\ \A p \in Pages : pgOff[p] = Used(flash[p].items)
<1>1. op = NoOp /\ scan = NoScan /\ ReserveBlank /\ FlashType /\ FlashInv
  BY DEF NvInv, Phase, Types
<1>2. MarkedPages = {} /\ InErasedState = {pgRes}
  <2>1. pgRes \in Pages /\ ~flash[pgRes].active
    BY <1>1 DEF ReserveBlank, Blank
  <2> QED BY <1>1, <2>1 DEF MarkedPages, InErasedState, ReserveBlank
<1>3. ~Operating /\ ~Filling
  BY <1>1 DEF Operating, NoOp, Filling
<1>4. ASSUME NEW a \in Place PROVE a[1] # pgRes /\ ~Bad(a) /\ ~Replaced(a) /\ ~Spare(a)
  <2>1. a[1] \in Pages /\ a[2] \in 1 .. Len(flash[a[1]].items)
    BY <1>1, PlaceFacts
  <2>2. a[1] # pgRes
    BY <1>1, <2>1 DEF ReserveBlank, Blank
  <2>3. op.kind = "none"
    BY <1>1 DEF NoOp
  <2> QED BY <1>3, <2>2, <2>3 DEF Bad, Replaced, Spare
<1>5. Serving
  BY DEF Serving
<1>6. /\ \A a \in Place : Live(At(a)) => Good(At(a)) \/ Bad(a)
      /\ \A p \in Pages : pgOff[p] = Used(flash[p].items)
      /\ \A a, b \in Place :
            Kept(a) /\ ~Spare(a) /\ Kept(b) /\ ~Spare(b) /\ Same(a, b) => a = b
  BY <1>5 DEF NvInv, ServeInv
<1>7. ASSUME NEW a \in Place, Live(At(a)) PROVE Good(At(a)) /\ Kept(a)
  <2>1. Good(At(a)) /\ a[1] \in Pages /\ a[1] # pgRes
    BY <1>1, <1>4, <1>6, <1>7, PlaceFacts
  <2> QED BY <1>1, <2>1 DEF Kept, ReserveBlank
<1>8. ASSUME NEW a \in Place, NEW b \in Place, Live(At(a)), Same(a, b) PROVE a = b
  <2>1. Live(At(b))
    BY <1>8 DEF Live, Same
  <2> QED BY <1>4, <1>6, <1>7, <1>8, <2>1
<1> QED BY <1>1, <1>2, <1>3, <1>4, <1>6, <1>7, <1>8

(* osal_nv_item_init of an item that exists keeps NvInv. *)
LEMMA ItemInitFindsStep ==
  ASSUME NvInv, NEW id \in Items, ItemInitFinds(id)
  PROVE  NvInv'
<1> DEFINE f == FindItem(id)
<1>1. /\ pc = "idle" /\ f # NoPlace /\ hot' = HotItemUpdate(id, f)
      /\ UNCHANGED <<flash, pgOff, pgLost, pgRes, pc, op, scan>>
  BY DEF ItemInitFinds
<1>2. FlashType /\ f \in Place /\ At(f).id = id /\ Live(At(f)) /\ f \in PlaceType
  BY <1>1, IdleFacts, FindItemFacts DEF Live
<1>3. \A a \in Place : At(a).id = id => a = f
  BY <1>1, <1>2, IdleFacts DEF Same
<1> HIDE DEF f
<1>4. /\ FlashType' /\ Place' = Place /\ \A a \in Place : At(a)' = At(a)
      /\ \A a \in Place : Kept(a)' <=> Kept(a)
      /\ \A a, b \in Place : Same(a, b)' <=> Same(a, b)
  BY <1>1, <1>2, FlashSame
<1>5. hot \in [HotIds -> PlaceType]
  BY DEF NvInv, Types
<1>6. /\ hot' \in [HotIds -> PlaceType]
      /\ \A x \in HotIds : hot'[x] = IF x = id THEN f ELSE hot[x]
  BY <1>1, <1>2, <1>5 DEF HotItemUpdate
<1>7. Types'
  BY <1>1, <1>4, <1>6 DEF NvInv, Types
<1>8. FlashInv'
  BY <1>1, <1>2, FlashInvKept DEF NvInv, FlashInv, RoomSound
<1>9. Phase'
  BY <1>1 DEF NvInv, Phase, ReserveBlank, Operating
<1>10. ReserveInv' /\ OpInv' /\ ScanInv' /\ PickInv'
  <2>1. ~Operating' /\ ~Filling'
    BY <1>1, IdleFacts DEF Operating, Filling
  <2> QED BY <1>1, <2>1 DEF ReserveInv, OpInv, ScanInv, PickInv
<1>11. ServeInv'
  <2>1. /\ \A a \in Place : Live(At(a)) => Good(At(a))
        /\ \A a, b \in Place : Kept(a) /\ Kept(b) /\ Same(a, b) => a = b
    BY <1>1, IdleFacts DEF Kept, Good
  <2>2. \A p \in Pages : pgOff'[p] = Used(flash'[p].items)
    BY <1>1, IdleFacts
  <2> QED BY <1>4, <2>1, <2>2 DEF ServeInv
<1>12. HotInv'
  <2>1. \A a \in Place : ~Replaced(a)
    BY <1>1, IdleFacts
  <2>2. pgRes \in Pages /\ NoPage \notin Pages
    BY <1>1, IdleFacts DEF ReserveBlank, Pages, NoPage
  <2>3. ASSUME NEW x \in HotIds, NEW a \in Place', hot'[x] # NoPlace, At(a)'.id = x, Good(At(a)')
        PROVE  a = hot'[x]
    <3>1. a \in Place /\ At(a).id = x /\ Good(At(a))
      BY <1>4, <2>3
    <3>2. CASE x = id
      BY <1>3, <1>6, <3>1, <3>2
    <3>3. CASE x # id
      BY <1>6, <2>1, <2>3, <3>1, <3>3 DEF NvInv, HotInv
    <3> QED BY <3>2, <3>3
  <2> QED BY <1>1, <2>2, <2>3 DEF HotInv
<1> QED BY <1>7, <1>8, <1>9, <1>10, <1>11, <1>12 DEF NvInv

(* Steps that leave the flash as it is. *)
LEMMA FlashStays ==
  ASSUME FlashType, flash' = flash
  PROVE  /\ FlashType' /\ Place' = Place
         /\ \A a \in Place : At(a)' = At(a) /\ (Kept(a)' <=> Kept(a))
         /\ \A a, b \in Place : Same(a, b)' <=> Same(a, b)
         /\ \A p \in Pages : LastOf(p)' = LastOf(p)
         /\ InErasedState' = InErasedState /\ MarkedPages' = MarkedPages
BY FlashSame

(* initItem up to its first write keeps NvInv, whoever calls it: the page it picks has
   the room, or gets it when it is compacted. *)
LEMMA InitItemStep ==
  ASSUME NvInv, pc = "idle", NEW kind \in {"init", "write"}, NEW id \in Items, NEW v \in Values,
         NEW src \in PlaceType, InitItem(kind, id, v, src),
         kind = "write" => src \in Place /\ At(src).id = id,
         kind = "init" => \A a \in Place : At(a).id # id
  PROVE  NvInv'
<1> DEFINE p == PageFor(id)
<1>0. RoomFor(id) # {} /\ UNCHANGED <<flash, pgOff, pgLost, pgRes, hot, scan>>
  BY DEF InitItem
<1>1. /\ scan = NoScan /\ ReserveBlank /\ FlashType /\ FlashInv /\ pgRes \in Pages
      /\ \A a \in Place : Live(At(a)) => Good(At(a)) /\ Kept(a)
      /\ \A a, b \in Place : Live(At(a)) /\ Same(a, b) => a = b
      /\ \A q \in Pages : pgOff[q] = Used(flash[q].items)
  BY IdleFacts DEF ReserveBlank
<1>2. p \in Pages \ {pgRes} /\ Size[id] <= PageSize - pgOff[p] + pgLost[p]
  BY <1>0, <1>1, PageForFacts DEF RoomFor
<1> HIDE DEF p
<1>3. /\ op'.kind = kind /\ op'.id = id /\ op'.val = v /\ op'.src = src /\ op'.k = 1
      /\ op' \in OpType
      /\ IF Fits(id, p) THEN pc' = "header" /\ op'.com = NoPage /\ op'.dst = p
                        ELSE pc' = "markPage" /\ op'.com = p /\ op'.dst = pgRes
  <2>1. /\ op' = [kind |-> kind, id |-> id, val |-> v, src |-> src,
                  com |-> IF Fits(id, p) THEN NoPage ELSE p,
                  dst |-> IF Fits(id, p) THEN p ELSE pgRes, k |-> 1]
        /\ pc' = IF Fits(id, p) THEN "header" ELSE "markPage"
    BY DEF InitItem, p
  <2>2. CASE Fits(id, p)
    BY <1>1, <1>2, <2>1, <2>2 DEF OpType
  <2>3. CASE ~Fits(id, p)
    BY <1>1, <1>2, <2>1, <2>3 DEF OpType
  <2> QED BY <2>2, <2>3
<1>4. /\ FlashType' /\ Place' = Place /\ \A a \in Place : At(a)' = At(a)
      /\ \A a \in Place : Kept(a)' <=> Kept(a)
      /\ \A a, b \in Place : Same(a, b)' <=> Same(a, b)
  BY <1>0, <1>1, FlashStays
<1>5. Types'
  BY <1>0, <1>3, <1>4 DEF NvInv, Types
<1>6. FlashInv'
  BY <1>0, <1>1, FlashInvKept DEF FlashInv, RoomSound
<1>7. Operating' /\ ReserveBlank' /\ ~Filling' /\ scan' = NoScan
  BY <1>0, <1>1, <1>3 DEF Operating, ReserveBlank, Filling
<1>8. Phase'
  BY <1>0, <1>2, <1>3, <1>7 DEF Phase
<1>9. ReserveInv' /\ ScanInv' /\ PickInv'
  BY <1>3, <1>7 DEF ReserveInv, ScanInv, PickInv
<1>10. OpInv'
  <2>1. op'.kind = "write" => SourceSound'
    BY <1>1, <1>3, <1>4 DEF SourceSound, Live
  <2>2. op'.kind = "init" => \A a \in Place' : Kept(a)' => At(a)'.id # op'.id
    BY <1>3, <1>4
  <2>3. pc' = "header" /\ op'.com = NoPage => Fits(op.id, op.dst)'
    BY <1>0, <1>3 DEF Fits
  <2>4. pc' = "markPage" => Size[op'.id] <= PageSize - pgOff'[op'.com] + pgLost'[op'.com]
    BY <1>0, <1>2, <1>3
  <2> QED BY <1>3, <2>1, <2>2, <2>3, <2>4 DEF OpInv
<1>11. ServeInv'
  <2>1. /\ \A a \in Place : Live(At(a)) => Good(At(a))
        /\ \A a, b \in Place : Kept(a) /\ Kept(b) /\ Same(a, b) => a = b
    BY <1>1 DEF Kept, Good
  <2>2. \A q \in Pages : pgOff'[q] = Used(flash'[q].items)
    BY <1>0, <1>1
  <2> QED BY <1>4, <2>1, <2>2 DEF ServeInv
<1>12. HotInv'
  <2>1. \A a \in Place : ~Replaced(a)
    BY IdleFacts
  <2>2. pgRes \in Pages /\ NoPage \notin Pages
    BY <1>1 DEF Pages, NoPage
  <2>3. pc' \notin {"boot", "eraseRes"}
    BY <1>3
  <2> QED BY <1>0, <1>4, <2>1, <2>2, <2>3 DEF NvInv, HotInv
<1> QED BY <1>5, <1>6, <1>8, <1>9, <1>10, <1>11, <1>12 DEF NvInv

(* osal_nv_item_init of a new item keeps NvInv. *)
LEMMA ItemInitStep ==
  ASSUME NvInv, NEW id \in Items, NEW v \in Values, ItemInit(id, v)
  PROVE  NvInv'
<1>1. pc = "idle" /\ FindItem(id) = NoPlace /\ InitItem("init", id, v, NoPlace)
  BY DEF ItemInit
<1>2. \A a \in Place : At(a).id # id
  BY <1>1, IdleFacts, FindItemFacts
<1>3. NoPlace \in PlaceType
  BY DEF PlaceType
<1> QED BY <1>1, <1>2, <1>3, InitItemStep

(* osal_nv_write up to its first write keeps NvInv. *)
LEMMA WriteStep ==
  ASSUME NvInv, NEW id \in Items, NEW v \in Values, Write(id, v)
  PROVE  NvInv'
<1>1. pc = "idle" /\ FindItem(id) # NoPlace /\ InitItem("write", id, v, FindItem(id))
  BY DEF Write
<1>2. FindItem(id) \in Place /\ At(FindItem(id)).id = id /\ FindItem(id) \in PlaceType
  BY <1>1, IdleFacts, FindItemFacts
<1> QED BY <1>1, <1>2, InitItemStep

(* osal_nv_delete keeps NvInv. *)
LEMMA DeleteStep ==
  ASSUME NvInv, NEW id \in Items, Delete(id)
  PROVE  NvInv'
<1> DEFINE a == FindItem(id)
<1>1. /\ pc = "idle" /\ a # NoPlace /\ flash' = WithItem(a, Zero(At(a)))
      /\ pgLost' = [pgLost EXCEPT ![a[1]] = @ + At(a).len]
      /\ UNCHANGED <<pgOff, pgRes, hot, pc, op, scan>>
  BY DEF Delete
<1>2. FlashType /\ FlashInv /\ a \in Place /\ At(a).id = id /\ Live(At(a)) /\ MarkedPages = {}
  BY <1>1, IdleFacts, FindItemFacts DEF Live
<1> HIDE DEF a
<1>3. pgLost \in [Pages -> Nat]
  BY DEF NvInv, Types
<1> DEFINE z == Zero(At(a))
<1>4. /\ FlashInv' /\ FlashType' /\ Place' = Place /\ pgLost' \in [Pages -> Nat]
      /\ z \in ItemType /\ ~Live(z)
      /\ \A b \in Place : At(b)' = IF b = a THEN z ELSE At(b)
      /\ \A p \in Pages :
               /\ flash'[p].active = flash[p].active /\ flash'[p].xfer = flash[p].xfer
               /\ p # a[1] => flash'[p] = flash[p]
               /\ Used(flash'[p].items) = Used(flash[p].items)
  BY <1>1, <1>2, <1>3, ItemZeroed
<1> HIDE DEF z
<1>5. /\ scan = NoScan /\ ReserveBlank /\ op = NoOp /\ ~Operating /\ ~Filling
      /\ \A b \in Place : Live(At(b)) => Good(At(b)) /\ Kept(b)
      /\ \A b, c \in Place : Live(At(b)) /\ Same(b, c) => b = c
      /\ \A q \in Pages : pgOff[q] = Used(flash[q].items)
      /\ a[1] # pgRes
  BY <1>1, <1>2, IdleFacts
<1>6. Types'
  BY <1>1, <1>4 DEF NvInv, Types
<1>7. ReserveBlank' /\ ~Operating' /\ ~Filling'
  BY <1>1, <1>4, <1>5 DEF ReserveBlank, Operating, Filling
<1>8. Phase'
  BY <1>1, <1>5, <1>7 DEF Phase, NoOp
<1>9. ReserveInv' /\ OpInv' /\ ScanInv' /\ PickInv'
  BY <1>1, <1>7 DEF ReserveInv, OpInv, ScanInv, PickInv
<1>10. ServeInv'
  <2>1. ASSUME NEW b \in Place', Live(At(b)') PROVE b \in Place /\ b # a /\ At(b)' = At(b)
    BY <1>4, <2>1
  <2>2. \A b \in Place' : Live(At(b)') => Good(At(b)')
    BY <1>5, <2>1
  <2>3. \A b, c \in Place' : Kept(b)' /\ Kept(c)' /\ Same(b, c)' => b = c
    BY <1>5, <2>1 DEF Kept, Good, Same
  <2>4. \A p \in Pages : pgOff'[p] = Used(flash'[p].items)
    BY <1>1, <1>4, <1>5
  <2> QED BY <2>2, <2>3, <2>4 DEF ServeInv
<1>11. HotInv'
  <2>1. \A b \in Place : ~Replaced(b)
    BY <1>1, IdleFacts
  <2>2. pgRes \in Pages /\ NoPage \notin Pages
    BY <1>5 DEF ReserveBlank, Pages, NoPage
  <2>3. \A b \in Place' : Good(At(b)') => b \in Place /\ At(b)' = At(b)
    BY <1>4 DEF Good
  <2> QED BY <1>1, <2>1, <2>2, <2>3 DEF NvInv, HotInv
<1> QED BY <1>4, <1>6, <1>8, <1>9, <1>10, <1>11 DEF NvInv

(* The pages while one of them is compacted. *)
LEMMA CompactingFacts ==
  ASSUME NvInv, Compacting
  PROVE  /\ FlashType /\ FlashInv
         /\ pgRes \in Pages /\ op.com \in Pages /\ op.com # pgRes /\ NoPage \notin Pages
         /\ InErasedState = {pgRes} /\ op.com \in MarkedPages /\ OnlyCopies
         /\ \A a \in Place : Kept(a) <=> a[1] # pgRes /\ Good(At(a))
         /\ \A a \in Place : InReserve(a) <=> a[1] = pgRes
<1>1. FlashType /\ FlashInv /\ NoPage \notin Pages
  BY DEF NvInv, Types, NoPage, Pages
<1>2. pgRes \in Pages /\ op.com \in Pages /\ op.com # pgRes
  BY DEF Compacting
<1>3. InErasedState = {pgRes}
  BY DEF Compacting, InErasedState
<1>4. op.com \in MarkedPages
  BY DEF Compacting, MarkedPages
<1>5. OnlyCopies
  BY <1>1, <1>3, <1>4 DEF FlashInv, MarkedSound
<1>6. \A a \in Place : Kept(a) <=> a[1] # pgRes /\ Good(At(a))
  BY <1>1, PlaceFacts DEF Compacting, Kept
<1> QED BY <1>1, <1>2, <1>3, <1>4, <1>5, <1>6 DEF InReserve

(* A compaction begins with an empty reserve page. *)
LEMMA ReserveBegins ==
  ASSUME FlashType', pc' = "compact", op'.k = 1, pgRes' \in Pages, flash'[pgRes'].items = <<>>,
         pgOff'[pgRes'] = 0, op'.com \in Pages,
         Total(LensToCome(1)') + LenOfNew' <= PageSize, Total(LensToCome(1)') \in Nat,
         LenOfNew' \in Nat
  PROVE  ReserveInv'
<1>1. \A a \in Place' : ~InReserve(a)'
  BY DEF InReserve, Place
<1>2. \A b \in Place' : ~Passed(b)'
  <2> SUFFICES ASSUME NEW b \in Place', b[2] < op'.k PROVE FALSE
    BY DEF Passed
  <2>1. b[1] \in Pages /\ b[2] \in 1 .. Len(flash'[b[1]].items) /\ Len(flash'[b[1]].items) \in Nat
    BY DEF Place, FlashType, PageType
  <2> QED BY <2>1
<1>3. ReserveItems' /\ ReserveOnce' /\ PassedCopied'
  BY <1>1, <1>2 DEF ReserveItems, ReserveOnce, PassedCopied
<1>4. CopyUnderWay'
  BY DEF CopyUnderWay
<1>5. ReserveRoom'
  <2>1. From' = 1
    BY DEF From
  <2>2. LenOf(flash'[pgRes'].items) = 0
    BY EmptyItems
  <2> QED BY <2>1, <2>2 DEF ReserveRoom
<1> QED BY <1>3, <1>4, <1>5 DEF ReserveInv

(* Marking the page to be compacted keeps NvInv: what compactPage has to copy and the
   new item fit on the reserve page. *)
LEMMA MarkPageStep ==
  ASSUME NvInv, MarkPage
  PROVE  NvInv'
<1>1. /\ pc = "markPage" /\ flash' = [flash EXCEPT ![op.com].xfer = TRUE] /\ pc' = "compact"
      /\ UNCHANGED <<pgOff, pgLost, pgRes, hot, op, scan>>
  BY DEF MarkPage
<1>2. /\ FlashType /\ FlashInv /\ Operating /\ ReserveBlank /\ pgRes \in Pages
      /\ op.com \in Pages /\ op.com # pgRes /\ op.dst = pgRes /\ op.k = 1 /\ scan = NoScan
  BY <1>1 DEF NvInv, Types, Phase, ReserveBlank
<1>3. /\ \A p \in Pages : /\ flash'[p].active = flash[p].active
                          /\ flash'[p].items = flash[p].items
                          /\ p # op.com => flash'[p] = flash[p]
      /\ flash'[op.com].xfer /\ flash' \in [Pages -> PageType]
  BY <1>1, <1>2 DEF FlashType, PageType
<1>4. FlashType' /\ Place' = Place /\ \A a \in Place : At(a)' = At(a)
  BY <1>2, <1>3, SameItems DEF FlashType
<1>5. /\ \A a \in Place : Kept(a)' <=> Kept(a)
      /\ \A a, b \in Place : Same(a, b)' <=> Same(a, b)
  BY <1>2, <1>3, <1>4, PlaceFacts DEF Kept, Same
<1>6. InErasedState' = {pgRes} /\ MarkedPages' = {op.com}
  BY <1>2, <1>3 DEF InErasedState, MarkedPages, ReserveBlank, Blank
<1>7. OnlyCopies /\ OnlyCopies'
  <2>1. OnlyCopies
    BY <1>1, <1>2 DEF NvInv, ServeInv, Serving, Spare, OnlyCopies
  <2> QED BY <2>1, <1>4, <1>5 DEF OnlyCopies
<1>8. Types'
  BY <1>1, <1>4 DEF NvInv, Types
<1>9. FlashInv'
  <2>1. ItemsSound'
    <3>1. \A p \in Pages : LastOf(p)' = LastOf(p)
      BY <1>3 DEF LastOf
    <3> QED BY <1>2, <1>4, <3>1, PlaceFacts DEF FlashInv, ItemsSound
  <2>2. HeadersSound'
    BY <1>2, <1>3, <1>6 DEF HeadersSound, ReserveBlank, FlashInv
  <2>3. CopiesSound'
    BY <1>7 DEF OnlyCopies, CopiesSound
  <2>4. MarkedSound'
    BY <1>6, <1>7 DEF MarkedSound
  <2>5. RoomSound'
    BY <1>1, <1>2, <1>3 DEF FlashInv, RoomSound
  <2> QED BY <2>1, <2>2, <2>3, <2>4, <2>5 DEF FlashInv
<1>10. Compacting' /\ Operating'
  BY <1>1, <1>2, <1>3 DEF Compacting, ReserveBlank, Blank, Operating
<1>11. Phase'
  BY <1>1, <1>2, <1>10 DEF Phase
<1>12. /\ op.id \in Items /\ Size[op.id] <= PageSize - pgOff[op.com] + pgLost[op.com]
       /\ op.kind = "write" => SourceSound
       /\ op.kind = "init" => \A a \in Place : Kept(a) => At(a).id # op.id
       /\ op.val \in Values
  BY <1>1, <1>2 DEF NvInv, OpInv
<1>13. \A p \in Pages : pgOff[p] = Used(flash[p].items)
  BY <1>1, <1>2 DEF NvInv, ServeInv, Serving
<1>14. ReserveInv'
  <2> DEFINE items == flash[op.com].items
             T == Total(LensToCome(1))
  <2>1. T + LenOfZeroed(items) <= LenOf(items) /\ T \in Nat
    BY <1>2, ToComeFits, ToComeType
  <2>2. /\ LenOf(items) \in Nat /\ LenOfZeroed(items) \in Nat
        /\ LenOf(items) <= PageSize /\ pgLost[op.com] <= Lost(items)
        /\ Used(items) \in 0 .. PageSize /\ Lost(items) \in 0 .. PageSize
        /\ Used(items) - Lost(items) = LenOf(items) - LenOfZeroed(items)
    BY <1>2, LostFacts DEF FlashType, PageType, FlashInv, RoomSound
  <2>3. Size[op.id] \in 1 .. PageSize /\ pgLost[op.com] \in Nat /\ PageSize \in Nat
    BY <1>2, <1>12, SizeAssumption, PagesAssumption DEF NvInv, Types
  <2>4. LenOfNew' = Size[op.id]
    BY <1>1, <1>10 DEF LenOfNew
  <2>5. LensToCome(1)' = LensToCome(1)
    BY <1>1, <1>2, <1>3 DEF LensToCome
  <2>6. pgOff[op.com] = Used(items)
    BY <1>2, <1>13
  <2> HIDE DEF T, items
  <2>7. T + Size[op.id] <= PageSize
    BY <1>12, <2>1, <2>2, <2>3, <2>6 DEF items
  <2>8. Total(LensToCome(1)') = T
    BY <2>5 DEF T
  <2>9. flash'[pgRes].items = <<>> /\ pgOff[pgRes] = 0
    BY <1>2, <1>3, <1>13, EmptyItems DEF ReserveBlank, Blank
  <2>10. Size[op.id] \in Nat
    BY <2>3
  <2> QED BY <1>1, <1>2, <1>4, <2>1, <2>4, <2>7, <2>8, <2>9, <2>10, ReserveBegins
<1>15. OpInv'
  <2>1. op.kind = "write" => SourceSound'
    BY <1>1, <1>4, <1>5, <1>12 DEF SourceSound
  <2> QED BY <1>1, <1>4, <1>5, <1>12, <2>1 DEF OpInv
<1>16. ServeInv'
  <2>1. \A a \in Place : Live(At(a)) => Good(At(a))
    BY <1>1, <1>2 DEF NvInv, ServeInv, Serving, Bad
  <2>2. \A p \in Pages : pgOff'[p] = Used(flash'[p].items)
    BY <1>1, <1>3, <1>13
  <2> QED BY <1>4, <1>7, <2>1, <2>2 DEF ServeInv, OnlyCopies
<1>17. ScanInv' /\ PickInv'
  BY <1>1 DEF ScanInv, PickInv
<1>18. HotInv'
  <2>1. \A a \in Place : ~Replaced(a)
    BY <1>1 DEF Replaced, Filling
  <2>2. NoPage \notin Pages
    BY DEF NoPage, Pages
  <2> QED BY <1>1, <1>2, <1>4, <2>1, <2>2 DEF NvInv, HotInv
<1> QED BY <1>8, <1>9, <1>11, <1>14, <1>15, <1>16, <1>17, <1>18 DEF NvInv

(* A compaction under way. *)
LEMMA CopyingFacts ==
  ASSUME NvInv, pc \in {"compact", "copy"}
  PROVE  /\ Compacting /\ Filling /\ (Operating \/ op.kind = "boot") /\ op.k \in Nat \ {0}
         /\ ReserveItems /\ ReserveOnce /\ PassedCopied /\ CopyUnderWay /\ ReserveRoom
         /\ scan = NoScan /\ (~Operating => op.id = Missing)
         /\ \A a \in Place : At(a).id = op.id => a[1] # pgRes
         /\ Operating =>
              /\ op.id \in Items /\ op.val \in Values
              /\ op.kind = "write" => op.src \in Place /\ Kept(op.src) /\ At(op.src).id = op.id
              /\ op.kind = "init" => \A a \in Place : Kept(a) => At(a).id # op.id
              /\ \A p \in Pages : pgOff[p] = Used(flash[p].items)
              /\ \A a \in Place : Live(At(a)) => Good(At(a)) \/ Bad(a)
<1>1. /\ Compacting /\ Filling /\ (Operating \/ op.kind = "boot") /\ op.k # 0
      /\ scan = NoScan /\ (~Operating => op.id = Missing)
  BY DEF NvInv, Phase, Filling
<1>2. op.k \in Nat \ {0}
  BY <1>1 DEF NvInv, Types, OpType
<1>3. ReserveItems /\ ReserveOnce /\ PassedCopied /\ CopyUnderWay /\ ReserveRoom
  BY <1>1 DEF NvInv, ReserveInv
<1>4. \A a \in Place : At(a).id = op.id => a[1] # pgRes
  BY <1>3 DEF ReserveItems, InReserve
<1>5. Operating => OpInv /\ ServeInv /\ Serving
  BY DEF NvInv, Serving
<1> QED BY <1>1, <1>2, <1>3, <1>4, <1>5 DEF OpInv, ServeInv, SourceSound, Operating

(* Marking an item old before it is copied keeps NvInv. *)
LEMMA CompactMarkStep ==
  ASSUME NvInv, CompactMark
  PROVE  NvInv'
<1> DEFINE s == Source
<1>1. /\ pc = "compact" /\ ToCopy # {} /\ ~At(s).old
      /\ flash' = WithItem(s, [At(s) EXCEPT !.old = TRUE])
      /\ UNCHANGED <<pgOff, pgLost, pgRes, hot, pc, op, scan>>
  BY DEF CompactMark
<1>2. Compacting /\ op.k \in Nat \ {0}
  BY <1>1, CopyingFacts
<1>3. /\ FlashType /\ FlashInv /\ OnlyCopies /\ pgRes \in Pages /\ op.com \in Pages
      /\ op.com # pgRes /\ InErasedState = {pgRes}
      /\ \A a \in Place : Kept(a) <=> a[1] # pgRes /\ Good(At(a))
  BY <1>2, CompactingFacts
<1>4. s \in Place /\ s[1] = op.com /\ Good(At(s)) /\ Kept(s)
  BY <1>1, <1>2, <1>3, SourceFacts
<1> HIDE DEF s
<1>5. \A b \in Place : Kept(b) /\ Same(s, b) => b = s
  BY <1>3, <1>4 DEF OnlyCopies
<1>6. /\ FlashInv' /\ FlashType' /\ Place' = Place
      /\ \A b \in Place : IF b = s
            THEN /\ At(b)'.id = At(b).id /\ At(b)'.len = At(b).len /\ At(b)'.val = At(b).val
                 /\ At(b)'.old
            ELSE At(b)' = At(b)
      /\ \A p \in Pages :
            /\ flash'[p].active = flash[p].active /\ flash'[p].xfer = flash[p].xfer
            /\ LastOf(p)' = LastOf(p) /\ Len(flash'[p].items) = Len(flash[p].items)
            /\ p # s[1] => flash'[p] = flash[p]
            /\ Used(flash'[p].items) = Used(flash[p].items)
  BY <1>1, <1>3, <1>4, <1>5, ItemMarked
<1>7. /\ \A b \in Place : /\ At(b)'.id = At(b).id /\ At(b)'.len = At(b).len
                          /\ At(b)'.val = At(b).val /\ (At(b).old => At(b)'.old)
                          /\ (Good(At(b)') <=> Good(At(b))) /\ (Live(At(b)') <=> Live(At(b)))
                          /\ (Kept(b)' <=> Kept(b)) /\ (b[1] = pgRes => At(b)' = At(b))
      /\ \A a, b \in Place : Same(a, b)' <=> Same(a, b)
  BY <1>3, <1>4, <1>6, PlaceFacts DEF Good, Live, Kept, Same
<1>8. Types'
  BY <1>1, <1>6 DEF NvInv, Types
<1>9. Compacting' /\ (Operating' <=> Operating) /\ Filling' /\ scan' = NoScan
      /\ (Operating \/ op.kind = "boot") /\ (~Operating => op.id = Missing)
  BY <1>1, <1>2, <1>6, CopyingFacts DEF Compacting, Operating, Filling
<1>10. Phase'
  BY <1>1, <1>2, <1>9 DEF Phase
<1>11. /\ ReserveItems /\ ReserveOnce /\ PassedCopied /\ ReserveRoom
  BY <1>1, CopyingFacts
<1>12. /\ \A a \in Place : /\ InReserve(a)' <=> InReserve(a)
                           /\ Passed(a)' <=> Passed(a)
                           /\ Bad(a)' <=> Bad(a)
       /\ \A a, b \in Place : IsCopyOf(a, b)' <=> IsCopyOf(a, b)
  BY <1>1, <1>6, <1>7 DEF InReserve, Passed, Bad, IsCopyOf
<1>13. ReserveItems'
  BY <1>1, <1>6, <1>7, <1>11, <1>12 DEF ReserveItems, InReserve
<1>14. ReserveOnce' /\ PassedCopied'
  BY <1>6, <1>7, <1>11, <1>12 DEF ReserveOnce, PassedCopied
<1>15. CopyUnderWay'
  BY <1>1 DEF CopyUnderWay
<1>16. ReserveRoom'
  <2>1. From' = From /\ LenOfNew' = LenOfNew
    BY <1>1 DEF From, LenOfNew, Operating
  <2>2. flash'[pgRes] = flash[pgRes]
    BY <1>3, <1>4, <1>6
  <2>3. LensToCome(op.k)' = LensToCome(op.k)
    <3> DEFINE items == flash[op.com].items
               new == flash'[op.com].items
    <3>1. DOMAIN items = 1 .. Len(items) /\ DOMAIN new = 1 .. Len(items)
      BY <1>3, <1>6 DEF FlashType, PageType
    <3>2. ASSUME NEW i \in 1 .. Len(items)
          PROVE  /\ new[i].id = items[i].id /\ new[i].len = items[i].len
                 /\ (Good(new[i]) <=> Good(items[i]))
      <4>1. <<op.com, i>> \in Place
        BY <1>3, PlaceFacts
      <4> QED BY <4>1, <1>7 DEF At
    <3> QED BY <1>1, <3>1, <3>2 DEF LensToCome
  <2>4. From = op.k
    BY <1>1 DEF From
  <2> QED BY <1>1, <1>11, <2>1, <2>2, <2>3, <2>4 DEF ReserveRoom
<1>17. ReserveInv'
  BY <1>13, <1>14, <1>15, <1>16 DEF ReserveInv
<1>18. OpInv'
  <2> SUFFICES ASSUME Operating PROVE OpInv'
    BY <1>9 DEF OpInv
  <2>1. op.kind = "write" => SourceSound'
    BY <1>1, <1>6, <1>7, CopyingFacts DEF SourceSound
  <2>2. op.kind = "init" => \A a \in Place' : Kept(a)' => At(a)'.id # op.id
    BY <1>1, <1>6, <1>7, CopyingFacts
  <2> QED BY <1>1, <2>1, <2>2, CopyingFacts DEF OpInv
<1>19. ServeInv'
  <2> SUFFICES ASSUME Operating PROVE ServeInv'
    BY <1>1, <1>9 DEF ServeInv, Serving
  <2>1. \A p \in Pages : pgOff'[p] = Used(flash'[p].items)
    BY <1>1, <1>6, CopyingFacts
  <2>2. \A a \in Place' : Live(At(a)') => Good(At(a)') \/ Bad(a)'
    BY <1>1, <1>6, <1>7, <1>12, CopyingFacts
  <2>3. \A a, b \in Place' : Kept(a)' /\ Kept(b)' /\ Same(a, b)' => a = b
    BY <1>3, <1>6, <1>7 DEF OnlyCopies
  <2> QED BY <2>1, <2>2, <2>3 DEF ServeInv
<1>20. ScanInv' /\ PickInv'
  BY <1>1 DEF ScanInv, PickInv
<1>21. HotInv'
  <2>1. \A a \in Place : Replaced(a)' <=> Replaced(a)
    BY <1>1, <1>7, <1>9, CopyingFacts DEF Replaced
  <2> QED BY <1>1, <1>6, <1>7, <2>1 DEF NvInv, HotInv
<1> QED BY <1>6, <1>8, <1>10, <1>17, <1>18, <1>19, <1>20, <1>21 DEF NvInv

(* The end of compactPage's loop keeps NvInv. *)
LEMMA CompactEndsStep ==
  ASSUME NvInv, CompactEnds
  PROVE  NvInv'
<1>1. /\ pc = "compact" /\ ToCopy = {}
      /\ pc' = IF op.kind = "boot" THEN "use" ELSE "header"
      /\ UNCHANGED <<flash, pgOff, pgLost, pgRes, hot, op, scan>>
  BY DEF CompactEnds
<1>2. Compacting /\ op.k \in Nat \ {0} /\ (Operating \/ op.kind = "boot")
      /\ (~Operating => op.id = Missing) /\ scan = NoScan
  BY <1>1, CopyingFacts
<1>3. /\ FlashType /\ FlashInv /\ OnlyCopies /\ pgRes \in Pages /\ op.com \in Pages
      /\ op.com # pgRes /\ InErasedState = {pgRes} /\ NoPage \notin Pages
  BY <1>2, CompactingFacts
<1>4. /\ FlashType' /\ Place' = Place
      /\ \A a \in Place : At(a)' = At(a) /\ (Kept(a)' <=> Kept(a))
      /\ \A a, b \in Place : Same(a, b)' <=> Same(a, b)
      /\ \A p \in Pages : LastOf(p)' = LastOf(p)
  BY <1>1, <1>3, FlashStays
<1>5. IF Operating THEN pc' = "header" ELSE pc' = "use"
  BY <1>1, <1>2 DEF Operating
<1>6. Types'
  BY <1>1, <1>4 DEF NvInv, Types
<1>7. FlashInv'
  BY <1>1, <1>3, FlashInvKept DEF FlashInv, RoomSound
<1>8. Compacting' /\ (Operating' <=> Operating) /\ Filling'
  BY <1>1, <1>2, <1>3 DEF Compacting, Operating, Filling
<1>9. Phase'
  BY <1>1, <1>2, <1>3, <1>5, <1>8 DEF Phase
<1>10. /\ ReserveItems /\ ReserveOnce /\ PassedCopied /\ ReserveRoom
  BY <1>1, CopyingFacts
<1>11. /\ \A a \in Place : /\ InReserve(a)' <=> InReserve(a)
                           /\ Passed(a)' <=> Passed(a)
                           /\ ~Bad(a)
       /\ \A a, b \in Place : IsCopyOf(a, b)' <=> IsCopyOf(a, b)
  BY <1>1, <1>4 DEF InReserve, Passed, Bad, IsCopyOf
<1>12. ReserveItems'
  BY <1>1, <1>4, <1>10, <1>11 DEF ReserveItems
<1>13. ReserveOnce' /\ PassedCopied'
  BY <1>4, <1>10, <1>11 DEF ReserveOnce, PassedCopied
<1>14. CopyUnderWay'
  <2>1. ToCopy' = ToCopy
    BY <1>1 DEF ToCopy
  <2> QED BY <1>1, <1>5, <2>1 DEF CopyUnderWay
<1>15. ReserveRoom'
  <2>1. From' = From /\ LenOfNew' = LenOfNew
    BY <1>1, <1>5, <1>8 DEF From, LenOfNew
  <2>2. \A from : LensToCome(from)' = LensToCome(from)
    BY <1>1 DEF LensToCome
  <2> QED BY <1>1, <1>10, <2>1, <2>2 DEF ReserveRoom
<1>16. ReserveInv'
  BY <1>12, <1>13, <1>14, <1>15 DEF ReserveInv
<1>17. OpInv'
  <2> SUFFICES ASSUME Operating PROVE OpInv'
    BY <1>8 DEF OpInv
  <2>1. op.kind = "write" => SourceSound'
    BY <1>1, <1>4, <1>5, CopyingFacts DEF SourceSound
  <2>2. op.kind = "init" => \A a \in Place' : Kept(a)' => At(a)'.id # op.id
    BY <1>1, <1>4, CopyingFacts
  <2> QED BY <1>1, <1>3, <1>5, <2>1, <2>2, CopyingFacts DEF OpInv
<1>18. ServeInv'
  <2> SUFFICES ASSUME Operating PROVE ServeInv'
    BY <1>1, <1>5, <1>8 DEF ServeInv, Serving
  <2>1. \A p \in Pages : pgOff'[p] = Used(flash'[p].items)
    BY <1>1, CopyingFacts
  <2>2. \A a \in Place' : Live(At(a)') => Good(At(a)')
    BY <1>1, <1>4, <1>11, CopyingFacts
  <2>3. \A a, b \in Place' : Kept(a)' /\ Kept(b)' /\ Same(a, b)' => a = b
    BY <1>3, <1>4 DEF OnlyCopies
  <2> QED BY <2>1, <2>2, <2>3 DEF ServeInv
<1>19. ScanInv' /\ PickInv'
  BY <1>5 DEF ScanInv, PickInv
<1>20. HotInv'
  <2>1. \A a \in Place : Replaced(a) => Replaced(a)'
    <3> SUFFICES ASSUME NEW a \in Place, Replaced(a) PROVE Replaced(a)'
      OBVIOUS
    <3>1. a[1] = op.com /\ At(a).id # op.id /\ a[2] < op.k
      BY <1>1 DEF Replaced
    <3> QED BY <1>1, <1>4, <1>8, <3>1 DEF Replaced
  <2> QED BY <1>1, <1>3, <1>4, <1>5, <2>1 DEF NvInv, HotInv
<1> QED BY <1>6, <1>7, <1>9, <1>16, <1>17, <1>18, <1>19, <1>20 DEF NvInv

(* The header of a copy keeps NvInv: the copy fits behind what was copied before. *)
LEMMA CompactHeaderStep ==
  ASSUME NvInv, CompactHeader
  PROVE  NvInv'
<1>01. PICK s : s = Source
  OBVIOUS
<1>02. PICK n : n = <<pgRes, Len(flash[pgRes].items) + 1>>
  OBVIOUS
<1>1. /\ pc = "compact" /\ ToCopy # {} /\ At(s).old
      /\ flash' = Appended(pgRes, Header(At(s).id))
      /\ pgOff' = [pgOff EXCEPT ![pgRes] = @ + At(s).len]
      /\ pc' = "copy" /\ UNCHANGED <<pgLost, pgRes, hot, op, scan>>
  BY <1>01 DEF CompactHeader
<1>2. Compacting /\ op.k \in Nat \ {0} /\ (Operating \/ op.kind = "boot")
      /\ (~Operating => op.id = Missing) /\ scan = NoScan
  BY <1>1, CopyingFacts
<1>3. /\ FlashType /\ FlashInv /\ OnlyCopies /\ pgRes \in Pages /\ op.com \in Pages
      /\ op.com # pgRes /\ InErasedState = {pgRes}
      /\ \A a \in Place : Kept(a) <=> a[1] # pgRes /\ Good(At(a))
  BY <1>2, CompactingFacts
<1>4. /\ s \in Place /\ s[1] = op.com /\ Good(At(s)) /\ Kept(s) /\ At(s).id # op.id
      /\ At(s).id \in Items /\ op.k <= s[2] /\ s[2] \in ToCopy /\ s[2] \in Nat
  BY <1>01, <1>1, <1>2, <1>3, SourceFacts, PlaceFacts DEF Good, Live
<1>5. /\ ReserveItems /\ ReserveOnce /\ PassedCopied /\ ReserveRoom
      /\ \A a \in Place : ~Bad(a)
  BY <1>1, CopyingFacts DEF Bad
<1>6. At(s).len = Size[At(s).id] /\ Size[At(s).id] \in 1 .. PageSize
  BY <1>3, <1>4, SizeAssumption DEF FlashInv, ItemsSound
<1>7. ~IsTorn(flash[pgRes].items)
  <2> SUFFICES ASSUME NEW i \in DOMAIN flash[pgRes].items, flash[pgRes].items[i].id = Torn
               PROVE FALSE
    BY DEF IsTorn
  <2>1. i \in 1 .. Len(flash[pgRes].items)
    BY <1>3 DEF FlashType, PageType
  <2>2. <<pgRes, i>> \in Place
    BY <1>3, <2>1, PlaceFacts
  <2>3. Live(At(<<pgRes, i>>))
    BY <1>5, <2>2 DEF ReserveItems, InReserve
  <2> QED BY <2>3, ValuesAssumption DEF Live, At
<1>8. /\ From = op.k /\ LenOfNew \in Nat /\ LenOf(flash[pgRes].items) \in Nat
      /\ Total(LensToCome(s[2] + 1)) + At(s).len = Total(LensToCome(op.k))
      /\ Total(LensToCome(s[2] + 1)) \in Nat /\ Total(LensToCome(op.k)) \in Nat
      /\ LenOf(flash[pgRes].items) + Total(LensToCome(op.k)) + LenOfNew <= PageSize
  <2>1. From = op.k
    BY <1>1 DEF From
  <2>2. LenOfNew \in Nat
    BY <1>1, SizeAssumption, CopyingFacts DEF LenOfNew
  <2>3. LenOf(flash[pgRes].items) \in Nat
    BY <1>3, LostFacts DEF FlashType, PageType
  <2>4. Total(LensToCome(s[2] + 1)) + At(s).len = Total(LensToCome(op.k))
    BY <1>01, <1>1, <1>2, <1>3, ToComeNext
  <2>5. s[2] + 1 \in Nat /\ op.k \in Nat
    BY <1>2, <1>4
  <2>6. Total(LensToCome(s[2] + 1)) \in Nat /\ Total(LensToCome(op.k)) \in Nat
    <3> QED BY <1>3, <2>5, ToComeType
  <2> QED BY <1>5, <2>1, <2>2, <2>3, <2>4, <2>6 DEF ReserveRoom
<1>9. LenOf(flash[pgRes].items) + Size[At(s).id] <= PageSize
  BY <1>6, <1>8, PagesAssumption
<1>10. /\ FlashInv' /\ FlashType'
       /\ n \notin Place /\ Place' = Place \cup {n} /\ n[1] = pgRes
       /\ LastOf(pgRes)' = n
       /\ At(n)'.id = At(s).id /\ At(n)'.len = Size[At(s).id] /\ At(n)'.val = Erased
       /\ ~At(n)'.old
       /\ \A b \in Place : At(b)' = At(b) /\ (b[1] = pgRes => b[2] < n[2])
       /\ LenOf(flash'[pgRes].items) = LenOf(flash[pgRes].items) + Size[At(s).id]
       /\ ~IsTorn(flash'[pgRes].items)
       /\ \A q \in Pages : /\ flash'[q].active = flash[q].active
                           /\ flash'[q].xfer = flash[q].xfer
                           /\ q # pgRes => flash'[q] = flash[q]
  BY <1>1, <1>3, <1>4, <1>7, <1>9, <1>02, HeaderAppended
<1>11. /\ \A b \in Place : Kept(b)' <=> Kept(b)
       /\ \A b, c \in Place : Same(b, c)' <=> Same(b, c)
       /\ ~Kept(n)' /\ ~Good(At(n)') /\ Live(At(n)')
  BY <1>3, <1>4, <1>10, PlaceFacts DEF Kept, Same, Good, Live
<1>12. Types'
  <2>1. pgOff \in [Pages -> 0 .. PageSize] /\ pgOff[pgRes] = LenOf(flash[pgRes].items)
    BY <1>5 DEF NvInv, Types, ReserveRoom
  <2>2. pgOff[pgRes] + At(s).len \in 0 .. PageSize
    BY <1>6, <1>8, <1>9, <2>1, PagesAssumption
  <2>3. pgOff' \in [Pages -> 0 .. PageSize]
    BY <1>1, <1>3, <2>1, <2>2
  <2> QED BY <1>1, <1>10, <2>3 DEF NvInv, Types
<1>13. Compacting' /\ (Operating' <=> Operating) /\ Filling'
  BY <1>1, <1>2, <1>3, <1>10 DEF Compacting, Operating, Filling
<1>14. Phase'
  BY <1>1, <1>2, <1>13 DEF Phase
<1>15. ToCopy' = ToCopy /\ Source' = s /\ \A from : LensToCome(from)' = LensToCome(from)
  <2>1. flash'[op.com] = flash[op.com]
    BY <1>3, <1>10
  <2>2. ToCopy' = ToCopy
    BY <1>1, <2>1 DEF ToCopy
  <2> QED BY <1>01, <1>1, <2>1, <2>2 DEF Source, LensToCome
<1>16. /\ \A a \in Place : /\ InReserve(a)' <=> InReserve(a)
                           /\ Passed(a)' <=> Passed(a)
       /\ \A a, b \in Place : IsCopyOf(a, b)' <=> IsCopyOf(a, b)
       /\ InReserve(n)' /\ Bad(n)' /\ ~Passed(n)'
  BY <1>1, <1>3, <1>10, <1>11 DEF InReserve, Passed, Bad, IsCopyOf
<1>17. ReserveItems'
  <2> SUFFICES ASSUME NEW a \in Place', InReserve(a)'
               PROVE  /\ Live(At(a)') /\ ~At(a)'.old
                      /\ ~Good(At(a)') => Bad(a)'
                      /\ At(a)'.id # op.id
                      /\ Good(At(a)') => \E b \in Place' : Passed(b)' /\ IsCopyOf(a, b)'
    BY <1>1 DEF ReserveItems
  <2>1. CASE a = n
    BY <1>4, <1>10, <1>11, <1>16, <2>1
  <2>2. CASE a # n
    <3>1. a \in Place /\ At(a)' = At(a) /\ InReserve(a)
      BY <1>10, <1>16, <2>2
    <3>2. Live(At(a)) /\ ~At(a).old /\ Good(At(a)) /\ At(a).id # op.id
      BY <1>1, <1>5, <3>1 DEF ReserveItems
    <3>3. PICK b \in Place : Passed(b) /\ IsCopyOf(a, b)
      BY <1>5, <3>1, <3>2 DEF ReserveItems
    <3> QED BY <1>10, <1>16, <3>1, <3>2, <3>3
  <2> QED BY <2>1, <2>2
<1>18. ReserveOnce'
  <2>1. ASSUME NEW a \in Place, InReserve(a), At(a).id = At(s).id PROVE FALSE
    <3>1. Good(At(a)) /\ At(a).id # op.id
      BY <1>1, <1>4, <1>5, <2>1 DEF ReserveItems
    <3>2. PICK b \in Place : Passed(b) /\ IsCopyOf(a, b)
      BY <1>5, <2>1, <3>1 DEF ReserveItems
    <3>3. Kept(b) /\ Same(b, s) /\ b[2] < op.k /\ b[2] \in Nat
      BY <1>3, <2>1, <3>2, PlaceFacts DEF Passed, IsCopyOf, Same
    <3>4. b = s
      BY <1>3, <1>4, <3>3 DEF OnlyCopies
    <3> QED BY <1>2, <1>4, <3>3, <3>4
  <2>2. ASSUME NEW a \in Place', NEW b \in Place', InReserve(a)', InReserve(b)', Same(a, b)'
        PROVE  a = b
    <3>1. CASE a = n /\ b = n
      BY <3>1
    <3>2. CASE a # n /\ b # n
      BY <1>5, <1>10, <1>11, <1>16, <2>2, <3>2 DEF ReserveOnce
    <3>3. CASE a = n /\ b # n
      <4>1. b \in Place /\ InReserve(b) /\ At(b)' = At(b)
        BY <1>10, <1>16, <2>2, <3>3
      <4>2. At(b).id = At(s).id
        BY <1>10, <2>2, <3>3, <4>1 DEF Same
      <4> QED BY <2>1, <4>1, <4>2
    <3>4. CASE a # n /\ b = n
      <4>1. a \in Place /\ InReserve(a) /\ At(a)' = At(a)
        BY <1>10, <1>16, <2>2, <3>4
      <4>2. At(a).id = At(s).id
        BY <1>10, <2>2, <3>4, <4>1 DEF Same
      <4> QED BY <2>1, <4>1, <4>2
    <3> QED BY <3>1, <3>2, <3>3, <3>4
  <2> QED BY <2>2 DEF ReserveOnce
<1>19. PassedCopied'
  <2> SUFFICES ASSUME NEW b \in Place', Passed(b)'
               PROVE  At(b)'.old /\ \E a \in Place' : InReserve(a)' /\ IsCopyOf(a, b)'
    BY DEF PassedCopied
  <2>1. b \in Place /\ Passed(b) /\ At(b)' = At(b)
    BY <1>10, <1>16
  <2>2. PICK a \in Place : InReserve(a) /\ IsCopyOf(a, b)
    BY <1>5, <2>1 DEF PassedCopied
  <2> QED BY <1>5, <1>10, <1>16, <2>1, <2>2 DEF PassedCopied
<1>20. CopyUnderWay'
  BY <1>1, <1>3, <1>4, <1>10, <1>15 DEF CopyUnderWay
<1>21. ReserveRoom'
  <2>1. From' = s[2] + 1 /\ LenOfNew' = LenOfNew
    BY <1>1, <1>13, <1>15 DEF From, LenOfNew
  <2>2. Total(LensToCome(s[2] + 1)') = Total(LensToCome(s[2] + 1))
    BY <1>15
  <2>3. LenOf(flash'[pgRes].items) + Total(LensToCome(s[2] + 1)) + LenOfNew <= PageSize
    BY <1>6, <1>8, <1>10, PagesAssumption
  <2>4. pgOff'[pgRes] = LenOf(flash'[pgRes].items)
    BY <1>1, <1>3, <1>5, <1>6, <1>10 DEF ReserveRoom, NvInv, Types
  <2> QED BY <1>1, <2>1, <2>2, <2>3, <2>4 DEF ReserveRoom
<1>22. ReserveInv'
  BY <1>17, <1>18, <1>19, <1>20, <1>21 DEF ReserveInv
<1>23. OpInv'
  <2> SUFFICES ASSUME Operating PROVE OpInv'
    BY <1>13 DEF OpInv
  <2>1. op.kind = "write" => SourceSound'
    BY <1>1, <1>10, <1>11, CopyingFacts DEF SourceSound
  <2>2. op.kind = "init" => \A a \in Place' : Kept(a)' => At(a)'.id # op.id
    BY <1>1, <1>10, <1>11, CopyingFacts
  <2> QED BY <1>1, <2>1, <2>2, CopyingFacts DEF OpInv
<1>24. ServeInv'
  <2> SUFFICES ASSUME Operating PROVE ServeInv'
    BY <1>1, <1>13 DEF ServeInv, Serving
  <2>1. ASSUME NEW p \in Pages PROVE pgOff'[p] = Used(flash'[p].items)
    <3>1. CASE p # pgRes
      BY <1>1, <1>3, <1>10, <3>1, CopyingFacts DEF NvInv, Types
    <3>2. CASE p = pgRes
      <4>1. pgOff'[p] = LenOf(flash'[p].items)
        BY <1>1, <1>3, <1>5, <1>6, <1>10, <3>2 DEF ReserveRoom, NvInv, Types
      <4> QED BY <1>10, <3>2, <4>1 DEF Used
    <3> QED BY <3>1, <3>2
  <2>2. \A a \in Place' : Live(At(a)') => Good(At(a)') \/ Bad(a)'
    BY <1>1, <1>5, <1>10, <1>16, CopyingFacts
  <2>3. \A a, b \in Place' : Kept(a)' /\ Kept(b)' /\ Same(a, b)' => a = b
    BY <1>3, <1>10, <1>11 DEF OnlyCopies
  <2> QED BY <2>1, <2>2, <2>3 DEF ServeInv
<1>25. ScanInv' /\ PickInv'
  BY <1>1 DEF ScanInv, PickInv
<1>26. HotInv'
  <2>1. \A a \in Place : Replaced(a)' <=> Replaced(a)
    BY <1>1, <1>10, <1>13, CopyingFacts DEF Replaced
  <2>2. NoPage \notin Pages
    BY DEF NoPage, Pages
  <2> QED BY <1>1, <1>3, <1>10, <1>11, <2>1, <2>2 DEF NvInv, HotInv
<1> QED BY <1>10, <1>12, <1>14, <1>22, <1>23, <1>24, <1>25, <1>26 DEF NvInv

(* The data of a copy keeps NvInv: the item passed now has its copy. *)
LEMMA CompactDataStep ==
  ASSUME NvInv, CompactData
  PROVE  NvInv'
<1>01. PICK s : s = Source
  OBVIOUS
<1>02. PICK n : n = LastOf(pgRes)
  OBVIOUS
<1>1. /\ pc = "copy" /\ pc' = "compact"
      /\ flash' = WithItem(n, [At(n) EXCEPT !.val = At(s).val])
      /\ hot' = HotItemUpdate(At(s).id, n)
      /\ op' = [op EXCEPT !.k = s[2] + 1]
      /\ UNCHANGED <<pgOff, pgLost, pgRes, scan>>
  BY <1>01, <1>02 DEF CompactData
<1>2. Compacting /\ op.k \in Nat \ {0} /\ (Operating \/ op.kind = "boot")
      /\ (~Operating => op.id = Missing) /\ scan = NoScan /\ op \in OpType
  BY <1>1, CopyingFacts DEF NvInv, Types
<1>3. /\ FlashType /\ FlashInv /\ OnlyCopies /\ pgRes \in Pages /\ op.com \in Pages
      /\ op.com # pgRes /\ InErasedState = {pgRes} /\ ~flash[pgRes].active
      /\ \A a \in Place : Kept(a) <=> a[1] # pgRes /\ Good(At(a))
  BY <1>2, CompactingFacts DEF Compacting
<1>4. /\ ReserveItems /\ ReserveOnce /\ PassedCopied /\ ReserveRoom
      /\ ToCopy # {} /\ At(s).old /\ n \in Place /\ At(n).id = At(s).id /\ At(n).val = Erased
  BY <1>01, <1>02, <1>1, CopyingFacts DEF CopyUnderWay
<1>5. /\ s \in Place /\ s[1] = op.com /\ Good(At(s)) /\ Kept(s) /\ At(s).id # op.id
      /\ At(s).id \in Items /\ op.k <= s[2] /\ s[2] \in ToCopy /\ s[2] \in Nat
      /\ At(s).val \in Values /\ s = <<op.com, s[2]>>
      /\ \A i \in ToCopy : s[2] <= i
  BY <1>01, <1>2, <1>3, <1>4, SourceFacts, PlaceFacts DEF Good, Live, ItemType
<1>6. n[1] = pgRes /\ n # s /\ Live(At(n)) /\ n \in PlaceType /\ InReserve(n)
  BY <1>02, <1>3, <1>4, <1>5, PlaceFacts DEF LastOf, Live, PlaceType, InReserve
<1>7. \A a \in Place : Bad(a) <=> a = n
  BY <1>02, <1>1 DEF Bad
<1>8. /\ FlashInv' /\ FlashType' /\ Place' = Place
      /\ \A b \in Place : IF b = n
            THEN /\ At(b)'.id = At(b).id /\ At(b)'.len = At(b).len /\ At(b)'.val = At(s).val
                 /\ ~At(b)'.old /\ Good(At(b)')
            ELSE At(b)' = At(b)
      /\ \A p \in Pages :
            /\ flash'[p].active = flash[p].active /\ flash'[p].xfer = flash[p].xfer
            /\ LastOf(p)' = LastOf(p)
            /\ p # n[1] => flash'[p] = flash[p]
            /\ LenOf(flash'[p].items) = LenOf(flash[p].items)
            /\ Used(flash'[p].items) = Used(flash[p].items)
  BY <1>1, <1>3, <1>4, <1>5, <1>6, DataWritten
<1>9. /\ \A b \in Place : /\ At(b)'.id = At(b).id
                          /\ (Kept(b)' <=> Kept(b))
                          /\ (b[1] # pgRes => At(b)' = At(b))
                          /\ Live(At(b)') <=> Live(At(b))
      /\ \A a, b \in Place : Same(a, b)' <=> Same(a, b)
  BY <1>3, <1>6, <1>8, PlaceFacts DEF Kept, Same, Live
<1>10. /\ op'.k = s[2] + 1 /\ op'.kind = op.kind /\ op'.id = op.id /\ op'.val = op.val
       /\ op'.src = op.src /\ op'.com = op.com /\ op'.dst = op.dst /\ op' \in OpType
       /\ op'.k \in Nat \ {0} /\ op.k <= op'.k
  BY <1>1, <1>2, <1>5 DEF OpType
<1>11. Types'
  <2>1. hot' \in [HotIds -> PlaceType]
    BY <1>1, <1>6 DEF NvInv, Types, HotItemUpdate
  <2> QED BY <1>1, <1>8, <1>10, <2>1 DEF NvInv, Types
<1>12. Compacting' /\ (Operating' <=> Operating) /\ Filling'
  BY <1>1, <1>2, <1>3, <1>8, <1>10 DEF Compacting, Operating, Filling
<1>13. Phase'
  BY <1>1, <1>2, <1>10, <1>12 DEF Phase
<1>14. /\ \A a \in Place : /\ InReserve(a)' <=> InReserve(a)
                           /\ Passed(a)' <=> Passed(a) \/ a = s
       /\ \A a \in Place : ~Bad(a)'
  <2>1. \A a \in Place : InReserve(a)' <=> InReserve(a)
    BY <1>1, <1>8 DEF InReserve
  <2>2. \A a \in Place : ~Bad(a)'
    BY <1>1 DEF Bad
  <2>3. ASSUME NEW a \in Place PROVE Passed(a)' <=> Passed(a) \/ a = s
    <3>1. CASE a[1] # op.com
      BY <1>5, <1>8, <1>10, <3>1 DEF Passed
    <3>2. CASE a[1] = op.com
      <4>1. At(a)' = At(a) /\ a[2] \in 1 .. Len(flash[op.com].items) /\ a = <<a[1], a[2]>>
            /\ a[2] \in Nat
        BY <1>3, <1>9, <3>2, PlaceFacts
      <4>2. Passed(a)' <=> a[2] < s[2] + 1 /\ Good(At(a)) /\ At(a).id # op.id
        BY <1>8, <1>10, <3>2, <4>1 DEF Passed
      <4>3. Passed(a) <=> a[2] < op.k /\ Good(At(a)) /\ At(a).id # op.id
        BY <3>2 DEF Passed
      <4>4. a[2] >= op.k /\ Good(At(a)) /\ At(a).id # op.id => s[2] <= a[2]
        <5>1. At(a) = flash[op.com].items[a[2]]
          BY <3>2 DEF At
        <5>2. a[2] >= op.k /\ Good(At(a)) /\ At(a).id # op.id => a[2] \in ToCopy
          BY <1>2, <4>1, <5>1 DEF ToCopy
        <5> QED BY <1>5, <5>2
      <4>5. a[2] = s[2] => a = s
        BY <1>5, <3>2, <4>1
      <4>6. CASE a[2] < op.k
        BY <1>2, <1>5, <4>1, <4>2, <4>3, <4>6
      <4>7. CASE a[2] >= op.k
        BY <1>2, <1>5, <4>1, <4>2, <4>3, <4>4, <4>5, <4>7
      <4> QED BY <1>2, <4>1, <4>6, <4>7
    <3> QED BY <3>1, <3>2
  <2> QED BY <2>1, <2>2, <2>3
<1>15. ASSUME NEW a \in Place, a[1] = pgRes, a # n, NEW b \in Place, Passed(b)
       PROVE  IsCopyOf(a, b)' <=> IsCopyOf(a, b)
  <2>1. At(a)' = At(a) /\ At(b)' = At(b)
    BY <1>3, <1>8, <1>9, <1>15 DEF Passed
  <2> QED BY <2>1 DEF IsCopyOf, Same
<1>16. IsCopyOf(n, s)'
  BY <1>4, <1>5, <1>6, <1>8 DEF IsCopyOf, Same
<1>17. ReserveItems'
  <2> SUFFICES ASSUME NEW a \in Place, InReserve(a)
               PROVE  /\ Live(At(a)') /\ ~At(a)'.old /\ Good(At(a)')
                      /\ At(a)'.id # op.id
                      /\ \E b \in Place : Passed(b)' /\ IsCopyOf(a, b)'
    BY <1>1, <1>8, <1>10, <1>14 DEF ReserveItems
  <2>1. CASE a = n
    BY <1>4, <1>5, <1>6, <1>8, <1>9, <1>14, <1>16, <2>1
  <2>2. CASE a # n
    <3>1. At(a)' = At(a) /\ a[1] = pgRes
      BY <1>8, <2>2 DEF InReserve
    <3>2. Live(At(a)) /\ ~At(a).old /\ Good(At(a)) /\ At(a).id # op.id
      BY <1>1, <1>4, <1>7, <2>2 DEF ReserveItems
    <3>3. PICK b \in Place : Passed(b) /\ IsCopyOf(a, b)
      BY <1>4, <3>2 DEF ReserveItems
    <3> QED BY <1>14, <1>15, <2>2, <3>1, <3>2, <3>3
  <2> QED BY <2>1, <2>2
<1>18. ReserveOnce'
  BY <1>4, <1>8, <1>9, <1>14 DEF ReserveOnce
<1>19. PassedCopied'
  <2> SUFFICES ASSUME NEW b \in Place, Passed(b)'
               PROVE  At(b)'.old /\ \E a \in Place : InReserve(a) /\ IsCopyOf(a, b)'
    BY <1>8, <1>14 DEF PassedCopied
  <2>1. CASE b = s
    BY <1>3, <1>4, <1>5, <1>6, <1>9, <1>16, <2>1
  <2>2. CASE b # s
    <3>1. Passed(b) /\ b[1] = op.com
      BY <1>14, <2>2 DEF Passed
    <3>2. PICK a \in Place : InReserve(a) /\ IsCopyOf(a, b)
      BY <1>4, <3>1 DEF PassedCopied
    <3>3. a # n
      BY <1>4, <3>1, <3>2 DEF IsCopyOf, Passed, Good
    <3>4. At(b)' = At(b) /\ At(b).old
      BY <1>3, <1>4, <1>9, <3>1 DEF PassedCopied
    <3> QED BY <1>15, <3>1, <3>2, <3>3, <3>4 DEF InReserve
  <2> QED BY <2>1, <2>2
<1>20. CopyUnderWay'
  BY <1>1 DEF CopyUnderWay
<1>21. ReserveRoom'
  <2>1. From' = s[2] + 1 /\ From = s[2] + 1 /\ LenOfNew' = LenOfNew
    BY <1>01, <1>1, <1>10, <1>12 DEF From, LenOfNew
  <2>2. flash'[op.com] = flash[op.com]
    BY <1>3, <1>6, <1>8
  <2>3. LensToCome(s[2] + 1)' = LensToCome(s[2] + 1)
    BY <1>10, <2>2 DEF LensToCome
  <2>4. LenOf(flash'[pgRes].items) = LenOf(flash[pgRes].items)
    BY <1>3, <1>8
  <2> QED BY <1>1, <1>4, <2>1, <2>3, <2>4 DEF ReserveRoom
<1>22. ReserveInv'
  BY <1>17, <1>18, <1>19, <1>20, <1>21 DEF ReserveInv
<1>23. OpInv'
  <2> SUFFICES ASSUME Operating PROVE OpInv'
    BY <1>12 DEF OpInv
  <2>1. op.kind = "write" => SourceSound'
    BY <1>1, <1>8, <1>9, <1>10, CopyingFacts DEF SourceSound
  <2>2. op.kind = "init" => \A a \in Place' : Kept(a)' => At(a)'.id # op.id
    BY <1>1, <1>8, <1>9, CopyingFacts
  <2> QED BY <1>1, <1>10, <2>1, <2>2, CopyingFacts DEF OpInv
<1>24. ServeInv'
  <2> SUFFICES ASSUME Operating PROVE ServeInv'
    BY <1>1, <1>12 DEF ServeInv, Serving
  <2>1. \A p \in Pages : pgOff'[p] = Used(flash'[p].items)
    BY <1>1, <1>8, CopyingFacts
  <2>2. \A a \in Place' : Live(At(a)') => Good(At(a)')
    BY <1>1, <1>7, <1>8, <1>9, CopyingFacts
  <2>3. \A a, b \in Place' : Kept(a)' /\ Kept(b)' /\ Same(a, b)' => a = b
    BY <1>3, <1>8, <1>9 DEF OnlyCopies
  <2> QED BY <2>1, <2>2, <2>3 DEF ServeInv
<1>25. ScanInv' /\ PickInv'
  BY <1>1 DEF ScanInv, PickInv
<1>26. HotInv'
  <2>1. hot \in [HotIds -> PlaceType]
        /\ \A x \in HotIds : hot'[x] = IF x = At(s).id THEN n ELSE hot[x]
    BY <1>1 DEF NvInv, Types, HotItemUpdate
  <2>2. ASSUME NEW a \in Place, Good(At(a)'), ~Replaced(a)' PROVE ~Replaced(a) /\ a # s
    <3>1. a # s
      <4>1. Passed(s)'
        BY <1>5, <1>14
      <4> QED BY <1>8, <1>12, <2>2, <4>1 DEF Replaced, Passed
    <3>2. ~Replaced(a)
      <4> SUFFICES ASSUME Replaced(a) PROVE FALSE
        OBVIOUS
      <4>1. a[1] = op.com /\ At(a).id # op.id /\ a[2] < op.k
        BY <1>1 DEF Replaced
      <4>2. a[2] < op'.k /\ At(a)' = At(a)
        BY <1>2, <1>3, <1>9, <1>10, <4>1, PlaceFacts
      <4> QED BY <1>10, <1>12, <2>2, <4>1, <4>2 DEF Replaced
    <3> QED BY <3>1, <3>2
  <2>3. ASSUME NEW x \in HotIds, hot'[x] # NoPlace,
               NEW a \in Place, At(a)'.id = x, Good(At(a)'), ~Replaced(a)'
        PROVE  a = hot'[x]
    <3>1. ~Replaced(a) /\ a # s /\ At(a).id = x
      BY <1>9, <2>2, <2>3
    <3>2. CASE x = At(s).id
      <4>1. CASE a[1] = pgRes
        <5>1. InReserve(a) /\ Same(a, n)
          BY <1>4, <3>1, <3>2, <4>1 DEF InReserve, Same
        <5> QED BY <1>4, <1>6, <2>1, <3>2, <5>1 DEF ReserveOnce
      <4>2. CASE a[1] # pgRes
        <5>1. Kept(a) /\ Same(a, s)
          BY <1>3, <1>9, <2>3, <3>1, <3>2, <4>2 DEF Same
        <5> QED BY <1>3, <1>5, <3>1, <5>1 DEF OnlyCopies
      <4> QED BY <4>1, <4>2
    <3>3. CASE x # At(s).id
      <4>1. a # n
        BY <1>4, <3>1, <3>3
      <4>2. At(a)' = At(a)
        BY <1>8, <4>1
      <4> QED BY <2>1, <2>3, <3>1, <3>3, <4>2 DEF NvInv, HotInv
    <3> QED BY <3>2, <3>3
  <2>4. pgRes # NoPage
    BY <1>3 DEF NoPage, Pages
  <2> QED BY <1>1, <1>8, <2>3, <2>4 DEF HotInv
<1> QED BY <1>8, <1>11, <1>13, <1>22, <1>23, <1>24, <1>25, <1>26 DEF NvInv

(* A new copy is being written. *)
LEMMA WritingFacts ==
  ASSUME NvInv, pc \in {"header", "markSource", "data"}
  PROVE  /\ FlashType /\ FlashInv /\ pgRes \in Pages /\ op.dst \in Pages /\ NoPage \notin Pages
         /\ InErasedState = {pgRes} /\ Operating /\ OnlyCopies /\ scan = NoScan /\ op \in OpType
         /\ op.id \in Items /\ op.val \in Values
         /\ op.kind = "write" => op.src \in Place /\ Kept(op.src) /\ At(op.src).id = op.id
         /\ op.kind = "write" /\ pc = "data" => At(op.src).old
         /\ op.kind = "init" => \A a \in Place : Kept(a) => At(a).id # op.id
         /\ \A p \in Pages : pgOff[p] = Used(flash[p].items)
         /\ \A a \in Place : Live(At(a)) => Good(At(a)) \/ Bad(a)
         /\ \A a \in Place : Kept(a) <=> a[1] # pgRes /\ Good(At(a))
         /\ op.com = NoPage => ReserveBlank /\ op.dst # pgRes /\ MarkedPages = {} /\ ~Filling
         /\ op.com # NoPage => /\ Compacting /\ op.dst = pgRes /\ op.com \in Pages
                               /\ op.com # pgRes /\ Filling /\ op.k \in Nat \ {0}
                               /\ ReserveItems /\ ReserveOnce /\ PassedCopied
                               /\ ToCopy = {} /\ ReserveRoom
<1>1. FlashType /\ FlashInv /\ op \in OpType /\ NoPage \notin Pages
  BY DEF NvInv, Types, NoPage, Pages
<1>2. /\ Operating /\ scan = NoScan
      /\ IF op.com = NoPage THEN ReserveBlank /\ op.dst \in Pages \ {pgRes}
                            ELSE Compacting
  BY DEF NvInv, Phase
<1>3. /\ pgRes \in Pages /\ op.dst \in Pages /\ InErasedState = {pgRes}
      /\ \A p \in Pages \ {pgRes} : flash[p].active
      /\ ~flash[pgRes].active
  <2>1. CASE op.com = NoPage
    BY <1>2, <2>1 DEF ReserveBlank, Blank, InErasedState
  <2>2. CASE op.com # NoPage
    BY <1>2, <2>2 DEF Compacting, InErasedState
  <2> QED BY <2>1, <2>2
<1>4. \A a \in Place : Kept(a) <=> a[1] # pgRes /\ Good(At(a))
  BY <1>1, <1>3, PlaceFacts DEF Kept
<1>5. /\ op.id \in Items /\ op.val \in Values
      /\ op.kind = "write" => op.src \in Place /\ Kept(op.src) /\ At(op.src).id = op.id
      /\ op.kind = "write" /\ pc = "data" => At(op.src).old
      /\ op.kind = "init" => \A a \in Place : Kept(a) => At(a).id # op.id
  BY <1>2 DEF NvInv, OpInv, SourceSound
<1>6. /\ \A p \in Pages : pgOff[p] = Used(flash[p].items)
      /\ \A a \in Place : Live(At(a)) => Good(At(a)) \/ Bad(a)
      /\ OnlyCopies
  BY <1>2 DEF NvInv, ServeInv, Serving, OnlyCopies, Spare
<1>7. ASSUME op.com = NoPage PROVE op.dst # pgRes /\ MarkedPages = {} /\ ~Filling
  BY <1>2, <1>7 DEF ReserveBlank, Blank, MarkedPages, Filling
<1>8. ASSUME op.com # NoPage
      PROVE  /\ Compacting /\ op.dst = pgRes /\ op.com \in Pages
             /\ op.com # pgRes /\ Filling /\ op.k \in Nat \ {0}
             /\ ReserveItems /\ ReserveOnce /\ PassedCopied
             /\ ToCopy = {} /\ ReserveRoom
  <2>1. Compacting /\ op.dst = pgRes /\ op.com \in Pages /\ op.com # pgRes /\ Filling
    BY <1>2, <1>8 DEF Compacting, Filling
  <2>2. ReserveItems /\ ReserveOnce /\ PassedCopied /\ CopyUnderWay /\ ReserveRoom
    BY <2>1 DEF NvInv, ReserveInv
  <2>3. op.k \in Nat \ {0}
    BY <1>1, <1>8 DEF NvInv, Phase, OpType
  <2> QED BY <2>1, <2>2, <2>3 DEF CopyUnderWay
<1> QED BY <1>1, <1>2, <1>3, <1>4, <1>5, <1>6, <1>7, <1>8

(* The header of the new copy keeps NvInv: it fits. *)
LEMMA WriteHeaderStep ==
  ASSUME NvInv, WriteHeader
  PROVE  NvInv'
<1>02. PICK n : n = <<op.dst, Len(flash[op.dst].items) + 1>>
  OBVIOUS
<1>1. /\ pc = "header"
      /\ flash' = Appended(op.dst, Header(op.id))
      /\ pgOff' = [pgOff EXCEPT ![op.dst] = @ + Size[op.id]]
      /\ pc' = IF op.kind = "write" THEN "markSource" ELSE "data"
      /\ UNCHANGED <<pgLost, pgRes, hot, op, scan>>
  BY DEF WriteHeader
<1>2. /\ FlashType /\ FlashInv /\ pgRes \in Pages /\ op.dst \in Pages /\ NoPage \notin Pages
      /\ InErasedState = {pgRes} /\ Operating /\ OnlyCopies /\ scan = NoScan
      /\ op.id \in Items /\ op.val \in Values
      /\ op.kind = "write" => op.src \in Place /\ Kept(op.src) /\ At(op.src).id = op.id
      /\ op.kind = "init" => \A a \in Place : Kept(a) => At(a).id # op.id
      /\ \A p \in Pages : pgOff[p] = Used(flash[p].items)
      /\ \A a \in Place : Live(At(a)) => Good(At(a))
      /\ \A a \in Place : Kept(a) <=> a[1] # pgRes /\ Good(At(a))
  BY <1>1, WritingFacts DEF Bad
<1>3. Size[op.id] \in 1 .. PageSize
  BY <1>2, SizeAssumption
<1>4. /\ ~IsTorn(flash[op.dst].items)
      /\ LenOf(flash[op.dst].items) + Size[op.id] <= PageSize
      /\ op.com # NoPage =>
           LenOf(flash[pgRes].items) + Total(LensToCome(op.k)) + Size[op.id] <= PageSize
      /\ op.com # NoPage => Total(LensToCome(op.k)) \in Nat
  <2>1. CASE op.com = NoPage
    <3>1. Size[op.id] <= PageSize - pgOff[op.dst]
      BY <1>1, <1>2, <2>1 DEF NvInv, OpInv, Fits
    <3>2. pgOff[op.dst] = Used(flash[op.dst].items)
      BY <1>2
    <3>3. ~IsTorn(flash[op.dst].items)
      BY <1>3, <3>1, <3>2, PagesAssumption DEF Used
    <3>4. LenOf(flash[op.dst].items) \in Nat
      BY <1>2, LostFacts DEF FlashType, PageType
    <3> QED BY <1>3, <2>1, <3>1, <3>2, <3>3, <3>4, PagesAssumption DEF Used
  <2>2. CASE op.com # NoPage
    <3>1. /\ ReserveItems /\ ReserveRoom /\ op.dst = pgRes /\ op.com \in Pages
          /\ op.k \in Nat
      BY <1>1, <2>2, WritingFacts
    <3>2. ~IsTorn(flash[pgRes].items)
      <4> SUFFICES ASSUME NEW i \in DOMAIN flash[pgRes].items, flash[pgRes].items[i].id = Torn
                   PROVE FALSE
        BY DEF IsTorn
      <4>1. i \in 1 .. Len(flash[pgRes].items)
        BY <1>2 DEF FlashType, PageType
      <4>2. <<pgRes, i>> \in Place
        BY <1>2, <4>1, PlaceFacts
      <4>3. Live(At(<<pgRes, i>>))
        BY <3>1, <4>2 DEF ReserveItems, InReserve
      <4> QED BY <4>3, ValuesAssumption DEF Live, At
    <3>3. From = op.k /\ LenOfNew = Size[op.id]
      BY <1>1, <1>2 DEF From, LenOfNew
    <3>4. /\ LenOf(flash[pgRes].items) \in Nat /\ Total(LensToCome(op.k)) \in Nat
      BY <1>2, <3>1, LostFacts, ToComeType DEF FlashType, PageType
    <3>5. LenOf(flash[pgRes].items) + Total(LensToCome(op.k)) + Size[op.id] <= PageSize
      BY <3>1, <3>3 DEF ReserveRoom
    <3> QED BY <1>3, <3>1, <3>2, <3>4, <3>5, PagesAssumption
  <2> QED BY <2>1, <2>2
<1>5. /\ FlashInv' /\ FlashType'
      /\ n \notin Place /\ Place' = Place \cup {n} /\ n[1] = op.dst
      /\ LastOf(op.dst)' = n
      /\ At(n)'.id = op.id /\ At(n)'.len = Size[op.id] /\ At(n)'.val = Erased
      /\ ~At(n)'.old
      /\ \A b \in Place : At(b)' = At(b) /\ (b[1] = op.dst => b[2] < n[2])
      /\ LenOf(flash'[op.dst].items) = LenOf(flash[op.dst].items) + Size[op.id]
      /\ ~IsTorn(flash'[op.dst].items)
      /\ \A q \in Pages : /\ flash'[q].active = flash[q].active
                          /\ flash'[q].xfer = flash[q].xfer
                          /\ q # op.dst => flash'[q] = flash[q]
  <2>1. \A q, r \in InErasedState : q = r
    BY <1>2
  <2>2. LastOf(op.dst)' = n
    <3>1. \A q \in Pages : q = op.dst => LastOf(q)' = n
      BY <1>02, <1>1, <1>2, <1>4, <2>1, HeaderAppended
    <3> QED BY <1>1, <1>2, <3>1 DEF LastOf
  <2> QED BY <1>02, <1>1, <1>2, <1>4, <2>1, <2>2, HeaderAppended
<1>6. /\ \A b \in Place : Kept(b)' <=> Kept(b)
      /\ \A b, c \in Place : Same(b, c)' <=> Same(b, c)
      /\ ~Kept(n)' /\ ~Good(At(n)') /\ Live(At(n)')
  BY <1>2, <1>5, PlaceFacts DEF Kept, Same, Good, Live
<1>7. ASSUME NEW p \in Pages PROVE pgOff'[p] = Used(flash'[p].items)
  <2>1. pgOff \in [Pages -> 0 .. PageSize]
    BY DEF NvInv, Types
  <2>2. CASE p # op.dst
    BY <1>1, <1>2, <1>5, <2>1, <2>2
  <2>3. CASE p = op.dst
    <3>1. pgOff'[p] = LenOf(flash[p].items) + Size[op.id]
      BY <1>1, <1>2, <1>4, <2>1, <2>3 DEF Used
    <3> QED BY <1>5, <2>3, <3>1 DEF Used
  <2> QED BY <2>2, <2>3
<1>8. Types'
  <2>1. \A p \in Pages : pgOff'[p] \in 0 .. PageSize
    BY <1>5, <1>7, LostFacts DEF FlashType, PageType, FlashInv, RoomSound
  <2>2. pgOff' \in [Pages -> 0 .. PageSize]
    BY <1>1, <2>1 DEF NvInv, Types
  <2> QED BY <1>1, <1>5, <2>2 DEF NvInv, Types
<1>9. /\ Operating' /\ pc' \in {"markSource", "data"}
      /\ pc' = "markSource" => op.kind = "write"
      /\ pc' = "data" => op.kind = "init"
      /\ op.com = NoPage => ReserveBlank' /\ op.dst # pgRes /\ ~Filling'
      /\ op.com # NoPage => Compacting' /\ Filling'
  <2>1. CASE op.com = NoPage
    BY <1>1, <1>2, <1>5, <2>1, WritingFacts DEF Operating, ReserveBlank, Filling
  <2>2. CASE op.com # NoPage
    BY <1>1, <1>2, <1>5, <2>2, WritingFacts DEF Operating, Compacting, Filling
  <2> QED BY <2>1, <2>2
<1>10. Phase'
  BY <1>1, <1>2, <1>9, WritingFacts DEF Phase
<1>11. ReserveInv'
  <2> SUFFICES ASSUME op.com # NoPage PROVE ReserveInv'
    BY <1>9 DEF ReserveInv
  <2>1. /\ ReserveItems /\ ReserveOnce /\ PassedCopied /\ ReserveRoom /\ ToCopy = {}
        /\ op.dst = pgRes /\ op.com \in Pages /\ op.com # pgRes
    BY <1>1, WritingFacts
  <2>2. /\ \A a \in Place : /\ InReserve(a)' <=> InReserve(a)
                            /\ Passed(a)' <=> Passed(a)
        /\ \A a, b \in Place : IsCopyOf(a, b)' <=> IsCopyOf(a, b)
        /\ Bad(n)' /\ ~Passed(n)'
    BY <1>1, <1>5, <1>6, <1>9, <2>1 DEF InReserve, Passed, Bad, IsCopyOf
  <2>3. ASSUME NEW a \in Place, InReserve(a) PROVE At(a).id # op.id /\ Good(At(a))
    BY <1>1, <1>2, <2>1, <2>3 DEF ReserveItems
  <2>4. ReserveItems'
    <3> SUFFICES ASSUME NEW a \in Place', InReserve(a)'
                 PROVE  /\ Live(At(a)') /\ ~At(a)'.old
                        /\ ~Good(At(a)') => Bad(a)'
                        /\ At(a)'.id # op.id /\ Good(At(a)') =>
                              \E b \in Place' : Passed(b)' /\ IsCopyOf(a, b)'
      BY <1>1, <1>9 DEF ReserveItems
    <3>1. CASE a = n
      BY <1>5, <1>6, <2>2, <3>1
    <3>2. CASE a # n
      <4>1. a \in Place /\ At(a)' = At(a) /\ InReserve(a)
        BY <1>5, <2>2, <3>2
      <4>2. Live(At(a)) /\ ~At(a).old /\ Good(At(a)) /\ At(a).id # op.id
        BY <2>1, <2>3, <4>1 DEF ReserveItems
      <4>3. PICK b \in Place : Passed(b) /\ IsCopyOf(a, b)
        BY <2>1, <4>1, <4>2 DEF ReserveItems
      <4> QED BY <1>5, <2>2, <4>1, <4>2, <4>3
    <3> QED BY <3>1, <3>2
  <2>5. ReserveOnce'
    <3>1. ASSUME NEW a \in Place', NEW b \in Place', InReserve(a)', InReserve(b)', Same(a, b)'
          PROVE  a = b
      <4>1. a \in Place \/ a = n
        BY <1>5
      <4>2. b \in Place \/ b = n
        BY <1>5
      <4>3. a \in Place => At(a)'.id # op.id
        BY <1>5, <2>2, <2>3, <3>1
      <4>4. b \in Place => At(b)'.id # op.id
        BY <1>5, <2>2, <2>3, <3>1
      <4>5. At(n)'.id = op.id /\ At(a)'.id = At(b)'.id
        BY <1>5, <3>1 DEF Same
      <4>6. a \in Place /\ b \in Place => a = b
        BY <1>6, <2>1, <2>2, <3>1 DEF ReserveOnce
      <4> QED BY <4>1, <4>2, <4>3, <4>4, <4>5, <4>6
    <3> QED BY <3>1 DEF ReserveOnce
  <2>6. PassedCopied'
    <3> SUFFICES ASSUME NEW b \in Place', Passed(b)'
                 PROVE  At(b)'.old /\ \E a \in Place' : InReserve(a)' /\ IsCopyOf(a, b)'
      BY DEF PassedCopied
    <3>1. b \in Place /\ Passed(b) /\ At(b)' = At(b)
      BY <1>5, <2>2
    <3>2. PICK a \in Place : InReserve(a) /\ IsCopyOf(a, b)
      BY <2>1, <3>1 DEF PassedCopied
    <3> QED BY <1>5, <2>1, <2>2, <3>1, <3>2 DEF PassedCopied
  <2>7. flash'[op.com] = flash[op.com]
    BY <1>5, <2>1
  <2>8. CopyUnderWay'
    <3>1. ToCopy' = {}
      BY <1>1, <2>1, <2>7 DEF ToCopy
    <3> QED BY <1>9, <3>1 DEF CopyUnderWay
  <2>9. ReserveRoom'
    <3>1. From' = op.k /\ LenOfNew' = 0
      BY <1>1, <1>9 DEF From, LenOfNew
    <3>2. LensToCome(op.k)' = LensToCome(op.k)
      BY <1>1, <2>7 DEF LensToCome
    <3>3. LenOf(flash[pgRes].items) \in Nat
      BY <1>2, LostFacts DEF FlashType, PageType
    <3>4. LenOf(flash'[pgRes].items) + Total(LensToCome(op.k)) + 0 <= PageSize
      BY <1>3, <1>4, <1>5, <2>1, <3>3, PagesAssumption
    <3>5. pgOff'[pgRes] = LenOf(flash'[pgRes].items)
      BY <1>2, <1>5, <1>7, <2>1 DEF Used
    <3> QED BY <1>1, <3>1, <3>2, <3>4, <3>5 DEF ReserveRoom
  <2> QED BY <2>4, <2>5, <2>6, <2>8, <2>9 DEF ReserveInv
<1>12. OpInv'
  <2>1. op.kind = "write" => SourceSound'
    BY <1>1, <1>2, <1>5, <1>6, <1>9 DEF SourceSound
  <2>2. op.kind = "init" => \A a \in Place' : Kept(a)' => At(a)'.id # op.id
    BY <1>2, <1>5, <1>6
  <2> QED BY <1>1, <1>2, <1>5, <1>9, <2>1, <2>2 DEF OpInv
<1>13. ServeInv'
  <2>1. Bad(n)'
    BY <1>1, <1>5, <1>9 DEF Bad
  <2>2. \A a \in Place' : Live(At(a)') => Good(At(a)') \/ Bad(a)'
    BY <1>2, <1>5, <2>1
  <2>3. \A a, b \in Place' : Kept(a)' /\ Kept(b)' /\ Same(a, b)' => a = b
    BY <1>2, <1>5, <1>6 DEF OnlyCopies
  <2> QED BY <1>7, <2>2, <2>3 DEF ServeInv
<1>14. ScanInv' /\ PickInv'
  BY <1>9 DEF ScanInv, PickInv
<1>15. HotInv'
  <2>1. \A a \in Place : Replaced(a)' <=> Replaced(a)
    <3>1. Filling' <=> Filling
      BY <1>1, <1>9, WritingFacts
    <3> QED BY <1>1, <1>5, <1>9, <3>1 DEF Replaced
  <2> QED BY <1>1, <1>2, <1>5, <1>6, <1>9, <2>1 DEF NvInv, HotInv
<1> QED BY <1>5, <1>8, <1>10, <1>11, <1>12, <1>13, <1>14, <1>15 DEF NvInv

(* Marking the old copy of a written item keeps NvInv. *)
LEMMA MarkSourceStep ==
  ASSUME NvInv, MarkSource
  PROVE  NvInv'
<1>01. PICK s : s = op.src
  OBVIOUS
<1>1. /\ pc = "markSource" /\ pc' = "data"
      /\ flash' = WithItem(s, [At(s) EXCEPT !.old = TRUE])
      /\ UNCHANGED <<pgOff, pgLost, pgRes, hot, op, scan>>
  BY <1>01 DEF MarkSource
<1>2. /\ FlashType /\ FlashInv /\ pgRes \in Pages /\ op.dst \in Pages /\ NoPage \notin Pages
      /\ InErasedState = {pgRes} /\ Operating /\ OnlyCopies /\ scan = NoScan
      /\ op.id \in Items /\ op.val \in Values
      /\ op.kind = "write" => s \in Place /\ Kept(s) /\ At(s).id = op.id
      /\ op.kind = "init" => \A a \in Place : Kept(a) => At(a).id # op.id
      /\ \A p \in Pages : pgOff[p] = Used(flash[p].items)
      /\ \A a \in Place : Live(At(a)) => Good(At(a)) \/ Bad(a)
      /\ \A a \in Place : Kept(a) <=> a[1] # pgRes /\ Good(At(a))
  BY <1>01, <1>1, WritingFacts
<1>3. op.kind = "write"
  BY <1>1 DEF NvInv, Phase
<1>4. \A b \in Place : Kept(b) /\ Same(s, b) => b = s
  BY <1>2, <1>3 DEF OnlyCopies
<1>5. /\ FlashInv' /\ FlashType' /\ Place' = Place
      /\ \A b \in Place : IF b = s
            THEN /\ At(b)'.id = At(b).id /\ At(b)'.len = At(b).len /\ At(b)'.val = At(b).val
                 /\ At(b)'.old
            ELSE At(b)' = At(b)
      /\ \A p \in Pages :
            /\ flash'[p].active = flash[p].active /\ flash'[p].xfer = flash[p].xfer
            /\ LastOf(p)' = LastOf(p) /\ Len(flash'[p].items) = Len(flash[p].items)
            /\ p # s[1] => flash'[p] = flash[p]
            /\ Used(flash'[p].items) = Used(flash[p].items)
  BY <1>1, <1>2, <1>3, <1>4, ItemMarked
<1>6. /\ \A b \in Place : /\ At(b)'.id = At(b).id /\ At(b)'.len = At(b).len
                          /\ At(b)'.val = At(b).val /\ (At(b).old => At(b)'.old)
                          /\ (Good(At(b)') <=> Good(At(b))) /\ (Live(At(b)') <=> Live(At(b)))
                          /\ (Kept(b)' <=> Kept(b)) /\ (b[1] = pgRes => At(b)' = At(b))
      /\ \A a, b \in Place : Same(a, b)' <=> Same(a, b)
      /\ flash'[pgRes] = flash[pgRes] /\ s[1] # pgRes
  BY <1>2, <1>3, <1>5, PlaceFacts DEF Good, Live, Kept, Same
<1>7. Types'
  BY <1>1, <1>5 DEF NvInv, Types
<1>8. /\ Operating' /\ (Filling' <=> Filling)
      /\ op.com = NoPage => ReserveBlank' /\ op.dst # pgRes /\ ~Filling'
      /\ op.com # NoPage => Compacting' /\ Filling'
  <2>1. CASE op.com = NoPage
    BY <1>1, <1>2, <1>5, <1>6, <2>1, WritingFacts DEF Operating, ReserveBlank, Filling
  <2>2. CASE op.com # NoPage
    BY <1>1, <1>2, <1>5, <2>2, WritingFacts DEF Operating, Compacting, Filling
  <2> QED BY <2>1, <2>2
<1>9. Phase'
  BY <1>1, <1>2, <1>8, WritingFacts DEF Phase
<1>10. /\ \A a \in Place : /\ InReserve(a)' <=> InReserve(a)
                           /\ Passed(a)' <=> Passed(a)
                           /\ Bad(a)' <=> Bad(a)
       /\ \A a, b \in Place : IsCopyOf(a, b)' <=> IsCopyOf(a, b)
       /\ LastOf(op.dst)' = LastOf(op.dst)
  <2>1. LastOf(op.dst)' = LastOf(op.dst)
    <3>1. \A p \in Pages : LastOf(p)' = LastOf(p)
      BY <1>5
    <3> QED BY <1>1, <1>2, <3>1 DEF LastOf
  <2> QED BY <1>1, <1>5, <1>6, <2>1 DEF InReserve, Passed, Bad, IsCopyOf
<1>11. ReserveInv'
  <2> SUFFICES ASSUME op.com # NoPage PROVE ReserveInv'
    BY <1>8 DEF ReserveInv
  <2>1. /\ ReserveItems /\ ReserveOnce /\ PassedCopied /\ ReserveRoom /\ ToCopy = {}
        /\ op.dst = pgRes /\ op.com \in Pages /\ op.com # pgRes
    BY <1>1, WritingFacts
  <2>2. ReserveItems'
    BY <1>1, <1>5, <1>6, <1>10, <2>1 DEF ReserveItems, InReserve
  <2>3. ReserveOnce' /\ PassedCopied'
    BY <1>5, <1>6, <1>10, <2>1 DEF ReserveOnce, PassedCopied
  <2> DEFINE items == flash[op.com].items
             new == flash'[op.com].items
  <2>4. /\ DOMAIN items = 1 .. Len(items) /\ DOMAIN new = 1 .. Len(items)
        /\ Len(new) = Len(items)
    BY <1>2, <1>5, <2>1 DEF FlashType, PageType
  <2>5. ASSUME NEW i \in 1 .. Len(items)
        PROVE  /\ new[i].id = items[i].id /\ new[i].len = items[i].len
               /\ (Good(new[i]) <=> Good(items[i]))
    <3>1. <<op.com, i>> \in Place
      BY <1>2, <2>1, PlaceFacts
    <3> QED BY <3>1, <1>6 DEF At
  <2>6. CopyUnderWay'
    <3>1. ToCopy' = {}
      <4>1. ToCopy' = {i \in op.k .. Len(new) : Good(new[i]) /\ new[i].id # op.id}
        BY <1>1 DEF ToCopy
      <4>2. ToCopy = {i \in op.k .. Len(items) : Good(items[i]) /\ items[i].id # op.id}
        BY DEF ToCopy
      <4>3. op.k \in Nat \ {0} /\ Len(items) \in Nat
        BY <1>1, <1>2, <2>1, WritingFacts, PlaceFacts
      <4>4. \A i \in op.k .. Len(items) : i \in 1 .. Len(items)
        BY <4>3
      <4> HIDE DEF items, new
      <4> QED BY <2>1, <2>4, <2>5, <4>1, <4>2, <4>4
    <3> QED BY <1>1, <3>1 DEF CopyUnderWay
  <2>7. ReserveRoom'
    <3>1. From' = op.k /\ From = op.k /\ LenOfNew' = 0 /\ LenOfNew = 0
      BY <1>1 DEF From, LenOfNew
    <3>2. LensToCome(op.k)' = LensToCome(op.k)
      BY <1>1, <2>4, <2>5 DEF LensToCome
    <3> QED BY <1>1, <1>6, <2>1, <3>1, <3>2 DEF ReserveRoom
  <2> QED BY <2>2, <2>3, <2>6, <2>7 DEF ReserveInv
<1>12. OpInv'
  <2>1. op.kind = "write" => SourceSound'
    BY <1>01, <1>1, <1>2, <1>5, <1>6 DEF SourceSound
  <2>2. op.kind = "init" => \A a \in Place' : Kept(a)' => At(a)'.id # op.id
    BY <1>2, <1>5, <1>6
  <2>3. LastOf(op.dst) \in Place /\ At(LastOf(op.dst)).id = op.id /\ At(LastOf(op.dst)).val = Erased
    BY <1>1, <1>2 DEF NvInv, OpInv
  <2>4. PICK n : n = LastOf(op.dst)
    OBVIOUS
  <2>5. n \in Place' /\ At(n)'.id = op.id /\ At(n)'.val = Erased /\ LastOf(op.dst)' = n
    BY <1>5, <1>6, <1>10, <2>3, <2>4
  <2>6. LastOf(op.dst)' \in Place' /\ At(LastOf(op.dst))'.id = op.id
        /\ At(LastOf(op.dst))'.val = Erased
    BY <2>5 DEF At
  <2> QED BY <1>1, <1>2, <2>1, <2>2, <2>6 DEF OpInv
<1>13. ServeInv'
  <2>1. \A p \in Pages : pgOff'[p] = Used(flash'[p].items)
    BY <1>1, <1>2, <1>5
  <2>2. \A a \in Place' : Live(At(a)') => Good(At(a)') \/ Bad(a)'
    BY <1>2, <1>5, <1>6, <1>10
  <2>3. \A a, b \in Place' : Kept(a)' /\ Kept(b)' /\ Same(a, b)' => a = b
    BY <1>2, <1>5, <1>6 DEF OnlyCopies
  <2> QED BY <2>1, <2>2, <2>3 DEF ServeInv
<1>14. ScanInv' /\ PickInv'
  BY <1>1 DEF ScanInv, PickInv
<1>15. HotInv'
  <2>1. \A a \in Place : Replaced(a)' <=> Replaced(a)
    BY <1>1, <1>5, <1>6, <1>8 DEF Replaced
  <2> QED BY <1>1, <1>2, <1>5, <1>6, <2>1 DEF NvInv, HotInv
<1> QED BY <1>5, <1>7, <1>9, <1>11, <1>12, <1>13, <1>14, <1>15 DEF NvInv

(* The data of the new copy keeps NvInv: from here on the old copy is spare. *)
LEMMA WriteDataStep ==
  ASSUME NvInv, WriteData
  PROVE  NvInv'
<1>01. PICK n : n = LastOf(op.dst)
  OBVIOUS
<1>1. /\ pc = "data"
      /\ flash' = WithItem(n, [At(n) EXCEPT !.val = op.val])
      /\ hot' = HotItemUpdate(op.id, n)
      /\ IF op.com # NoPage THEN pc' = "use" /\ UNCHANGED op ELSE ThenZeroes
      /\ UNCHANGED <<pgOff, pgLost, pgRes, scan>>
  BY <1>01 DEF WriteData
<1>2. /\ FlashType /\ FlashInv /\ pgRes \in Pages /\ op.dst \in Pages /\ NoPage \notin Pages
      /\ InErasedState = {pgRes} /\ Operating /\ OnlyCopies /\ scan = NoScan /\ op \in OpType
      /\ op.id \in Items /\ op.val \in Values
      /\ op.kind = "write" => op.src \in Place /\ Kept(op.src) /\ At(op.src).id = op.id
                              /\ At(op.src).old
      /\ op.kind = "init" => \A a \in Place : Kept(a) => At(a).id # op.id
      /\ \A p \in Pages : pgOff[p] = Used(flash[p].items)
      /\ \A a \in Place : Live(At(a)) => Good(At(a)) \/ Bad(a)
      /\ \A a \in Place : Kept(a) <=> a[1] # pgRes /\ Good(At(a))
      /\ op.com = NoPage => ReserveBlank /\ op.dst # pgRes /\ MarkedPages = {} /\ ~Filling
      /\ op.com # NoPage => op.dst = pgRes
  BY <1>1, WritingFacts
<1>3. /\ n \in Place /\ At(n).id = op.id /\ At(n).val = Erased /\ Live(At(n))
      /\ n[1] = op.dst /\ n \in PlaceType /\ ~Good(At(n)) /\ ~Kept(n)
  <2>1. n \in Place /\ At(n).id = op.id /\ At(n).val = Erased
    BY <1>01, <1>1, <1>2 DEF NvInv, OpInv
  <2> QED BY <1>01, <1>2, <2>1, PlaceFacts DEF LastOf, PlaceType, Live, Good, Kept
<1>4. \A a \in Place : Bad(a) => a = n
  BY <1>01, <1>1, <1>2 DEF Bad
<1>5. op.kind = "write" => \A b \in Place : Kept(b) /\ At(b).id = op.id => b = op.src
  BY <1>2 DEF OnlyCopies, Same
<1>6. IF flash[n[1]].active
      THEN MarkedPages = {} /\ \A b \in Place : Kept(b) /\ Same(b, n) => At(b).old
      ELSE TRUE
  <2>1. CASE op.com = NoPage
    <3>1. ASSUME NEW b \in Place, Kept(b), Same(b, n) PROVE At(b).old
      <4>1. At(b).id = op.id
        BY <1>3, <3>1 DEF Same
      <4> QED BY <1>2, <1>5, <3>1, <4>1 DEF Operating
    <3> QED BY <1>2, <2>1, <3>1
  <2>2. CASE op.com # NoPage
    BY <1>2, <1>3, <2>2 DEF InErasedState
  <2> QED BY <2>1, <2>2
<1>7. /\ FlashInv' /\ FlashType' /\ Place' = Place
      /\ \A b \in Place : IF b = n
            THEN /\ At(b)'.id = At(b).id /\ At(b)'.len = At(b).len /\ At(b)'.val = op.val
                 /\ ~At(b)'.old /\ Good(At(b)')
            ELSE At(b)' = At(b)
      /\ \A p \in Pages :
            /\ flash'[p].active = flash[p].active /\ flash'[p].xfer = flash[p].xfer
            /\ LastOf(p)' = LastOf(p)
            /\ p # n[1] => flash'[p] = flash[p]
            /\ LenOf(flash'[p].items) = LenOf(flash[p].items)
            /\ Used(flash'[p].items) = Used(flash[p].items)
  BY <1>1, <1>2, <1>3, <1>6, DataWritten
<1>8. /\ \A b \in Place : At(b)'.id = At(b).id /\ (Live(At(b)') <=> Live(At(b)))
      /\ \A b \in Place : b # n => (Kept(b)' <=> Kept(b))
      /\ \A a, b \in Place : Same(a, b)' <=> Same(a, b)
      /\ Kept(n)' <=> op.com = NoPage
      /\ \A b \in Place : Live(At(b)') => Good(At(b)')
  <2>1. flash'[n[1]].active <=> op.com = NoPage
    BY <1>2, <1>3, <1>7, PlaceFacts DEF InErasedState
  <2>2. \A b \in Place : At(b)'.id = At(b).id /\ (Live(At(b)') <=> Live(At(b)))
    BY <1>7 DEF Live
  <2> QED BY <1>2, <1>3, <1>4, <1>7, <2>1, <2>2, PlaceFacts DEF Kept, Same, Good
<1>9. /\ hot \in [HotIds -> PlaceType] /\ hot' \in [HotIds -> PlaceType]
      /\ \A x \in HotIds : hot'[x] = IF x = op.id THEN n ELSE hot[x]
  BY <1>1, <1>3 DEF NvInv, Types, HotItemUpdate
<1>10. \A p \in Pages : pgOff'[p] = Used(flash'[p].items)
  BY <1>1, <1>2, <1>7
<1>11. ASSUME NEW x \in HotIds, x # op.id, hot'[x] # NoPlace,
              NEW a \in Place, At(a)'.id = x, Good(At(a)'), ~Replaced(a)
       PROVE  a = hot'[x]
  <2>1. a # n /\ At(a)' = At(a)
    BY <1>3, <1>7, <1>8, <1>11
  <2> QED BY <1>9, <1>11, <2>1 DEF NvInv, HotInv
<1>20. CASE op.com # NoPage
  <2>1. pc' = "use" /\ op' = op /\ ~flash[pgRes].active
    BY <1>1, <1>2, <1>20 DEF InErasedState
  <2>2. /\ Compacting /\ op.dst = pgRes /\ op.com \in Pages
        /\ op.com # pgRes /\ Filling /\ op.k \in Nat \ {0}
        /\ ReserveItems /\ ReserveOnce /\ PassedCopied
        /\ ToCopy = {} /\ ReserveRoom
    BY <1>1, <1>20, WritingFacts
  <2>3. Types'
    BY <1>1, <1>7, <1>9, <2>1 DEF NvInv, Types
  <2>4. Operating' /\ Compacting' /\ Filling'
    BY <1>1, <1>2, <1>7, <2>1, <2>2 DEF Operating, Compacting, Filling
  <2>5. Phase'
    BY <1>1, <1>2, <2>1, <2>2, <2>4 DEF Phase
  <2>6. /\ \A a \in Place : /\ InReserve(a)' <=> InReserve(a)
                            /\ Passed(a)' <=> Passed(a)
        /\ \A a, b \in Place : a # n /\ Passed(b) => (IsCopyOf(a, b)' <=> IsCopyOf(a, b))
        /\ InReserve(n)
    <3>1. \A a \in Place : a # n => At(a)' = At(a)
      BY <1>7
    <3>2. ~Passed(n) /\ ~Passed(n)'
      BY <1>3, <2>1, <2>2 DEF Passed
    <3> QED BY <1>1, <1>3, <1>7, <2>1, <2>2, <3>1, <3>2 DEF InReserve, Passed, IsCopyOf, Same
  <2>7. ReserveInv'
    <3>1. ReserveItems'
      <4> SUFFICES ASSUME NEW a \in Place, InReserve(a)
                   PROVE  /\ Live(At(a)') /\ ~At(a)'.old /\ Good(At(a)')
                          /\ At(a)'.id # op.id /\ Good(At(a)') =>
                                \E b \in Place : Passed(b)' /\ IsCopyOf(a, b)'
        BY <1>7, <2>1, <2>6 DEF ReserveItems
      <4>1. CASE a = n
        BY <1>3, <1>7, <1>8, <4>1
      <4>2. CASE a # n
        <5>1. At(a)' = At(a) /\ Live(At(a)) /\ ~At(a).old /\ Good(At(a))
          BY <1>4, <1>7, <2>2, <4>2 DEF ReserveItems
        <5>2. ASSUME At(a).id # op.id PROVE \E b \in Place : Passed(b) /\ IsCopyOf(a, b)
          BY <2>2, <5>1, <5>2 DEF ReserveItems
        <5> QED BY <2>6, <4>2, <5>1, <5>2
      <4> QED BY <4>1, <4>2
    <3>2. ReserveOnce'
      BY <1>7, <1>8, <2>2, <2>6 DEF ReserveOnce
    <3>3. PassedCopied'
      <4> SUFFICES ASSUME NEW b \in Place, Passed(b)
                   PROVE  At(b)'.old /\ \E a \in Place : InReserve(a) /\ IsCopyOf(a, b)'
        BY <1>7, <2>6 DEF PassedCopied
      <4>1. PICK a \in Place : InReserve(a) /\ IsCopyOf(a, b)
        BY <2>2 DEF PassedCopied
      <4>2. At(b).old /\ b # n /\ At(b).id # op.id
        BY <1>3, <2>2 DEF PassedCopied, Passed
      <4>3. a # n
        BY <1>3, <4>1, <4>2 DEF IsCopyOf, Same
      <4> QED BY <1>7, <2>6, <4>1, <4>2, <4>3
    <3>4. flash'[op.com] = flash[op.com]
      BY <1>3, <1>7, <2>2
    <3>5. CopyUnderWay'
      <4>1. ToCopy' = {}
        BY <2>1, <2>2, <3>4 DEF ToCopy
      <4> QED BY <2>1, <4>1 DEF CopyUnderWay
    <3>6. ReserveRoom'
      <4>1. From' = op.k /\ From = op.k /\ LenOfNew' = 0 /\ LenOfNew = 0
        BY <1>1, <2>1 DEF From, LenOfNew
      <4>2. LensToCome(op.k)' = LensToCome(op.k)
        BY <2>1, <3>4 DEF LensToCome
      <4>3. LenOf(flash'[pgRes].items) = LenOf(flash[pgRes].items)
        BY <1>2, <1>7
      <4> QED BY <1>1, <2>1, <2>2, <4>1, <4>2, <4>3 DEF ReserveRoom
    <3> QED BY <3>1, <3>2, <3>3, <3>5, <3>6 DEF ReserveInv
  <2>8. OpInv'
    <3>1. op.kind = "write" => SourceSound'
      BY <1>2, <1>3, <1>7, <1>8, <2>1 DEF SourceSound
    <3>2. op.kind = "init" => \A a \in Place' : Kept(a)' => At(a)'.id # op.id
      BY <1>2, <1>7, <1>8, <1>20
    <3>3. NewCopyOn({pgRes})'
      BY <1>1, <1>3, <1>7, <2>1, <2>2 DEF NewCopyOn
    <3> QED BY <1>1, <1>2, <2>1, <3>1, <3>2, <3>3 DEF OpInv
  <2>9. ServeInv'
    <3>1. \A a, b \in Place' : Kept(a)' /\ Kept(b)' /\ Same(a, b)' => a = b
      BY <1>2, <1>7, <1>8, <1>20 DEF OnlyCopies
    <3> QED BY <1>7, <1>8, <1>10, <3>1 DEF ServeInv
  <2>10. ScanInv' /\ PickInv'
    BY <2>1 DEF ScanInv, PickInv
  <2>11. HotInv'
    <3>1. ASSUME NEW a \in Place, ~Replaced(a)' PROVE ~Replaced(a)
      BY <1>1, <1>8, <2>1, <2>2, <2>4, <3>1 DEF Replaced
    <3>2. ASSUME NEW a \in Place, At(a)'.id = op.id, Good(At(a)'), ~Replaced(a)'
          PROVE  a = n
      <4> SUFFICES ASSUME a # n PROVE FALSE
        OBVIOUS
      <4>1. At(a)' = At(a) /\ At(a).id = op.id /\ Good(At(a))
        BY <1>7, <3>2
      <4>2. CASE a[1] = pgRes
        <5>1. InReserve(a) /\ Same(a, n)
          BY <1>3, <4>1, <4>2 DEF InReserve, Same
        <5> QED BY <1>3, <2>2, <2>6, <5>1 DEF ReserveOnce
      <4>3. CASE a[1] # pgRes
        <5>1. Kept(a)
          BY <1>2, <4>1, <4>3
        <5>2. op.kind = "write" /\ a = op.src
          BY <1>2, <1>5, <4>1, <5>1 DEF Operating
        <5> QED BY <2>1, <3>2, <5>2 DEF Replaced
      <4> QED BY <4>2, <4>3
    <3>3. ASSUME NEW x \in HotIds, hot'[x] # NoPlace,
                 NEW a \in Place', At(a)'.id = x, Good(At(a)'), ~Replaced(a)'
          PROVE  a = hot'[x]
      BY <1>7, <1>9, <1>11, <3>1, <3>2, <3>3
    <3> QED BY <1>1, <1>2, <2>1, <3>3 DEF HotInv
  <2> QED BY <1>7, <2>3, <2>5, <2>7, <2>8, <2>9, <2>10, <2>11 DEF NvInv
<1>21. CASE op.com = NoPage
  <2>1. /\ ReserveBlank /\ op.dst # pgRes /\ ~Filling
        /\ IF op.kind = "write" THEN pc' = "zero" /\ op' = op ELSE pc' = "idle" /\ op' = NoOp
    <3>1. op.kind = "write" => op.src[1] # NoPage
      BY <1>2, PlaceFacts
    <3> QED BY <1>1, <1>2, <1>21, <3>1 DEF ThenZeroes, Ends
  <2>2. op' \in OpType
    BY <1>2, <2>1 DEF OpType, NoOp, PlaceType
  <2>3. Types'
    BY <1>1, <1>7, <1>9, <2>1, <2>2 DEF NvInv, Types
  <2>4. ReserveBlank' /\ ~Filling' /\ flash'[pgRes] = flash[pgRes]
    BY <1>1, <1>3, <1>7, <2>1 DEF ReserveBlank, Filling
  <2>5. Phase'
    BY <1>1, <1>2, <2>1, <2>4 DEF Phase, Operating, NoOp
  <2>6. ReserveInv' /\ ScanInv' /\ PickInv'
    BY <2>1, <2>4 DEF ReserveInv, ScanInv, PickInv
  <2>7. OpInv'
    <3> SUFFICES ASSUME op.kind = "write" PROVE OpInv'
      BY <2>1 DEF OpInv, Operating, NoOp
    <3>1. SourceSound'
      BY <1>2, <1>3, <1>7, <1>8, <2>1 DEF SourceSound
    <3>2. NewCopyOn(Pages \ {pgRes})'
      <4>1. n[1] \in Pages \ {pgRes}
        BY <1>2, <1>3, <2>1
      <4> QED BY <1>1, <1>3, <1>7, <2>1, <4>1 DEF NewCopyOn
    <3> QED BY <1>2, <2>1, <3>1, <3>2 DEF OpInv
  <2>8. ServeInv'
    <3>1. ASSUME NEW a \in Place, NEW b \in Place, a # n, Kept(a)', Same(a, n)'
          PROVE  Spare(a)'
      <4>1. Kept(a) /\ At(a).id = op.id
        BY <1>3, <1>8, <3>1 DEF Same
      <4> QED BY <1>2, <1>5, <2>1, <4>1 DEF Spare, Operating
    <3>2. \A a, b \in Place : Same(a, b)' => Same(b, a)'
      BY DEF Same
    <3>3. ASSUME NEW a \in Place, NEW b \in Place, Kept(a)', ~Spare(a)', Kept(b)', ~Spare(b)',
                 Same(a, b)'
          PROVE  a = b
      <4>1. CASE a # n /\ b # n
        BY <1>2, <1>8, <3>3, <4>1 DEF OnlyCopies
      <4>2. CASE a = n /\ b # n
        BY <3>1, <3>2, <3>3, <4>2
      <4>3. CASE a # n /\ b = n
        BY <3>1, <3>3, <4>3
      <4> QED BY <4>1, <4>2, <4>3
    <3> QED BY <1>7, <1>8, <1>10, <3>3 DEF ServeInv
  <2>9. HotInv'
    <3>1. ASSUME NEW a \in Place, ~Replaced(a)' PROVE ~Replaced(a)
      BY <1>1, <2>1, <3>1 DEF Replaced
    <3>2. ASSUME NEW a \in Place, At(a)'.id = op.id, Good(At(a)'), ~Replaced(a)'
          PROVE  a = n
      <4> SUFFICES ASSUME a # n PROVE FALSE
        OBVIOUS
      <4>1. At(a)' = At(a) /\ At(a).id = op.id /\ Good(At(a))
        BY <1>7, <3>2
      <4>2. Kept(a)
        <5>1. a[1] # pgRes
          BY <1>2, <2>1, PlaceFacts DEF ReserveBlank, Blank
        <5> QED BY <1>2, <4>1, <5>1
      <4>3. op.kind = "write" /\ a = op.src
        BY <1>2, <1>5, <4>1, <4>2 DEF Operating
      <4> QED BY <2>1, <3>2, <4>3 DEF Replaced
    <3>3. ASSUME NEW x \in HotIds, hot'[x] # NoPlace,
                 NEW a \in Place', At(a)'.id = x, Good(At(a)'), ~Replaced(a)'
          PROVE  a = hot'[x]
      BY <1>7, <1>9, <1>11, <3>1, <3>2, <3>3
    <3> QED BY <1>1, <1>2, <2>1, <3>3 DEF HotInv
  <2> QED BY <1>7, <2>3, <2>5, <2>6, <2>7, <2>8, <2>9 DEF NvInv
<1> QED BY <1>20, <1>21

(* Zeroing the old copy, the last step of a write, keeps NvInv. *)
LEMMA ZeroSourceStep ==
  ASSUME NvInv, ZeroSource
  PROVE  NvInv'
<1>01. PICK s : s = op.src
  OBVIOUS
<1>1. /\ pc = "zero" /\ pc' = "idle" /\ op' = NoOp
      /\ flash' = WithItem(s, Zero(At(s)))
      /\ pgLost' = [pgLost EXCEPT ![s[1]] = @ + At(s).len]
      /\ UNCHANGED <<pgOff, pgRes, hot, scan>>
  BY <1>01 DEF ZeroSource, Ends
<1>2. /\ FlashType /\ FlashInv /\ op.kind = "write" /\ ReserveBlank /\ scan = NoScan
      /\ pgLost \in [Pages -> Nat] /\ Operating /\ NoPage \notin Pages
  BY <1>1 DEF NvInv, Types, Phase, Operating, NoPage, Pages
<1>3. /\ s \in Place /\ Kept(s) /\ At(s).id = op.id /\ op.id \in Items /\ Live(At(s))
  BY <1>01, <1>1, <1>2 DEF NvInv, OpInv, SourceSound, Live
<1>4. /\ \A a, b \in Place : Kept(a) /\ a # s /\ Kept(b) /\ b # s /\ Same(a, b) => a = b
      /\ \A a \in Place : Live(At(a)) => Good(At(a))
      /\ \A p \in Pages : pgOff[p] = Used(flash[p].items)
  BY <1>01, <1>1, <1>2 DEF NvInv, ServeInv, Serving, Bad, Spare
<1>5. MarkedPages = {} /\ s[1] # pgRes /\ pgRes \in Pages
  <2>1. s[1] # pgRes
    BY <1>2, <1>3, PlaceFacts DEF ReserveBlank, Blank
  <2> QED BY <1>2, <2>1 DEF MarkedPages, ReserveBlank, Blank
<1>6. PICK z : z = Zero(At(s))
  OBVIOUS
<1>7. /\ FlashInv' /\ FlashType' /\ Place' = Place /\ pgLost' \in [Pages -> Nat]
      /\ z \in ItemType /\ ~Live(z)
      /\ \A b \in Place : At(b)' = IF b = s THEN z ELSE At(b)
      /\ \A p \in Pages :
               /\ flash'[p].active = flash[p].active /\ flash'[p].xfer = flash[p].xfer
               /\ p # s[1] => flash'[p] = flash[p]
               /\ Used(flash'[p].items) = Used(flash[p].items)
  BY <1>1, <1>2, <1>3, <1>5, <1>6, ItemZeroed
<1>8. ReserveBlank' /\ ~Operating' /\ ~Filling'
  BY <1>1, <1>2, <1>5, <1>7 DEF ReserveBlank, Operating, Filling, NoOp
<1>9. Types'
  <2>1. op' \in OpType
    BY <1>1 DEF OpType, NoOp, PlaceType
  <2> QED BY <1>1, <1>7, <2>1 DEF NvInv, Types
<1>10. Phase'
  BY <1>1, <1>2, <1>8 DEF Phase, NoOp
<1>11. ReserveInv' /\ OpInv' /\ ScanInv' /\ PickInv'
  BY <1>1, <1>8 DEF ReserveInv, OpInv, ScanInv, PickInv
<1>12. ASSUME NEW b \in Place', Live(At(b)') PROVE b \in Place /\ b # s /\ At(b)' = At(b)
  BY <1>7, <1>12
<1>13. ServeInv'
  <2>1. \A b \in Place' : Live(At(b)') => Good(At(b)')
    BY <1>4, <1>12
  <2>2. ASSUME NEW b \in Place', NEW c \in Place', Kept(b)', Kept(c)', Same(b, c)' PROVE b = c
    <3>1. b \in Place /\ b # s /\ At(b)' = At(b) /\ c \in Place /\ c # s /\ At(c)' = At(c)
      BY <1>12, <2>2 DEF Kept, Good
    <3>2. Kept(b) /\ Kept(c) /\ Same(b, c)
      BY <1>2, <1>7, <2>2, <3>1, PlaceFacts DEF Kept, Same
    <3> QED BY <1>4, <3>1, <3>2
  <2>3. \A p \in Pages : pgOff'[p] = Used(flash'[p].items)
    BY <1>1, <1>4, <1>7
  <2> QED BY <2>1, <2>2, <2>3 DEF ServeInv
<1>14. HotInv'
  <2>1. \A b \in Place : b # s => ~Replaced(b)
    BY <1>01, <1>1 DEF Replaced, Filling
  <2>2. \A b \in Place' : Good(At(b)') => b \in Place /\ b # s /\ At(b)' = At(b)
    BY <1>12 DEF Good
  <2> QED BY <1>1, <1>2, <1>5, <2>1, <2>2 DEF NvInv, HotInv
<1> QED BY <1>7, <1>9, <1>10, <1>11, <1>13, <1>14 DEF NvInv

(* Putting the reserve page in use keeps NvInv: every item left on the compacted page
   is old and has its copy, so that page is the one to erase. *)
LEMMA PutInUseStep ==
  ASSUME NvInv, PutInUse
  PROVE  NvInv'
<1>1. /\ pc = "use" /\ pc' = "erase"
      /\ flash' = [flash EXCEPT ![pgRes].active = TRUE]
      /\ UNCHANGED <<pgOff, pgLost, pgRes, hot, op, scan>>
  BY DEF PutInUse
<1>2. /\ Compacting /\ op.k \in Nat \ {0} /\ (Operating \/ op.kind = "boot") /\ scan = NoScan
      /\ (~Operating => op.id = Missing) /\ Filling
      /\ ReserveItems /\ ReserveOnce /\ PassedCopied /\ ToCopy = {}
  <2>1. Compacting /\ op.k # 0 /\ (Operating \/ op.kind = "boot") /\ scan = NoScan
        /\ (~Operating => op.id = Missing) /\ Filling
    BY <1>1 DEF NvInv, Phase, Filling
  <2> QED BY <1>1, <2>1 DEF NvInv, ReserveInv, CopyUnderWay, Types, OpType
<1>3. /\ FlashType /\ FlashInv /\ OnlyCopies /\ pgRes \in Pages /\ op.com \in Pages
      /\ op.com # pgRes /\ InErasedState = {pgRes} /\ op.com \in MarkedPages /\ NoPage \notin Pages
      /\ \A a \in Place : Kept(a) <=> a[1] # pgRes /\ Good(At(a))
      /\ \A a \in Place : InReserve(a) <=> a[1] = pgRes
  BY <1>2, CompactingFacts
<1>4. Operating => /\ op.id \in Items /\ op.val \in Values
                   /\ op.kind = "write" => SourceSound
                   /\ op.kind = "init" => \A a \in Place : Kept(a) => At(a).id # op.id
                   /\ NewCopyOn({pgRes})
  BY <1>1 DEF NvInv, OpInv
<1>5. Operating => /\ \A a \in Place : Live(At(a)) => Good(At(a))
                   /\ \A p \in Pages : pgOff[p] = Used(flash[p].items)
  BY <1>1 DEF NvInv, ServeInv, Serving, Bad
<1>6. /\ \A p \in Pages : /\ flash'[p].active /\ flash'[p].xfer = flash[p].xfer
                          /\ flash'[p].items = flash[p].items
      /\ flash' \in [Pages -> PageType]
  <2>1. \A p \in Pages \ {pgRes} : flash[p].active
    BY <1>2 DEF Compacting
  <2> QED BY <1>1, <1>3, <2>1, ZenonT(40) DEF FlashType, PageType
<1>7. FlashType' /\ Place' = Place /\ \A a \in Place : At(a)' = At(a)
  BY <1>3, <1>6, SameItems DEF FlashType
<1>8. /\ \A a \in Place : Kept(a)' <=> Good(At(a))
      /\ \A a, b \in Place : Same(a, b)' <=> Same(a, b)
      /\ InErasedState' = {}
  BY <1>3, <1>6, <1>7, PlaceFacts DEF Kept, Same, InErasedState
<1>9. /\ \A m \in MarkedPages' : m = op.com
      /\ op.com \in MarkedPages'
  <2>1. \A m \in Pages : flash[m].xfer => flash[m].active
    BY <1>3 DEF FlashInv, HeadersSound
  <2>2. ASSUME NEW m \in MarkedPages' PROVE m = op.com
    <3>1. m \in MarkedPages
      BY <1>6, <2>1 DEF MarkedPages
    <3> QED BY <1>3, <3>1 DEF FlashInv, HeadersSound
  <2> QED BY <1>2, <1>3, <1>6, <2>2 DEF MarkedPages
<1>10. \A a \in Place : InReserve(a) => Good(At(a)) /\ ~At(a).old
  BY <1>1, <1>2 DEF ReserveItems, Bad
<1>11. ASSUME NEW a \in Place, Good(At(a)), At(a).id = op.id, a[1] # pgRes
       PROVE  Operating /\ op.kind = "write" /\ a = op.src /\ At(a).old
  <2>1. Operating
    BY <1>2, <1>11, ValuesAssumption DEF Good, Live
  <2>2. Kept(a)
    BY <1>3, <1>11
  <2>3. op.kind = "write"
    BY <1>4, <1>11, <2>1, <2>2 DEF Operating
  <2>4. op.src \in Place /\ Kept(op.src) /\ At(op.src).id = op.id /\ At(op.src).old
    BY <1>1, <1>4, <2>1, <2>3 DEF SourceSound
  <2>5. a = op.src
    BY <1>3, <1>11, <2>2, <2>4 DEF OnlyCopies, Same
  <2> QED BY <2>1, <2>3, <2>4, <2>5
<1>12. ASSUME NEW a \in Place, Good(At(a)), At(a).id # op.id, a[1] = op.com
       PROVE  Passed(a)
  <2>1. a[2] \in 1 .. Len(flash[op.com].items) /\ At(a) = flash[op.com].items[a[2]]
        /\ Len(flash[op.com].items) \in Nat
    BY <1>3, <1>12, PlaceFacts DEF At
  <2>2. a[2] \notin op.k .. Len(flash[op.com].items)
    BY <1>2, <1>12, <2>1 DEF ToCopy
  <2>3. a[2] < op.k
    BY <1>2, <2>1, <2>2
  <2> QED BY <1>12, <2>3 DEF Passed
(* What is on the reserve page replaces what is elsewhere. *)
<1>13. ASSUME NEW a \in Place, a[1] = pgRes, NEW b \in Place, b[1] # pgRes, Good(At(b)), Same(a, b)
       PROVE  /\ At(b).old /\ ~At(a).old
              /\ b[1] = op.com \/ (op.kind = "write" /\ b = op.src)
  <2>1. Good(At(a)) /\ ~At(a).old /\ InReserve(a)
    BY <1>3, <1>10, <1>13
  <2>2. CASE At(a).id = op.id
    BY <1>11, <1>13, <2>1, <2>2 DEF Same
  <2>3. CASE At(a).id # op.id
    <3>1. PICK c \in Place : Passed(c) /\ IsCopyOf(a, c)
      BY <1>2, <2>1, <2>3 DEF ReserveItems
    <3>2. Kept(c) /\ Kept(b) /\ Same(b, c) /\ At(c).old /\ c[1] = op.com
      BY <1>2, <1>3, <1>13, <3>1 DEF Passed, IsCopyOf, Same, PassedCopied
    <3>3. b = c
      BY <1>3, <3>2 DEF OnlyCopies
    <3> QED BY <2>1, <3>2, <3>3
  <2> QED BY <2>2, <2>3
<1>14. \A a, b \in Place : Same(a, b) <=> Same(b, a)
  BY DEF Same
<1>15. Types'
  BY <1>1, <1>7 DEF NvInv, Types
<1>16. FlashInv'
  <2>1. ItemsSound'
    <3>1. \A p \in Pages : LastOf(p)' = LastOf(p)
      BY <1>6 DEF LastOf
    <3> QED BY <1>3, <1>7, <3>1, PlaceFacts DEF FlashInv, ItemsSound
  <2>2. HeadersSound'
    BY <1>6, <1>8, <1>9 DEF HeadersSound
  <2>3. CopiesSound'
    <3> SUFFICES ASSUME NEW a \in Place, NEW b \in Place, Good(At(a)), Good(At(b)), Same(a, b),
                        At(a).old = At(b).old
                 PROVE  a = b
      BY <1>7, <1>8 DEF CopiesSound
    <3>1. CASE a[1] # pgRes /\ b[1] # pgRes
      BY <1>3, <3>1 DEF OnlyCopies
    <3>2. CASE a[1] = pgRes /\ b[1] = pgRes
      BY <1>2, <1>3, <3>2 DEF ReserveOnce
    <3>3. CASE a[1] = pgRes /\ b[1] # pgRes
      BY <1>13, <3>3
    <3>4. CASE a[1] # pgRes /\ b[1] = pgRes
      <4>1. At(a).old /\ ~At(b).old
        BY <1>13, <1>14, <3>4
      <4> QED BY <4>1
    <3> QED BY <3>1, <3>2, <3>3, <3>4
  <2>4. MarkedSound'
    <3> SUFFICES ASSUME NEW a \in Place, a[1] = op.com, Good(At(a))
                 PROVE  /\ At(a).old
                        /\ \E b \in Place : Good(At(b)) /\ Same(a, b) /\ ~At(b).old
      BY <1>7, <1>8, <1>9 DEF MarkedSound
    <3>1. CASE At(a).id = op.id
      <4>1. Operating /\ At(a).old
        BY <1>3, <1>11, <3>1
      <4>2. PICK b \in Place : /\ b[1] = pgRes /\ At(b).id = op.id /\ ~At(b).old
        BY <1>4, <4>1 DEF NewCopyOn
      <4> QED BY <1>3, <1>10, <3>1, <4>1, <4>2 DEF Same
    <3>2. CASE At(a).id # op.id
      <4>1. Passed(a)
        BY <1>12, <3>2
      <4>2. PICK b \in Place : InReserve(b) /\ IsCopyOf(b, a)
        BY <1>2, <4>1 DEF PassedCopied
      <4> QED BY <1>2, <1>10, <1>14, <4>1, <4>2 DEF PassedCopied, IsCopyOf
    <3> QED BY <3>1, <3>2
  <2>5. RoomSound'
    BY <1>1, <1>3, <1>6 DEF FlashInv, RoomSound
  <2> QED BY <2>1, <2>2, <2>3, <2>4, <2>5 DEF FlashInv
<1>17. Phase'
  <2>1. flash'[op.com].xfer
    BY <1>2, <1>3, <1>6 DEF Compacting
  <2> QED BY <1>1, <1>2, <1>3, <1>8, <2>1 DEF Phase, Operating
<1>18. ReserveInv' /\ ScanInv' /\ PickInv'
  BY <1>1 DEF ReserveInv, Filling, ScanInv, PickInv
<1>19. OpInv'
  <2> SUFFICES ASSUME Operating PROVE OpInv'
    BY <1>1 DEF OpInv, Operating
  <2>1. op.kind = "write" => SourceSound'
    <3> SUFFICES ASSUME op.kind = "write" PROVE SourceSound'
      OBVIOUS
    <3>1. op.src \in Place /\ Kept(op.src) /\ At(op.src).id = op.id /\ At(op.src).old
      BY <1>1, <1>4 DEF SourceSound
    <3> QED BY <1>1, <1>3, <1>7, <1>8, <3>1 DEF SourceSound
  <2>2. NewCopyOn({pgRes})'
    BY <1>1, <1>4, <1>7 DEF NewCopyOn
  <2> QED BY <1>1, <1>4, <2>1, <2>2 DEF OpInv
<1>20. ServeInv'
  <2> SUFFICES ASSUME Operating PROVE ServeInv'
    BY <1>1 DEF ServeInv, Serving, Operating
  <2>1. ASSUME NEW a \in Place, NEW b \in Place, Good(At(a)), Good(At(b)), Same(a, b),
               ~Spare(a)', ~Spare(b)'
        PROVE  a = b
    <3>1. /\ a[1] # op.com /\ ~(op.kind = "write" /\ a = op.src)
          /\ b[1] # op.com /\ ~(op.kind = "write" /\ b = op.src)
      BY <1>1, <2>1 DEF Spare
    <3>2. CASE a[1] # pgRes /\ b[1] # pgRes
      BY <1>3, <2>1, <3>2 DEF OnlyCopies
    <3>3. CASE a[1] = pgRes /\ b[1] = pgRes
      BY <1>2, <1>3, <2>1, <3>3 DEF ReserveOnce
    <3>4. CASE a[1] = pgRes /\ b[1] # pgRes
      BY <1>13, <2>1, <3>1, <3>4
    <3>5. CASE a[1] # pgRes /\ b[1] = pgRes
      BY <1>13, <1>14, <2>1, <3>1, <3>5
    <3> QED BY <3>2, <3>3, <3>4, <3>5
  <2>2. \A a \in Place : Live(At(a)) => Good(At(a))
    BY <1>5
  <2>3. \A p \in Pages : pgOff'[p] = Used(flash'[p].items)
    BY <1>1, <1>5, <1>6
  <2> QED BY <1>7, <1>8, <2>1, <2>2, <2>3 DEF ServeInv
<1>21. HotInv'
  <2>1. \A a \in Place : Replaced(a)' <=> Replaced(a)
    BY <1>1, <1>2, <1>7 DEF Replaced
  <2> QED BY <1>1, <1>3, <1>7, <2>1 DEF NvInv, HotInv
<1> QED BY <1>15, <1>16, <1>17, <1>18, <1>19, <1>20, <1>21 DEF NvInv

(* Erasing the compacted page keeps NvInv. *)
LEMMA EraseCompactedStep ==
  ASSUME NvInv, EraseCompacted
  PROVE  NvInv'
<1>01. PICK c : c = op.com
  OBVIOUS
<1>1. /\ pc = "erase" /\ pgRes' = c
      /\ flash' = [flash EXCEPT ![c] = Blank]
      /\ pgOff' = [pgOff EXCEPT ![c] = 0]
      /\ pgLost' = [pgLost EXCEPT ![c] = 0]
      /\ IF op.kind = "boot" THEN pc' = "scan" /\ UNCHANGED op ELSE ThenZeroes
      /\ UNCHANGED <<hot, scan>>
  BY <1>01 DEF EraseCompacted, ErasePage
<1>2. /\ FlashType /\ FlashInv /\ (Operating \/ op.kind = "boot") /\ op \in OpType
      /\ c \in Pages /\ c # pgRes /\ flash[c].xfer /\ InErasedState = {} /\ scan = NoScan
      /\ Operating => pgRes \in Pages
      /\ NoPage \notin Pages /\ pgOff \in [Pages -> 0 .. PageSize] /\ pgLost \in [Pages -> Nat]
  BY <1>01, <1>1 DEF NvInv, Types, Phase, NoPage, Pages
<1>3. /\ FlashType' /\ Place' = {a \in Place : a[1] # c}
      /\ \A a \in Place' : a \in Place /\ a[1] # c /\ At(a)' = At(a)
      /\ flash'[c] = Blank /\ ~flash'[c].active /\ ~flash'[c].xfer /\ flash'[c].items = <<>>
      /\ \A q \in Pages : q # c => flash'[q] = flash[q]
  BY <1>1, <1>2, PageErased
<1>4. /\ \A p \in Pages : flash[p].active
      /\ \A p \in Pages : flash[p].xfer => p = c
  <2>1. \A p \in Pages : flash[p].active
    BY <1>2 DEF InErasedState
  <2>2. \A p \in Pages : flash[p].xfer => p \in MarkedPages
    BY <2>1 DEF MarkedPages
  <2> QED BY <1>2, <2>1, <2>2 DEF FlashInv, HeadersSound
<1>5. InErasedState' = {c} /\ MarkedPages' = {}
  BY <1>2, <1>3, <1>4, ZenonT(40) DEF InErasedState, MarkedPages
<1>6. ReserveBlank'
  BY <1>1, <1>2, <1>3, <1>4 DEF ReserveBlank
<1>7. /\ \A a \in Place' : Kept(a)' <=> Kept(a)
      /\ \A a, b \in Place' : Same(a, b)' <=> Same(a, b)
  BY <1>2, <1>3, PlaceFacts DEF Kept, Same
<1>8. /\ IF op.kind = "boot" THEN pc' = "scan" /\ op' = op
         ELSE IF op.kind = "write" /\ op.src[1] # c THEN pc' = "zero" /\ op' = op
         ELSE pc' = "idle" /\ op' = NoOp
      /\ op' \in OpType
  <2>1. NoOp \in OpType
    BY DEF NoOp, OpType, PlaceType
  <2> QED BY <1>01, <1>1, <1>2, <2>1 DEF ThenZeroes, Ends
<1>9. Types'
  <2>1. pgOff' \in [Pages -> 0 .. PageSize] /\ pgLost' \in [Pages -> Nat]
    BY <1>1, <1>2, PagesAssumption
  <2> QED BY <1>1, <1>2, <1>3, <1>8, <2>1 DEF NvInv, Types
<1>10. FlashInv'
  <2>1. ItemsSound'
    <3>1. \A p \in Pages : p # c => LastOf(p)' = LastOf(p)
      BY <1>3 DEF LastOf
    <3> QED BY <1>2, <1>3, <3>1, PlaceFacts DEF FlashInv, ItemsSound
  <2>2. HeadersSound'
    BY <1>3, <1>4, <1>5 DEF HeadersSound
  <2>3. CopiesSound'
    BY <1>2, <1>3, <1>7 DEF FlashInv, CopiesSound
  <2>4. MarkedSound'
    BY <1>5 DEF MarkedSound
  <2>5. RoomSound'
    <3> SUFFICES ASSUME NEW p \in Pages
                 PROVE  LenOf(flash'[p].items) <= PageSize /\ pgLost'[p] <= Lost(flash'[p].items)
      BY DEF RoomSound
    <3>1. CASE p = c
      BY <1>1, <1>2, <1>3, <3>1, EmptyItems, PagesAssumption
    <3>2. CASE p # c
      BY <1>1, <1>2, <1>3, <3>2 DEF FlashInv, RoomSound
    <3> QED BY <3>1, <3>2
  <2> QED BY <2>1, <2>2, <2>3, <2>4, <2>5 DEF FlashInv
<1>11. Phase'
  <2>1. ~Operating => op.id = Missing
    BY DEF NvInv, Phase
  <2>2. scan' = NoScan
    BY <1>1, <1>2
  <2> QED BY <1>6, <1>8, <2>1, <2>2 DEF Phase, Operating, NoOp
<1>12. ReserveInv' /\ PickInv'
  BY <1>8 DEF ReserveInv, Filling, PickInv
<1>13. Operating =>
         /\ op.id \in Items /\ op.val \in Values
         /\ op.kind = "write" => SourceSound
         /\ NewCopyOn({pgRes})
         /\ \A a, b \in Place :
               Kept(a) /\ ~Spare(a) /\ Kept(b) /\ ~Spare(b) /\ Same(a, b) => a = b
         /\ \A a \in Place : Live(At(a)) => Good(At(a))
         /\ \A p \in Pages : pgOff[p] = Used(flash[p].items)
  BY <1>1 DEF NvInv, OpInv, ServeInv, Serving, Bad
<1>14. OpInv'
  <2> SUFFICES ASSUME op.kind = "write", op.src[1] # c PROVE OpInv'
    BY <1>2, <1>8 DEF OpInv, Operating, NoOp
  <2>1. Operating /\ op' = op /\ pc' = "zero"
    BY <1>8 DEF Operating
  <2>2. op.src \in Place /\ Kept(op.src) /\ At(op.src).id = op.id /\ At(op.src).old
    BY <1>1, <1>13, <2>1 DEF SourceSound
  <2>3. SourceSound'
    <3>1. PICK s : s = op.src
      OBVIOUS
    <3>2. s \in Place' /\ Kept(s)' /\ At(s)' = At(s)
      BY <1>3, <1>7, <2>2, <3>1
    <3> QED BY <2>1, <2>2, <3>1, <3>2 DEF SourceSound
  <2>4. NewCopyOn(Pages \ {pgRes})'
    <3>1. PICK a \in Place : a[1] = pgRes /\ At(a).id = op.id /\ At(a).val = op.val /\ ~At(a).old
      BY <1>13, <2>1 DEF NewCopyOn
    <3>2. a \in Place' /\ a[1] \in Pages /\ At(a)' = At(a)
      BY <1>2, <1>3, <2>1, <3>1
    <3> QED BY <1>1, <1>2, <2>1, <3>1, <3>2 DEF NewCopyOn
  <2> QED BY <1>13, <2>1, <2>3, <2>4 DEF OpInv
<1>15. ServeInv'
  <2> SUFFICES ASSUME Operating PROVE ServeInv'
    BY <1>2, <1>8 DEF ServeInv, Serving, Operating
  <2>1. ASSUME NEW a \in Place', ~Spare(a)' PROVE ~Spare(a)
    <3>1. a \in Place /\ a[1] # c
      BY <1>3
    <3>2. ~(op.kind = "write" /\ a = op.src)
      BY <1>8, <2>1, <3>1 DEF Spare
    <3> QED BY <1>01, <1>1, <3>1, <3>2 DEF Spare
  <2>2. \A a, b \in Place' : Kept(a)' /\ ~Spare(a)' /\ Kept(b)' /\ ~Spare(b)' /\ Same(a, b)' => a = b
    BY <1>3, <1>7, <1>13, <2>1
  <2>3. \A a \in Place' : Live(At(a)') => Good(At(a)')
    BY <1>3, <1>13
  <2>4. ASSUME NEW p \in Pages PROVE pgOff'[p] = Used(flash'[p].items)
    <3>1. CASE p = c
      BY <1>1, <1>2, <1>3, <3>1, EmptyItems
    <3>2. CASE p # c
      BY <1>1, <1>2, <1>3, <1>13, <3>2
    <3> QED BY <3>1, <3>2
  <2> QED BY <2>2, <2>3, <2>4 DEF ServeInv
<1>16. ScanInv'
  <2> SUFFICES ASSUME pc' = "scan" PROVE ScanInv'
    BY DEF ScanInv
  <2>1. scan' = NoScan /\ scan'.pg = 1 /\ scan'.i = 1 /\ scan'.lost = 0 /\ 1 \in Pages
    BY <1>1, <1>2, PagesAssumption DEF NoScan, Pages
  <2>2. \A a \in Place' : ~Before(a, <<1, 1>>)
    BY <1>2, <1>3, PlaceFacts DEF Before
  <2>3. ScanAt' = <<1, 1>>
    BY <2>1 DEF ScanAt
  <2>4. \A p \in Pages : ~(p < 1)
    BY DEF Pages
  <2>5. Len(flash'[1].items) \in Nat /\ Total(LensZeroed(1, 1)') \in Nat
    <3>1. Len(flash'[1].items) \in Nat
      BY <1>3, <2>1 DEF FlashType, PageType
    <3> QED BY <1>3, <2>1, <3>1, ZeroedTypeNext
  <2> QED BY <2>1, <2>2, <2>3, <2>4, <2>5 DEF ScanInv
<1>17. HotInv'
  <2>1. ASSUME NEW a \in Place', Good(At(a)'), ~Replaced(a)' PROVE a \in Place /\ ~Replaced(a)
    <3>1. a \in Place /\ a[1] # c
      BY <1>3
    <3>2. ~(op.kind = "write" /\ a = op.src)
      BY <1>8, <2>1, <3>1 DEF Replaced
    <3> QED BY <1>01, <1>1, <3>1, <3>2 DEF Replaced
  <2>2. pgRes' # NoPage /\ pc' \notin {"boot", "eraseRes"}
    BY <1>1, <1>2, <1>8
  <2> QED BY <1>1, <1>3, <2>1, <2>2 DEF NvInv, HotInv
<1> QED BY <1>9, <1>10, <1>11, <1>12, <1>14, <1>15, <1>16, <1>17 DEF NvInv

(* A flash that was never written satisfies NvInv. *)
LEMMA InitNv == Init => NvInv
<1> SUFFICES ASSUME Init PROVE NvInv
  OBVIOUS
<1>1. /\ flash = [p \in Pages |-> Blank] /\ pgOff = AllZero /\ pgLost = AllZero /\ pgRes = NoPage
      /\ hot = NoneHot /\ pc = "boot" /\ op = NoOp /\ scan = NoScan
  BY DEF Init
<1>2. \A p \in Pages : flash[p] = Blank
  BY <1>1
<1>3. FlashType
  BY <1>1 DEF FlashType, PageType, Blank
<1>4. Place = {}
  BY <1>2, <1>3, PlaceFacts DEF Blank
<1>5. Types
  <2>1. pgOff \in [Pages -> 0 .. PageSize] /\ pgLost \in [Pages -> Nat]
    BY <1>1, PagesAssumption DEF AllZero
  <2>2. hot \in [HotIds -> PlaceType]
    BY <1>1 DEF NoneHot, PlaceType
  <2>3. op \in OpType
    BY <1>1 DEF NoOp, OpType, PlaceType
  <2>4. scan \in ScanType
    BY <1>1, PagesAssumption DEF NoScan, ScanType
  <2> QED BY <1>1, <1>3, <2>1, <2>2, <2>3, <2>4 DEF Types
<1>6. FlashInv
  <2>1. RoomSound
    BY <1>1, <1>2, EmptyItems, PagesAssumption DEF RoomSound, Blank, AllZero
  <2>2. HeadersSound
    BY <1>2 DEF HeadersSound, Blank, MarkedPages
  <2> QED BY <1>2, <1>4, <2>1, <2>2 DEF FlashInv, ItemsSound, CopiesSound, MarkedSound, MarkedPages,
                                       Blank
<1>7. Phase
  BY <1>1 DEF Phase, Operating, NoOp
<1>8. ReserveInv /\ OpInv /\ ServeInv /\ ScanInv /\ PickInv
  BY <1>1 DEF ReserveInv, Filling, OpInv, ServeInv, Serving, Operating, NoOp, ScanInv, PickInv
<1>9. HotInv
  BY <1>1, <1>4 DEF HotInv
<1> QED BY <1>5, <1>6, <1>7, <1>8, <1>9 DEF NvInv

(* initNV's putting pages in use when more than one has no header keeps NvInv. *)
LEMMA BootUsesStep ==
  ASSUME NvInv, BootUses
  PROVE  NvInv'
<1>01. PICK p : p = Next1(InErasedState \ {Next1(InErasedState)})
  OBVIOUS
<1>1. /\ pc = "boot" /\ \E x, y \in InErasedState : x # y
      /\ flash' = [flash EXCEPT ![p].active = TRUE]
      /\ UNCHANGED <<pgOff, pgLost, pgRes, hot, pc, op, scan>>
  BY <1>01 DEF BootUses
<1>2. /\ FlashType /\ FlashInv /\ op = NoOp /\ pgRes = NoPage /\ hot = NoneHot /\ scan = NoScan
  BY <1>1 DEF NvInv, Types, Phase, HotInv
<1>3. p \in Pages
  <2>1. InErasedState \subseteq Nat
    BY DEF InErasedState, Pages
  <2>2. InErasedState \ {Next1(InErasedState)} # {}
    BY <1>1
  <2>3. p \in InErasedState \ {Next1(InErasedState)}
    BY <1>01, <2>1, <2>2, Next1Facts
  <2> QED BY <2>3 DEF InErasedState
<1>4. \A r \in Pages : flash[r].items = <<>> /\ ~flash[r].xfer
  BY <1>1, <1>2 DEF FlashInv, HeadersSound
<1>5. /\ \A r \in Pages : /\ flash'[r].items = <<>> /\ ~flash'[r].xfer
      /\ flash' \in [Pages -> PageType]
  BY <1>1, <1>2, <1>3, <1>4 DEF FlashType, PageType
<1>6. FlashType' /\ Place' = {} /\ MarkedPages' = {}
  <2>1. FlashType' /\ MarkedPages' = {}
    BY <1>5 DEF FlashType, MarkedPages
  <2>2. Place' = Place
    BY <1>2, <1>4, <1>5, <2>1, SameItems
  <2>3. Place = {}
    BY <1>2, <1>4, PlaceFacts
  <2> QED BY <2>1, <2>2, <2>3
<1>7. Types'
  BY <1>1, <1>6 DEF NvInv, Types
<1>8. FlashInv'
  <2>1. RoomSound'
    BY <1>1, <1>2, <1>4, <1>5 DEF FlashInv, RoomSound
  <2>2. HeadersSound'
    BY <1>5, <1>6 DEF HeadersSound
  <2> QED BY <1>6, <2>1, <2>2 DEF FlashInv, ItemsSound, CopiesSound, MarkedSound
<1>9. Phase'
  BY <1>1, <1>2 DEF Phase, Operating, NoOp
<1>10. ReserveInv' /\ OpInv' /\ ServeInv' /\ ScanInv' /\ PickInv'
  BY <1>1, <1>2 DEF ReserveInv, Filling, OpInv, ServeInv, Serving, Operating, NoOp, ScanInv, PickInv
<1>11. HotInv'
  BY <1>1, <1>2, <1>6 DEF HotInv
<1> QED BY <1>7, <1>8, <1>9, <1>10, <1>11 DEF NvInv

(* The walk of initNV begins. *)
LEMMA ScanBegins ==
  ASSUME FlashType', scan'.pg = 1, scan'.i = 1, scan'.lost = 0
  PROVE  ScanInv'
<1>1. 1 \in Pages
  BY PagesAssumption DEF Pages
<1>2. \A a \in Place' : ~Before(a, <<1, 1>>)
  <2> SUFFICES ASSUME NEW a \in Place' PROVE ~Before(a, <<1, 1>>)
    OBVIOUS
  <2>1. a[1] \in Pages /\ a[2] \in 1 .. Len(flash'[a[1]].items) /\ Len(flash'[a[1]].items) \in Nat
    BY DEF Place, FlashType, PageType
  <2> QED BY <2>1 DEF Before, Pages
<1>3. ScanAt' = <<1, 1>>
  BY DEF ScanAt
<1>4. \A p \in Pages : ~(p < 1)
  BY DEF Pages
<1>5. Len(flash'[1].items) \in Nat
  BY <1>1 DEF FlashType, PageType
<1>6. Total(LensZeroed(1, 1)') \in Nat
  BY <1>1, ZeroedTypeNext
<1> QED BY <1>1, <1>2, <1>3, <1>4, <1>5, <1>6 DEF ScanInv

(* initNV's reading of the headers keeps NvInv. *)
LEMMA BootHeadersStep ==
  ASSUME NvInv, BootHeaders
  PROVE  NvInv'
<1>1. /\ pc = "boot" /\ \A p, q \in InErasedState : p = q
      /\ pgRes' = IF InErasedState = {} THEN NoPage ELSE Next1(InErasedState)
      /\ op' = [NoOp EXCEPT !.kind = "boot", !.k = 1,
                            !.com = IF MarkedPages = {} THEN NoPage ELSE Last1(MarkedPages)]
      /\ pc' = CASE InErasedState # {} -> "eraseRes"
                 [] InErasedState = {} /\ MarkedPages # {} -> "erase"
                 [] OTHER -> "scan"
      /\ UNCHANGED <<flash, pgOff, pgLost, hot, scan>>
  BY DEF BootHeaders
<1>2. /\ FlashType /\ FlashInv /\ op = NoOp /\ pgRes = NoPage /\ hot = NoneHot /\ scan = NoScan
      /\ NoPage \notin Pages
  BY <1>1 DEF NvInv, Types, Phase, HotInv, NoPage, Pages
<1>3. PICK com : com = IF MarkedPages = {} THEN NoPage ELSE Last1(MarkedPages)
  OBVIOUS
<1>4. IF MarkedPages = {} THEN com = NoPage
                          ELSE com \in MarkedPages /\ com \in Pages /\ flash[com].active
                               /\ flash[com].xfer
  <2>1. CASE MarkedPages = {}
    BY <1>3, <2>1
  <2>2. CASE MarkedPages # {}
    <3>1. PICK m \in MarkedPages : TRUE
      BY <2>2
    <3>2. m \in Nat /\ \A x \in MarkedPages : x = m
      BY <1>2, <3>1 DEF FlashInv, HeadersSound, MarkedPages, Pages
    <3>3. Last1(MarkedPages) = m
      BY <3>1, <3>2, Last1Only
    <3>4. com = m
      BY <1>3, <2>2, <3>3
    <3> QED BY <2>2, <3>1, <3>4 DEF MarkedPages
  <2> QED BY <2>1, <2>2
<1>5. IF InErasedState = {} THEN pgRes' = NoPage
                            ELSE pgRes' \in Pages /\ InErasedState = {pgRes'}
  <2>1. CASE InErasedState = {}
    BY <1>1, <2>1
  <2>2. CASE InErasedState # {}
    <3>1. InErasedState \subseteq Nat /\ InErasedState \subseteq Pages
      BY DEF InErasedState, Pages
    <3>2. Next1(InErasedState) \in InErasedState
      BY <2>2, <3>1, Next1Facts
    <3>3. pgRes' \in InErasedState
      BY <1>1, <2>2, <3>2
    <3> QED BY <1>1, <2>2, <3>1, <3>3
  <2> QED BY <2>1, <2>2
<1>6. /\ op'.kind = "boot" /\ op'.k = 1 /\ op'.com = com /\ op'.id = Missing /\ op' \in OpType
      /\ ~Operating'
  <2>1. com \in Pages \cup {NoPage}
    BY <1>4
  <2>2. op' = [kind |-> "boot", id |-> Missing, val |-> Missing, src |-> NoPlace, com |-> com,
               dst |-> NoPage, k |-> 1]
    BY <1>1, <1>3 DEF NoOp
  <2> QED BY <2>1, <2>2 DEF OpType, PlaceType, Operating
<1>7. /\ FlashType' /\ Place' = Place
      /\ InErasedState' = InErasedState /\ MarkedPages' = MarkedPages
  BY <1>1, <1>2, FlashStays
<1>8. /\ InErasedState # {} => pc' = "eraseRes"
      /\ InErasedState = {} /\ MarkedPages # {} => pc' = "erase"
      /\ InErasedState = {} /\ MarkedPages = {} => pc' = "scan"
  BY <1>1
<1>9. Types'
  BY <1>1, <1>5, <1>6, <1>7, <1>8 DEF NvInv, Types
<1>10. FlashInv'
  BY <1>1, <1>2, FlashInvKept DEF FlashInv, RoomSound
<1>11. Phase'
  <2>1. CASE InErasedState # {}
    <3>1. com # NoPage => com # pgRes'
      BY <1>2, <1>4, <1>5, <2>1 DEF InErasedState
    <3> QED BY <1>1, <1>2, <1>4, <1>5, <1>6, <1>7, <1>8, <2>1, <3>1 DEF Phase
  <2>2. CASE InErasedState = {} /\ MarkedPages # {}
    BY <1>1, <1>2, <1>4, <1>5, <1>6, <1>7, <1>8, <2>2 DEF Phase
  <2>3. CASE InErasedState = {} /\ MarkedPages = {}
    <3>1. \A p \in Pages : flash[p].active /\ ~flash[p].xfer
      BY <2>3 DEF InErasedState, MarkedPages
    <3>2. NoReserve'
      BY <1>1, <1>5, <2>3, <3>1 DEF NoReserve
    <3> QED BY <1>1, <1>2, <1>6, <1>8, <2>3, <3>2 DEF Phase
  <2> QED BY <2>1, <2>2, <2>3
<1>12. ReserveInv' /\ OpInv' /\ ServeInv' /\ PickInv'
  BY <1>6, <1>8 DEF ReserveInv, Filling, OpInv, ServeInv, Serving, PickInv
<1>13. ScanInv'
  BY <1>1, <1>2, <1>7, ScanBegins DEF NoScan
<1>14. HotInv'
  BY <1>1, <1>2 DEF HotInv, NoneHot
<1> QED BY <1>9, <1>10, <1>11, <1>12, <1>13, <1>14 DEF NvInv

(* initNV's erasing of the reserve page keeps NvInv. *)
LEMMA EraseReserveStep ==
  ASSUME NvInv, EraseReserve
  PROVE  NvInv'
<1>01. PICK r : r = pgRes
  OBVIOUS
<1>1. /\ pc = "eraseRes" /\ pgRes = r /\ pgRes' = r
      /\ flash' = [flash EXCEPT ![r] = Blank]
      /\ pgOff' = [pgOff EXCEPT ![r] = 0]
      /\ pgLost' = [pgLost EXCEPT ![r] = 0]
      /\ CASE op.kind = "pick" -> Ends
           [] op.kind = "boot" /\ op.com # NoPage -> pc' = "compact" /\ UNCHANGED op
           [] OTHER -> pc' = "scan" /\ UNCHANGED op
      /\ UNCHANGED <<hot, scan>>
  BY <1>01 DEF EraseReserve, ErasePage
<1>2. /\ FlashType /\ FlashInv /\ op \in OpType /\ scan = NoScan /\ hot = NoneHot
      /\ NoPage \notin Pages /\ pgOff \in [Pages -> 0 .. PageSize] /\ pgLost \in [Pages -> Nat]
      /\ (~Operating => op.id = Missing)
      /\ \/ /\ op.kind = "boot" /\ InErasedState = {r} /\ op.k = 1
            /\ IF op.com = NoPage THEN MarkedPages = {}
                                  ELSE op.com # r /\ flash[op.com].xfer
         \/ op.kind = "pick" /\ r \in Pages /\ InErasedState = {} /\ MarkedPages = {}
  BY <1>1 DEF NvInv, Types, Phase, HotInv, NoPage, Pages
<1>3. r \in Pages /\ ~Operating /\ op.id = Missing
  <2>1. InErasedState \subseteq Pages
    BY DEF InErasedState
  <2> QED BY <1>2, <2>1 DEF Operating
<1>4. /\ FlashType' /\ Place' = {a \in Place : a[1] # r}
      /\ \A a \in Place' : a \in Place /\ a[1] # r /\ At(a)' = At(a)
      /\ flash'[r] = Blank /\ ~flash'[r].active /\ ~flash'[r].xfer /\ flash'[r].items = <<>>
      /\ \A q \in Pages : q # r => flash'[q] = flash[q]
  BY <1>1, <1>2, <1>3, PageErased
<1>5. /\ \A p \in Pages \ {r} : flash'[p].active
      /\ InErasedState' = {r} /\ MarkedPages' \subseteq MarkedPages
  <2>1. \A p \in Pages : ~flash[p].active => p = r
    BY <1>2 DEF InErasedState
  <2> QED BY <1>3, <1>4, <2>1 DEF InErasedState, MarkedPages
<1>6. /\ \A a \in Place' : Kept(a)' <=> Kept(a)
      /\ \A a, b \in Place' : Same(a, b)' <=> Same(a, b)
  BY <1>2, <1>4, PlaceFacts DEF Kept, Same
<1>7. /\ op.kind = "pick" => pc' = "idle" /\ op' = NoOp
      /\ op.kind = "boot" /\ op.com # NoPage => pc' = "compact" /\ op' = op
      /\ op.kind = "boot" /\ op.com = NoPage => pc' = "scan" /\ op' = op
      /\ op' \in OpType
  <2>1. NoOp \in OpType
    BY DEF NoOp, OpType, PlaceType
  <2> QED BY <1>1, <1>2, <2>1 DEF Ends
<1>8. Types'
  <2>1. pgOff' \in [Pages -> 0 .. PageSize] /\ pgLost' \in [Pages -> Nat]
    BY <1>1, <1>2, <1>3, PagesAssumption, SMTT(30)
  <2>2. pc' \in {"idle", "compact", "scan"}
    BY <1>2, <1>7
  <2> QED BY <1>1, <1>3, <1>4, <1>7, <2>1, <2>2 DEF NvInv, Types
<1>9. FlashInv'
  <2>1. ItemsSound'
    <3>1. \A p \in Pages : p # r => LastOf(p)' = LastOf(p)
      BY <1>4 DEF LastOf
    <3> QED BY <1>2, <1>4, <3>1, PlaceFacts DEF FlashInv, ItemsSound
  <2>2. HeadersSound'
    <3>1. \A p \in Pages : flash'[p].xfer => flash'[p].active
      BY <1>2, <1>4 DEF FlashInv, HeadersSound
    <3> QED BY <1>2, <1>5, <3>1 DEF FlashInv, HeadersSound
  <2>3. CopiesSound'
    BY <1>2, <1>4, <1>6 DEF FlashInv, CopiesSound
  <2>4. MarkedSound'
    <3> SUFFICES ASSUME NEW m \in MarkedPages' PROVE OnlyCopies'
      BY <1>5 DEF MarkedSound
    <3>1. m \in MarkedPages /\ InErasedState # {}
      BY <1>2, <1>5
    <3>2. OnlyCopies
      BY <1>2, <3>1 DEF FlashInv, MarkedSound
    <3> QED BY <1>4, <1>6, <3>2 DEF OnlyCopies
  <2>5. RoomSound'
    <3> SUFFICES ASSUME NEW p \in Pages
                 PROVE  LenOf(flash'[p].items) <= PageSize /\ pgLost'[p] <= Lost(flash'[p].items)
      BY DEF RoomSound
    <3>1. CASE p = r
      BY <1>1, <1>2, <1>4, <3>1, EmptyItems, PagesAssumption
    <3>2. CASE p # r
      BY <1>1, <1>2, <1>4, <3>2 DEF FlashInv, RoomSound
    <3> QED BY <3>1, <3>2
  <2> QED BY <2>1, <2>2, <2>3, <2>4, <2>5 DEF FlashInv
<1>10. ~Operating'
  BY <1>2, <1>3, <1>7 DEF Operating, NoOp
<1>11. MarkedPages = {} => ReserveBlank'
  BY <1>1, <1>3, <1>4, <1>5 DEF ReserveBlank, MarkedPages
<1>12. op.kind = "boot" /\ op.com # NoPage => Compacting'
  <2> SUFFICES ASSUME op.kind = "boot", op.com # NoPage PROVE Compacting'
    OBVIOUS
  <2>1. op.com \in Pages /\ op.com # r /\ flash[op.com].xfer
    BY <1>2 DEF OpType
  <2> QED BY <1>1, <1>3, <1>4, <1>5, <1>7, <1>10, <2>1 DEF Compacting
<1>13. Phase'
  BY <1>1, <1>2, <1>3, <1>7, <1>10, <1>11, <1>12 DEF Phase, NoOp
<1>14. ReserveInv'
  <2> SUFFICES ASSUME op.kind = "boot", op.com # NoPage PROVE ReserveInv'
    BY <1>2, <1>7 DEF ReserveInv, Filling
  <2>1. op.com \in Pages /\ op.com # r /\ pc' = "compact" /\ op' = op /\ op.k = 1
    BY <1>2, <1>7 DEF OpType
  <2>2. LenOfNew' = 0
    BY <1>10 DEF LenOfNew
  <2>3. LensToCome(1)' = LensToCome(1)
    BY <1>4, <2>1 DEF LensToCome
  <2>4. /\ Total(LensToCome(1)) + LenOfZeroed(flash[op.com].items) <= LenOf(flash[op.com].items)
        /\ Total(LensToCome(1)) \in Nat
    BY <1>2, <2>1, ToComeFits, ToComeType
  <2>5. /\ LenOf(flash[op.com].items) \in Nat /\ LenOfZeroed(flash[op.com].items) \in Nat
        /\ LenOf(flash[op.com].items) <= PageSize
    BY <1>2, <2>1, LostFacts DEF FlashType, PageType, FlashInv, RoomSound
  <2>6. Total(LensToCome(1)) + 0 <= PageSize
    BY <2>4, <2>5, PagesAssumption
  <2>7. Total(LensToCome(1)') = Total(LensToCome(1))
    BY <2>3
  <2>8. pgOff'[r] = 0
    BY <1>1, <1>2, <1>3
  <2> QED BY <1>1, <1>3, <1>4, <2>1, <2>2, <2>4, <2>6, <2>7, <2>8, ReserveBegins
<1>15. OpInv' /\ PickInv'
  BY <1>2, <1>7, <1>10 DEF OpInv, PickInv
<1>16. ServeInv'
  <2> SUFFICES ASSUME op.kind = "pick" PROVE ServeInv'
    BY <1>2, <1>7, <1>10 DEF ServeInv, Serving
  <2>1. /\ \A a \in Place : Live(At(a)) => Good(At(a))
        /\ OnlyCopies
        /\ \A p \in Pages : pgOff[p] = Used(flash[p].items)
    BY <1>1 DEF NvInv, PickInv
  <2>2. ASSUME NEW p \in Pages PROVE pgOff'[p] = Used(flash'[p].items)
    <3>1. CASE p = r
      BY <1>1, <1>2, <1>4, <3>1, EmptyItems
    <3>2. CASE p # r
      BY <1>1, <1>2, <1>4, <2>1, <3>2
    <3> QED BY <3>1, <3>2
  <2> QED BY <1>4, <1>6, <2>1, <2>2 DEF ServeInv, OnlyCopies
<1>17. ScanInv'
  BY <1>1, <1>2, <1>4, ScanBegins DEF NoScan
<1>18. HotInv'
  BY <1>1, <1>2 DEF HotInv, NoneHot
<1> QED BY <1>8, <1>9, <1>13, <1>14, <1>15, <1>16, <1>17, <1>18 DEF NvInv

(* The walk of initNV. *)
LEMMA ScanFacts ==
  ASSUME NvInv, pc = "scan"
  PROVE  /\ FlashType /\ FlashInv /\ op.kind = "boot" /\ (ReserveBlank \/ NoReserve)
         /\ MarkedPages = {} /\ ~Operating /\ op.id = Missing /\ ~Filling /\ ~Serving
         /\ NoPage \notin Pages /\ scan \in ScanType
         /\ pgOff \in [Pages -> 0 .. PageSize] /\ pgLost \in [Pages -> Nat]
         /\ \A a \in Place : /\ a[1] # pgRes /\ (Kept(a) <=> Good(At(a)))
                             /\ ~Replaced(a)
         /\ IF scan.pg \in Pages
            THEN /\ scan.i <= Len(flash[scan.pg].items) + 1
                 /\ scan.lost <= Total(LensZeroed(scan.pg, scan.i))
            ELSE scan.i = 1 /\ scan.lost = 0
         /\ \A a \in Place : Before(a, ScanAt) /\ Live(At(a)) =>
               /\ Good(At(a))
               /\ IF scan.dups THEN At(a).old \/ HasNoOlder(a) ELSE ~At(a).old
         /\ \A p \in Pages : p < scan.pg => pgOff[p] = Used(flash[p].items)
<1>1. /\ FlashType /\ FlashInv /\ op.kind = "boot" /\ (ReserveBlank \/ NoReserve)
      /\ (~Operating => op.id = Missing) /\ scan \in ScanType /\ NoPage \notin Pages
      /\ pgOff \in [Pages -> 0 .. PageSize] /\ pgLost \in [Pages -> Nat]
  BY DEF NvInv, Types, Phase, NoPage, Pages
<1>2. ~Operating /\ ~Filling /\ ~Serving
  BY <1>1 DEF Operating, Filling, Serving
<1>3. MarkedPages = {}
  BY <1>1 DEF ReserveBlank, NoReserve, Blank, MarkedPages
<1>4. ASSUME NEW a \in Place
      PROVE  a[1] # pgRes /\ (Kept(a) <=> Good(At(a))) /\ ~Replaced(a)
  <2>1. a[1] \in Pages /\ a[2] \in 1 .. Len(flash[a[1]].items)
    BY <1>1, PlaceFacts
  <2>2. a[1] # pgRes
    BY <1>1, <2>1 DEF ReserveBlank, NoReserve, Blank
  <2>3. flash[a[1]].active
    BY <1>1, <2>1, <2>2 DEF ReserveBlank, NoReserve
  <2> QED BY <1>1, <1>2, <2>2, <2>3 DEF Kept, Replaced
<1>5. ScanInv
  BY DEF NvInv
<1> QED BY <1>1, <1>2, <1>3, <1>4, <1>5 DEF ScanInv

(* A step of the walk leaves everything else as it was. *)
LEMMA ScanStep ==
  ASSUME NvInv, pc = "scan", UNCHANGED <<pgOff, pgRes, hot, pc, op>>,
         scan' \in ScanType, pgLost' \in [Pages -> Nat], FlashInv', FlashType', Place' = Place,
         \A p \in Pages : /\ flash'[p].active = flash[p].active /\ flash'[p].xfer = flash[p].xfer
                          /\ p = pgRes => flash'[p] = flash[p],
         \A a \in Place : Good(At(a)') => At(a)' = At(a),
         ScanInv'
  PROVE  NvInv'
<1>1. /\ op.kind = "boot" /\ (ReserveBlank \/ NoReserve) /\ ~Operating /\ op.id = Missing
      /\ ~Filling /\ ~Serving
      /\ \A a \in Place : ~Replaced(a)
  BY ScanFacts
<1>2. Types'
  BY DEF NvInv, Types
<1>3. ~Operating' /\ ~Filling' /\ ~Serving' /\ (ReserveBlank' \/ NoReserve')
  BY <1>1 DEF Operating, Filling, Serving, ReserveBlank, NoReserve
<1>4. Phase'
  BY <1>1, <1>3 DEF Phase
<1>5. ReserveInv' /\ OpInv' /\ ServeInv' /\ PickInv'
  BY <1>3 DEF ReserveInv, OpInv, ServeInv, PickInv
<1>6. HotInv'
  <2>1. \A a \in Place : Good(At(a)') => At(a)' = At(a) /\ Good(At(a)) /\ ~Replaced(a)
    BY <1>1
  <2> QED BY <2>1 DEF NvInv, HotInv
<1> QED BY <1>2, <1>4, <1>5, <1>6 DEF NvInv

(* What the walk has left behind, when it goes on to the next item of a page. *)
LEMMA NextItemScan ==
  ASSUME NvInv, pc = "scan", scan.pg \in Pages, ~ScanEndOfPage
  PROVE  /\ ScanAt \in Place /\ scan.i \in 1 .. Len(flash[scan.pg].items)
         /\ scan.i \in Nat \ {0} /\ scan.i + 1 \in Nat
         /\ At(ScanAt) = flash[scan.pg].items[scan.i] /\ At(ScanAt).id # Torn
         /\ At(ScanAt) \in ItemType /\ At(ScanAt).len \in Nat
         /\ \A a \in Place : Before(a, <<scan.pg, scan.i + 1>>) => Before(a, ScanAt) \/ a = ScanAt
         /\ scan.lost \in Nat
<1>1. FlashType /\ scan \in ScanType
  BY ScanFacts
<1>2. scan.i \in DOMAIN flash[scan.pg].items /\ flash[scan.pg].items[scan.i].id # Torn
  BY DEF ScanEndOfPage
<1>3. scan.i \in 1 .. Len(flash[scan.pg].items) /\ Len(flash[scan.pg].items) \in Nat
  BY <1>1, <1>2 DEF FlashType, PageType
<1>4. ScanAt \in Place /\ At(ScanAt) = flash[scan.pg].items[scan.i]
  BY <1>1, <1>3, PlaceFacts DEF ScanAt, At
<1>5. At(ScanAt) \in ItemType
  BY <1>1, <1>4, PlaceFacts
<1>6. ASSUME NEW a \in Place, Before(a, <<scan.pg, scan.i + 1>>)
      PROVE  Before(a, ScanAt) \/ a = ScanAt
  <2>1. a[1] \in Nat /\ a[2] \in Nat /\ a = <<a[1], a[2]>> /\ scan.i \in Nat
    BY <1>1, <1>3, PlaceFacts
  <2>2. a[1] < scan.pg \/ (a[1] = scan.pg /\ a[2] < scan.i + 1)
    BY <1>6 DEF Before
  <2> QED BY <2>1, <2>2 DEF Before, ScanAt
<1> QED BY <1>1, <1>2, <1>3, <1>4, <1>5, <1>6 DEF ScanType, ItemType

(* LensZeroed after the step, by item. *)
LEMMA ZeroedNow ==
  ASSUME FlashType', NEW p \in Pages, NEW i \in Nat
  PROVE  /\ LensZeroed(p, i)' \in Seq(Nat)
         /\ Len(LensZeroed(p, i)') = Len(flash'[p].items)
         /\ \A j \in 1 .. Len(flash'[p].items) :
               LensZeroed(p, i)'[j] = IF j < i /\ flash'[p].items[j].id = Zeroed
                                      THEN flash'[p].items[j].len ELSE 0
<1>1. PICK items : items = flash'[p].items
  OBVIOUS
<1>2. items \in Seq(ItemType)
  BY <1>1 DEF FlashType, PageType
<1>3. /\ Len(items) \in Nat /\ DOMAIN items = 1 .. Len(items)
      /\ \A j \in 1 .. Len(items) : items[j] \in ItemType /\ items[j].len \in Nat
  BY <1>2, ItemFacts
<1>4. /\ LensZeroed(p, i)' \in [1 .. Len(items) -> Nat]
      /\ \A j \in 1 .. Len(items) :
            LensZeroed(p, i)'[j] = IF j < i /\ items[j].id = Zeroed THEN items[j].len ELSE 0
  BY <1>1, <1>3 DEF LensZeroed
<1>5. LensZeroed(p, i)' \in Seq(Nat) /\ Len(LensZeroed(p, i)') = Len(items)
  BY <1>3, <1>4, Along
<1> QED BY <1>1, <1>4, <1>5

(* The walk goes on to the next item, and may have zeroed one. *)
LEMMA NextItemStep ==
  ASSUME NvInv, pc = "scan", scan.pg \in Pages, ~ScanEndOfPage,
         UNCHANGED <<pgOff, pgRes, hot, pc, op>>,
         pgLost' \in [Pages -> Nat], FlashInv', FlashType', Place' = Place,
         \A p \in Pages : /\ flash'[p].active = flash[p].active /\ flash'[p].xfer = flash[p].xfer
                          /\ p = pgRes => flash'[p] = flash[p]
                          /\ Len(flash'[p].items) = Len(flash[p].items)
                          /\ Used(flash'[p].items) = Used(flash[p].items),
         \A a \in Place : At(a)' = At(a) \/ (Live(At(a)) /\ At(a)' = Zero(At(a))),
         NEW lost \in Nat, NextItem(lost),
         NEW at, at = ScanAt,
         lost = 0 \/ (At(at)'.id = Zeroed /\ lost <= At(at)'.len),
         Live(At(at)') =>
            /\ Good(At(at))
            /\ IF scan.dups THEN At(at).old \/ HasNoOlder(at)' ELSE ~At(at).old
  PROVE  NvInv'
<1>1. /\ FlashType /\ FlashInv /\ scan \in ScanType
      /\ scan.lost <= Total(LensZeroed(scan.pg, scan.i))
      /\ \A a \in Place : Before(a, ScanAt) /\ Live(At(a)) =>
               /\ Good(At(a))
               /\ IF scan.dups THEN At(a).old \/ HasNoOlder(a) ELSE ~At(a).old
      /\ \A p \in Pages : p < scan.pg => pgOff[p] = Used(flash[p].items)
  BY ScanFacts
<1>2. /\ at \in Place /\ scan.i \in 1 .. Len(flash[scan.pg].items)
      /\ scan.i \in Nat \ {0} /\ scan.i + 1 \in Nat /\ scan.lost \in Nat
      /\ \A a \in Place : Before(a, <<scan.pg, scan.i + 1>>) => Before(a, at) \/ a = at
      /\ At(at) = flash[scan.pg].items[scan.i]
  BY NextItemScan
<1>3. /\ scan' \in ScanType /\ scan'.pg = scan.pg /\ scan'.i = scan.i + 1
      /\ scan'.lost = scan.lost + lost /\ scan'.dups = scan.dups
  <2>1. /\ scan' = [scan EXCEPT !.i = scan.i + 1, !.lost = scan.lost + lost]
        /\ scan.i + 1 \in Nat \ {0} /\ scan.lost + lost \in Nat
    BY <1>2 DEF NextItem
  <2> QED BY <1>1, <2>1 DEF ScanType
<1>4. \A a \in Place : Live(At(a)') => At(a)' = At(a)
  <2>1. \A a \in Place : ~Live(Zero(At(a)))
    BY ValuesAssumption DEF Live, Zero
  <2> QED BY <2>1
<1>5. ScanInv'
  <2>1. scan'.i <= Len(flash'[scan'.pg].items) + 1
    <3>1. Len(flash'[scan.pg].items) = Len(flash[scan.pg].items)
      OBVIOUS
    <3>2. \A i, n \in Nat : i \in 1 .. n => i + 1 <= n + 1
      OBVIOUS
    <3>3. scan.i \in Nat /\ Len(flash[scan.pg].items) \in Nat
      BY <1>2, ScanFacts, PlaceFacts
    <3>4. scan.i + 1 <= Len(flash[scan.pg].items) + 1
      BY <1>2, <3>2, <3>3
    <3> QED BY <1>3, <3>1, <3>4
  <2>2. scan'.lost <= Total(LensZeroed(scan.pg, scan.i))'
    <3>1. PICK p, i : p = scan.pg /\ i = scan.i
      OBVIOUS
    <3>2. p \in Pages /\ i \in Nat \ {0} /\ i + 1 \in Nat /\ i \in 1 .. Len(flash[p].items)
      BY <1>2, <3>1
    <3> DEFINE s == LensZeroed(p, i)
               t == LensZeroed(p, i + 1)'
               u == [s EXCEPT ![i] = lost]
    <3>3. /\ s \in Seq(Nat) /\ Len(s) = Len(flash[p].items)
          /\ \A j \in 1 .. Len(flash[p].items) :
                s[j] = IF j < i /\ flash[p].items[j].id = Zeroed
                       THEN flash[p].items[j].len ELSE 0
      BY <1>1, <3>2, ZeroedType
    <3>4. /\ t \in Seq(Nat) /\ Len(t) = Len(flash[p].items)
          /\ \A j \in 1 .. Len(flash[p].items) :
                t[j] = IF j < i + 1 /\ flash'[p].items[j].id = Zeroed
                       THEN flash'[p].items[j].len ELSE 0
      <4>1. Len(flash'[p].items) = Len(flash[p].items)
        BY <3>2
      <4> QED BY <3>2, <4>1, ZeroedNow, ZenonT(40)
    <3> HIDE DEF s, t
    <3>5. \A j \in 1 .. Len(flash[p].items) :
             flash[p].items[j].id = Zeroed => flash'[p].items[j] = flash[p].items[j]
      <4>1. SUFFICES ASSUME NEW j \in 1 .. Len(flash[p].items), flash[p].items[j].id = Zeroed
                     PROVE  flash'[p].items[j] = flash[p].items[j]
        BY SMTT(30)
      <4>2. <<p, j>> \in Place /\ At(<<p, j>>) = flash[p].items[j]
            /\ At(<<p, j>>)' = flash'[p].items[j]
        BY <1>1, <3>2, PlaceFacts DEF At
      <4>3. ~Live(At(<<p, j>>))
        BY <4>1, <4>2, ValuesAssumption DEF Live
      <4> QED BY <4>2, <4>3
    <3>6. lost <= t[i] /\ s[i] = 0
      <4>1. /\ t[i] = IF flash'[p].items[i].id = Zeroed THEN flash'[p].items[i].len ELSE 0
            /\ t[i] \in Nat
        BY <3>2, <3>4
      <4>2. at = <<p, i>>
        BY <3>1, <1>2, NextItemScan DEF ScanAt
      <4>3. At(at)' = flash'[p].items[i]
        BY <4>2 DEF At
      <4>4. s[i] = 0
        BY <3>2, <3>3
      <4>5. t[i] \in Nat /\ (lost = 0 \/ lost <= t[i])
        BY <4>1, <4>3
      <4> QED BY <4>4, <4>5
    <3>7. u \in Seq(Nat) /\ Len(u) = Len(s) /\ \A j \in 1 .. Len(s) :
             u[j] = IF j = i THEN lost ELSE s[j]
      BY <3>2, <3>3
    <3> HIDE DEF u
    <3>8. \A j \in 1 .. Len(u) : u[j] <= t[j]
      <4>1. SUFFICES ASSUME NEW j \in 1 .. Len(flash[p].items) PROVE u[j] <= t[j]
        BY <3>3, <3>7
      <4>2. s[j] \in Nat /\ t[j] \in Nat /\ i \in Nat /\ j \in Nat
        BY <3>2, <3>3, <3>4, SMTT(30)
      <4>3. j # i => s[j] <= t[j]
        <5>1. CASE j < i /\ flash[p].items[j].id = Zeroed
          <6>1. flash'[p].items[j] = flash[p].items[j] /\ j < i + 1
            BY <3>2, <3>5, <4>2, <5>1
          <6>2. s[j] = flash[p].items[j].len /\ t[j] = flash'[p].items[j].len
            BY <3>3, <3>4, <5>1, <6>1
          <6> QED BY <4>2, <6>1, <6>2
        <5>2. CASE ~(j < i /\ flash[p].items[j].id = Zeroed)
          BY <3>3, <4>2, <5>2
        <5> QED BY <5>1, <5>2
      <4> QED BY <3>3, <3>6, <3>7, <4>2, <4>3
    <3>9. Total(u) + s[i] = Total(s) + u[i] /\ u[i] = lost
      BY <3>2, <3>3, <3>7, TotalChanged
    <3>10. Total(u) <= Total(t) /\ Total(s) \in Nat /\ Total(t) \in Nat /\ Total(u) \in Nat
      BY <3>3, <3>4, <3>7, <3>8, TotalOfMore, TotalType
    <3>11. scan.lost <= Total(s)
      BY <1>1, <3>1 DEF s
    <3>12. scan.lost + lost <= Total(t)
      BY <1>2, <3>6, <3>9, <3>10, <3>11
    <3>13. t = LensZeroed(scan.pg, scan.i)'
      BY <1>3, <3>1 DEF t, LensZeroed
    <3> QED BY <1>3, <3>12, <3>13
  <2>3. \A a, b \in Place : HasNoOlder(a) /\ Live(At(a)') /\ Same(a, b)' => ~At(b)'.old
    <3>1. SUFFICES ASSUME NEW a \in Place, NEW b \in Place, HasNoOlder(a), Live(At(a)'), Same(a, b)'
                   PROVE  ~At(b)'.old
      OBVIOUS
    <3>2. At(a)' = At(a)
      BY <1>4, <3>1
    <3>3. CASE At(b)' = At(b)
      BY <3>1, <3>2, <3>3 DEF HasNoOlder, Same
    <3>4. CASE At(b)' = Zero(At(b))
      BY <3>4 DEF Zero
    <3> QED BY <3>3, <3>4
  <2>4. ASSUME NEW a \in Place, Before(a, ScanAt)', Live(At(a)')
        PROVE  /\ Good(At(a))'
               /\ IF scan'.dups THEN At(a)'.old \/ HasNoOlder(a)' ELSE ~At(a)'.old
    <3>1. At(a)' = At(a)
      BY <1>4, <2>4
    <3>2. Good(At(a))' <=> Good(At(a))
      BY <3>1 DEF Good, Live
    <3>3. Before(a, at) \/ a = at
      BY <1>2, <1>3, <2>4 DEF ScanAt, Before
    <3>4. CASE a = at
      BY <1>3, <2>4, <3>1, <3>2, <3>4
    <3>5. CASE Before(a, at)
      <4>1. /\ Good(At(a))
            /\ IF scan.dups THEN At(a).old \/ HasNoOlder(a) ELSE ~At(a).old
        BY <1>1, <2>4, <3>1, <3>5
      <4>2. HasNoOlder(a) => HasNoOlder(a)'
        BY <2>3, <2>4 DEF HasNoOlder
      <4> QED BY <1>3, <3>1, <3>2, <4>1, <4>2
    <3> QED BY <3>3, <3>4, <3>5
  <2>5. \A p \in Pages : p < scan'.pg => pgOff'[p] = Used(flash'[p].items)
    BY <1>1, <1>3
  <2> QED BY <1>3, <2>1, <2>2, <2>4, <2>5 DEF ScanInv
<1>6. \A a \in Place : Good(At(a)') => At(a)' = At(a)
  BY <1>4 DEF Good
<1> QED BY <1>3, <1>5, <1>6, ScanStep

(* initPage's step over an item keeps NvInv. *)
LEMMA ScanItemStep ==
  ASSUME NvInv, ScanItem
  PROVE  NvInv'
<1>1. /\ pc = "scan" /\ scan.pg \in Pages /\ ~ScanEndOfPage
      /\ UNCHANGED <<pgOff, pgRes, hot, pc, op>>
  BY DEF ScanItem
<1>2. /\ FlashType /\ FlashInv /\ scan \in ScanType /\ pgLost \in [Pages -> Nat]
      /\ MarkedPages = {}
      /\ \A a \in Place : a[1] # pgRes
  BY <1>1, ScanFacts
<1>3. PICK at : at = ScanAt
  OBVIOUS
<1>4. PICK it : it = At(ScanAt)
  OBVIOUS
<1>5. /\ at \in Place /\ it = At(at) /\ it \in ItemType /\ it.len \in Nat /\ it.id # Torn
      /\ scan.pg = at[1]
  <2>1. ScanAt[1] = scan.pg
    BY DEF ScanAt
  <2> QED BY <1>1, <1>3, <1>4, <2>1, NextItemScan
<1>6. ASSUME UNCHANGED <<flash, pgLost>>
      PROVE  /\ FlashType' /\ FlashInv' /\ Place' = Place /\ pgLost' \in [Pages -> Nat]
             /\ \A a \in Place : At(a)' = At(a)
             /\ \A a, b \in Place : Same(a, b)' <=> Same(a, b)
  <2>1. FlashInv'
    BY <1>2, <1>6, FlashInvKept DEF FlashInv, RoomSound
  <2> QED BY <1>2, <1>6, <2>1, FlashStays
<1>7. CASE it.id = Zeroed /\ NextItem(it.len) /\ UNCHANGED <<flash, pgLost>>
  <2>1. ~Live(At(at)')
    BY <1>5, <1>6, <1>7, ValuesAssumption DEF Live
  <2>2. At(at)'.id = Zeroed /\ it.len <= At(at)'.len
    BY <1>5, <1>6, <1>7
  <2> QED BY <1>1, <1>3, <1>5, <1>6, <1>7, <2>1, <2>2, NextItemStep
<1>8. CASE /\ Live(it) /\ ~Good(it)
           /\ flash' = WithItem(ScanAt, Zero(it))
           /\ pgLost' = [pgLost EXCEPT ![scan.pg] = @ + it.len]
           /\ NextItem(it.len)
  <2>1. /\ FlashInv' /\ FlashType' /\ Place' = Place
        /\ ~Live(Zero(At(at)))
        /\ \A b \in Place : At(b)' = IF b = at THEN Zero(At(at)) ELSE At(b)
        /\ pgLost' \in [Pages -> Nat]
        /\ \A p \in Pages :
              /\ flash'[p].active = flash[p].active /\ flash'[p].xfer = flash[p].xfer
              /\ Len(flash'[p].items) = Len(flash[p].items)
              /\ p # at[1] => flash'[p] = flash[p]
              /\ Used(flash'[p].items) = Used(flash[p].items)
    BY <1>2, <1>3, <1>4, <1>5, <1>8, ItemZeroed
  <2>2. at[1] # pgRes
    BY <1>2, <1>5
  <2>3. At(at)' = Zero(At(at)) /\ Zero(At(at)).id = Zeroed /\ Zero(At(at)).len = it.len
    BY <1>5, <2>1 DEF Zero
  <2>4. ~Live(At(at)') /\ At(at)'.id = Zeroed /\ it.len <= At(at)'.len
    BY <1>5, <2>1, <2>3
  <2>5. \A a \in Place : At(a)' = At(a) \/ (Live(At(a)) /\ At(a)' = Zero(At(a)))
    BY <1>5, <1>8, <2>1
  <2> QED BY <1>1, <1>3, <1>5, <1>8, <2>1, <2>2, <2>4, <2>5, NextItemStep
<1>9. CASE /\ Good(it) /\ Duplicated(it)
           /\ flash' = WithItem(FindOld(it.id), Zero(it))
           /\ pgLost' = [pgLost EXCEPT ![FindOld(it.id)[1]] = @ + it.len]
           /\ NextItem(0)
  <2>1. PICK o : o = FindOld(it.id)
    OBVIOUS
  <2>2. scan.dups /\ ~it.old /\ o # NoPlace
    BY <1>9, <2>1 DEF Duplicated
  <2>3. o \in Place /\ At(o).id = it.id /\ At(o).old /\ o # at
    BY <1>2, <1>5, <2>1, <2>2, FindOldFacts
  <2>4. Live(it) /\ Live(At(o)) /\ it.len = At(o).len /\ Zero(it) = Zero(At(o))
    <3>1. Live(it) /\ Live(At(o))
      BY <1>9, <2>3 DEF Good, Live
    <3>2. it.len = Size[it.id] /\ At(o).len = Size[it.id]
      BY <1>2, <1>5, <2>3, <3>1 DEF FlashInv, ItemsSound, Live
    <3> QED BY <3>1, <3>2 DEF Zero
  <2>5. /\ FlashInv' /\ FlashType' /\ Place' = Place
        /\ ~Live(Zero(At(o))) /\ ~Zero(At(o)).old
        /\ \A b \in Place : At(b)' = IF b = o THEN Zero(At(o)) ELSE At(b)
        /\ pgLost' \in [Pages -> Nat]
        /\ \A p \in Pages :
              /\ flash'[p].active = flash[p].active /\ flash'[p].xfer = flash[p].xfer
              /\ Len(flash'[p].items) = Len(flash[p].items)
              /\ p # o[1] => flash'[p] = flash[p]
              /\ Used(flash'[p].items) = Used(flash[p].items)
    BY <1>2, <1>9, <2>1, <2>3, <2>4, ItemZeroed
  <2>6. o[1] # pgRes
    BY <1>2, <2>3
  <2>7. \A a \in Place : At(a)' = At(a) \/ (Live(At(a)) /\ At(a)' = Zero(At(a)))
    BY <2>4, <2>5
  <2>8. At(at)' = it
    BY <1>5, <2>3, <2>5
  <2>9. HasNoOlder(at)'
    <3>1. SUFFICES ASSUME NEW b \in Place, Same(at, b)'
                   PROVE  ~At(b)'.old
      BY <2>5 DEF HasNoOlder
    <3>2. CASE b = o
      BY <2>5, <3>2
    <3>3. CASE b # o
      <4>1. At(b)' = At(b) /\ At(b).id = it.id
        BY <2>5, <2>8, <3>1, <3>3 DEF Same
      <4>2. CASE b = at
        BY <2>2, <2>8, <4>2
      <4>3. CASE b # at
        <5>1. (Good(At(o)) /\ Good(At(b))) \/ ~At(b).old
          BY <1>2, <2>3 DEF FlashInv, ItemsSound
        <5>2. ASSUME At(b).old PROVE FALSE
          <6>1. Good(At(b)) /\ Good(At(o))
            BY <1>2, <2>3, <5>2 DEF FlashInv, ItemsSound
          <6>2. Kept(b) /\ Kept(o)
            BY <1>1, <2>3, <6>1, ScanFacts
          <6> QED BY <1>2, <2>3, <3>3, <4>1, <5>2, <6>2 DEF FlashInv, CopiesSound, Same
        <5> QED BY <4>1, <5>2
      <4> QED BY <4>2, <4>3
    <3> QED BY <3>2, <3>3
  <2>10. Good(At(at)) /\ scan.dups
    BY <1>5, <1>9, <2>2
  <2> QED BY <1>1, <1>3, <1>5, <1>9, <2>5, <2>6, <2>7, <2>9, <2>10, NextItemStep
<1>10. CASE /\ Good(it) /\ ~Duplicated(it) /\ (scan.dups \/ ~it.old)
            /\ NextItem(0)
            /\ UNCHANGED <<flash, pgLost>>
  <2>1. Good(At(at)) /\ IF scan.dups THEN At(at).old \/ HasNoOlder(at)' ELSE ~At(at).old
    <3>1. CASE ~scan.dups
      BY <1>5, <1>10, <3>1
    <3>2. CASE scan.dups /\ it.old
      BY <1>5, <1>10, <3>2
    <3>3. CASE scan.dups /\ ~it.old
      <4>1. FindOld(it.id) = NoPlace
        BY <1>10, <3>3 DEF Duplicated
      <4>2. \A a \in Place : At(a).id = it.id => ~At(a).old
        BY <1>2, <4>1, FindOldFacts
      <4>3. HasNoOlder(at)'
        BY <1>5, <1>6, <1>10, <4>2 DEF HasNoOlder, Same
      <4> QED BY <1>5, <1>10, <3>3, <4>3
    <3> QED BY <3>1, <3>2, <3>3
  <2> QED BY <1>1, <1>3, <1>5, <1>6, <1>10, <2>1, NextItemStep
<1>11. CASE /\ Good(it) /\ ~scan.dups /\ it.old
            /\ StartAgain
            /\ UNCHANGED <<flash, pgLost>>
  <2>1. scan' = [dups |-> TRUE, pg |-> 1, i |-> 1, lost |-> 0]
    BY <1>11 DEF StartAgain, NoScan
  <2>2. scan' \in ScanType
    BY <2>1, PagesAssumption DEF ScanType
  <2>3. ScanInv'
    BY <1>6, <1>11, <2>1, ScanBegins
  <2>4. FlashType' /\ FlashInv' /\ Place' = Place /\ pgLost' \in [Pages -> Nat]
        /\ \A a \in Place : At(a)' = At(a)
    BY <1>6, <1>11
  <2> QED BY <1>1, <1>11, <2>2, <2>3, <2>4, ScanStep
<1>12. \/ it.id = Zeroed /\ NextItem(it.len) /\ UNCHANGED <<flash, pgLost>>
       \/ /\ Live(it) /\ ~Good(it)
          /\ flash' = WithItem(ScanAt, Zero(it))
          /\ pgLost' = [pgLost EXCEPT ![scan.pg] = @ + it.len]
          /\ NextItem(it.len)
       \/ /\ Good(it) /\ Duplicated(it)
          /\ flash' = WithItem(FindOld(it.id), Zero(it))
          /\ pgLost' = [pgLost EXCEPT ![FindOld(it.id)[1]] = @ + it.len]
          /\ NextItem(0)
       \/ /\ Good(it) /\ ~Duplicated(it) /\ (scan.dups \/ ~it.old)
          /\ NextItem(0)
          /\ UNCHANGED <<flash, pgLost>>
       \/ /\ Good(it) /\ ~scan.dups /\ it.old
          /\ StartAgain
          /\ UNCHANGED <<flash, pgLost>>
  BY <1>4 DEF ScanItem
<1> QED BY <1>7, <1>8, <1>9, <1>10, <1>11, <1>12

(* initPage's end of a page keeps NvInv: what RAM then holds of the page is so. *)
LEMMA ScanPageStep ==
  ASSUME NvInv, ScanPage
  PROVE  NvInv'
<1>1. /\ pc = "scan" /\ scan.pg \in Pages /\ ScanEndOfPage
      /\ scan' = [scan EXCEPT !.pg = @ + 1, !.i = 1, !.lost = 0]
      /\ UNCHANGED <<flash, pgRes, hot, pc, op>>
  BY DEF ScanPage
<1>2. PICK p, items : p = scan.pg /\ items = flash[scan.pg].items
  OBVIOUS
<1>3. /\ p \in Pages
      /\ pgOff' = [pgOff EXCEPT ![p] = Used(items)]
      /\ pgLost' = [pgLost EXCEPT ![p] =
                       scan.lost + IF IsTorn(items) THEN PageSize - LenOf(items) ELSE 0]
  BY <1>1, <1>2 DEF ScanPage
<1>4. /\ FlashType /\ FlashInv /\ op.kind = "boot" /\ (ReserveBlank \/ NoReserve)
      /\ ~Operating /\ op.id = Missing /\ ~Filling /\ ~Serving
      /\ scan \in ScanType /\ pgOff \in [Pages -> 0 .. PageSize] /\ pgLost \in [Pages -> Nat]
      /\ scan.i <= Len(items) + 1
      /\ scan.lost <= Total(LensZeroed(p, scan.i))
      /\ \A a \in Place : Before(a, ScanAt) /\ Live(At(a)) =>
            /\ Good(At(a))
            /\ IF scan.dups THEN At(a).old \/ HasNoOlder(a) ELSE ~At(a).old
      /\ \A q \in Pages : q < p => pgOff[q] = Used(flash[q].items)
  BY <1>1, <1>2, ScanFacts
<1>5. /\ FlashType' /\ Place' = Place
      /\ \A a \in Place : At(a)' = At(a)
      /\ \A a, b \in Place : Same(a, b)' <=> Same(a, b)
  BY <1>1, <1>4, FlashStays
<1>6. /\ items \in Seq(ItemType) /\ LenOf(items) <= PageSize /\ LenOf(items) \in Nat
      /\ LenOfZeroed(items) \in Nat /\ Used(items) \in 0 .. PageSize
  <2>1. items \in Seq(ItemType)
    BY <1>2, <1>3, <1>4 DEF FlashType, PageType
  <2>2. LenOf(items) <= PageSize
    BY <1>2, <1>3, <1>4 DEF FlashInv, RoomSound
  <2> QED BY <2>1, <2>2, LostFacts
<1>7. /\ pgLost'[p] \in Nat /\ pgLost'[p] <= Lost(items)
      /\ pgLost' \in [Pages -> Nat] /\ \A q \in Pages \ {p} : pgLost'[q] = pgLost[q]
  <2>1. scan.i \in Nat /\ scan.lost \in Nat
    BY <1>4 DEF ScanType
  <2>2. scan.lost <= LenOfZeroed(items)
    <3>1. Total(LensZeroed(p, scan.i)) <= LenOfZeroed(items)
      BY <1>2, <1>3, <1>4, <2>1, ZeroedAll
    <3>2. Total(LensZeroed(p, scan.i)) \in Nat
      BY <1>3, <1>4, <2>1, ZeroedType
    <3> QED BY <1>4, <1>6, <2>1, <3>1, <3>2
  <2>3. PICK more : more = IF IsTorn(items) THEN PageSize - LenOf(items) ELSE 0
    OBVIOUS
  <2>4. more \in Nat
    BY <1>6, <2>3, PagesAssumption
  <2>5. Lost(items) = LenOfZeroed(items) + more
    BY <2>3 DEF Lost
  <2>6. pgLost' = [pgLost EXCEPT ![p] = scan.lost + more]
    BY <1>3, <2>3
  <2>7. scan.lost + more \in Nat /\ scan.lost + more <= LenOfZeroed(items) + more
    BY <1>6, <2>1, <2>2, <2>4
  <2> QED BY <1>3, <1>4, <2>5, <2>6, <2>7
<1>8. pgOff' \in [Pages -> 0 .. PageSize]
  BY <1>3, <1>4, <1>6
<1>9. FlashInv'
  <2>1. \A q \in Pages : pgLost[q] <= Lost(flash[q].items)
    BY <1>4 DEF FlashInv, RoomSound
  <2>2. \A q \in Pages : pgLost'[q] <= Lost(flash[q].items)
    BY <1>2, <1>7, <2>1
  <2> QED BY <1>1, <1>4, <2>2, FlashInvKept
<1>10. scan' \in ScanType /\ scan'.pg = p + 1 /\ scan'.i = 1 /\ scan'.lost = 0
       /\ scan'.dups = scan.dups
  <2>1. p + 1 \in 1 .. NumPages + 1
    BY <1>3, PagesAssumption DEF Pages
  <2>2. scan' = [scan EXCEPT !.pg = p + 1, !.i = 1, !.lost = 0]
    BY <1>1, <1>2
  <2>3. scan' = [dups |-> scan.dups, pg |-> p + 1, i |-> 1, lost |-> 0]
    BY <1>4, <2>2 DEF ScanType
  <2>4. scan.dups \in BOOLEAN
    BY <1>4 DEF ScanType
  <2> QED BY <2>1, <2>3, <2>4 DEF ScanType
<1>11. Types'
  BY <1>1, <1>5, <1>7, <1>8, <1>10 DEF NvInv, Types
<1>12. ~Operating' /\ ~Filling' /\ ~Serving' /\ (ReserveBlank' \/ NoReserve')
  BY <1>1, <1>4 DEF Operating, Filling, Serving, ReserveBlank, NoReserve
<1>13. Phase'
  BY <1>1, <1>4, <1>12 DEF Phase
<1>14. ReserveInv' /\ OpInv' /\ ServeInv' /\ PickInv'
  BY <1>1, <1>4, <1>12 DEF ReserveInv, OpInv, ServeInv, PickInv
<1>15. HotInv'
  <2>1. \A a \in Place : Good(At(a)') => At(a)' = At(a) /\ Good(At(a)) /\ ~Replaced(a)
    BY <1>1, <1>5, ScanFacts
  <2> QED BY <1>1, <1>5, <2>1 DEF NvInv, HotInv
<1>16. \A a \in Place : a[1] = p /\ a[2] >= scan.i => ~Live(At(a))
  <2>1. SUFFICES ASSUME NEW a \in Place, a[1] = p, a[2] >= scan.i
                 PROVE  ~Live(At(a))
    OBVIOUS
  <2>2. /\ a[2] \in 1 .. Len(items) /\ At(a) = items[a[2]] /\ Len(items) \in Nat
        /\ DOMAIN items = 1 .. Len(items) /\ a[2] \in Nat /\ scan.i \in Nat \ {0}
        /\ a = <<p, a[2]>>
    <3>1. a[2] \in 1 .. Len(items) /\ At(a) = items[a[2]] /\ a[2] \in Nat /\ a = <<p, a[2]>>
      BY <1>2, <1>4, <2>1, PlaceFacts DEF At
    <3>2. Len(items) \in Nat /\ DOMAIN items = 1 .. Len(items)
      BY <1>6, ItemFacts
    <3> QED BY <1>4, <3>1, <3>2 DEF ScanType
  <2>3. scan.i \in 1 .. Len(items)
    BY <2>1, <2>2
  <2>4. items[scan.i].id = Torn
    BY <1>1, <1>2, <2>2, <2>3 DEF ScanEndOfPage
  <2>5. <<p, scan.i>> \in Place /\ At(<<p, scan.i>>).id = Torn
    BY <1>2, <1>3, <1>4, <2>3, <2>4, PlaceFacts DEF At
  <2>6. <<p, scan.i>> = LastOf(p)
    BY <1>4, <2>5 DEF FlashInv, ItemsSound
  <2>7. scan.i = Len(items)
    BY <1>2, <2>6 DEF LastOf
  <2>8. a[2] = scan.i
    BY <2>1, <2>2, <2>7
  <2> QED BY <2>2, <2>4, <2>8, ValuesAssumption DEF Live
<1>17. ScanInv'
  <2>1. IF scan'.pg \in Pages
        THEN /\ scan'.i <= Len(flash'[scan'.pg].items) + 1
             /\ scan'.lost <= Total(LensZeroed(scan.pg, scan.i))'
        ELSE scan'.i = 1 /\ scan'.lost = 0
    <3>1. ASSUME scan'.pg \in Pages
          PROVE  Total(LensZeroed(scan.pg, scan.i))' \in Nat
                 /\ Len(flash'[scan'.pg].items) \in Nat
      <4>1. PICK q, i : q = scan'.pg /\ i = scan'.i
        OBVIOUS
      <4>2. q \in Pages /\ i \in Nat
        BY <1>10, <3>1, <4>1
      <4>3. Total(LensZeroed(q, i)') \in Nat
        BY <1>5, <4>2, ZeroedTypeNext
      <4>4. LensZeroed(scan.pg, scan.i)' = LensZeroed(q, i)'
        BY <4>1 DEF LensZeroed
      <4>5. Len(flash[q].items) \in Nat
        BY <1>4, <4>2, PlaceFacts
      <4> QED BY <1>1, <4>1, <4>3, <4>4, <4>5
    <3> QED BY <1>10, <3>1
  <2>2. ASSUME NEW a \in Place, Before(a, ScanAt)', Live(At(a)')
        PROVE  /\ Good(At(a))'
               /\ IF scan'.dups THEN At(a)'.old \/ HasNoOlder(a)' ELSE ~At(a)'.old
    <3>1. At(a)' = At(a) /\ (Good(At(a))' <=> Good(At(a))) /\ (HasNoOlder(a) => HasNoOlder(a)')
      BY <1>5 DEF Good, Live, HasNoOlder
    <3>2. a[1] \in Nat /\ a[2] \in Nat \ {0} /\ scan.i \in Nat \ {0} /\ p \in Nat
      BY <1>3, <1>4, PlaceFacts, PagesAssumption DEF ScanType, Pages
    <3>3. a[1] < p + 1
      <4>1. ScanAt' = <<p + 1, 1>>
        BY <1>10 DEF ScanAt
      <4> QED BY <2>2, <3>2, <4>1 DEF Before
    <3>4. a[1] < p \/ (a[1] = p /\ a[2] < scan.i)
      BY <1>16, <2>2, <3>1, <3>2, <3>3
    <3>5. Before(a, ScanAt)
      BY <1>2, <3>4 DEF Before, ScanAt
    <3> QED BY <1>4, <1>10, <2>2, <3>1, <3>5
  <2>3. \A q \in Pages : q < scan'.pg => pgOff'[q] = Used(flash'[q].items)
    <3>1. SUFFICES ASSUME NEW q \in Pages, q < p + 1
                   PROVE  pgOff'[q] = Used(flash[q].items)
      BY <1>1, <1>10
    <3>2. q < p \/ q = p
      BY <1>3, <3>1, PagesAssumption DEF Pages
    <3> QED BY <1>2, <1>3, <1>4, <3>2
  <2> QED BY <1>5, <2>1, <2>2, <2>3 DEF ScanInv
<1> QED BY <1>9, <1>11, <1>13, <1>14, <1>15, <1>17 DEF NvInv

(* There is room for the header and no torn one before it. *)
LEMMA HeaderFits ==
  ASSUME NvInv, pc = "header"
  PROVE  /\ Size[op.id] \in 1 .. PageSize
         /\ ~IsTorn(flash[op.dst].items)
         /\ LenOf(flash[op.dst].items) + Size[op.id] <= PageSize
         /\ op.com # NoPage =>
              /\ LenOf(flash[pgRes].items) + Total(LensToCome(op.k)) + Size[op.id] <= PageSize
              /\ Total(LensToCome(op.k)) \in Nat
<1>1. pc = "header"
  OBVIOUS
<1>2. /\ FlashType /\ op.dst \in Pages /\ pgRes \in Pages
      /\ op.id \in Items /\ Operating
      /\ \A p \in Pages : pgOff[p] = Used(flash[p].items)
  BY <1>1, WritingFacts
<1>3. Size[op.id] \in 1 .. PageSize
  BY <1>2, SizeAssumption
<1>4. /\ ~IsTorn(flash[op.dst].items)
      /\ LenOf(flash[op.dst].items) + Size[op.id] <= PageSize
      /\ op.com # NoPage =>
           LenOf(flash[pgRes].items) + Total(LensToCome(op.k)) + Size[op.id] <= PageSize
      /\ op.com # NoPage => Total(LensToCome(op.k)) \in Nat
  <2>1. CASE op.com = NoPage
    <3>1. Size[op.id] <= PageSize - pgOff[op.dst]
      BY <1>1, <1>2, <2>1 DEF NvInv, OpInv, Fits
    <3>2. pgOff[op.dst] = Used(flash[op.dst].items)
      BY <1>2
    <3>3. ~IsTorn(flash[op.dst].items)
      BY <1>3, <3>1, <3>2, PagesAssumption DEF Used
    <3>4. LenOf(flash[op.dst].items) \in Nat
      BY <1>2, LostFacts DEF FlashType, PageType
    <3> QED BY <1>3, <2>1, <3>1, <3>2, <3>3, <3>4, PagesAssumption DEF Used
  <2>2. CASE op.com # NoPage
    <3>1. /\ ReserveItems /\ ReserveRoom /\ op.dst = pgRes /\ op.com \in Pages
          /\ op.k \in Nat
      BY <1>1, <2>2, WritingFacts
    <3>2. ~IsTorn(flash[pgRes].items)
      <4> SUFFICES ASSUME NEW i \in DOMAIN flash[pgRes].items, flash[pgRes].items[i].id = Torn
                   PROVE FALSE
        BY DEF IsTorn
      <4>1. i \in 1 .. Len(flash[pgRes].items)
        BY <1>2 DEF FlashType, PageType
      <4>2. <<pgRes, i>> \in Place
        BY <1>2, <4>1, PlaceFacts
      <4>3. Live(At(<<pgRes, i>>))
        BY <3>1, <4>2 DEF ReserveItems, InReserve
      <4> QED BY <4>3, ValuesAssumption DEF Live, At
    <3>3. From = op.k /\ LenOfNew = Size[op.id]
      BY <1>1, <1>2 DEF From, LenOfNew
    <3>4. /\ LenOf(flash[pgRes].items) \in Nat /\ Total(LensToCome(op.k)) \in Nat
      BY <1>2, <3>1, LostFacts, ToComeType DEF FlashType, PageType
    <3>5. LenOf(flash[pgRes].items) + Total(LensToCome(op.k)) + Size[op.id] <= PageSize
      BY <3>1, <3>3 DEF ReserveRoom
    <3> QED BY <1>3, <3>1, <3>2, <3>4, <3>5, PagesAssumption
  <2> QED BY <2>1, <2>2
<1> QED BY <1>3, <1>4

(* The walk has come to its end. *)
LEMMA ScanEndsStep ==
  ASSUME NvInv, ScanEnds
  PROVE  NvInv'
<1>1. /\ pc = "scan" /\ scan.pg \notin Pages
      /\ pgLost' = [p \in Pages |-> Counted(p)]
      /\ scan' = NoScan
      /\ IF pgRes # NoPage
         THEN Ends /\ UNCHANGED pgRes
         ELSE /\ pgRes' = MostLost
              /\ pc' = "eraseRes" /\ op' = [op EXCEPT !.kind = "pick"]
      /\ UNCHANGED <<flash, pgOff, hot>>
  BY DEF ScanEnds
<1>2. /\ FlashType /\ FlashInv /\ op.kind = "boot" /\ (ReserveBlank \/ NoReserve)
      /\ MarkedPages = {} /\ ~Operating /\ op.id = Missing /\ NoPage \notin Pages
      /\ scan \in ScanType /\ scan.i = 1
      /\ pgOff \in [Pages -> 0 .. PageSize] /\ pgLost \in [Pages -> Nat]
      /\ \A a \in Place : /\ a[1] # pgRes /\ (Kept(a) <=> Good(At(a)))
                          /\ ~Replaced(a)
      /\ \A a \in Place : Before(a, ScanAt) /\ Live(At(a)) =>
            /\ Good(At(a))
            /\ IF scan.dups THEN At(a).old \/ HasNoOlder(a) ELSE ~At(a).old
      /\ \A p \in Pages : p < scan.pg => pgOff[p] = Used(flash[p].items)
  BY <1>1, ScanFacts
<1>3. scan.pg = NumPages + 1
  BY <1>1, <1>2, PagesAssumption DEF ScanType, Pages
<1>4. \A p \in Pages : pgOff[p] = Used(flash[p].items)
  BY <1>2, <1>3, PagesAssumption DEF Pages
<1>5. \A a \in Place : Before(a, ScanAt)
  <2> SUFFICES ASSUME NEW a \in Place PROVE Before(a, ScanAt)
    OBVIOUS
  <2>1. a[1] \in Pages
    BY <1>2, PlaceFacts
  <2>2. a[1] < NumPages + 1
    BY <2>1, PagesAssumption DEF Pages
  <2> QED BY <1>3, <2>2 DEF Before, ScanAt
<1>6. \A a \in Place : Live(At(a)) =>
         Good(At(a)) /\ Kept(a) /\ IF scan.dups THEN At(a).old \/ HasNoOlder(a) ELSE ~At(a).old
  BY <1>2, <1>5
<1>7. \A a, b \in Place : Live(At(a)) /\ Same(a, b) => a = b
  <2> SUFFICES ASSUME NEW a \in Place, NEW b \in Place, Live(At(a)), Same(a, b), a # b
               PROVE  FALSE
    OBVIOUS
  <2>1. Live(At(b)) /\ Same(b, a)
    BY DEF Live, Same
  <2>2. Kept(a) /\ Kept(b)
    BY <1>6, <2>1
  <2>3. At(a).old # At(b).old
    BY <1>2, <2>2 DEF FlashInv, CopiesSound
  <2>4. At(a).old \in BOOLEAN /\ At(b).old \in BOOLEAN
    BY <1>2, PlaceFacts DEF ItemType
  <2>5. CASE At(a).old /\ ~At(b).old
    <3>1. scan.dups /\ HasNoOlder(b)
      BY <1>6, <2>1, <2>5
    <3> QED BY <2>1, <2>5, <3>1 DEF HasNoOlder
  <2>6. CASE At(b).old /\ ~At(a).old
    <3>1. scan.dups /\ HasNoOlder(a)
      BY <1>6, <2>1, <2>6
    <3> QED BY <2>1, <2>6, <3>1 DEF HasNoOlder
  <2> QED BY <2>3, <2>4, <2>5, <2>6
<1>8. ASSUME NEW p \in Pages PROVE Counted(p) \in 0 .. PageSize /\ Counted(p) <= Lost(flash[p].items)
  <2>1. flash[p].items \in Seq(ItemType) /\ LenOf(flash[p].items) <= PageSize
        /\ pgLost[p] <= Lost(flash[p].items) /\ pgLost[p] \in Nat
    BY <1>2 DEF FlashType, PageType, FlashInv, RoomSound
  <2>2. Lost(flash[p].items) \in 0 .. PageSize
    BY <2>1, LostFacts
  <2> QED BY <2>1, <2>2, PagesAssumption DEF Counted
<1>9. MostLost \in Pages
  BY <1>8, MostLostFacts
<1>10. /\ FlashType' /\ Place' = Place
       /\ \A a \in Place : At(a)' = At(a) /\ (Kept(a)' <=> Kept(a))
       /\ \A a, b \in Place : Same(a, b)' <=> Same(a, b)
       /\ InErasedState' = InErasedState /\ MarkedPages' = MarkedPages
  BY <1>1, <1>2, FlashStays
<1>11. \A a \in Place : Live(At(a)') => Good(At(a)') /\ Kept(a)'
  BY <1>6, <1>10 DEF Good, Live
<1>12. pgLost' \in [Pages -> Nat] /\ \A p \in Pages : pgLost'[p] <= Lost(flash[p].items)
  BY <1>1, <1>8
<1>13. FlashInv'
  BY <1>1, <1>2, <1>12, FlashInvKept
<1>14. CASE pgRes # NoPage
  <2>1. /\ pc' = "idle" /\ op' = NoOp /\ pgRes' = pgRes /\ op'.kind = "none" /\ op'.id = Missing
        /\ ReserveBlank
    BY <1>1, <1>2, <1>14 DEF Ends, NoOp, NoReserve
  <2>2. Types'
    <3>1. op' \in OpType
      BY <2>1 DEF OpType, NoOp, PlaceType
    <3>2. scan' \in ScanType
      BY <1>1, PagesAssumption DEF ScanType, NoScan
    <3> QED BY <1>1, <1>2, <1>10, <1>12, <2>1, <3>1, <3>2 DEF NvInv, Types
  <2>3. ~Operating' /\ ~Filling' /\ ReserveBlank'
    BY <1>1, <2>1 DEF Operating, Filling, ReserveBlank
  <2>4. Phase'
    BY <1>1, <2>1, <2>3 DEF Phase
  <2>5. ReserveInv' /\ OpInv' /\ PickInv' /\ ScanInv'
    BY <2>1, <2>3 DEF ReserveInv, OpInv, PickInv, ScanInv
  <2>6. ServeInv'
    <3>1. \A a, b \in Place : Kept(a)' /\ Kept(b)' /\ Same(a, b)' => a = b
      BY <1>7, <1>10 DEF Kept, Good
    <3>2. \A p \in Pages : pgOff'[p] = Used(flash'[p].items)
      BY <1>1, <1>4
    <3> QED BY <1>10, <1>11, <3>1, <3>2 DEF ServeInv
  <2>7. HotInv'
    <3>1. \A a \in Place : Good(At(a)') => At(a)' = At(a) /\ Good(At(a)) /\ ~Replaced(a)
      BY <1>2, <1>10
    <3> QED BY <1>1, <1>2, <1>10, <1>14, <2>1, <3>1 DEF NvInv, HotInv
  <2> QED BY <1>13, <2>2, <2>4, <2>5, <2>6, <2>7 DEF NvInv
<1>15. CASE pgRes = NoPage
  <2>1. NoReserve /\ InErasedState = {}
    BY <1>2, <1>15 DEF NoReserve, ReserveBlank, InErasedState
  <2>2. /\ pgRes' \in Pages /\ pc' = "eraseRes" /\ op' = [op EXCEPT !.kind = "pick"]
    BY <1>1, <1>9, <1>15
  <2>3. op \in OpType
    BY DEF NvInv, Types
  <2>4. /\ op' \in OpType /\ op'.kind = "pick" /\ op'.id = Missing
    <3>1. "pick" \in {"none", "init", "write", "boot", "pick"}
      OBVIOUS
    <3> QED BY <1>2, <2>2, <2>3 DEF OpType
  <2>5. Types'
    <3>2. scan' \in ScanType
      BY <1>1, PagesAssumption DEF ScanType, NoScan
    <3> QED BY <1>1, <1>2, <1>10, <1>12, <2>2, <2>4, <3>2 DEF NvInv, Types
  <2>6. ~Operating' /\ ~Filling' /\ ~Serving'
    BY <2>2, <2>4 DEF Operating, Filling, Serving
  <2>7. Phase'
    BY <1>1, <1>2, <1>10, <2>1, <2>2, <2>4, <2>6 DEF Phase
  <2>8. ReserveInv' /\ OpInv' /\ ServeInv' /\ ScanInv'
    BY <2>2, <2>6 DEF ReserveInv, OpInv, ServeInv, ScanInv
  <2>9. PickInv'
    <3>1. OnlyCopies'
      BY <1>7, <1>10 DEF OnlyCopies, Kept, Good
    <3>2. \A p \in Pages : pgOff'[p] = Used(flash'[p].items)
      BY <1>1, <1>4
    <3> QED BY <1>10, <1>11, <3>1, <3>2 DEF PickInv
  <2>10. HotInv'
    <3>1. hot' = NoneHot /\ NoneHot' = NoneHot
      BY <1>1, <1>15 DEF NvInv, HotInv, NoneHot
    <3>2. \A id \in HotIds : hot'[id] = NoPlace
      BY <3>1 DEF NoneHot
    <3> QED BY <3>1, <3>2 DEF HotInv
  <2> QED BY <1>13, <2>5, <2>7, <2>8, <2>9, <2>10 DEF NvInv
<1> QED BY <1>14, <1>15

(* What an interrupted erase leaves of a page: it may have lost its mark, or its header. *)
LEMMA MarkLost ==
  ASSUME FlashType, FlashInv, NEW p \in Pages, NEW active \in {flash[p].active, FALSE},
         flash' = [flash EXCEPT ![p].active = active, ![p].xfer = FALSE],
         InErasedState \subseteq {p}, MarkedPages \subseteq {p},
         \A q \in Pages : pgLost'[q] = 0
  PROVE  FlashType' /\ FlashInv'
<1>1. /\ flash' \in [Pages -> PageType]
      /\ flash'[p] = [flash[p] EXCEPT !.active = active, !.xfer = FALSE]
      /\ \A q \in Pages : q # p => flash'[q] = flash[q]
  <2>1. flash \in [Pages -> PageType] /\ flash[p] \in PageType /\ active \in BOOLEAN
    BY DEF FlashType, PageType
  <2>2. [flash[p] EXCEPT !.active = active, !.xfer = FALSE] \in PageType
    BY <2>1 DEF PageType
  <2>3. flash' = [flash EXCEPT ![p] = [flash[p] EXCEPT !.active = active, !.xfer = FALSE]]
    BY <2>1
  <2> QED BY <2>1, <2>2, <2>3
<1>2. /\ flash'[p].items = flash[p].items /\ ~flash'[p].xfer
      /\ (flash'[p].active => flash[p].active)
  <2>1. flash[p] \in PageType /\ active \in BOOLEAN
    BY DEF FlashType, PageType
  <2>2. /\ flash'[p].items = flash[p].items /\ flash'[p].xfer = FALSE
        /\ flash'[p].active = active
    BY <1>1, <2>1 DEF PageType
  <2> QED BY <2>2
<1>3. FlashType' /\ \A q \in Pages : flash'[q].items = flash[q].items
  BY <1>1, <1>2 DEF FlashType
<1>4. /\ Place' = Place /\ \A a \in Place : At(a)' = At(a)
      /\ \A q \in Pages : LastOf(q)' = LastOf(q)
  BY <1>3, SameItems
<1>5. /\ InErasedState' \subseteq {p} /\ MarkedPages' = {}
  BY <1>1, <1>2 DEF InErasedState, MarkedPages
<1>6. ItemsSound'
  BY <1>4, PlaceFacts DEF FlashInv, ItemsSound, Good, Live
<1>7. HeadersSound'
  <2>1. \A q \in Pages : flash'[q].xfer => flash'[q].active
    BY <1>1, <1>2 DEF FlashInv, HeadersSound
  <2> QED BY <1>5, <2>1 DEF HeadersSound
<1>8. CopiesSound'
  <2>1. \A a, b \in Place : (Kept(a)' => Kept(a)) /\ (Same(a, b)' <=> Same(a, b))
    BY <1>1, <1>2, <1>4, PlaceFacts DEF Kept, Same
  <2> QED BY <1>4, <2>1 DEF FlashInv, CopiesSound
<1>9. MarkedSound'
  BY <1>5 DEF MarkedSound
<1>10. RoomSound'
  <2> SUFFICES ASSUME NEW q \in Pages
               PROVE  LenOf(flash'[q].items) <= PageSize /\ pgLost'[q] <= Lost(flash'[q].items)
    BY DEF RoomSound
  <2>1. flash[q].items \in Seq(ItemType) /\ LenOf(flash[q].items) <= PageSize
    BY DEF FlashType, PageType, FlashInv, RoomSound
  <2>2. Lost(flash[q].items) \in 0 .. PageSize
    BY <2>1, LostFacts
  <2>3. flash'[q].items = flash[q].items
    BY <1>3
  <2>4. 0 <= Lost(flash[q].items)
    BY <2>2, PagesAssumption
  <2> QED BY <2>1, <2>3, <2>4
<1> QED BY <1>3, <1>6, <1>7, <1>8, <1>9, <1>10 DEF FlashInv

(* A header that was not completely written. *)
LEMMA TornAppended ==
  ASSUME FlashType, FlashInv, NEW p \in Pages, flash' = Appended(p, TornHeader),
         ~IsTorn(flash[p].items), \A q, r \in InErasedState : q = r,
         \A q \in Pages : pgLost'[q] = 0
  PROVE  FlashType' /\ FlashInv'
<1> DEFINE it == TornHeader
<1>01. PICK n : n = <<p, Len(flash[p].items) + 1>>
  OBVIOUS
<1>1. /\ it \in ItemType /\ it.len = 0 /\ it.id = Torn /\ ~it.old /\ ~Live(it) /\ ~Good(it)
      /\ it.id # Zeroed /\ it.id \notin Items
  BY ValuesAssumption, PagesAssumption DEF ItemType, TornHeader, Live, Good
<1>2. flash' = Appended(p, it)
  OBVIOUS
<1> HIDE DEF it
<1>3. /\ FlashType' /\ n \notin Place /\ Place' = Place \cup {n} /\ At(n)' = it
      /\ n[1] = p
      /\ \A b \in Place : At(b)' = At(b)
      /\ LastOf(p)' = n
      /\ \A q \in Pages : /\ flash'[q].active = flash[q].active
                          /\ flash'[q].xfer = flash[q].xfer
                          /\ q # p => flash'[q] = flash[q] /\ LastOf(q)' = LastOf(q)
      /\ LenOf(flash'[p].items) = LenOf(flash[p].items) + it.len
  BY <1>01, <1>1, <1>2, ItemAppended
<1>4. MarkedPages' = MarkedPages /\ InErasedState' = InErasedState
  BY <1>3, FlagsKept
<1>5. ItemsSound'
  <2> SUFFICES ASSUME NEW b \in Place'
               PROVE  /\ At(b)'.id \in Items => At(b)'.len = Size[At(b)'.id]
                      /\ At(b)'.old => Good(At(b)')
                      /\ At(b)'.id = Torn => b = LastOf(b[1])' /\ At(b)'.len = 0
    BY DEF ItemsSound
  <2>1. CASE b = n
    <3>1. LastOf(b[1])' = b
      BY <1>3, <2>1 DEF LastOf
    <3> QED BY <1>1, <1>3, <2>1, <3>1
  <2>2. CASE b # n
    <3>1. b \in Place /\ At(b)' = At(b) /\ b[1] \in Pages
      BY <2>2, <1>3, PlaceFacts
    <3>2. At(b).id = Torn => b[1] # p
      <4>1. b[1] = p => b[2] \in DOMAIN flash[p].items /\ At(b) = flash[p].items[b[2]]
        BY <3>1, PlaceFacts DEF FlashType, PageType, At
      <4> QED BY <4>1 DEF IsTorn
    <3> QED BY <3>1, <3>2, <1>3 DEF FlashInv, ItemsSound
  <2> QED BY <2>1, <2>2
<1>6. HeadersSound'
  BY <1>3, <1>4 DEF FlashInv, HeadersSound
<1>7. /\ \A b, c \in Place : (Kept(b)' <=> Kept(b)) /\ (Same(b, c)' <=> Same(b, c))
      /\ ~Kept(n)'
  BY <1>1, <1>3, PlaceFacts DEF Kept, Same, Good, Live
<1>8. CopiesSound' /\ (OnlyCopies => OnlyCopies')
  BY <1>3, <1>7 DEF FlashInv, CopiesSound, OnlyCopies
<1>9. MarkedSound'
  <2> SUFFICES ASSUME NEW m \in MarkedPages, InErasedState = {}, NEW b \in Place', b[1] = m, Good(At(b)')
               PROVE  /\ At(b)'.old
                      /\ \E c \in Place' : Good(At(c)') /\ Same(b, c)' /\ ~At(c)'.old
    BY <1>4, <1>8 DEF FlashInv, MarkedSound
  <2>1. b \in Place /\ At(b)' = At(b)
    BY <1>1, <1>3
  <2>2. PICK c \in Place : Good(At(c)) /\ Same(b, c) /\ ~At(c).old
    BY <2>1 DEF FlashInv, MarkedSound
  <2>3. At(b).old
    BY <2>1 DEF FlashInv, MarkedSound
  <2> QED BY <1>3, <1>7, <2>1, <2>2, <2>3
<1>10. RoomSound'
  <2> SUFFICES ASSUME NEW q \in Pages
               PROVE  LenOf(flash'[q].items) <= PageSize /\ pgLost'[q] <= Lost(flash'[q].items)
    BY DEF RoomSound
  <2>1. flash[q].items \in Seq(ItemType) /\ LenOf(flash[q].items) <= PageSize
    BY DEF FlashType, PageType, FlashInv, RoomSound
  <2>2. flash'[q].items \in Seq(ItemType)
    BY <1>3 DEF FlashType, PageType
  <2>3. LenOf(flash[q].items) \in Nat
    BY <2>1, LostFacts
  <2>4. LenOf(flash'[q].items) <= PageSize
    BY <1>1, <1>3, <2>1, <2>3
  <2>5. Lost(flash'[q].items) \in 0 .. PageSize
    BY <2>2, <2>4, LostFacts
  <2> QED BY <2>4, <2>5, PagesAssumption
<1> QED BY <1>3, <1>5, <1>6, <1>8, <1>9, <1>10 DEF FlashInv

(* What a reset may find in the flash. *)
LEMMA ResetMay ==
  ASSUME Reset
  PROVE  \/ flash' = flash
         \/ \E p \in Erasing : flash' = [flash EXCEPT ![p].active = FALSE, ![p].xfer = FALSE]
         \/ \E p \in Erasing : flash' = [flash EXCEPT ![p].xfer = FALSE]
         \/ pc = "header" /\ flash' = Appended(op.dst, TornHeader)
<1> DEFINE A == {[flash EXCEPT ![p].active = FALSE, ![p].xfer = FALSE] :
                    p \in IF "header" \in TornErases THEN Erasing ELSE {}}
           B == {[flash EXCEPT ![p].xfer = FALSE] :
                    p \in IF "xfer" \in TornErases THEN Erasing ELSE {}}
           C == {Appended(op.dst, TornHeader) : x \in IF pc = "header" THEN {0} ELSE {}}
<1>1. flash' \in {flash} \cup A \cup B \cup C
  BY DEF Reset, Interrupted
<1>2. CASE flash' \in A
  <2>1. flash' \in {[flash EXCEPT ![p].active = FALSE, ![p].xfer = FALSE] : p \in Erasing}
    BY <1>2
  <2> QED BY <2>1
<1>3. CASE flash' \in B
  <2>1. flash' \in {[flash EXCEPT ![p].xfer = FALSE] : p \in Erasing}
    BY <1>3
  <2> QED BY <2>1
<1>4. CASE flash' \in C
  BY <1>4
<1> QED BY <1>1, <1>2, <1>3, <1>4

(* A reset at whatever word keeps NvInv, whatever it leaves of a page that was being
   erased or of a header that was being written. *)
LEMMA ResetStep ==
  ASSUME NvInv, Reset
  PROVE  NvInv'
<1>1. /\ flash' \in Interrupted
      /\ pgOff' = AllZero /\ pgLost' = AllZero /\ pgRes' = NoPage
      /\ hot' = NoneHot /\ pc' = "boot" /\ op' = NoOp /\ scan' = NoScan
  BY DEF Reset
<1>2. FlashType /\ FlashInv /\ op.com \in Pages \cup {NoPage} /\ pgRes \in Pages \cup {NoPage}
  BY DEF NvInv, Types, OpType
<1>3. \A q \in Pages : pgLost'[q] = 0
  BY <1>1 DEF AllZero
<1>4. ASSUME flash' = flash PROVE FlashType' /\ FlashInv'
  <2>1. \A q \in Pages : pgLost'[q] <= Lost(flash[q].items)
    <3> SUFFICES ASSUME NEW q \in Pages PROVE pgLost'[q] <= Lost(flash[q].items)
      OBVIOUS
    <3>1. flash[q].items \in Seq(ItemType) /\ LenOf(flash[q].items) <= PageSize
      BY <1>2 DEF FlashType, PageType, FlashInv, RoomSound
    <3>2. Lost(flash[q].items) \in 0 .. PageSize
      BY <3>1, LostFacts
    <3> QED BY <1>3, <3>2, PagesAssumption
  <2> QED BY <1>2, <1>4, <2>1, FlashStays, FlashInvKept
<1>5. ASSUME NEW p \in Erasing, NEW active \in {flash[p].active, FALSE},
             flash' = [flash EXCEPT ![p].active = active, ![p].xfer = FALSE]
      PROVE  FlashType' /\ FlashInv'
  <2>1. CASE pc = "erase"
    <3>1. p = op.com /\ op.com \in Pages /\ flash[op.com].xfer /\ InErasedState = {}
      BY <1>2, <2>1 DEF Erasing, NvInv, Phase
    <3>2. MarkedPages \subseteq {p}
      BY <1>2, <3>1 DEF FlashInv, HeadersSound, MarkedPages
    <3> QED BY <1>2, <1>3, <1>5, <3>1, <3>2, MarkLost
  <2>2. CASE pc = "eraseRes"
    <3>1. /\ p = pgRes
          /\ \/ InErasedState = {pgRes}
             \/ pgRes \in Pages /\ InErasedState = {} /\ MarkedPages = {}
      BY <1>2, <2>2 DEF Erasing, NvInv, Phase
    <3>2. CASE InErasedState = {pgRes}
      <4>1. p \in Pages /\ ~flash[p].active
        BY <3>1, <3>2 DEF InErasedState
      <4>2. ~flash[p].xfer /\ flash[p] \in PageType
        BY <1>2, <4>1 DEF FlashInv, HeadersSound, FlashType
      <4>3. flash' = flash
        <5>1. flash[p].active = FALSE /\ flash[p].xfer = FALSE
          BY <4>1, <4>2 DEF PageType
        <5>2. active = FALSE
          BY <1>5, <5>1
        <5>3. [flash[p] EXCEPT !.active = active, !.xfer = FALSE] = flash[p]
          BY <4>2, <5>1, <5>2 DEF PageType
        <5>4. flash' = [flash EXCEPT ![p] = [flash[p] EXCEPT !.active = active, !.xfer = FALSE]]
          BY <1>2, <1>5, <4>1 DEF FlashType
        <5> QED BY <1>2, <4>1, <5>3, <5>4 DEF FlashType
      <4> QED BY <1>4, <4>3
    <3>3. CASE pgRes \in Pages /\ InErasedState = {} /\ MarkedPages = {}
      BY <1>2, <1>3, <1>5, <3>1, <3>3, MarkLost
    <3> QED BY <3>1, <3>2, <3>3
  <2> QED BY <1>5, <2>1, <2>2 DEF Erasing
<1>6. ASSUME pc = "header", flash' = Appended(op.dst, TornHeader)
      PROVE  FlashType' /\ FlashInv'
  <2>1. op.dst \in Pages /\ InErasedState = {pgRes}
    BY <1>6, WritingFacts
  <2>2. ~IsTorn(flash[op.dst].items)
    BY <1>6, HeaderFits
  <2> QED BY <1>2, <1>3, <1>6, <2>1, <2>2, TornAppended
<1>7. FlashType' /\ FlashInv'
  <2>1. CASE flash' = flash
    BY <1>4, <2>1
  <2>2. ASSUME NEW p \in Erasing, flash' = [flash EXCEPT ![p].active = FALSE, ![p].xfer = FALSE]
        PROVE  FlashType' /\ FlashInv'
    BY <1>5, <2>2
  <2>3. ASSUME NEW p \in Erasing, flash' = [flash EXCEPT ![p].xfer = FALSE]
        PROVE  FlashType' /\ FlashInv'
    <3>1. flash' = [flash EXCEPT ![p].active = flash[p].active, ![p].xfer = FALSE]
      <4>1. CASE p \in Pages
        <5>1. flash \in [Pages -> PageType] /\ flash[p] \in PageType
          BY <1>2, <4>1 DEF FlashType
        <5>2. [flash[p] EXCEPT !.xfer = FALSE]
                = [flash[p] EXCEPT !.active = flash[p].active, !.xfer = FALSE]
          BY <5>1 DEF PageType
        <5> QED BY <2>3, <5>1, <5>2
      <4>2. CASE p \notin Pages
        BY <1>2, <2>3, <4>2 DEF FlashType
      <4> QED BY <4>1, <4>2
    <3> QED BY <1>5, <3>1
  <2>4. CASE pc = "header" /\ flash' = Appended(op.dst, TornHeader)
    BY <1>6, <2>4
  <2>5. \/ flash' = flash
        \/ \E p \in Erasing : flash' = [flash EXCEPT ![p].active = FALSE, ![p].xfer = FALSE]
        \/ \E p \in Erasing : flash' = [flash EXCEPT ![p].xfer = FALSE]
        \/ pc = "header" /\ flash' = Appended(op.dst, TornHeader)
    BY ResetMay
  <2> QED BY <2>1, <2>2, <2>3, <2>4, <2>5
<1>8. Types'
  <2>1. op' \in OpType
    BY <1>1 DEF OpType, NoOp, PlaceType
  <2>2. scan' \in ScanType
    BY <1>1, PagesAssumption DEF ScanType, NoScan
  <2>3. hot' \in [HotIds -> PlaceType]
    BY <1>1 DEF NoneHot, PlaceType
  <2>4. pgOff' \in [Pages -> 0 .. PageSize] /\ pgLost' \in [Pages -> Nat]
    BY <1>1, PagesAssumption DEF AllZero
  <2> QED BY <1>1, <1>7, <2>1, <2>2, <2>3, <2>4 DEF Types
<1>9. op'.kind = "none" /\ op'.id = Missing /\ ~Operating'
  BY <1>1 DEF NoOp, Operating
<1>10. Phase'
  BY <1>1, <1>9 DEF Phase
<1>11. ReserveInv' /\ OpInv' /\ ServeInv' /\ ScanInv' /\ PickInv'
  BY <1>1, <1>9 DEF ReserveInv, Filling, OpInv, ServeInv, Serving, ScanInv, PickInv
<1>12. HotInv'
  <2>1. hot' = NoneHot'
    BY <1>1 DEF NoneHot
  <2>2. \A id \in HotIds : hot'[id] = NoPlace
    BY <1>1 DEF NoneHot
  <2> QED BY <2>1, <2>2 DEF HotInv
<1> QED BY <1>7, <1>8, <1>10, <1>11, <1>12 DEF NvInv

(* NvInv is inductive. *)
LEMMA NextNv == NvInv /\ [Next]_vars => NvInv'
<1> SUFFICES ASSUME NvInv, [Next]_vars PROVE NvInv'
  OBVIOUS
<1>1. CASE UNCHANGED vars
  BY <1>1, Unchanged
<1>2. ASSUME NEW id \in Items, ItemInitFinds(id) PROVE NvInv'
  BY <1>2, ItemInitFindsStep
<1>3. ASSUME NEW id \in Items, Delete(id) PROVE NvInv'
  BY <1>3, DeleteStep
<1>4. ASSUME NEW id \in Items, NEW v \in Values, ItemInit(id, v) PROVE NvInv'
  BY <1>4, ItemInitStep
<1>5. ASSUME NEW id \in Items, NEW v \in Values, Write(id, v) PROVE NvInv'
  BY <1>5, WriteStep
<1>6. CASE NewCopy
  <2>1. CASE MarkPage
    BY <2>1, MarkPageStep
  <2>2. CASE WriteHeader
    BY <2>2, WriteHeaderStep
  <2>3. CASE MarkSource
    BY <2>3, MarkSourceStep
  <2>4. CASE WriteData
    BY <2>4, WriteDataStep
  <2>5. CASE ZeroSource
    BY <2>5, ZeroSourceStep
  <2> QED BY <1>6, <2>1, <2>2, <2>3, <2>4, <2>5 DEF NewCopy
<1>7. CASE Compaction
  <2>1. CASE CompactMark
    BY <2>1, CompactMarkStep
  <2>2. CASE CompactHeader
    BY <2>2, CompactHeaderStep
  <2>3. CASE CompactData
    BY <2>3, CompactDataStep
  <2>4. CASE CompactEnds
    BY <2>4, CompactEndsStep
  <2>5. CASE PutInUse
    BY <2>5, PutInUseStep
  <2>6. CASE EraseCompacted
    BY <2>6, EraseCompactedStep
  <2> QED BY <1>7, <2>1, <2>2, <2>3, <2>4, <2>5, <2>6 DEF Compaction
<1>8. CASE Boot
  <2>1. CASE BootUses
    BY <2>1, BootUsesStep
  <2>2. CASE BootHeaders
    BY <2>2, BootHeadersStep
  <2>3. CASE EraseReserve
    BY <2>3, EraseReserveStep
  <2>4. CASE ScanItem
    BY <2>4, ScanItemStep
  <2>5. CASE ScanPage
    BY <2>5, ScanPageStep
  <2>6. CASE ScanEnds
    BY <2>6, ScanEndsStep
  <2> QED BY <1>8, <2>1, <2>2, <2>3, <2>4, <2>5, <2>6 DEF Boot
<1>9. CASE Reset
  BY <1>9, ResetStep
<1>10. Calls \/ NewCopy \/ Compaction \/ Boot \/ Reset \/ UNCHANGED vars
  BY DEF Next
<1>11. CASE Calls
  BY <1>2, <1>3, <1>4, <1>5, <1>11 DEF Calls
<1> QED BY <1>1, <1>6, <1>7, <1>8, <1>9, <1>10, <1>11

(* In every state that calls, resets and half done erasures reach, NvInv
   holds: the flash can be recovered from, the reserve page takes what compactPage
   still has to copy, and RAM's picture of the pages is right when it is used. *)
THEOREM SpecNv == Spec => []NvInv
BY InitNv, NextNv, PTL DEF Spec

--------------------------------------------------------------------------------
(* The safety theorems. *)

(* NvInv has the types, and the bounds on what a page holds. *)
LEMMA NvTypeOK == NvInv => TypeOK
<1> SUFFICES ASSUME NvInv PROVE TypeOK
  OBVIOUS
<1>1. /\ FlashType /\ FlashInv /\ pgOff \in [Pages -> 0 .. PageSize] /\ pgLost \in [Pages -> Nat]
      /\ pgRes \in Pages \cup {NoPage} /\ hot \in [HotIds -> PlaceType] /\ scan \in ScanType
      /\ pc \in {"idle", "markPage", "compact", "copy", "header", "markSource", "data",
               "use", "erase", "zero", "boot", "eraseRes", "scan"}
  BY DEF NvInv, Types
<1>2. ASSUME NEW p \in Pages
      PROVE  /\ Used(flash[p].items) <= PageSize /\ LenOf(flash[p].items) <= PageSize
             /\ pgLost[p] \in 0 .. PageSize
             /\ LenOfZeroed(flash[p].items) <= PageSize /\ LenOfZeroed(flash[p].items) \in Nat
  <2>1. /\ flash[p].items \in Seq(ItemType) /\ LenOf(flash[p].items) <= PageSize
        /\ pgLost[p] <= Lost(flash[p].items) /\ pgLost[p] \in Nat
    BY <1>1 DEF FlashType, PageType, FlashInv, RoomSound
  <2>2. /\ Lost(flash[p].items) \in 0 .. PageSize /\ Used(flash[p].items) \in 0 .. PageSize
        /\ LenOf(flash[p].items) \in Nat /\ LenOfZeroed(flash[p].items) \in Nat
        /\ LenOfZeroed(flash[p].items) <= LenOf(flash[p].items)
    BY <2>1, LostFacts
  <2> QED BY <2>1, <2>2, PagesAssumption
<1>3. scan.pg \in 1 .. NumPages + 1 /\ scan.i \in Nat /\ scan.lost \in 0 .. PageSize
  <2>1. scan.pg \in 1 .. NumPages + 1 /\ scan.i \in Nat /\ scan.lost \in Nat
    BY <1>1 DEF ScanType
  <2>2. CASE pc = "scan" /\ scan.pg \in Pages
    <3>1. scan.lost <= Total(LensZeroed(scan.pg, scan.i))
      BY <2>2, ScanFacts
    <3>2. /\ Total(LensZeroed(scan.pg, scan.i)) <= LenOfZeroed(flash[scan.pg].items)
          /\ Total(LensZeroed(scan.pg, scan.i)) \in Nat
      BY <1>1, <2>1, <2>2, ZeroedAll, ZeroedType
    <3>3. /\ LenOfZeroed(flash[scan.pg].items) <= PageSize
          /\ LenOfZeroed(flash[scan.pg].items) \in Nat
      BY <1>2, <2>2
    <3> QED BY <2>1, <3>1, <3>2, <3>3, PagesAssumption
  <2>3. CASE ~(pc = "scan" /\ scan.pg \in Pages)
    <3>1. scan.lost = 0
      <4>1. CASE pc = "scan"
        BY <2>3, <4>1, ScanFacts
      <4>2. CASE pc # "scan"
        BY <4>2 DEF NvInv, Phase, NoScan
      <4> QED BY <4>1, <4>2
    <3> QED BY <2>1, <3>1, PagesAssumption
  <2> QED BY <2>2, <2>3
<1>4. pgLost \in [Pages -> 0 .. PageSize]
  BY <1>1, <1>2
<1>5. hot \in [HotIds -> (Pages \X Nat) \cup {NoPlace}]
  BY <1>1 DEF PlaceType
<1>6. flash \in [Pages -> [active : BOOLEAN, xfer : BOOLEAN,
                            items : Seq([id : Items \cup {Zeroed, Torn}, len : 0 .. PageSize,
                                         val : Values \cup {Erased}, old : BOOLEAN])]]
  BY <1>1 DEF FlashType, PageType, ItemType
<1> QED BY <1>1, <1>2, <1>3, <1>4, <1>5, <1>6 DEF TypeOK

(* NvInv has the headers and the bookkeeping in order between operations. *)
LEMMA NvPagesSound == NvInv => PagesSound
<1> SUFFICES ASSUME NvInv PROVE PagesSound
  OBVIOUS
<1>1. OneReservePage
  BY IdleFacts DEF OneReservePage, ReserveBlank
<1>2. BookkeepingSafe
  BY IdleFacts DEF BookkeepingSafe, FlashInv, RoomSound
<1> QED BY <1>1, <1>2, NvTypeOK DEF PagesSound

(* The copies of an item that a restart would keep. *)
LEMMA CopiesFacts ==
  ASSUME NEW id \in Items
  PROVE  \A a : a \in UNION {{p} \X CopiesOn(p, id) : p \in Pages \ Doomed}
               <=> a \in Place /\ At(a).id = id /\ Good(At(a)) /\ a[1] \notin Doomed
<1>1. ASSUME NEW p \in Pages, NEW a \in {p} \X (1 .. Len(flash[p].items))
      PROVE  a \in {p} \X CopiesOn(p, id) <=> At(a).id = id /\ Good(At(a))
  BY DEF CopiesOn, At
<1>2. \A p : CopiesOn(p, id) \subseteq 1 .. Len(flash[p].items)
  BY DEF CopiesOn
<1>3. ASSUME NEW a PROVE a \in Place <=> \E p \in Pages : a \in {p} \X (1 .. Len(flash[p].items))
  BY DEF Place
<1>4. ASSUME NEW a, NEW p \in Pages \ Doomed, a \in {p} \X CopiesOn(p, id)
      PROVE  a \in Place /\ At(a).id = id /\ Good(At(a)) /\ a[1] \notin Doomed
  <2>1. a \in {p} \X (1 .. Len(flash[p].items)) /\ a[1] = p
    BY <1>2, <1>4
  <2> QED BY <1>1, <1>3, <1>4, <2>1
<1>5. ASSUME NEW a \in Place, At(a).id = id, Good(At(a)), a[1] \notin Doomed
      PROVE  \E p \in Pages \ Doomed : a \in {p} \X CopiesOn(p, id)
  <2>1. PICK p \in Pages : a \in {p} \X (1 .. Len(flash[p].items))
    BY <1>3
  <2>2. a[1] = p
    BY <2>1
  <2> QED BY <1>1, <1>5, <2>1, <2>2
<1> QED BY <1>4, <1>5

(* Between operations an item has one copy at most, and it is complete. *)
LEMMA RecoveredIdle ==
  ASSUME NvInv, pc = "idle", NEW id \in Items
  PROVE  IF \E a \in Place : At(a).id = id
         THEN /\ FindItem(id) # NoPlace /\ FindItem(id) \in Place /\ At(FindItem(id)).id = id
              /\ Good(At(FindItem(id))) /\ Recovered(id) = At(FindItem(id)).val
              /\ \A a \in Place : At(a).id = id => a = FindItem(id)
         ELSE FindItem(id) = NoPlace /\ Recovered(id) = Missing
<1>1. /\ FlashType /\ InErasedState = {pgRes}
      /\ \A a \in Place : a[1] # pgRes
      /\ \A a \in Place : Live(At(a)) => Good(At(a)) /\ Kept(a)
      /\ \A a, b \in Place : Live(At(a)) /\ Same(a, b) => a = b
  BY IdleFacts
<1> DEFINE valid == UNION {{p} \X CopiesOn(p, id) : p \in Pages \ Doomed}
           new == {a \in valid : ~At(a).old}
<1>0. \A a : a \in valid <=> a \in Place /\ At(a).id = id /\ Good(At(a)) /\ a[1] \notin Doomed
  BY CopiesFacts
<1>2. Recovered(id) = IF valid = {} THEN Missing
                      ELSE At(First(IF new # {} THEN new ELSE valid)).val
  BY DEF Recovered
<1>3. CASE \E a \in Place : At(a).id = id
  <2>1. PICK a \in Place : At(a).id = id
    BY <1>3
  <2>2. /\ Live(At(a)) /\ Good(At(a))
        /\ \A b \in Place : At(b).id = id => b = a
    BY <1>1, <2>1 DEF Live, Same
  <2>3. FindItem(id) = a
    BY <1>1, <2>1, <2>2, FindItemOnly
  <2>4. a[1] \notin Doomed
    BY <1>1, <2>1, <2>2 DEF Doomed
  <2>5. a \in valid /\ \A b \in valid : b = a
    BY <1>0, <2>1, <2>2, <2>4
  <2>6. valid \subseteq Place
    BY <1>0
  <2> HIDE DEF valid
  <2>7. First(IF new # {} THEN new ELSE valid) = a
    <3>1. CASE new # {}
      <4>1. a \in new /\ (\A b \in new : b = a) /\ new \subseteq Place
        BY <2>5, <2>6, <3>1
      <4> HIDE DEF new
      <4>2. First(new) = a
        BY <1>1, <4>1, FirstOnly
      <4> QED BY <3>1, <4>2
    <3>2. CASE new = {}
      <4>1. First(valid) = a
        BY <1>1, <2>5, <2>6, FirstOnly
      <4> QED BY <3>2, <4>1
    <3> QED BY <3>1, <3>2
  <2>8. Recovered(id) = At(a).val
    BY <1>2, <2>5, <2>7
  <2>9. a # NoPlace
    BY <1>1, <2>1, FirstFacts
  <2> QED BY <1>3, <2>1, <2>2, <2>3, <2>8, <2>9
<1>4. CASE ~\E a \in Place : At(a).id = id
  <2>1. \A a : a \notin valid
    BY <1>0, <1>4
  <2> HIDE DEF valid, new
  <2>2. Recovered(id) = Missing
    BY <1>2, <2>1
  <2>3. FindItem(id) = NoPlace
    BY <1>1, <1>4, FindItemFacts
  <2> QED BY <1>4, <2>2, <2>3
<1> QED BY <1>3, <1>4

(* NvInv has reads find what a restart would keep. *)
LEMMA NvReads == NvInv => ReadsWhatIsStored
<1> SUFFICES ASSUME NvInv, pc = "idle"
             PROVE  /\ \A id \in Items : Read(id) = Recovered(id)
                    /\ \A id \in HotIds :
                          hot[id] # NoPlace /\ Recovered(id) # Missing => hot[id] = FindItem(id)
  BY DEF ReadsWhatIsStored
<1>1. ASSUME NEW id \in Items PROVE Read(id) = Recovered(id)
  BY RecoveredIdle DEF Read
<1>2. ASSUME NEW id \in HotIds, hot[id] # NoPlace, Recovered(id) # Missing
      PROVE  hot[id] = FindItem(id)
  <2>1. id \in Items
    BY ValuesAssumption
  <2>2. /\ FindItem(id) \in Place /\ At(FindItem(id)).id = id /\ Good(At(FindItem(id)))
    BY <1>2, <2>1, RecoveredIdle
  <2>3. ~Replaced(FindItem(id))
    BY <2>2, IdleFacts
  <2> QED BY <1>2, <2>2, <2>3 DEF NvInv, HotInv
<1> QED BY <1>1, <1>2

(* The types, and that no page is written past its end (writeItem, compactPage). *)
THEOREM TypeCorrect == Spec => []TypeOK
BY SpecNv, NvTypeOK, PTL

(* Between operations there is one erased page and no marked one, the offsets kept in
   RAM are those of the flash, and no more room is counted as lost than compacting gains
   (initNV, initItem, compactPage), however often the power failed before. *)
THEOREM PagesSafe == Spec => []PagesSound
BY SpecNv, NvPagesSound, PTL

(* Between operations osal_nv_read returns what a restart would keep, and a hot item's
   place in RAM is where findItem finds it (hotItemUpdate), for every set of items,
   sizes and pages. *)
THEOREM ReadsSafe == Spec => []ReadsWhatIsStored
BY SpecNv, NvReads, PTL

--------------------------------------------------------------------------------
(* What a restart makes of the flash: which steps alter an item. *)

(* A complete copy on a page that a restart would keep, and the one it would choose. *)
Valid(a) == Good(At(a)) /\ a[1] \notin Doomed
(* What Recovered is: the copy of an item that initNV will keep. *)
Wins(a, id) ==
    /\ a \in Place /\ Valid(a) /\ At(a).id = id
    /\ ~At(a).old \/ \A b \in Place : Valid(b) /\ At(b).id = id => At(b).old
RecoveredWins ==
    \A id \in Items :
       /\ \A a \in Place : Wins(a, id) => Recovered(id) = At(a).val
       /\ \A a \in Place : Valid(a) /\ At(a).id = id => \E b \in Place : Wins(b, id)
       /\ (\A a \in Place : At(a).id = id => ~Valid(a)) => Recovered(id) = Missing

(* A copy on no doomed page is on a page with a header. *)
LEMMA ValidKept ==
  ASSUME FlashType, NEW a \in Place
  PROVE  Valid(a) => Kept(a)
BY PlaceFacts DEF Valid, Kept, Doomed, InErasedState

(* In a sound flash Recovered is the value of the copy that wins. *)
LEMMA WinsFacts == FlashType /\ FlashInv => RecoveredWins
<1> SUFFICES ASSUME FlashType, FlashInv, NEW id \in Items
             PROVE  /\ \A a \in Place : Wins(a, id) => Recovered(id) = At(a).val
                    /\ \A a \in Place : Valid(a) /\ At(a).id = id => \E b \in Place : Wins(b, id)
                    /\ (\A a \in Place : At(a).id = id => ~Valid(a)) => Recovered(id) = Missing
  BY DEF RecoveredWins
<1> DEFINE valid == UNION {{p} \X CopiesOn(p, id) : p \in Pages \ Doomed}
           new == {a \in valid : ~At(a).old}
<1>0. \A a : a \in valid <=> a \in Place /\ At(a).id = id /\ Good(At(a)) /\ a[1] \notin Doomed
  BY CopiesFacts
<1>1. Recovered(id) = IF valid = {} THEN Missing
                      ELSE At(First(IF new # {} THEN new ELSE valid)).val
  BY DEF Recovered
<1>2. /\ valid \subseteq Place
      /\ \A a \in Place : a \in valid <=> (Valid(a) /\ At(a).id = id)
  BY <1>0 DEF Valid
<1>3. new \subseteq Place /\ \A a : a \in new <=> a \in valid /\ ~At(a).old
  BY <1>2
<1> HIDE DEF new, valid
<1>4. \A a, b \in valid : At(a).old = At(b).old => a = b
  BY <1>2, ValidKept DEF FlashInv, CopiesSound, Same
<1>5. ASSUME NEW a \in Place, Wins(a, id) PROVE Recovered(id) = At(a).val
  <2>1. a \in valid
    BY <1>2, <1>5 DEF Wins
  <2>2. CASE ~At(a).old
    <3>1. a \in new /\ \A b \in new : b = a
      <4>1. \A b \in new : At(b).old = FALSE /\ At(a).old = FALSE
        <5>1. \A b \in Place : At(b).old \in BOOLEAN
          BY PlaceFacts DEF ItemType
        <5> QED BY <1>2, <1>3, <2>2, <5>1
      <4> QED BY <1>3, <1>4, <2>1, <2>2, <4>1
    <3>2. First(new) = a
      BY <1>3, <3>1, FirstOnly
    <3> QED BY <1>1, <2>1, <3>1, <3>2
  <2>3. CASE At(a).old
    <3>1. \A b \in valid : At(b).old
      BY <1>2, <1>5, <2>3 DEF Wins
    <3>2. new = {}
      BY <1>3, <3>1
    <3>3. \A b \in valid : b = a
      <4>1. \A b \in valid : At(b).old = TRUE /\ At(a).old = TRUE
        <5>1. \A b \in Place : At(b).old \in BOOLEAN
          BY PlaceFacts DEF ItemType
        <5> QED BY <1>2, <2>1, <3>1, <5>1
      <4> QED BY <1>4, <2>1, <4>1
    <3>4. First(valid) = a
      BY <1>2, <2>1, <3>3, FirstOnly
    <3> QED BY <1>1, <2>1, <3>2, <3>4
  <2> QED BY <2>2, <2>3
<1>6. ASSUME NEW a \in Place, Valid(a), At(a).id = id PROVE \E b \in Place : Wins(b, id)
  <2>1. CASE \E b \in Place : Valid(b) /\ At(b).id = id /\ ~At(b).old
    BY <2>1 DEF Wins
  <2>2. CASE \A b \in Place : Valid(b) /\ At(b).id = id => At(b).old
    BY <1>6, <2>2 DEF Wins
  <2> QED BY <2>1, <2>2
<1>7. ASSUME \A a \in Place : At(a).id = id => ~Valid(a) PROVE Recovered(id) = Missing
  <2>1. valid = {}
    BY <1>2, <1>7
  <2> QED BY <1>1, <2>1
<1> QED BY <1>5, <1>6, <1>7

(* The same after the step. *)
LEMMA WinsFactsNext == FlashType' /\ FlashInv' => RecoveredWins'
BY WinsFacts, PTL

(* What an item holds does not change when the copy that wins has the same value. *)
LEMMA WinnerStays ==
  ASSUME FlashType, FlashInv, FlashType', FlashInv', NEW id \in Items,
         \A a \in Place : Wins(a, id) => \E b \in Place' : Wins(b, id)' /\ At(b)'.val = At(a).val,
         \A b \in Place' : Valid(b)' /\ At(b)'.id = id =>
            \E a \in Place : Valid(a) /\ At(a).id = id
  PROVE  Recovered(id)' = Recovered(id)
<1>1. RecoveredWins /\ RecoveredWins'
  BY WinsFacts, WinsFactsNext
<1>2. CASE \E a \in Place : Valid(a) /\ At(a).id = id
  <2>1. PICK a \in Place : Wins(a, id)
    BY <1>1, <1>2 DEF RecoveredWins
  <2>2. PICK b \in Place' : Wins(b, id)' /\ At(b)'.val = At(a).val
    BY <2>1
  <2> QED BY <1>1, <2>1, <2>2 DEF RecoveredWins
<1>3. CASE ~\E a \in Place : Valid(a) /\ At(a).id = id
  BY <1>1, <1>3 DEF RecoveredWins
<1> QED BY <1>2, <1>3

(* In particular when the valid copies are the same. *)
LEMMA ValidSame ==
  ASSUME FlashType, FlashInv, FlashType', FlashInv', NEW id \in Items,
         \A a \in Place : Valid(a) /\ At(a).id = id => a \in Place' /\ Valid(a)' /\ At(a)' = At(a),
         \A a \in Place' : Valid(a)' /\ At(a)'.id = id => a \in Place /\ Valid(a) /\ At(a).id = id
  PROVE  Recovered(id)' = Recovered(id)
<1>1. ASSUME NEW a \in Place, Wins(a, id)
      PROVE  Wins(a, id)' /\ At(a)'.val = At(a).val
  <2>1. /\ a \in Place' /\ Valid(a)' /\ At(a)' = At(a) /\ At(a).id = id
        /\ ~At(a).old \/ \A b \in Place : Valid(b) /\ At(b).id = id => At(b).old
    BY <1>1 DEF Wins
  <2>2. CASE ~At(a).old
    BY <2>1, <2>2 DEF Wins
  <2>3. CASE At(a).old
    <3>1. \A b \in Place' : Valid(b)' /\ At(b)'.id = id => At(b)'.old
      <4> SUFFICES ASSUME NEW b \in Place', Valid(b)', At(b)'.id = id PROVE At(b)'.old
        OBVIOUS
      <4>1. b \in Place /\ Valid(b) /\ At(b).id = id
        OBVIOUS
      <4>2. At(b)' = At(b) /\ At(b).old
        BY <2>1, <2>3, <4>1
      <4> QED BY <4>2
    <3> QED BY <2>1, <3>1 DEF Wins
  <2> QED BY <2>2, <2>3
<1>2. \A a \in Place : Wins(a, id) => \E b \in Place' : Wins(b, id)' /\ At(b)'.val = At(a).val
  BY <1>1 DEF Wins
<1> QED BY <1>2, WinnerStays

(* No item has changed. *)
Unaltered == \A id \in Items : Recovered(id)' = Recovered(id)

(* A step that leaves the flash alone alters no item. *)
LEMMA FlashUnaltered ==
  ASSUME flash' = flash
  PROVE  Unaltered
BY DEF Unaltered, Recovered, CopiesOn, At, Good, Live, Doomed, InErasedState, MarkedPages, First

(* The flags are the same, and so is every item but one that is not valid. *)
LEMMA ItemUnaltered ==
  ASSUME FlashType, FlashInv, FlashType', FlashInv', NEW n,
         \A p \in Pages : flash'[p].active = flash[p].active /\ flash'[p].xfer = flash[p].xfer,
         Place' = Place \cup {n}, \A b \in Place : b # n => At(b)' = At(b),
         n \in Place => ~Valid(n), ~Good(At(n)') \/ n[1] \in Doomed
  PROVE  Unaltered
<1>1. Doomed' = Doomed
  BY FlagsKept DEF Doomed
<1>2. ~Valid(n)'
  BY <1>1 DEF Valid
<1>3. \A b \in Place : b # n => (Valid(b)' <=> Valid(b)) /\ At(b)' = At(b)
  BY <1>1 DEF Valid, Good, Live
<1>4. \A id \in Items : Recovered(id)' = Recovered(id)
  <2> SUFFICES ASSUME NEW id \in Items PROVE Recovered(id)' = Recovered(id)
    OBVIOUS
  <2>1. \A a \in Place : Valid(a) /\ At(a).id = id => a \in Place' /\ Valid(a)' /\ At(a)' = At(a)
    BY <1>3
  <2>2. \A a \in Place' : Valid(a)' /\ At(a)'.id = id => a \in Place /\ Valid(a) /\ At(a).id = id
    BY <1>2, <1>3
  <2> QED BY <2>1, <2>2, ValidSame
<1> QED BY <1>4 DEF Unaltered

(* The only copy of an item is marked old. *)
LEMMA MarkUnaltered ==
  ASSUME FlashType, FlashInv, FlashType', FlashInv', NEW n \in Place,
         \A p \in Pages : flash'[p].active = flash[p].active /\ flash'[p].xfer = flash[p].xfer,
         Place' = Place, \A b \in Place : b # n => At(b)' = At(b),
         At(n)'.id = At(n).id, At(n)'.val = At(n).val, OnlyCopies
  PROVE  Unaltered
<1>1. Doomed' = Doomed
  BY FlagsKept DEF Doomed
<1>2. \A b \in Place : (Valid(b)' <=> Valid(b)) /\ At(b)'.id = At(b).id /\ At(b)'.val = At(b).val
  BY <1>1 DEF Valid, Good, Live
<1>3. \A a, b \in Place : Valid(a) /\ Valid(b) /\ At(a).id = At(b).id => a = b
  BY ValidKept DEF OnlyCopies, Same
<1>4. ASSUME NEW id \in Items PROVE Recovered(id)' = Recovered(id)
  <2>1. ASSUME NEW a \in Place, Wins(a, id) PROVE Wins(a, id)' /\ At(a)'.val = At(a).val
    <3>1. Valid(a)' /\ At(a)'.id = id /\ At(a)'.val = At(a).val
      BY <1>2, <2>1 DEF Wins
    <3>2. \A b \in Place' : Valid(b)' /\ At(b)'.id = id => b = a
      BY <1>2, <1>3, <2>1 DEF Wins
    <3>3. ~At(a)'.old \/ \A b \in Place' : Valid(b)' /\ At(b)'.id = id => At(b)'.old
      BY <3>2
    <3> QED BY <3>1, <3>3 DEF Wins
  <2>2. \A a \in Place : Wins(a, id) => \E b \in Place' : Wins(b, id)' /\ At(b)'.val = At(a).val
    BY <2>1
  <2>3. \A b \in Place' : Valid(b)' /\ At(b)'.id = id => \E a \in Place : Valid(a) /\ At(a).id = id
    BY <1>2
  <2> QED BY <2>2, <2>3, WinnerStays
<1> QED BY <1>4 DEF Unaltered

(* Pages are erased, put in use or marked, and of what is on them the same is valid. *)
LEMMA PagesUnaltered ==
  ASSUME FlashType, FlashInv, FlashType', FlashInv',
         \A a \in Place' : a \in Place /\ At(a)' = At(a),
         \A a \in Place : Live(At(a)) /\ a[1] \notin Doomed => a \in Place' /\ a[1] \notin Doomed',
         \A a \in Place' : Live(At(a)) /\ a[1] \notin Doomed' => a[1] \notin Doomed
  PROVE  Unaltered
<1> SUFFICES ASSUME NEW id \in Items PROVE Recovered(id)' = Recovered(id)
  BY DEF Unaltered
<1>1. ASSUME NEW a \in Place, Valid(a)
      PROVE  a \in Place' /\ Valid(a)' /\ At(a)' = At(a)
  <2>1. Good(At(a)) /\ Live(At(a)) /\ a[1] \notin Doomed
    BY <1>1 DEF Valid, Good
  <2>2. a \in Place' /\ a[1] \notin Doomed' /\ At(a)' = At(a)
    BY <2>1
  <2> QED BY <2>1, <2>2 DEF Valid, Good, Live
<1>2. ASSUME NEW a \in Place', Valid(a)'
      PROVE  a \in Place /\ Valid(a) /\ At(a)' = At(a)
  <2>1. a \in Place /\ At(a)' = At(a) /\ Good(At(a)) /\ Live(At(a)) /\ a[1] \notin Doomed'
    BY <1>2 DEF Valid, Good, Live
  <2>2. a[1] \notin Doomed
    BY <2>1
  <2> QED BY <2>1, <2>2 DEF Valid, Good
<1> QED BY <1>1, <1>2, ValidSame

(* initNV is about to erase the page that it picked by what it lost. *)
Picking == pc = "eraseRes" /\ op.kind = "pick"

(* The erasing of the picked page, whole or as far as its header. *)
ErasesIt == Picking /\ (EraseReserve \/ (Reset /\ ~flash'[pgRes].active))

(* What NvInv says of the flash now. *)
LEMMA NvFlash ==
  ASSUME NvInv
  PROVE  FlashType /\ FlashInv
BY DEF NvInv, Types

(* What NvInv says of the flash after the step. *)
LEMMA NvFlashNext ==
  ASSUME NvInv'
  PROVE  FlashType' /\ FlashInv'
BY DEF NvInv, Types

(* osal_nv_delete takes the item away and alters no other. *)
LEMMA DeleteHolds ==
  ASSUME NvInv, NvInv', NEW id \in Items, Delete(id)
  PROVE  /\ Recovered(id) # Missing /\ Recovered(id)' = Missing
         /\ \A o \in Items \ {id} : Recovered(o)' = Recovered(o)
<1>01. PICK n : n = FindItem(id)
  OBVIOUS
<1>1. pc = "idle" /\ n # NoPlace /\ flash' = WithItem(n, Zero(At(n)))
  BY <1>01 DEF Delete
<1>2. /\ FlashType /\ FlashInv /\ n \in Place /\ At(n).id = id /\ Live(At(n))
      /\ InErasedState = {pgRes}
      /\ \A a, b \in Place : Live(At(a)) /\ Same(a, b) => a = b
  BY <1>01, <1>1, IdleFacts, FindItemFacts DEF Live
<1>3. FlashType' /\ FlashInv'
  BY NvFlashNext
<1>4. /\ Place' = Place /\ \A b \in Place : At(b)' = IF b = n THEN Zero(At(n)) ELSE At(b)
      /\ Doomed' = Doomed
  <2>1. /\ Zero(At(n)) \in ItemType /\ Zero(At(n)).len = At(n).len
        /\ Zero(At(n)).id # Torn /\ At(n).id # Torn
    <3>1. At(n) \in ItemType
      BY <1>2, PlaceFacts
    <3>2. At(n).len \in 0 .. PageSize
      BY <3>1 DEF ItemType
    <3> QED BY <1>2, <3>1, <3>2, ValuesAssumption DEF Zero, ItemType
  <2>2. Place' = Place /\ (\A b \in Place : At(b)' = IF b = n THEN Zero(At(n)) ELSE At(b))
        /\ \A p \in Pages : flash'[p].active = flash[p].active /\ flash'[p].xfer = flash[p].xfer
    BY <1>1, <1>2, <2>1, ItemChanged
  <2> QED BY <2>2, FlagsKept DEF Doomed
<1>5. ~Live(At(n)')
  BY <1>2, <1>4, ValuesAssumption DEF Zero, Live
<1>6. Recovered(id) # Missing
  <2>1. /\ Recovered(id) = At(FindItem(id)).val /\ Good(At(FindItem(id)))
        /\ FindItem(id) \in Place
    BY <1>1, <1>2, RecoveredIdle
  <2>2. At(FindItem(id)).val \in Values
    BY <1>2, <2>1, PlaceFacts DEF Good, ItemType
  <2> QED BY <2>1, <2>2, ValuesAssumption
<1>7. Recovered(id)' = Missing
  <2>1. RecoveredWins'
    BY <1>3, WinsFactsNext
  <2>2. \A a \in Place' : At(a)'.id = id => ~Valid(a)'
    <3> SUFFICES ASSUME NEW a \in Place', At(a)'.id = id, Valid(a)' PROVE FALSE
      OBVIOUS
    <3>1. Live(At(a)')
      BY DEF Valid, Good
    <3>2. a # n /\ a \in Place /\ At(a)' = At(a)
      BY <1>4, <1>5, <3>1
    <3> QED BY <1>2, <3>2 DEF Same
  <2> QED BY <2>1, <2>2 DEF RecoveredWins
<1>8. ASSUME NEW o \in Items \ {id} PROVE Recovered(o)' = Recovered(o)
  <2>1. \A a \in Place : Valid(a) /\ At(a).id = o => a \in Place' /\ Valid(a)' /\ At(a)' = At(a)
    BY <1>2, <1>4 DEF Valid, Good, Live
  <2>2. \A a \in Place' : Valid(a)' /\ At(a)'.id = o => a \in Place /\ Valid(a) /\ At(a).id = o
    BY <1>4, <1>5 DEF Valid, Good, Live
  <2> QED BY <1>2, <1>3, <1>8, <2>1, <2>2, ValidSame
<1> QED BY <1>6, <1>7, <1>8

(* Marking a page alters no item. *)
LEMMA MarkPageKeeps ==
  ASSUME NvInv, NvInv', MarkPage
  PROVE  Unaltered
<1>1. pc = "markPage" /\ flash' = [flash EXCEPT ![op.com].xfer = TRUE]
  BY DEF MarkPage
<1>2. ReserveBlank /\ op.com \in Pages \ {pgRes} /\ FlashType
  BY <1>1 DEF NvInv, Phase, Types
<1>3. \A p \in Pages : flash'[p].items = flash[p].items /\ flash'[p].active = flash[p].active
  BY <1>1, <1>2 DEF FlashType, PageType
<1>4. Place' = Place /\ \A a \in Place : At(a)' = At(a)
  BY <1>3, SameItems, NvFlash, NvFlashNext
<1>5. Doomed' = Doomed
  <2>1. InErasedState' = InErasedState
    BY <1>3 DEF InErasedState
  <2>2. InErasedState # {}
    BY <1>2 DEF ReserveBlank, Blank, InErasedState
  <2> QED BY <2>1, <2>2 DEF Doomed
<1> QED BY <1>4, <1>5, PagesUnaltered, NvFlash, NvFlashNext

(* Marking an item old alters no item: the old copy is kept when there is no newer one. *)
LEMMA CompactMarkKeeps ==
  ASSUME NvInv, NvInv', CompactMark
  PROVE  Unaltered
<1>01. PICK s : s = Source
  OBVIOUS
<1>1. pc = "compact" /\ ToCopy # {} /\ flash' = WithItem(s, [At(s) EXCEPT !.old = TRUE])
  BY <1>01 DEF CompactMark
<1>2. Compacting /\ op.k \in Nat \ {0}
  BY <1>1, CopyingFacts
<1>3. FlashType /\ FlashInv /\ OnlyCopies /\ op.com \in Pages
  BY <1>2, CompactingFacts
<1>4. s \in Place /\ Good(At(s)) /\ At(s) \in ItemType
  BY <1>01, <1>1, <1>2, <1>3, SourceFacts, PlaceFacts
<1> DEFINE it == [At(s) EXCEPT !.old = TRUE]
<1>5. it \in ItemType /\ it.len = At(s).len /\ it.id = At(s).id /\ it.val = At(s).val /\ Live(it)
  BY <1>4 DEF ItemType, Good, Live
<1>6. flash' = WithItem(s, it)
  BY <1>1
<1> HIDE DEF it
<1>7. /\ Place' = Place /\ \A b \in Place : At(b)' = IF b = s THEN it ELSE At(b)
      /\ \A p \in Pages : flash'[p].active = flash[p].active /\ flash'[p].xfer = flash[p].xfer
  BY <1>3, <1>4, <1>5, <1>6, ItemKept
<1> QED BY <1>3, <1>4, <1>5, <1>7, MarkUnaltered, NvFlashNext

(* The header of a copy alters no item, for its page is one that a restart erases. *)
LEMMA CompactHeaderKeeps ==
  ASSUME NvInv, NvInv', CompactHeader
  PROVE  Unaltered
<1>1. pc = "compact" /\ ToCopy # {} /\ flash' = Appended(pgRes, Header(At(Source).id))
  BY DEF CompactHeader
<1>2. Compacting /\ op.k \in Nat \ {0}
  BY <1>1, CopyingFacts
<1>3. FlashType /\ FlashInv /\ op.com \in Pages /\ pgRes \in Pages
  BY <1>2, CompactingFacts
<1>4. At(Source).id \in Items
  BY <1>1, <1>2, <1>3, SourceFacts DEF Good, Live
<1>5. PICK it : it = Header(At(Source).id)
  OBVIOUS
<1>6. it \in ItemType /\ ~Good(it)
  <2>1. Size[At(Source).id] \in 0 .. PageSize
    BY <1>4, SizeAssumption, PagesAssumption
  <2> QED BY <1>4, <1>5, <2>1 DEF Header, ItemType, Good
<1>7. PICK n : n = <<pgRes, Len(flash[pgRes].items) + 1>>
  OBVIOUS
<1>8. /\ n \notin Place /\ Place' = Place \cup {n} /\ At(n)' = it
      /\ \A b \in Place : At(b)' = At(b)
      /\ \A p \in Pages : flash'[p].active = flash[p].active /\ flash'[p].xfer = flash[p].xfer
  BY <1>1, <1>3, <1>5, <1>6, <1>7, ItemAppended
<1> QED BY <1>3, <1>6, <1>8, ItemUnaltered, NvFlashNext

(* The data of a copy alters no item. *)
LEMMA CompactDataKeeps ==
  ASSUME NvInv, NvInv', CompactData
  PROVE  Unaltered
<1>01. PICK s : s = Source
  OBVIOUS
<1>02. PICK n : n = LastOf(pgRes)
  OBVIOUS
<1>1. pc = "copy" /\ flash' = WithItem(n, [At(n) EXCEPT !.val = At(s).val])
  BY <1>01, <1>02 DEF CompactData
<1>2. Compacting /\ op.k \in Nat \ {0} /\ ToCopy # {} /\ n \in Place /\ At(n).id = At(s).id
  BY <1>01, <1>02, <1>1, CopyingFacts DEF CopyUnderWay
<1>3. FlashType /\ FlashInv /\ op.com \in Pages /\ pgRes \in Pages /\ InErasedState = {pgRes}
  BY <1>2, CompactingFacts
<1>4. s \in Place /\ Good(At(s)) /\ At(s) \in ItemType /\ At(n) \in ItemType
  BY <1>01, <1>2, <1>3, SourceFacts, PlaceFacts
<1>5. n[1] = pgRes /\ n[1] \in Doomed
  BY <1>02, <1>3 DEF LastOf, Doomed
<1> DEFINE it == [At(n) EXCEPT !.val = At(s).val]
<1>6. it \in ItemType /\ it.len = At(n).len /\ it.id = At(n).id /\ Live(it)
  BY <1>2, <1>4 DEF ItemType, Good, Live
<1>7. flash' = WithItem(n, it)
  BY <1>1
<1> HIDE DEF it
<1>8. /\ Place' = Place /\ \A b \in Place : b # n => At(b)' = At(b)
      /\ \A p \in Pages : flash'[p].active = flash[p].active /\ flash'[p].xfer = flash[p].xfer
  BY <1>2, <1>3, <1>6, <1>7, ItemKept
<1>9. ~Valid(n) /\ Place' = Place \cup {n}
  BY <1>2, <1>5, <1>8 DEF Valid
<1> QED BY <1>3, <1>5, <1>8, <1>9, ItemUnaltered, NvFlashNext

(* The header of the new copy alters no item: its checksum does not match. *)
LEMMA WriteHeaderKeeps ==
  ASSUME NvInv, NvInv', WriteHeader
  PROVE  Unaltered
<1>1. pc = "header" /\ flash' = Appended(op.dst, Header(op.id))
  BY DEF WriteHeader
<1>2. FlashType /\ FlashInv /\ op.dst \in Pages /\ op.id \in Items
  BY <1>1, WritingFacts
<1>5. PICK it : it = Header(op.id)
  OBVIOUS
<1>6. it \in ItemType /\ ~Good(it)
  <2>1. Size[op.id] \in 0 .. PageSize
    BY <1>2, SizeAssumption, PagesAssumption
  <2> QED BY <1>2, <1>5, <2>1 DEF Header, ItemType, Good
<1>7. PICK n : n = <<op.dst, Len(flash[op.dst].items) + 1>>
  OBVIOUS
<1>8. /\ n \notin Place /\ Place' = Place \cup {n} /\ At(n)' = it
      /\ \A b \in Place : At(b)' = At(b)
      /\ \A p \in Pages : flash'[p].active = flash[p].active /\ flash'[p].xfer = flash[p].xfer
  BY <1>1, <1>2, <1>5, <1>6, <1>7, ItemAppended
<1> QED BY <1>2, <1>6, <1>8, ItemUnaltered, NvFlashNext

(* Marking the old copy alters no item. *)
LEMMA MarkSourceKeeps ==
  ASSUME NvInv, NvInv', MarkSource
  PROVE  Unaltered
<1>01. PICK s : s = op.src
  OBVIOUS
<1>1. pc = "markSource" /\ flash' = WithItem(s, [At(s) EXCEPT !.old = TRUE])
  BY <1>01 DEF MarkSource
<1>2. op.kind = "write"
  BY <1>1 DEF NvInv, Phase
<1>3. FlashType /\ FlashInv /\ OnlyCopies /\ s \in Place /\ Kept(s)
  BY <1>01, <1>1, <1>2, WritingFacts
<1>4. Good(At(s)) /\ At(s) \in ItemType
  BY <1>3, PlaceFacts DEF Kept
<1> DEFINE it == [At(s) EXCEPT !.old = TRUE]
<1>5. it \in ItemType /\ it.len = At(s).len /\ it.id = At(s).id /\ it.val = At(s).val /\ Live(it)
  BY <1>4 DEF ItemType, Good, Live
<1>6. flash' = WithItem(s, it)
  BY <1>1
<1> HIDE DEF it
<1>7. /\ Place' = Place /\ \A b \in Place : At(b)' = IF b = s THEN it ELSE At(b)
      /\ \A p \in Pages : flash'[p].active = flash[p].active /\ flash'[p].xfer = flash[p].xfer
  BY <1>3, <1>4, <1>5, <1>6, ItemKept
<1> QED BY <1>3, <1>4, <1>5, <1>7, MarkUnaltered, NvFlashNext

(* The data of the new copy is the moment the item changes, unless a page is being
   compacted. *)
LEMMA WriteDataHolds ==
  ASSUME NvInv, NvInv', WriteData, NEW id, id = op.id
  PROVE  IF op.com # NoPage THEN Unaltered
         ELSE /\ Recovered(id)' = op.val
              /\ \A o \in Items \ {id} : Recovered(o)' = Recovered(o)
<1>01. PICK n : n = LastOf(op.dst)
  OBVIOUS
<1>1. pc = "data" /\ flash' = WithItem(n, [At(n) EXCEPT !.val = op.val])
  BY <1>01 DEF WriteData
<1>2. /\ FlashType /\ FlashInv /\ op.dst \in Pages /\ op.id \in Items /\ op.val \in Values
      /\ InErasedState = {pgRes}
      /\ op.com = NoPage => op.dst # pgRes
      /\ op.com # NoPage => op.dst = pgRes
      /\ Operating
  BY <1>1, WritingFacts
<1>3. n \in Place /\ At(n).id = op.id /\ At(n).val = Erased /\ n[1] = op.dst
  BY <1>01, <1>1, <1>2 DEF NvInv, OpInv, LastOf
<1> DEFINE it == [At(n) EXCEPT !.val = op.val]
<1>4. /\ it \in ItemType /\ it.len = At(n).len /\ it.id = At(n).id /\ Live(it)
      /\ it.val = op.val /\ Good(it) /\ ~it.old
  <2>1. At(n) \in ItemType
    BY <1>2, <1>3, PlaceFacts
  <2>2. ~At(n).old
    BY <1>2, <1>3 DEF FlashInv, ItemsSound, Good
  <2> QED BY <1>2, <1>3, <2>1, <2>2, ValuesAssumption DEF ItemType, Good, Live
<1>5. flash' = WithItem(n, it)
  BY <1>1
<1> HIDE DEF it
<1>6. /\ Place' = Place /\ \A b \in Place : At(b)' = IF b = n THEN it ELSE At(b)
      /\ \A p \in Pages : flash'[p].active = flash[p].active /\ flash'[p].xfer = flash[p].xfer
  BY <1>2, <1>3, <1>4, <1>5, ItemKept
<1>7. Doomed' = Doomed /\ Doomed = {pgRes}
  BY <1>2, <1>6, FlagsKept DEF Doomed
<1>8. CASE op.com # NoPage
  <2>1. n[1] \in Doomed /\ ~Valid(n) /\ Place' = Place \cup {n}
    BY <1>2, <1>3, <1>6, <1>7, <1>8 DEF Valid
  <2>2. Unaltered
    BY <1>2, <1>6, <2>1, ItemUnaltered, NvFlashNext
  <2> QED BY <1>8, <2>2
<1>9. CASE op.com = NoPage
  <2>1. Valid(n)' /\ At(n)'.id = id /\ ~At(n)'.old /\ n \in Place' /\ At(n)'.val = op.val
    BY <1>2, <1>3, <1>4, <1>6, <1>7, <1>9 DEF Valid
  <2>2. Recovered(id)' = op.val
    <3>1. RecoveredWins'
      BY WinsFactsNext, NvFlashNext
    <3>2. Wins(n, id)'
      BY <2>1 DEF Wins
    <3>3. Recovered(id)' = At(n)'.val
      BY <1>2, <2>1, <3>1, <3>2 DEF RecoveredWins
    <3> QED BY <2>1, <3>3
  <2>3. ASSUME NEW o \in Items \ {id} PROVE Recovered(o)' = Recovered(o)
    <3>1. \A a \in Place : Valid(a) /\ At(a).id = o => a \in Place' /\ Valid(a)' /\ At(a)' = At(a)
      BY <1>3, <1>6, <1>7, <2>3 DEF Valid, Good, Live
    <3>2. \A a \in Place' : Valid(a)' /\ At(a)'.id = o => a \in Place /\ Valid(a) /\ At(a).id = o
      BY <1>6, <1>7, <2>1, <2>3 DEF Valid, Good, Live
    <3> QED BY <1>2, <2>3, <3>1, <3>2, ValidSame, NvFlashNext
  <2> QED BY <1>9, <2>2, <2>3
<1> QED BY <1>8, <1>9

(* Zeroing the old copy alters no item: it was replaced before. *)
LEMMA ZeroSourceKeeps ==
  ASSUME NvInv, NvInv', ZeroSource
  PROVE  op.id \in Items /\ Recovered(op.id) = op.val /\ Unaltered
<1>01. PICK s, id : s = op.src /\ id = op.id
  OBVIOUS
<1>1. pc = "zero" /\ flash' = WithItem(s, Zero(At(s)))
  BY <1>01 DEF ZeroSource
<1>2. FlashType /\ FlashInv /\ FlashType' /\ FlashInv'
  BY NvFlash, NvFlashNext
<1>3. ReserveBlank /\ op.kind = "write" /\ Operating
  BY <1>1 DEF NvInv, Phase, Operating
<1>4. /\ id \in Items /\ op.val \in Values
      /\ s \in Place /\ Kept(s) /\ At(s).id = id /\ At(s).old
      /\ NewCopyOn(Pages \ {pgRes})
  BY <1>01, <1>1, <1>3 DEF NvInv, OpInv, SourceSound
<1>5. PICK n \in Place : n[1] # pgRes /\ At(n).id = id /\ At(n).val = op.val /\ ~At(n).old
  BY <1>01, <1>4 DEF NewCopyOn
<1>6. n # s
  BY <1>4, <1>5
<1>7. Doomed = {pgRes}
  BY <1>3 DEF ReserveBlank, Blank, InErasedState, Doomed
<1>8. /\ Zero(At(s)) \in ItemType /\ Zero(At(s)).len = At(s).len
      /\ Zero(At(s)).id # Torn /\ At(s).id # Torn /\ ~Live(Zero(At(s)))
  <2>1. At(s) \in ItemType
    BY <1>2, <1>4, PlaceFacts
  <2>2. At(s).len \in 0 .. PageSize
    BY <2>1 DEF ItemType
  <2> QED BY <1>4, <2>1, <2>2, ValuesAssumption DEF Zero, ItemType, Live
<1>9. /\ Place' = Place /\ \A b \in Place : At(b)' = IF b = s THEN Zero(At(s)) ELSE At(b)
      /\ \A p \in Pages : flash'[p].active = flash[p].active /\ flash'[p].xfer = flash[p].xfer
  BY <1>1, <1>2, <1>4, <1>8, ItemChanged
<1>10. Doomed' = Doomed
  BY <1>9, FlagsKept DEF Doomed
<1>11. Good(At(n)) /\ Valid(n) /\ Wins(n, id)
  BY <1>4, <1>5, <1>7, ValuesAssumption DEF Good, Live, Valid, Wins
<1>12. Good(At(n))' /\ Valid(n)' /\ Wins(n, id)'
  BY <1>5, <1>6, <1>9, <1>10, <1>11 DEF Good, Live, Valid, Wins
<1>13. Recovered(id) = op.val /\ Recovered(id)' = op.val
  <2>1. RecoveredWins /\ RecoveredWins'
    BY <1>2, WinsFacts, WinsFactsNext
  <2> QED BY <1>4, <1>5, <1>6, <1>9, <1>11, <1>12, <2>1 DEF RecoveredWins
<1>14. ASSUME NEW o \in Items \ {id} PROVE Recovered(o)' = Recovered(o)
  <2>1. \A a \in Place : Valid(a) /\ At(a).id = o => a \in Place' /\ Valid(a)' /\ At(a)' = At(a)
    BY <1>4, <1>9, <1>10, <1>14 DEF Valid, Good, Live
  <2>2. ~Valid(s)'
    BY <1>4, <1>8, <1>9 DEF Valid, Good
  <2>3. \A a \in Place' : Valid(a)' /\ At(a)'.id = o => a \in Place /\ Valid(a) /\ At(a).id = o
    BY <1>9, <1>10, <2>2 DEF Valid, Good, Live
  <2> QED BY <1>2, <1>14, <2>1, <2>3, ValidSame
<1> QED BY <1>01, <1>4, <1>13, <1>14 DEF Unaltered

(* Erasing the compacted page alters no item: it was replaced before. *)
LEMMA EraseCompactedKeeps ==
  ASSUME NvInv, NvInv', EraseCompacted
  PROVE  Unaltered /\ (Operating => op.id \in Items /\ Recovered(op.id) = op.val)
<1>01. PICK c : c = op.com
  OBVIOUS
<1>1. pc = "erase" /\ flash' = [flash EXCEPT ![c] = Blank]
  BY <1>01 DEF EraseCompacted, ErasePage
<1>2. FlashType /\ FlashInv /\ FlashType' /\ FlashInv'
  BY NvFlash, NvFlashNext
<1>3. c \in Pages /\ c # pgRes /\ flash[c].xfer /\ InErasedState = {}
  BY <1>01, <1>1 DEF NvInv, Phase
<1>4. Doomed = {c}
  <2>1. \A p \in Pages : flash[p].active
    BY <1>3 DEF InErasedState
  <2>2. c \in MarkedPages
    BY <1>3, <2>1 DEF MarkedPages
  <2>3. \A p \in MarkedPages : p = c
    BY <1>2, <2>2 DEF FlashInv, HeadersSound
  <2> QED BY <1>3, <2>2, <2>3 DEF Doomed
<1>5. /\ Place' = {a \in Place : a[1] # c}
      /\ \A a \in Place' : a \in Place /\ a[1] # c /\ At(a)' = At(a)
      /\ ~flash'[c].active
      /\ \A q \in Pages : q # c => flash'[q] = flash[q]
  BY <1>1, <1>2, <1>3, PageErased
<1>6. Doomed' = {c}
  BY <1>3, <1>5 DEF Doomed, InErasedState
<1>7. Unaltered
  BY <1>2, <1>4, <1>5, <1>6, PagesUnaltered
<1>8. ASSUME Operating PROVE op.id \in Items /\ Recovered(op.id) = op.val
  <2>1. op.id \in Items /\ op.val \in Values /\ NewCopyOn({pgRes})
    BY <1>1, <1>8 DEF NvInv, OpInv
  <2>2. PICK n \in Place : n[1] = pgRes /\ At(n).id = op.id /\ At(n).val = op.val /\ ~At(n).old
    BY <2>1 DEF NewCopyOn
  <2>3. Wins(n, op.id)
    BY <1>3, <1>4, <2>1, <2>2, ValuesAssumption DEF Good, Live, Valid, Wins
  <2> QED BY <1>2, <2>1, <2>2, <2>3, WinsFacts DEF RecoveredWins
<1> QED BY <1>7, <1>8

(* Putting empty pages in use alters no item. *)
LEMMA BootUsesKeeps ==
  ASSUME NvInv, NvInv', BootUses
  PROVE  Unaltered
<1>1. FlashType /\ FlashInv /\ FlashType' /\ FlashInv'
  BY NvFlash, NvFlashNext
<1>2. PICK p : flash' = [flash EXCEPT ![p].active = TRUE]
  BY DEF BootUses
<1>3. \A q \in Pages : flash[q].items = <<>> /\ flash'[q].items = flash[q].items
  <2>1. \A q \in Pages : flash[q].items = <<>>
    BY <1>1 DEF BootUses, FlashInv, HeadersSound
  <2>2. \A q \in Pages : flash'[q].items = flash[q].items
    BY <1>1, <1>2 DEF FlashType, PageType
  <2> QED BY <2>1, <2>2
<1>4. Place' = Place /\ Place = {}
  <2>1. Place = {}
    <3> SUFFICES ASSUME NEW a \in Place PROVE FALSE
      OBVIOUS
    <3>1. a[1] \in Pages /\ a[2] \in 1 .. Len(flash[a[1]].items)
      BY <1>1, PlaceFacts
    <3>2. a[2] \in 1 .. 0
      BY <1>3, <3>1
    <3> QED BY <3>2
  <2> QED BY <1>1, <1>3, <2>1, SameItems
<1> QED BY <1>1, <1>4, PagesUnaltered

(* Erasing the reserve page at start alters no item, when its header told which it is. *)
LEMMA EraseReserveKeeps ==
  ASSUME NvInv, NvInv', ~Picking, EraseReserve
  PROVE  Unaltered
<1>01. PICK c : c = pgRes
  OBVIOUS
<1>1. pc = "eraseRes" /\ flash' = [flash EXCEPT ![c] = Blank]
  BY <1>01 DEF EraseReserve, ErasePage
<1>2. FlashType /\ FlashInv /\ FlashType' /\ FlashInv'
  BY NvFlash, NvFlashNext
<1>3. \/ InErasedState = {c}
      \/ /\ c \in Pages /\ InErasedState = {} /\ MarkedPages = {} /\ op.kind = "pick"
  BY <1>01, <1>1 DEF NvInv, Phase
<1>4. c \in Pages
  BY <1>3 DEF InErasedState
<1>5. /\ Place' = {a \in Place : a[1] # c}
      /\ \A a \in Place' : a \in Place /\ a[1] # c /\ At(a)' = At(a)
      /\ ~flash'[c].active
      /\ \A q \in Pages : q # c => flash'[q] = flash[q]
  BY <1>1, <1>2, <1>4, PageErased
<1>6. Doomed' = {c}
  BY <1>3, <1>4, <1>5 DEF Doomed, InErasedState
<1>7. CASE InErasedState = {c}
  <2>1. Doomed = {c}
    BY <1>7 DEF Doomed
  <2> QED BY <1>2, <1>5, <1>6, <2>1, PagesUnaltered
<1>8. ~(c \in Pages /\ InErasedState = {} /\ MarkedPages = {} /\ op.kind = "pick")
  BY <1>1 DEF Picking
<1> QED BY <1>3, <1>7, <1>8

(* Putting the reserve page in use is the moment an item changes that is written while
   a page is compacted; it alters no other. *)
LEMMA PutInUseHolds ==
  ASSUME NvInv, NvInv', PutInUse
  PROVE  /\ \A o \in Items \ {op.id} : Recovered(o)' = Recovered(o)
         /\ IF Operating THEN op.id \in Items /\ Recovered(op.id)' = op.val ELSE op.id \notin Items
<1>1. /\ pc = "use"
      /\ flash' = [flash EXCEPT ![pgRes].active = TRUE]
      /\ op' = op
  BY DEF PutInUse
<1>2. /\ Compacting /\ op.k \in Nat \ {0}
      /\ (~Operating => op.id = Missing) /\ Filling
      /\ ReserveItems /\ ReserveOnce /\ PassedCopied /\ ToCopy = {}
  <2>1. Compacting /\ op.k # 0 /\ (~Operating => op.id = Missing) /\ Filling
    BY <1>1 DEF NvInv, Phase, Filling
  <2> QED BY <1>1, <2>1 DEF NvInv, ReserveInv, CopyUnderWay, Types, OpType
<1>3. /\ FlashType /\ FlashInv /\ OnlyCopies /\ pgRes \in Pages /\ op.com \in Pages
      /\ op.com # pgRes /\ InErasedState = {pgRes} /\ op.com \in MarkedPages
      /\ \A a \in Place : Kept(a) <=> a[1] # pgRes /\ Good(At(a))
      /\ \A a \in Place : InReserve(a) <=> a[1] = pgRes
      /\ FlashType' /\ FlashInv'
  BY <1>2, CompactingFacts, NvFlashNext
<1>4. \A p \in Pages : /\ flash'[p].active /\ flash'[p].xfer = flash[p].xfer
                       /\ flash'[p].items = flash[p].items
  <2>1. \A p \in Pages \ {pgRes} : flash[p].active
    BY <1>2 DEF Compacting
  <2> QED BY <1>1, <1>3, <2>1 DEF FlashType, PageType
<1>5. Place' = Place /\ \A a \in Place : At(a)' = At(a)
  BY <1>3, <1>4, SameItems
<1>6. Doomed = {pgRes} /\ Doomed' = {op.com}
  <2>1. InErasedState' = {}
    BY <1>4 DEF InErasedState
  <2>2. op.com \in MarkedPages'
    BY <1>3, <1>4 DEF MarkedPages
  <2>3. \A m \in MarkedPages' : m = op.com
    BY <1>3, <2>2 DEF FlashInv, HeadersSound
  <2> QED BY <1>3, <2>1, <2>2, <2>3 DEF Doomed
<1>7. \A a \in Place : /\ Valid(a) <=> Good(At(a)) /\ a[1] # pgRes
                       /\ Valid(a)' <=> Good(At(a)) /\ a[1] # op.com
  BY <1>5, <1>6 DEF Valid, Good, Live
<1>8. \A a \in Place : a[1] = pgRes => Good(At(a)) /\ ~At(a).old /\ Live(At(a))
  BY <1>1, <1>2, <1>3 DEF ReserveItems, Bad
<1>9. \A a, b \in Place : Valid(a) /\ Valid(b) /\ At(a).id = At(b).id => a = b
  BY <1>3, <1>7 DEF OnlyCopies, Same
<1>10. ASSUME NEW o \in Items \ {op.id} PROVE Recovered(o)' = Recovered(o)
  <2>1. ASSUME NEW b \in Place, At(b).id = o, Valid(b), b[1] = op.com
        PROVE  \E a \in Place : a[1] = pgRes /\ At(a).id = o /\ At(a).val = At(b).val
    <3>1. b[2] \in 1 .. Len(flash[op.com].items) /\ At(b) = flash[op.com].items[b[2]]
          /\ Len(flash[op.com].items) \in Nat
      BY <1>3, <2>1, PlaceFacts DEF At
    <3>2. b[2] \notin op.k .. Len(flash[op.com].items)
      BY <1>2, <1>7, <1>10, <2>1, <3>1 DEF ToCopy
    <3>3. b[2] < op.k
      BY <1>2, <3>1, <3>2
    <3>4. Passed(b)
      BY <1>7, <1>10, <2>1, <3>3 DEF Passed
    <3>5. PICK a \in Place : InReserve(a) /\ IsCopyOf(a, b)
      BY <1>2, <3>4 DEF PassedCopied
    <3> QED BY <2>1, <3>5 DEF InReserve, IsCopyOf, Same
  <2>2. ASSUME NEW a \in Place, a[1] = pgRes, At(a).id = o
        PROVE  \E b \in Place : Valid(b) /\ b[1] = op.com /\ At(b).id = o
    <3>1. PICK b \in Place : Passed(b) /\ IsCopyOf(a, b)
      BY <1>2, <1>3, <1>8, <1>10, <2>2 DEF ReserveItems
    <3> QED BY <1>3, <1>7, <2>2, <3>1 DEF Passed, IsCopyOf, Same
  <2>3. \A a, b \in Place : a[1] = pgRes /\ b[1] = pgRes /\ At(a).id = o /\ At(b).id = o => a = b
    BY <1>2, <1>3 DEF ReserveOnce, Same
  <2>4. ASSUME NEW a \in Place, Wins(a, o)
        PROVE  \E b \in Place' : Wins(b, o)' /\ At(b)'.val = At(a).val
    <3>1. Valid(a) /\ At(a).id = o
      BY <2>4 DEF Wins
    <3>2. CASE a[1] = op.com
      <4>1. PICK b \in Place : b[1] = pgRes /\ At(b).id = o /\ At(b).val = At(a).val
        BY <2>1, <3>1, <3>2
      <4>2. Valid(b)' /\ ~At(b).old
        BY <1>3, <1>7, <1>8, <4>1
      <4> QED BY <1>5, <4>1, <4>2 DEF Wins
    <3>3. CASE a[1] # op.com
      <4>1. Valid(a)'
        BY <1>7, <3>1, <3>3
      <4>2. \A b \in Place : Valid(b)' /\ At(b).id = o => b = a
        <5> SUFFICES ASSUME NEW b \in Place, Valid(b)', At(b).id = o PROVE b = a
          OBVIOUS
        <5>1. CASE b[1] = pgRes
          <6>1. PICK e \in Place : Valid(e) /\ e[1] = op.com /\ At(e).id = o
            BY <2>2, <5>1
          <6> QED BY <1>9, <3>1, <3>3, <6>1
        <5>2. CASE b[1] # pgRes
          BY <1>7, <1>9, <3>1, <5>2
        <5> QED BY <5>1, <5>2
      <4>3. ~At(a).old \/ \A b \in Place : Valid(b)' /\ At(b).id = o => At(b).old
        BY <4>2
      <4>4. Wins(a, o)'
        BY <1>5, <3>1, <4>1, <4>3 DEF Wins
      <4> QED BY <1>5, <4>4
    <3> QED BY <3>2, <3>3
  <2>5. ASSUME NEW b \in Place', Valid(b)', At(b)'.id = o
        PROVE  \E a \in Place : Valid(a) /\ At(a).id = o
    <3>1. CASE b[1] = pgRes
      BY <1>5, <2>2, <2>5, <3>1
    <3>2. CASE b[1] # pgRes
      BY <1>5, <1>7, <2>5, <3>2
    <3> QED BY <3>1, <3>2
  <2>6. \A a \in Place : Wins(a, o) => \E b \in Place' : Wins(b, o)' /\ At(b)'.val = At(a).val
    BY <2>4
  <2> QED BY <1>3, <1>10, <2>5, <2>6, WinnerStays
<1>11. ASSUME Operating PROVE op.id \in Items /\ Recovered(op.id)' = op.val
  <2>1. op.id \in Items /\ op.val \in Values /\ NewCopyOn({pgRes})
    BY <1>1, <1>11 DEF NvInv, OpInv
  <2>2. PICK n \in Place : n[1] = pgRes /\ At(n).id = op.id /\ At(n).val = op.val /\ ~At(n).old
    BY <2>1 DEF NewCopyOn
  <2>3. Wins(n, op.id)'
    BY <1>1, <1>3, <1>5, <1>7, <1>8, <2>2 DEF Wins
  <2>4. RecoveredWins'
    BY <1>3, WinsFactsNext
  <2> QED BY <1>1, <1>5, <2>1, <2>2, <2>3, <2>4 DEF RecoveredWins
<1>12. ~Operating => op.id \notin Items
  BY <1>2, ValuesAssumption
<1> QED BY <1>10, <1>11, <1>12

(* initPage's zeroing of bad items and of old copies alters no item. *)
LEMMA ScanItemKeeps ==
  ASSUME NvInv, NvInv', ScanItem
  PROVE  Unaltered
<1>1. pc = "scan" /\ scan.pg \in Pages /\ ~ScanEndOfPage
  BY DEF ScanItem
<1>2. FlashType /\ FlashInv /\ FlashType' /\ FlashInv'
  BY NvFlash, NvFlashNext
<1>3. PICK at : at = ScanAt
  OBVIOUS
<1>4. /\ at \in Place /\ At(at) \in ItemType /\ At(at).len \in Nat
  BY <1>1, <1>3, NextItemScan
<1>5. \A a \in Place : (Kept(a) <=> Good(At(a))) /\ a[1] # pgRes
  BY <1>1, ScanFacts
<1>6. \A a \in Place : a[1] \notin Doomed
  <2>1. (ReserveBlank \/ NoReserve) /\ MarkedPages = {}
    BY <1>1, ScanFacts
  <2>2. InErasedState \subseteq {pgRes}
    BY <2>1 DEF ReserveBlank, NoReserve, InErasedState
  <2> QED BY <1>5, <2>1, <2>2 DEF Doomed
<1>7. ASSUME NEW o \in Place, Live(At(o)), NEW z, z = Zero(At(o)), flash' = WithItem(o, z)
      PROVE  /\ Place' = Place /\ ~Live(z)
             /\ \A b \in Place : At(b)' = IF b = o THEN z ELSE At(b)
             /\ \A p \in Pages : flash'[p].active = flash[p].active /\ flash'[p].xfer = flash[p].xfer
             /\ Doomed' = Doomed
  <2>1. z \in ItemType /\ z.len = At(o).len /\ z.id # Torn /\ At(o).id # Torn /\ ~Live(z)
    <3>1. At(o) \in ItemType
      BY <1>2, PlaceFacts
    <3>2. At(o).len \in 0 .. PageSize
      BY <3>1 DEF ItemType
    <3> QED BY <1>7, <3>1, <3>2, ValuesAssumption DEF Zero, ItemType, Live
  <2>2. /\ Place' = Place /\ \A b \in Place : At(b)' = IF b = o THEN z ELSE At(b)
        /\ \A p \in Pages : flash'[p].active = flash[p].active /\ flash'[p].xfer = flash[p].xfer
    BY <1>2, <1>7, <2>1, ItemChanged
  <2> QED BY <2>1, <2>2, FlagsKept DEF Doomed
<1>8. CASE Live(At(at)) /\ ~Good(At(at)) /\ flash' = WithItem(ScanAt, Zero(At(ScanAt)))
  <2>1. /\ Place' = Place /\ ~Live(Zero(At(at)))
        /\ \A b \in Place : At(b)' = IF b = at THEN Zero(At(at)) ELSE At(b)
        /\ \A p \in Pages : flash'[p].active = flash[p].active /\ flash'[p].xfer = flash[p].xfer
    BY <1>3, <1>4, <1>7, <1>8
  <2>2. ~Good(At(at)') /\ ~Valid(at) /\ Place' = Place \cup {at}
    BY <1>4, <1>8, <2>1 DEF Good, Valid
  <2> QED BY <1>2, <2>1, <2>2, ItemUnaltered
<1>9. CASE /\ Good(At(at)) /\ Duplicated(At(at))
           /\ flash' = WithItem(FindOld(At(at).id), Zero(At(at)))
  <2>1. PICK o, id : o = FindOld(At(at).id) /\ id = At(at).id
    OBVIOUS
  <2>2. ~At(at).old /\ o # NoPlace
    BY <1>9, <2>1 DEF Duplicated
  <2>3. o \in Place /\ At(o).id = id /\ At(o).old /\ o # at
    BY <1>2, <2>1, <2>2, FindOldFacts
  <2>4. Good(At(o)) /\ Live(At(o)) /\ Zero(At(at)) = Zero(At(o)) /\ id \in Items
    <3>1. Good(At(o)) /\ Live(At(at)) /\ Live(At(o))
      BY <1>2, <1>9, <2>3 DEF FlashInv, ItemsSound, Good
    <3>2. At(at).len = Size[id] /\ At(o).len = Size[id]
      BY <1>2, <1>4, <2>1, <2>3, <3>1 DEF FlashInv, ItemsSound, Live
    <3> QED BY <2>1, <3>1, <3>2 DEF Zero, Live
  <2>5. /\ Place' = Place /\ ~Live(Zero(At(at)))
        /\ \A b \in Place : At(b)' = IF b = o THEN Zero(At(at)) ELSE At(b)
        /\ Doomed' = Doomed
    BY <1>7, <1>9, <2>1, <2>3, <2>4
  <2>6. Valid(at) /\ Wins(at, id)
    BY <1>4, <1>6, <1>9, <2>1, <2>2 DEF Valid, Wins
  <2>7. At(at)' = At(at) /\ Wins(at, id)'
    <3>1. At(at)' = At(at)
      BY <1>4, <2>3, <2>5
    <3>2. Valid(at)'
      BY <2>5, <2>6, <3>1 DEF Valid, Good, Live
    <3> QED BY <1>4, <2>1, <2>2, <2>5, <3>1, <3>2 DEF Wins
  <2>8. Recovered(id)' = Recovered(id)
    <3>1. RecoveredWins /\ RecoveredWins'
      BY <1>2, WinsFacts, WinsFactsNext
    <3> QED BY <1>4, <2>4, <2>5, <2>6, <2>7, <3>1 DEF RecoveredWins
  <2>9. ASSUME NEW x \in Items \ {id} PROVE Recovered(x)' = Recovered(x)
    <3>1. \A a \in Place : Valid(a) /\ At(a).id = x => a \in Place' /\ Valid(a)' /\ At(a)' = At(a)
      BY <2>3, <2>5, <2>9 DEF Valid, Good, Live
    <3>2. ~Valid(o)'
      BY <2>3, <2>5 DEF Valid, Good
    <3>3. \A a \in Place' : Valid(a)' /\ At(a)'.id = x => a \in Place /\ Valid(a) /\ At(a).id = x
      BY <2>5, <3>2 DEF Valid, Good, Live
    <3> QED BY <1>2, <2>9, <3>1, <3>3, ValidSame
  <2> QED BY <2>8, <2>9 DEF Unaltered
<1>10. CASE flash' = flash
  BY <1>10, FlashUnaltered
<1>11. \/ flash' = flash
       \/ Live(At(at)) /\ ~Good(At(at)) /\ flash' = WithItem(ScanAt, Zero(At(ScanAt)))
       \/ /\ Good(At(at)) /\ Duplicated(At(at))
          /\ flash' = WithItem(FindOld(At(at).id), Zero(At(at)))
  BY <1>3 DEF ScanItem
<1> QED BY <1>8, <1>9, <1>10, <1>11

(* A reset alters no item: Recovered does not depend on what RAM held, nor on how far an
   erasing got. *)
LEMMA ResetKeeps ==
  ASSUME NvInv, NvInv', Reset, Picking => flash'[pgRes].active
  PROVE  Unaltered
<1>1. FlashType /\ FlashInv /\ FlashType' /\ FlashInv'
  BY NvFlash, NvFlashNext
<1>2. \/ flash' = flash
      \/ \E p \in Erasing : flash' = [flash EXCEPT ![p].active = FALSE, ![p].xfer = FALSE]
      \/ \E p \in Erasing : flash' = [flash EXCEPT ![p].xfer = FALSE]
      \/ pc = "header" /\ flash' = Appended(op.dst, TornHeader)
  BY ResetMay
<1>3. ASSUME NEW p \in Erasing
      PROVE  /\ p \in Pages
             /\ \/ pc = "erase" /\ p = op.com /\ InErasedState = {} /\ MarkedPages = {p}
                \/ pc = "eraseRes" /\ p = pgRes /\ ~flash[p].active /\ ~flash[p].xfer
                \/ /\ pc = "eraseRes" /\ p = pgRes /\ InErasedState = {} /\ MarkedPages = {}
                   /\ op.kind = "pick"
  <2>1. CASE pc = "erase"
    <3>1. p = op.com /\ op.com \in Pages /\ flash[op.com].xfer /\ InErasedState = {}
      <4>1. op.com \in Pages /\ flash[op.com].xfer /\ InErasedState = {}
        BY <2>1 DEF NvInv, Phase
      <4>2. p = op.com
        BY <1>3, <2>1 DEF Erasing
      <4> QED BY <4>1, <4>2
    <3>2. p \in MarkedPages
      BY <3>1 DEF InErasedState, MarkedPages
    <3>3. \A q \in MarkedPages : q = p
      BY <1>1, <3>2 DEF FlashInv, HeadersSound
    <3> QED BY <2>1, <3>1, <3>2, <3>3
  <2>2. CASE pc = "eraseRes"
    <3>1. p = pgRes
      BY <1>3, <2>2 DEF Erasing
    <3>2. \/ InErasedState = {pgRes}
          \/ pgRes \in Pages /\ InErasedState = {} /\ MarkedPages = {} /\ op.kind = "pick"
      BY <2>2 DEF NvInv, Phase
    <3>3. ASSUME InErasedState = {pgRes} PROVE pgRes \in Pages /\ ~flash[pgRes].active /\ ~flash[pgRes].xfer
      <4>1. pgRes \in Pages /\ ~flash[pgRes].active
        BY <3>3 DEF InErasedState
      <4> QED BY <1>1, <4>1 DEF FlashInv, HeadersSound
    <3> QED BY <2>2, <3>1, <3>2, <3>3
  <2> QED BY <1>3, <2>1, <2>2 DEF Erasing
<1>4. ASSUME NEW p \in Pages, NEW active \in BOOLEAN, ~active \/ active = flash[p].active,
             flash' = [flash EXCEPT ![p].active = active, ![p].xfer = FALSE]
      PROVE  /\ Place' = Place /\ \A a \in Place : At(a)' = At(a)
             /\ flash'[p].active = active /\ ~flash'[p].xfer
             /\ \A q \in Pages : q # p => flash'[q] = flash[q]
  <2>1. flash \in [Pages -> PageType] /\ flash[p] \in PageType
    BY <1>1 DEF FlashType
  <2>2. flash' = [flash EXCEPT ![p] = [flash[p] EXCEPT !.active = active, !.xfer = FALSE]]
    BY <1>4, <2>1
  <2>3. flash'[p] = [flash[p] EXCEPT !.active = active, !.xfer = FALSE]
    BY <2>1, <2>2
  <2>4. flash'[p].active = active /\ flash'[p].xfer = FALSE /\ flash'[p].items = flash[p].items
    BY <2>1, <2>3 DEF PageType
  <2>5. \A q \in Pages : q # p => flash'[q] = flash[q]
    BY <2>1, <2>2
  <2>6. \A q \in Pages : flash'[q].items = flash[q].items
    BY <2>4, <2>5
  <2>7. Place' = Place /\ \A a \in Place : At(a)' = At(a)
    BY <1>1, <2>6, SameItems
  <2> QED BY <2>4, <2>5, <2>7
<1>5. ASSUME NEW p \in Erasing,
             flash' = [flash EXCEPT ![p].active = FALSE, ![p].xfer = FALSE]
      PROVE  Unaltered
  <2>1. /\ p \in Pages /\ Place' = Place /\ \A a \in Place : At(a)' = At(a)
        /\ ~flash'[p].active /\ ~flash'[p].xfer
        /\ \A q \in Pages : q # p => flash'[q] = flash[q]
    BY <1>3, <1>4, <1>5
  <2>2. CASE InErasedState = {}
    <3>1. Doomed' = {p}
      BY <2>1, <2>2 DEF InErasedState, Doomed
    <3>2. Doomed = MarkedPages
      BY <2>2 DEF Doomed
    <3>3. CASE MarkedPages = {p}
      BY <1>1, <2>1, <3>1, <3>2, <3>3, PagesUnaltered
    <3>4. CASE MarkedPages # {p}
      <4>1. pc = "eraseRes" /\ p = pgRes /\ op.kind = "pick"
        BY <1>3, <2>1, <2>2, <3>4 DEF InErasedState
      <4>2. flash'[p].active
        BY <4>1 DEF Picking
      <4> QED BY <2>1, <4>2
    <3> QED BY <3>3, <3>4
  <2>3. CASE InErasedState # {}
    <3>1. ~flash[p].active /\ ~flash[p].xfer
      BY <1>3, <2>3
    <3>2. \A q \in Pages : (flash'[q].active <=> flash[q].active) /\ (flash'[q].xfer <=> flash[q].xfer)
      BY <2>1, <3>1
    <3>3. Doomed' = Doomed
      BY <3>2 DEF Doomed, InErasedState, MarkedPages
    <3> QED BY <1>1, <2>1, <3>3, PagesUnaltered
  <2> QED BY <2>2, <2>3
<1>6. ASSUME NEW p \in Erasing, flash' = [flash EXCEPT ![p].xfer = FALSE]
      PROVE  Unaltered
  <2>0. p \in Pages /\ flash[p] \in PageType /\ flash[p].active \in BOOLEAN
    BY <1>1, <1>3 DEF FlashType, PageType
  <2>01. flash' = [flash EXCEPT ![p].active = flash[p].active, ![p].xfer = FALSE]
    <3>1. flash \in [Pages -> PageType]
      BY <1>1 DEF FlashType
    <3>2. [flash[p] EXCEPT !.xfer = FALSE]
            = [flash[p] EXCEPT !.active = flash[p].active, !.xfer = FALSE]
      BY <2>0 DEF PageType
    <3> QED BY <1>6, <2>0, <3>1, <3>2
  <2>1. /\ Place' = Place /\ \A a \in Place : At(a)' = At(a)
        /\ (flash'[p].active = flash[p].active) /\ ~flash'[p].xfer
        /\ \A q \in Pages : q # p => flash'[q] = flash[q]
    BY <1>4, <2>0, <2>01
  <2>2. InErasedState' = InErasedState
    BY <2>1 DEF InErasedState
  <2>3. CASE ~flash[p].xfer
    <3>1. \A q \in Pages : (flash'[q].active <=> flash[q].active) /\ (flash'[q].xfer <=> flash[q].xfer)
      BY <2>1, <2>3
    <3>2. Doomed' = Doomed
      BY <3>1 DEF Doomed, InErasedState, MarkedPages
    <3> QED BY <1>1, <2>1, <3>2, PagesUnaltered
  <2>4. CASE flash[p].xfer
    <3>1. InErasedState = {} /\ MarkedPages = {p}
      <4>1. p \in MarkedPages
        BY <1>1, <2>0, <2>4 DEF FlashInv, HeadersSound, MarkedPages
      <4> QED BY <1>3, <2>4, <4>1
    <3>2. Doomed = {p} /\ Doomed' = {}
      <4>1. MarkedPages' = {}
        BY <2>1, <3>1 DEF MarkedPages
      <4> QED BY <2>2, <3>1, <4>1 DEF Doomed
    <3>3. \A a \in Place : /\ Valid(a) <=> Good(At(a)) /\ a[1] # p
                           /\ Valid(a)' <=> Good(At(a))
      BY <2>1, <3>2 DEF Valid, Good, Live
    <3>4. ASSUME NEW a \in Place, a[1] = p, Good(At(a))
          PROVE  /\ At(a).old
                 /\ \E b \in Place : Good(At(b)) /\ Same(a, b) /\ ~At(b).old /\ b[1] # p
      <4>1. /\ At(a).old
            /\ \E b \in Place : Good(At(b)) /\ Same(a, b) /\ ~At(b).old
        BY <1>1, <3>1, <3>4 DEF FlashInv, MarkedSound
      <4>2. PICK b \in Place : Good(At(b)) /\ Same(a, b) /\ ~At(b).old
        BY <4>1
      <4>3. b[1] # p
        BY <1>1, <3>1, <4>2 DEF FlashInv, MarkedSound
      <4> QED BY <4>1, <4>2, <4>3
    <3>5. ASSUME NEW id \in Items PROVE Recovered(id)' = Recovered(id)
      <4>1. ASSUME NEW a \in Place, Wins(a, id)
            PROVE  Wins(a, id)' /\ At(a)'.val = At(a).val
        <5>1. Valid(a) /\ At(a).id = id /\ a[1] # p /\ Good(At(a))
          BY <3>3, <4>1 DEF Wins
        <5>2. CASE ~At(a).old
          BY <2>1, <3>3, <5>1, <5>2 DEF Wins
        <5>3. CASE At(a).old
          <6>1. \A b \in Place : Valid(b) /\ At(b).id = id => At(b).old
            BY <4>1, <5>3 DEF Wins
          <6>2. \A b \in Place : Valid(b)' /\ At(b).id = id => At(b).old
            BY <3>3, <3>4, <6>1
          <6> QED BY <2>1, <3>3, <5>1, <6>2 DEF Wins
        <5> QED BY <5>2, <5>3
      <4>2. ASSUME NEW b \in Place', Valid(b)', At(b)'.id = id
            PROVE  \E a \in Place : Valid(a) /\ At(a).id = id
        <5>1. b \in Place /\ Good(At(b)) /\ At(b).id = id
          BY <2>1, <3>3, <4>2
        <5>2. CASE b[1] = p
          <6>1. PICK a \in Place : Good(At(a)) /\ Same(b, a) /\ a[1] # p
            BY <3>4, <5>1, <5>2
          <6> QED BY <3>3, <5>1, <6>1 DEF Same
        <5>3. CASE b[1] # p
          BY <3>3, <5>1, <5>3
        <5> QED BY <5>2, <5>3
      <4>3. \A a \in Place : Wins(a, id) => \E b \in Place' : Wins(b, id)' /\ At(b)'.val = At(a).val
        BY <2>1, <4>1
      <4> QED BY <1>1, <4>2, <4>3, WinnerStays
    <3> QED BY <3>5 DEF Unaltered
  <2> QED BY <2>3, <2>4
<1>7. CASE pc = "header" /\ flash' = Appended(op.dst, TornHeader)
  <2>1. op.dst \in Pages
    BY <1>7, WritingFacts
  <2>2. PICK it, n : it = TornHeader /\ n = <<op.dst, Len(flash[op.dst].items) + 1>>
    OBVIOUS
  <2>3. it \in ItemType /\ ~Good(it)
    BY <2>2, ValuesAssumption, PagesAssumption DEF TornHeader, ItemType, Good, Live
  <2>4. /\ n \notin Place /\ Place' = Place \cup {n} /\ At(n)' = it
        /\ \A b \in Place : At(b)' = At(b)
        /\ \A p \in Pages : flash'[p].active = flash[p].active /\ flash'[p].xfer = flash[p].xfer
    BY <1>1, <1>7, <2>1, <2>2, <2>3, ItemAppended
  <2> QED BY <1>1, <2>3, <2>4, ItemUnaltered
<1>8. CASE flash' = flash
  BY <1>8, FlashUnaltered
<1> QED BY <1>2, <1>5, <1>6, <1>7, <1>8

--------------------------------------------------------------------------------
(* The flash implements NvStore. *)

(* The table of items. *)
Store == [id \in Items |-> Recovered(id)]
(* No operation, and the one under way. *)
None == [id |-> Missing, val |-> Missing]
Busy == IF op.kind \in {"init", "write"} THEN [id |-> op.id, val |-> op.val] ELSE None

(* No item altered: the store stays. *)
LEMMA StoreUnaltered ==
  ASSUME Unaltered
  PROVE  Store' = Store
BY DEF Unaltered, Store

(* One item altered: the store takes it. *)
LEMMA StoreTakes ==
  ASSUME NEW id \in Items, NEW v, Recovered(id)' = v,
         \A o \in Items \ {id} : Recovered(o)' = Recovered(o)
  PROVE  Store' = [Store EXCEPT ![id] = v]
<1>1. \A o \in Items : Recovered(o)' = IF o = id THEN v ELSE Recovered(o)
  OBVIOUS
<1> QED BY <1>1 DEF Store

(* osal_nv_init has returned since the last reset. *)
Up == pc # "boot" /\ op.kind \notin {"boot", "pick"}

(* What the operation under way is to the store. *)
LEMMA BusyFacts ==
  /\ Operating => Busy.id = op.id /\ Busy.val = op.val
  /\ ~Operating => Busy = None
  /\ Operating /\ op.id \in Items => Busy # None
  /\ op' = op => Busy' = Busy
  /\ op'.kind \notin {"init", "write"} => Busy' = None
  /\ op'.kind = op.kind /\ op'.id = op.id /\ op'.val = op.val => Busy' = Busy
<1>1. Operating /\ op.id \in Items => Busy # None
  BY ValuesAssumption DEF Busy, None, Operating
<1> QED BY <1>1 DEF Busy, None, Operating

(* The store is up whenever an operation is under way or may begin. *)
LEMMA UpFacts ==
  ASSUME NvInv
  PROVE  /\ Operating \/ pc = "idle" => Up
         /\ Busy # None => Up
<1>1. pc = "boot" => op = NoOp
  BY DEF NvInv, Phase
<1>2. pc = "idle" => op = NoOp
  BY DEF NvInv, Phase
<1>3. Operating \/ pc = "idle" => Up
  BY <1>1, <1>2 DEF Up, NoOp, Operating
<1> QED BY <1>3, BusyFacts

(* Every step of the code is a step of the table, or none. *)
StoreActs ==
    \/ Busy' = None /\ ~Up' /\ Store' = Store
    \/ ~Up /\ Up' /\ Busy' = Busy /\ Store' = Store
    \/ Busy' = Busy /\ (Up' <=> Up) /\ Store' = Store
    \/ /\ Busy # None /\ Busy' \in {Busy, None} /\ (Up' <=> Up)
       /\ Store' = [Store EXCEPT ![Busy.id] = Busy.val]
    \/ \E id \in Items : \E v \in Values :
          /\ Up /\ Up' /\ Busy = None /\ Busy' = [id |-> id, val |-> v]
          /\ Store[id] # v /\ Store' = Store
    \/ \E id \in Items :
          /\ Up /\ Up' /\ Busy = None /\ Busy' = Busy
          /\ Store[id] # Missing /\ Store' = [Store EXCEPT ![id] = Missing]

(* A step that leaves the items and the operation alone. *)
LEMMA StutterActs ==
  ASSUME Unaltered, op'.kind = op.kind, op'.id = op.id, op'.val = op.val,
         (pc = "boot") <=> (pc' = "boot")
  PROVE  StoreActs
BY StoreUnaltered, BusyFacts DEF StoreActs, Up

(* A call is a Call, a Delete or a stutter of NvStore. *)
LEMMA CallsActs ==
  ASSUME NvInv, NvInv', Calls
  PROVE  StoreActs
<1>1. pc = "idle"
  BY DEF Calls, ItemInitFinds, Delete, ItemInit, Write
<1>2. ~Operating /\ Busy = None /\ op = NoOp /\ Up
  BY <1>1, IdleFacts, BusyFacts, UpFacts
<1>3. ASSUME NEW id \in Items, ItemInitFinds(id) PROVE StoreActs
  <2>1. flash' = flash /\ op' = op /\ pc' = pc
    BY <1>3 DEF ItemInitFinds
  <2> QED BY <2>1, FlashUnaltered, StutterActs
<1>4. ASSUME NEW id \in Items, Delete(id) PROVE StoreActs
  <2>1. op' = op /\ pc' = pc
    BY <1>4 DEF Delete
  <2>2. /\ Recovered(id) # Missing /\ Recovered(id)' = Missing
        /\ \A o \in Items \ {id} : Recovered(o)' = Recovered(o)
    BY <1>4, DeleteHolds
  <2>3. Store' = [Store EXCEPT ![id] = Missing]
    BY <2>2, StoreTakes
  <2>4. Store[id] # Missing /\ Up' /\ Busy' = Busy
    BY <1>2, <2>1, <2>2, BusyFacts DEF Store, Up
  <2> QED BY <1>2, <2>3, <2>4 DEF StoreActs
<1>5. ASSUME NEW kind \in {"init", "write"}, NEW id \in Items, NEW v \in Values, NEW src,
             InitItem(kind, id, v, src), Recovered(id) # v
      PROVE  StoreActs
  <2>1. flash' = flash /\ op'.kind = kind /\ op'.id = id /\ op'.val = v /\ pc' # "boot"
    BY <1>5 DEF InitItem
  <2>2. Busy' = [id |-> id, val |-> v] /\ Up'
    BY <2>1 DEF Busy, Up
  <2>3. Store' = Store /\ Store[id] # v
    BY <1>5, <2>1, FlashUnaltered, StoreUnaltered DEF Store
  <2> QED BY <1>2, <2>2, <2>3 DEF StoreActs
<1>6. ASSUME NEW id \in Items, NEW v \in Values, ItemInit(id, v) PROVE StoreActs
  <2>1. FindItem(id) = NoPlace /\ InitItem("init", id, v, NoPlace)
    BY <1>6 DEF ItemInit
  <2>2. Recovered(id) = Missing
    BY <1>1, <2>1, RecoveredIdle
  <2> QED BY <1>5, <2>1, <2>2, ValuesAssumption
<1>7. ASSUME NEW id \in Items, NEW v \in Values, Write(id, v) PROVE StoreActs
  <2>1. Read(id) # v /\ InitItem("write", id, v, FindItem(id))
    BY <1>7 DEF Write
  <2>2. Recovered(id) = Read(id)
    BY <1>1, NvReads DEF ReadsWhatIsStored
  <2> QED BY <1>5, <2>1, <2>2
<1> QED BY <1>3, <1>4, <1>6, <1>7 DEF Calls

(* The operation's value is there, and it may be over. *)
LEMMA TakesActs ==
  ASSUME NvInv, Operating, NEW id \in Items, id = op.id, NEW v, v = op.val,
         Store' = [Store EXCEPT ![id] = v], op' = op \/ op' = NoOp, pc' # "boot"
  PROVE  StoreActs
<1>1. Busy.id = id /\ Busy.val = v /\ Busy # None /\ Up
  BY BusyFacts, UpFacts
<1>2. Busy' \in {Busy, None}
  BY BusyFacts DEF NoOp
<1>3. Up'
  BY <1>1 DEF Up, NoOp
<1> QED BY <1>1, <1>2, <1>3 DEF StoreActs

(* An item that has its value already takes it. *)
LEMMA HeldTakes ==
  ASSUME Unaltered, NEW id \in Items, NEW v, Recovered(id) = v
  PROVE  Store' = [Store EXCEPT ![id] = v]
<1>1. Recovered(id)' = v /\ \A o \in Items \ {id} : Recovered(o)' = Recovered(o)
  BY DEF Unaltered
<1> QED BY <1>1, StoreTakes

(* initItem and osal_nv_write are a Takes, a Returns or a stutter of NvStore. *)
LEMMA NewCopyActs ==
  ASSUME NvInv, NvInv', NewCopy
  PROVE  StoreActs
<1>1. CASE MarkPage
  <2>1. op' = op /\ pc # "boot" /\ pc' # "boot"
    BY <1>1 DEF MarkPage
  <2> QED BY <1>1, <2>1, MarkPageKeeps, StutterActs
<1>2. CASE WriteHeader
  <2>1. op' = op /\ pc # "boot" /\ pc' # "boot"
    BY <1>2 DEF WriteHeader
  <2> QED BY <1>2, <2>1, WriteHeaderKeeps, StutterActs
<1>3. CASE MarkSource
  <2>1. op' = op /\ pc # "boot" /\ pc' # "boot"
    BY <1>3 DEF MarkSource
  <2> QED BY <1>3, <2>1, MarkSourceKeeps, StutterActs
<1>4. CASE WriteData
  <2>1. pc = "data" /\ IF op.com # NoPage THEN pc' = "use" /\ UNCHANGED op ELSE ThenZeroes
    BY <1>4 DEF WriteData
  <2>2. op.id \in Items /\ op.val \in Values /\ Operating
    BY <2>1, WritingFacts
  <2>3. CASE op.com # NoPage
    <3>1. op' = op /\ pc # "boot" /\ pc' # "boot"
      BY <2>1, <2>3
    <3> QED BY <1>4, <2>3, <3>1, WriteDataHolds, StutterActs
  <2>4. CASE op.com = NoPage
    <3>1. PICK id, v : id = op.id /\ v = op.val
      OBVIOUS
    <3>2. Recovered(id)' = v /\ \A o \in Items \ {id} : Recovered(o)' = Recovered(o)
      BY <1>4, <2>4, <3>1, WriteDataHolds
    <3>3. Store' = [Store EXCEPT ![id] = v]
      BY <2>2, <3>1, <3>2, StoreTakes
    <3>4. (op' = op \/ op' = NoOp) /\ pc' # "boot"
      BY <2>1, <2>4 DEF ThenZeroes, Ends
    <3> QED BY <2>2, <3>1, <3>3, <3>4, TakesActs
  <2> QED BY <2>3, <2>4
<1>5. CASE ZeroSource
  <2>1. op' = NoOp /\ pc = "zero" /\ pc' # "boot"
    BY <1>5 DEF ZeroSource, Ends
  <2>2. Operating
    BY <2>1 DEF NvInv, Phase, Operating
  <2>3. PICK id, v : id = op.id /\ v = op.val
    OBVIOUS
  <2>4. Unaltered /\ id \in Items /\ Recovered(id) = v
    BY <1>5, <2>3, ZeroSourceKeeps
  <2>5. Store' = [Store EXCEPT ![id] = v]
    BY <2>4, HeldTakes
  <2> QED BY <2>1, <2>2, <2>3, <2>4, <2>5, TakesActs
<1> QED BY <1>1, <1>2, <1>3, <1>4, <1>5 DEF NewCopy

(* CompactPage and its cleanup are a Takes, a Returns or a stutter of NvStore. *)
LEMMA CompactionActs ==
  ASSUME NvInv, NvInv', Compaction
  PROVE  StoreActs
<1>1. CASE CompactMark
  <2>1. op' = op /\ pc # "boot" /\ pc' # "boot"
    BY <1>1 DEF CompactMark
  <2> QED BY <1>1, <2>1, CompactMarkKeeps, StutterActs
<1>2. CASE CompactHeader
  <2>1. op' = op /\ pc # "boot" /\ pc' # "boot"
    BY <1>2 DEF CompactHeader
  <2> QED BY <1>2, <2>1, CompactHeaderKeeps, StutterActs
<1>3. CASE CompactData
  <2>1. op' = [op EXCEPT !.k = Source[2] + 1] /\ pc # "boot" /\ pc' # "boot"
    BY <1>3 DEF CompactData
  <2>2. op'.kind = op.kind /\ op'.id = op.id /\ op'.val = op.val
    BY <2>1 DEF NvInv, Types, OpType
  <2> QED BY <1>3, <2>1, <2>2, CompactDataKeeps, StutterActs
<1>4. CASE CompactEnds
  <2>1. flash' = flash /\ op' = op /\ pc # "boot" /\ pc' # "boot"
    BY <1>4 DEF CompactEnds
  <2> QED BY <2>1, FlashUnaltered, StutterActs
<1>5. CASE PutInUse
  <2>1. op' = op /\ pc # "boot" /\ pc' # "boot"
    BY <1>5 DEF PutInUse
  <2>2. PICK id, v : id = op.id /\ v = op.val
    OBVIOUS
  <2>3. /\ \A o \in Items \ {id} : Recovered(o)' = Recovered(o)
        /\ IF Operating THEN id \in Items /\ Recovered(id)' = v ELSE id \notin Items
    BY <1>5, <2>1, <2>2, PutInUseHolds
  <2>4. CASE Operating
    <3>1. Store' = [Store EXCEPT ![id] = v]
      BY <2>3, <2>4, StoreTakes
    <3> QED BY <2>1, <2>2, <2>3, <2>4, <3>1, TakesActs
  <2>5. CASE ~Operating
    <3>1. Unaltered
      BY <2>3, <2>5 DEF Unaltered
    <3> QED BY <2>1, <3>1, StutterActs
  <2> QED BY <2>4, <2>5
<1>6. CASE EraseCompacted
  <2>1. /\ pc = "erase" /\ pc' # "boot"
        /\ IF op.kind = "boot" THEN pc' = "scan" /\ UNCHANGED op ELSE ThenZeroes
    BY <1>6 DEF EraseCompacted, ThenZeroes, Ends
  <2>2. Unaltered /\ (Operating => op.id \in Items /\ Recovered(op.id) = op.val)
    BY <1>6, EraseCompactedKeeps
  <2>3. CASE op.kind = "boot"
    BY <2>1, <2>2, <2>3, StutterActs
  <2>4. CASE op.kind # "boot"
    <3>1. Operating
      BY <2>1, <2>4 DEF NvInv, Phase
    <3>2. op' = op \/ op' = NoOp
      BY <2>1, <2>4 DEF ThenZeroes, Ends
    <3>3. PICK id, v : id = op.id /\ v = op.val
      OBVIOUS
    <3>4. id \in Items /\ Recovered(id) = v
      BY <2>2, <3>1, <3>3
    <3>5. Store' = [Store EXCEPT ![id] = v]
      BY <2>2, <3>4, HeldTakes
    <3> QED BY <2>1, <3>1, <3>2, <3>3, <3>4, <3>5, TakesActs
  <2> QED BY <2>3, <2>4
<1> QED BY <1>1, <1>2, <1>3, <1>4, <1>5, <1>6 DEF Compaction

(* osal_nv_init, of which its callers see the end only. *)
LEMMA RestartActs ==
  ASSUME Unaltered, ~Up, op'.kind \notin {"init", "write"}, ~Operating
  PROVE  StoreActs
<1>1. Busy' = None /\ Busy = None /\ Store' = Store
  BY BusyFacts, StoreUnaltered
<1> QED BY <1>1 DEF StoreActs

(* initNV is a Restarts or a stutter of NvStore. *)
LEMMA BootActs ==
  ASSUME NvInv, NvInv', Boot, ~(Picking /\ EraseReserve)
  PROVE  StoreActs
<1>1. ~Up /\ ~Operating
  <2>1. pc = "boot" => op.kind = "none"
    BY DEF NvInv, Phase, NoOp
  <2>2. pc = "eraseRes" \/ pc = "scan" => op.kind \in {"boot", "pick"}
    BY DEF NvInv, Phase
  <2>3. pc \in {"boot", "eraseRes", "scan"}
    BY DEF Boot, BootUses, BootHeaders, EraseReserve, ScanItem, ScanPage, ScanEnds
  <2> QED BY <2>1, <2>2, <2>3 DEF Up, Operating
<1>2. op' = op \/ op' = NoOp \/ op'.kind = "boot" \/ op'.kind = "pick"
  <2>1. CASE BootUses \/ ScanItem \/ ScanPage
    BY <2>1 DEF BootUses, ScanItem, ScanPage
  <2>2. CASE BootHeaders
    BY <2>2 DEF BootHeaders, NoOp
  <2>3. CASE EraseReserve
    BY <2>3 DEF EraseReserve, Ends
  <2>4. CASE ScanEnds
    <3>1. op' = NoOp \/ op' = [op EXCEPT !.kind = "pick"]
      BY <2>4 DEF ScanEnds, Ends
    <3> QED BY <3>1 DEF NvInv, Types, OpType
  <2> QED BY <2>1, <2>2, <2>3, <2>4 DEF Boot
<1>3. op'.kind \notin {"init", "write"}
  BY <1>1, <1>2 DEF Operating, NoOp
<1>4. Unaltered
  <2>1. CASE BootUses
    BY <2>1, BootUsesKeeps
  <2>2. CASE EraseReserve
    BY <2>2, EraseReserveKeeps
  <2>3. CASE ScanItem
    BY <2>3, ScanItemKeeps
  <2>4. CASE BootHeaders \/ ScanPage \/ ScanEnds
    <3>1. flash' = flash
      BY <2>4 DEF BootHeaders, ScanPage, ScanEnds
    <3> QED BY <3>1, FlashUnaltered
  <2> QED BY <2>1, <2>2, <2>3, <2>4 DEF Boot
<1> QED BY <1>1, <1>3, <1>4, RestartActs

(* Every step but the erasing of the picked page acts as NvStore allows. *)
LEMMA NextActs ==
  ASSUME NvInv, NvInv', [Next]_vars, ~ErasesIt
  PROVE  StoreActs
<1>1. CASE UNCHANGED vars
  BY <1>1, FlashUnaltered, StutterActs DEF vars
<1>2. CASE Reset
  <2>1. op' = NoOp /\ pc' = "boot"
    BY <1>2 DEF Reset
  <2>2. Busy' = None /\ ~Up'
    BY <2>1, BusyFacts DEF NoOp, Up
  <2>3. Store' = Store
    BY <1>2, ResetKeeps, StoreUnaltered DEF ErasesIt
  <2> QED BY <2>2, <2>3 DEF StoreActs
<1>3. CASE Boot
  BY <1>3, BootActs DEF ErasesIt
<1> QED BY <1>1, <1>2, <1>3, CallsActs, NewCopyActs, CompactionActs DEF Next

(* What StoreActs allows is a step of NvStore. *)
LEMMA NextStore ==
  ASSUME StoreActs
  PROVE  [Nv!StoreNext]_(Nv!storeVars)
<1>1. /\ Store = [id \in Items |-> Recovered(id)]
      /\ Busy = IF op.kind \in {"init", "write"} THEN [id |-> op.id, val |-> op.val]
                ELSE [id |-> Missing, val |-> Missing]
      /\ Up = (pc # "boot" /\ op.kind \notin {"boot", "pick"})
      /\ None = [id |-> Missing, val |-> Missing]
  BY DEF Store, Busy, Up, None
<1>2. CASE Busy' = None /\ ~Up' /\ Store' = Store
  <2>1. Nv!PowerFails
    BY <1>2 DEF Nv!PowerFails, Nv!Idle, Store, Busy, Up, None
  <2> QED BY <2>1 DEF Nv!StoreNext
<1>3. CASE ~Up /\ Up' /\ Busy' = Busy /\ Store' = Store
  <2>1. Up' = TRUE
    BY <1>3 DEF Up
  <2>2. Nv!Restarts
    BY <1>3, <2>1 DEF Nv!Restarts, Store, Busy, Up, None
  <2> QED BY <2>2 DEF Nv!StoreNext
<1>4. CASE Busy' = Busy /\ (Up' <=> Up) /\ Store' = Store
  <2>1. Up' = Up
    BY <1>4 DEF Up
  <2> QED BY <1>4, <2>1 DEF Nv!storeVars, Store, Busy, Up, None
<1>5. CASE /\ Busy # None /\ Busy' \in {Busy, None} /\ (Up' <=> Up)
           /\ Store' = [Store EXCEPT ![Busy.id] = Busy.val]
  <2>1. CASE Busy' = Busy
    <3>1. Nv!Takes
      BY <1>5, <2>1 DEF Nv!Takes, Nv!Idle, Store, Busy, Up, None
    <3> QED BY <3>1 DEF Nv!StoreNext
  <2>2. CASE Busy' = None
    <3>1. Nv!Returns
      BY <1>5, <2>2 DEF Nv!Returns, Nv!Idle, Store, Busy, Up, None
    <3> QED BY <3>1 DEF Nv!StoreNext
  <2> QED BY <1>5, <2>1, <2>2
<1>6. ASSUME NEW id \in Items, NEW v \in Values,
             Up, Up', Busy = None, Busy' = [id |-> id, val |-> v], Store[id] # v, Store' = Store
      PROVE  Nv!StoreNext
  <2>1. Nv!Call(id, v)
    BY <1>6 DEF Nv!Call, Nv!Idle, Store, Busy, Up, None
  <2> QED BY <2>1 DEF Nv!StoreNext
<1>7. ASSUME NEW id \in Items, Up, Up', Busy = None, Busy' = Busy, Store[id] # Missing,
             Store' = [Store EXCEPT ![id] = Missing]
      PROVE  Nv!StoreNext
  <2>1. Nv!Delete(id)
    BY <1>7 DEF Nv!Delete, Nv!Idle, Store, Busy, Up, None
  <2> QED BY <2>1 DEF Nv!StoreNext
<1> QED BY <1>2, <1>3, <1>4, <1>5, <1>6, <1>7 DEF StoreActs

--------------------------------------------------------------------------------
(* What that step takes away. *)

(* Of the items it takes away those on the page, and alters no other. *)
LEMMA PickedLost ==
  ASSUME NvInv, NvInv', ErasesIt, NEW id \in Items
  PROVE  Recovered(id)' = IF id \in PickedItems THEN Missing ELSE Recovered(id)
<1>1. FlashType /\ FlashInv /\ FlashType' /\ FlashInv'
  BY NvFlash, NvFlashNext
<1>2. PICK c : c = pgRes
  OBVIOUS
<1>3. /\ c \in Pages /\ InErasedState = {} /\ Doomed = {} /\ OnlyCopies
      /\ pc = "eraseRes" /\ op.kind = "pick"
  <2>1. pc = "eraseRes" /\ op.kind = "pick"
    BY DEF ErasesIt, Picking
  <2>2. InErasedState # {c} \/ op.kind # "boot"
    BY <2>1
  <2>3. c \in Pages /\ InErasedState = {} /\ MarkedPages = {}
    BY <1>2, <2>1 DEF NvInv, Phase
  <2> QED BY <2>1, <2>3 DEF NvInv, PickInv, Doomed
<1>4. /\ \A a \in Place' : a[1] # c => a \in Place /\ At(a)' = At(a)
      /\ \A a \in Place : a[1] # c => a \in Place' /\ At(a)' = At(a)
      /\ ~flash'[c].active
      /\ \A q \in Pages : q # c => flash'[q].active = flash[q].active
  <2>1. CASE EraseReserve
    <3>1. flash' = [flash EXCEPT ![c] = Blank]
      BY <1>2, <2>1 DEF EraseReserve, ErasePage
    <3> QED BY <1>1, <1>3, <3>1, PageErased
  <2>2. CASE Reset /\ ~flash'[c].active
    <3>1. flash[c].active
      BY <1>3 DEF InErasedState
    <3>2. Erasing = {c}
      BY <1>2, <1>3 DEF Erasing
    <3>3. \/ flash' = flash
          \/ flash' = [flash EXCEPT ![c].active = FALSE, ![c].xfer = FALSE]
          \/ flash' = [flash EXCEPT ![c].xfer = FALSE]
      BY <1>3, <2>2, <3>2, ResetMay
    <3>4. flash \in [Pages -> PageType] /\ flash[c] \in PageType
      BY <1>1, <1>3 DEF FlashType
    <3>5. flash' # [flash EXCEPT ![c].xfer = FALSE]
      <4>1. flash' = [flash EXCEPT ![c].xfer = FALSE] => flash'[c] = [flash[c] EXCEPT !.xfer = FALSE]
        BY <1>3, <3>4
      <4> QED BY <2>2, <3>1, <3>4, <4>1 DEF PageType
    <3>6. flash' = [flash EXCEPT ![c] = [flash[c] EXCEPT !.active = FALSE, !.xfer = FALSE]]
      BY <1>3, <2>2, <3>1, <3>3, <3>4, <3>5
    <3>7. flash'[c] = [flash[c] EXCEPT !.active = FALSE, !.xfer = FALSE]
      BY <1>3, <3>4, <3>6
    <3>8. flash'[c].items = flash[c].items /\ \A q \in Pages : q # c => flash'[q] = flash[q]
      BY <1>3, <3>4, <3>6, <3>7 DEF PageType
    <3>9. \A q \in Pages : flash'[q].items = flash[q].items
      BY <3>8
    <3>10. Place' = Place /\ \A a \in Place : At(a)' = At(a)
      BY <1>1, <3>9, SameItems
    <3> QED BY <2>2, <3>8, <3>10
  <2> QED BY <1>2, <2>1, <2>2 DEF ErasesIt
<1>5. Doomed' = {c}
  BY <1>3, <1>4 DEF Doomed, InErasedState
<1>6. /\ \A a \in Place : Valid(a) <=> Good(At(a))
      /\ \A a \in Place' : Valid(a)' <=> a[1] # c /\ Good(At(a))
  BY <1>3, <1>4, <1>5 DEF Valid, Good, Live
<1>7. \A a \in Place : Good(At(a)) => Kept(a)
  BY <1>1, <1>3, PlaceFacts DEF Kept, InErasedState
<1>8. CASE id \in PickedItems
  <2>1. PICK a \in Place : a[1] = c /\ Good(At(a)) /\ At(a).id = id
    BY <1>2, <1>8 DEF PickedItems
  <2>2. ASSUME NEW b \in Place', At(b)'.id = id, Valid(b)' PROVE FALSE
    <3>1. b \in Place /\ b[1] # c /\ Good(At(b)) /\ At(b).id = id
      BY <1>4, <1>6, <2>2
    <3> QED BY <1>3, <1>7, <2>1, <3>1 DEF OnlyCopies, Same
  <2>3. Recovered(id)' = Missing
    BY <1>1, <2>2, WinsFactsNext DEF RecoveredWins
  <2> QED BY <1>8, <2>3
<1>9. CASE id \notin PickedItems
  <2>1. \A a \in Place : Good(At(a)) /\ At(a).id = id => a[1] # c
    BY <1>2, <1>9 DEF PickedItems
  <2>2. \A a \in Place : Valid(a) /\ At(a).id = id => a \in Place' /\ Valid(a)' /\ At(a)' = At(a)
    BY <1>4, <1>6, <2>1
  <2>3. \A a \in Place' : Valid(a)' /\ At(a)'.id = id => a \in Place /\ Valid(a) /\ At(a).id = id
    BY <1>4, <1>6
  <2> QED BY <1>1, <1>9, <2>2, <2>3, ValidSame
<1> QED BY <1>8, <1>9

(* It is the one step that ImplementsNvStore excepts. *)
LEMMA PickedActs ==
  ASSUME NvInv, NvInv', ErasesIt
  PROVE  ErasesPicked
<1>1. pc = "eraseRes" /\ op.kind = "pick" /\ op' = NoOp
  BY DEF ErasesIt, Picking, EraseReserve, Ends, Reset
<1>2. Busy = None /\ Busy' = None /\ ~Up /\ Up' \in BOOLEAN
  BY <1>1 DEF Busy, Up, NoOp
<1>3. Store' = [id \in Items |-> IF id \in PickedItems THEN Missing ELSE Store[id]]
  BY PickedLost DEF Store
<1>4. Nv!Loses(PickedItems)
  BY <1>2, <1>3 DEF Nv!Loses, Nv!Idle, Store, Busy, Up, None
<1> QED BY <1>1, <1>4 DEF ErasesPicked

--------------------------------------------------------------------------------
(* When the headers tell which page is the reserve page. *)

(* The pages' headers tell where the reserve page is, or where it was: a page has no
   header, or one is marked. *)
ReserveKnown == InErasedState # {} \/ MarkedPages # {}

(* Items written, zeroed or marked leave the headers. *)
LEMMA HeadersStay ==
  ASSUME FlashType
  PROVE  /\ \A a, it : flash' = WithItem(a, it) =>
               /\ ReserveKnown' = ReserveKnown /\ MarkedPages' = MarkedPages
               /\ \A q \in Pages \ {a[1]} : flash'[q] = flash[q]
         /\ \A p, it : flash' = Appended(p, it) =>
               /\ ReserveKnown' = ReserveKnown /\ MarkedPages' = MarkedPages
               /\ \A q \in Pages \ {p} : flash'[q] = flash[q]
         /\ flash' = flash => ReserveKnown' = ReserveKnown /\ MarkedPages' = MarkedPages
<1>1. ASSUME \A p \in Pages : flash'[p].active = flash[p].active /\ flash'[p].xfer = flash[p].xfer
      PROVE  ReserveKnown' = ReserveKnown /\ MarkedPages' = MarkedPages
  BY <1>1, FlagsKept DEF ReserveKnown
<1>2. flash \in [Pages -> PageType] /\ \A p \in Pages : flash[p] \in PageType
  BY DEF FlashType
<1>3. ASSUME NEW p, NEW s, flash' = [flash EXCEPT ![p] = [flash[p] EXCEPT !.items = s]]
      PROVE  /\ \A q \in Pages : flash'[q].active = flash[q].active /\ flash'[q].xfer = flash[q].xfer
             /\ \A q \in Pages \ {p} : flash'[q] = flash[q]
  BY <1>2, <1>3 DEF PageType
<1>4. ASSUME NEW a, NEW it, flash' = WithItem(a, it)
      PROVE  \E s : flash' = [flash EXCEPT ![a[1]] = [flash[a[1]] EXCEPT !.items = s]]
  BY <1>4 DEF WithItem
<1>5. ASSUME NEW p, NEW it, flash' = Appended(p, it)
      PROVE  \E s : flash' = [flash EXCEPT ![p] = [flash[p] EXCEPT !.items = s]]
  BY <1>5 DEF Appended
<1>6. ASSUME NEW p, NEW s, flash' = [flash EXCEPT ![p] = [flash[p] EXCEPT !.items = s]]
      PROVE  /\ ReserveKnown' = ReserveKnown /\ MarkedPages' = MarkedPages
             /\ \A q \in Pages \ {p} : flash'[q] = flash[q]
  BY <1>1, <1>3, <1>6
<1>7. ASSUME NEW a, NEW it, flash' = WithItem(a, it)
      PROVE  /\ ReserveKnown' = ReserveKnown /\ MarkedPages' = MarkedPages
             /\ \A q \in Pages \ {a[1]} : flash'[q] = flash[q]
  <2>1. PICK s, p : p = a[1] /\ flash' = [flash EXCEPT ![p] = [flash[p] EXCEPT !.items = s]]
    BY <1>4, <1>7
  <2> QED BY <1>6, <2>1
<1>8. ASSUME NEW p, NEW it, flash' = Appended(p, it)
      PROVE  /\ ReserveKnown' = ReserveKnown /\ MarkedPages' = MarkedPages
             /\ \A q \in Pages \ {p} : flash'[q] = flash[q]
  BY <1>5, <1>6, <1>8
<1>9. ASSUME flash' = flash PROVE ReserveKnown' = ReserveKnown /\ MarkedPages' = MarkedPages
  BY <1>1, <1>9
<1> QED BY <1>7, <1>8, <1>9

(* With the reserve page known initNV picks none. *)
LEMMA KnownFacts ==
  ASSUME NvInv, ReserveKnown
  PROVE  /\ ~NoReserve
         /\ ~(pc = "eraseRes" /\ op.kind = "pick")
         /\ pc = "scan" => pgRes \in Pages
<1>1. ~NoReserve
  BY DEF NoReserve, ReserveKnown, InErasedState, MarkedPages
<1>2. ~(pc = "eraseRes" /\ op.kind = "pick")
  BY DEF NvInv, Phase, ReserveKnown
<1>3. pc = "scan" => pgRes \in Pages
  BY <1>1 DEF NvInv, Phase, ReserveBlank
<1> QED BY <1>1, <1>2, <1>3

(* An erase is interrupted when the mark alone is gone. *)
MarkTorn == /\ Reset /\ "xfer" \in TornErases
            /\ \E p \in Erasing : flash' = [flash EXCEPT ![p].xfer = FALSE]

(* Nothing else makes it unknown. *)
LEMMA KnownStep ==
  ASSUME NvInv, ReserveKnown, [Next]_vars, ~MarkTorn
  PROVE  ReserveKnown'
<1>1. FlashType /\ FlashInv
  BY NvFlash
<1>2. CASE UNCHANGED vars
  BY <1>1, <1>2, HeadersStay DEF vars
<1>3. CASE Calls
  <2>1. \/ flash' = flash
        \/ \E a, it : flash' = WithItem(a, it)
    BY <1>3 DEF Calls, ItemInitFinds, Delete, ItemInit, Write, InitItem
  <2> QED BY <1>1, <2>1, HeadersStay
<1>4. CASE NewCopy
  <2>1. CASE MarkPage
    <3>1. ReserveBlank /\ op.com \in Pages \ {pgRes}
      BY <2>1 DEF MarkPage, NvInv, Phase
    <3>2. flash'[pgRes] = Blank /\ pgRes \in Pages
      BY <1>1, <2>1, <3>1 DEF MarkPage, ReserveBlank, FlashType
    <3>3. pgRes \in InErasedState'
      BY <3>2 DEF InErasedState, Blank
    <3> QED BY <3>3 DEF ReserveKnown
  <2>2. CASE WriteHeader \/ MarkSource \/ WriteData \/ ZeroSource
    <3>1. (\E a, it : flash' = WithItem(a, it)) \/ (\E p, it : flash' = Appended(p, it))
      BY <2>2 DEF WriteHeader, MarkSource, WriteData, ZeroSource
    <3> QED BY <1>1, <3>1, HeadersStay
  <2> QED BY <1>4, <2>1, <2>2 DEF NewCopy
<1>5. CASE Compaction
  <2>1. CASE CompactMark \/ CompactHeader \/ CompactData \/ CompactEnds
    <3>1. \/ flash' = flash
          \/ \E a, it : flash' = WithItem(a, it)
          \/ \E p, it : flash' = Appended(p, it)
      BY <2>1 DEF CompactMark, CompactHeader, CompactData, CompactEnds
    <3> QED BY <1>1, <3>1, HeadersStay
  <2>2. CASE PutInUse
    <3>1. Compacting
      BY <2>2 DEF PutInUse, NvInv, Phase
    <3>2. op.com \in Pages /\ flash'[op.com] = flash[op.com] /\ op.com \in MarkedPages
      BY <1>1, <2>2, <3>1 DEF PutInUse, Compacting, FlashType, MarkedPages
    <3>3. op.com \in MarkedPages'
      BY <3>2 DEF MarkedPages
    <3> QED BY <3>3 DEF ReserveKnown
  <2>3. CASE EraseCompacted
    <3>1. op.com \in Pages
      BY <2>3 DEF EraseCompacted, NvInv, Phase
    <3>2. op.com \in InErasedState'
      BY <1>1, <2>3, <3>1, PageErased DEF EraseCompacted, ErasePage, InErasedState
    <3> QED BY <3>2 DEF ReserveKnown
  <2> QED BY <1>5, <2>1, <2>2, <2>3 DEF Compaction
<1>6. CASE Boot
  <2>1. CASE BootUses
    <3>1. InErasedState \subseteq Nat /\ InErasedState # {}
      BY <2>1 DEF BootUses, InErasedState, Pages
    <3>2. PICK r : r = Next1(InErasedState)
      OBVIOUS
    <3>3. r \in InErasedState
      BY <3>1, <3>2, Next1Facts
    <3>4. InErasedState \ {r} # {} /\ InErasedState \ {r} \subseteq Nat
      BY <2>1, <3>1 DEF BootUses
    <3>5. PICK p : p = Next1(InErasedState \ {r})
      OBVIOUS
    <3>6. p # r
      BY <3>4, <3>5, Next1Facts
    <3>7. flash' = [flash EXCEPT ![p].active = TRUE]
      BY <2>1, <3>2, <3>5 DEF BootUses
    <3>8. r \in InErasedState'
      BY <1>1, <3>3, <3>6, <3>7 DEF InErasedState, FlashType
    <3> QED BY <3>8 DEF ReserveKnown
  <2>2. CASE BootHeaders \/ ScanItem \/ ScanPage \/ ScanEnds
    <3>1. \/ flash' = flash
          \/ \E a, it : flash' = WithItem(a, it)
      BY <2>2 DEF BootHeaders, ScanItem, ScanPage, ScanEnds
    <3> QED BY <1>1, <3>1, HeadersStay
  <2>3. CASE EraseReserve
    <3>1. pgRes \in Pages
      BY <2>3 DEF EraseReserve, NvInv, Phase, InErasedState
    <3>2. pgRes \in InErasedState'
      BY <1>1, <2>3, <3>1, PageErased DEF EraseReserve, ErasePage, InErasedState
    <3> QED BY <3>2 DEF ReserveKnown
  <2> QED BY <1>6, <2>1, <2>2, <2>3 DEF Boot
<1>7. CASE Reset
  <2> DEFINE A == {[flash EXCEPT ![p].active = FALSE, ![p].xfer = FALSE] : p \in Erasing}
             B == {[flash EXCEPT ![p].xfer = FALSE] :
                      p \in IF "xfer" \in TornErases THEN Erasing ELSE {}}
  <2>1. \/ flash' = flash \/ flash' \in A \/ flash' = Appended(op.dst, TornHeader)
        \/ flash' \in B
    BY <1>7 DEF Reset, Interrupted
  <2>2. flash' \notin B
    <3>1. ASSUME flash' \in B
          PROVE  "xfer" \in TornErases /\ \E p \in Erasing : flash' = [flash EXCEPT ![p].xfer = FALSE]
      BY <3>1
    <3> QED BY <1>7, <3>1 DEF MarkTorn
  <2>3. ASSUME NEW p \in Erasing, flash' = [flash EXCEPT ![p].active = FALSE, ![p].xfer = FALSE]
        PROVE  ReserveKnown'
    <3>1. p \in Pages
      BY <2>3 DEF Erasing, NvInv, Phase, InErasedState
    <3>2. flash[p] \in PageType /\ flash \in [Pages -> PageType]
      BY <1>1, <3>1 DEF FlashType
    <3>3. flash' = [flash EXCEPT ![p] = [flash[p] EXCEPT !.active = FALSE, !.xfer = FALSE]]
      BY <2>3, <3>1, <3>2
    <3>4. flash'[p].active = FALSE
      BY <3>1, <3>2, <3>3 DEF PageType
    <3>5. p \in InErasedState'
      BY <3>1, <3>4 DEF InErasedState
    <3> QED BY <3>5 DEF ReserveKnown
  <2>4. CASE flash' \in A
    BY <2>3, <2>4
  <2> QED BY <1>1, <2>1, <2>2, <2>4, HeadersStay
<1> QED BY <1>2, <1>3, <1>4, <1>5, <1>6, <1>7 DEF Next

(* A flash that was never written has erased headers. *)
LEMMA InitKnown == Init => ReserveKnown
<1> SUFFICES ASSUME Init PROVE 1 \in InErasedState
  BY DEF ReserveKnown
<1>1. 1 \in Pages
  BY PagesAssumption DEF Pages
<1> QED BY <1>1 DEF Init, InErasedState, Blank

(* A flash that was never written is an empty store. *)
LEMMA InitStore == Init => Nv!StoreInit
<1> SUFFICES ASSUME Init PROVE Nv!StoreInit
  OBVIOUS
<1>1. Place = {}
  BY DEF Init, Place, Blank
<1>2. ASSUME NEW id \in Items PROVE Recovered(id) = Missing
  <2> DEFINE valid == UNION {{p} \X CopiesOn(p, id) : p \in Pages \ Doomed}
  <2>1. \A a : a \notin valid
    BY <1>1, CopiesFacts
  <2>2. Recovered(id) = IF valid = {} THEN Missing
                        ELSE LET new == {a \in valid : ~At(a).old}
                             IN At(First(IF new # {} THEN new ELSE valid)).val
    BY DEF Recovered
  <2> HIDE DEF valid
  <2> QED BY <2>1, <2>2
<1>3. op.kind = "none" /\ pc = "boot"
  BY DEF Init, NoOp
<1> QED BY <1>2, <1>3 DEF Nv!StoreInit, Nv!Idle

(* When no interrupted erasing takes the xfer word alone, the headers always
   tell which page is the reserve page or was to be erased, so that initNV never has to
   pick one by what it lost (OSAL_Nv.c:289). *)
THEOREM SpecKnown == ASSUME "xfer" \notin TornErases PROVE Spec => []ReserveKnown
<1>1. NvInv /\ ReserveKnown /\ [Next]_vars => ReserveKnown'
  BY KnownStep DEF MarkTorn
<1> QED BY <1>1, InitKnown, SpecNv, PTL DEF Spec

(* Every step of the flash is a step or a stutter of the store, or takes the items
   of the picked page away. *)
LEMMA NextImplements ==
  ASSUME NvInv, NvInv', [Next]_vars
  PROVE  [Nv!StoreNext \/ ErasesPicked]_(Nv!storeVars)
BY NextActs, NextStore, PickedActs

(* osal_nv implements NvStore: however often the power fails an item holds what the
   last operation that returned wrote or what an interrupted one was writing, but for
   the items on a page that initNV picks by what it lost, which are gone.  That is for
   every number of pages, items and values and every size of each item. *)
THEOREM ImplementsStore == Spec => ImplementsNvStore
<1>1. NvInv /\ NvInv' /\ [Next]_vars => [Nv!StoreNext \/ ErasesPicked]_(Nv!storeVars)
  BY NextImplements
<1> QED BY <1>1, InitStore, SpecNv, PTL DEF Spec, ImplementsNvStore

(* Where an interrupted erasing never takes the xfer word alone, the comment at
   OSAL_Nv.c:292 is right: initNV erases no page that holds an item. *)
THEOREM DuplicatesWhenKnown == ASSUME "xfer" \notin TornErases PROVE Spec => []OnlyDuplicatesPicked
<1>1. NvInv /\ ReserveKnown => OnlyDuplicatesPicked
  BY KnownFacts DEF OnlyDuplicatesPicked
<1> QED BY <1>1, SpecNv, SpecKnown, PTL

(* And then nothing is lost: osal_nv implements NvStore without an exception. *)
THEOREM LosesNothing == ASSUME "xfer" \notin TornErases PROVE Spec => Nv!StoreSpec
<1>1. ASSUME NvInv, NvInv', ReserveKnown, [Next]_vars PROVE [Nv!StoreNext]_(Nv!storeVars)
  <2>1. ~ErasesPicked
    BY <1>1, KnownFacts DEF ErasesPicked
  <2> QED BY <1>1, <2>1, NextImplements
<1>2. NvInv /\ NvInv' /\ ReserveKnown /\ [Next]_vars => [Nv!StoreNext]_(Nv!storeVars)
  BY <1>1
<1> QED BY <1>2, InitStore, SpecNv, SpecKnown, PTL DEF Spec, Nv!StoreSpec
================================================================================
