---------------------------- MODULE LspSync_proofs ----------------------------
(* Proofs about LspSync, for any texts, any limits of the client and all     *)
(* bounds: the copy of the server follows the buffer, and an answer that is  *)
(* let through was computed on the text the buffer holds.                    *)
EXTENDS LspSync, FiniteSetTheorems, SequenceTheorems, NaturalsInduction,
        WellFoundedInduction, TLAPS

-----------------------------------------------------------------------------
(* Sets of numbers.                                                          *)

LEMMA LeastExists ==
  ASSUME NEW S, S \subseteq Nat, S # {}
  PROVE  \E x \in S : \A y \in S : x <= y
<1> DEFINE R == {ss \in Nat \X Nat : ss[1] < ss[2]}
<1>1. IsWellFoundedOn(R, Nat)
  BY NatLessThanWellFounded, Zenon DEF OpToRel
<1>2. PICK x \in S : \A y \in S : <<y, x>> \notin R
  <2> HIDE DEF R
  <2> QED BY <1>1, WFMin
<1>3. \A y \in S : x <= y
  <2> TAKE y \in S
  <2>1. x \in Nat /\ y \in Nat /\ <<y, x>> \in Nat \X Nat /\ <<y, x>> \notin R
    BY <1>2
  <2>2. ~(<<y, x>>[1] < <<y, x>>[2])
    BY <2>1, Zenon
  <2> HIDE DEF R
  <2> QED BY <2>1, <2>2
<1> QED BY <1>3

(* A set of numbers that has 0 and goes on from each has them all.           *)
LEMMA AllNumbers ==
  ASSUME NEW S, 0 \in S, \A n \in Nat : n \in S => n + 1 \in S
  PROVE  Nat \subseteq S
<1>1. SUFFICES ASSUME Nat \ S # {} PROVE FALSE
  OBVIOUS
<1>2. PICK x \in Nat \ S : \A y \in Nat \ S : x <= y
  BY <1>1, LeastExists
<1>3. x # 0 /\ x - 1 \in Nat /\ x - 1 \in S
  BY <1>2
<1>4. x - 1 + 1 = x
  BY <1>2
<1> QED BY <1>2, <1>3, <1>4

-----------------------------------------------------------------------------
(* What changes make of a text.                                              *)

LEMMA ChangingRuns ==
  ASSUME NEW enc, NEW t, NEW cs, Len(cs) \in Nat
  PROVE  LET r == Changing(enc, t, cs) IN
         r = [i \in 0 .. Len(cs) |->
                IF i = 0 THEN t ELSE Applied(enc, r[i - 1], cs[i])]
<1> DEFINE Runs(f, n) == f = [i \in 0 .. n |->
              IF i = 0 THEN t ELSE Applied(enc, f[i - 1], cs[i])]
           S == {n \in Nat : \E f : Runs(f, n)}
<1>1. 0 \in S
  <2>1. Runs([i \in 0 .. 0 |-> t], 0)
    OBVIOUS
  <2> QED BY <2>1
<1>2. ASSUME NEW n \in Nat, n \in S PROVE n + 1 \in S
  <2>1. PICK f : Runs(f, n)
    BY <1>2
  <2> DEFINE g == [i \in 0 .. n + 1 |->
             IF i = n + 1 THEN Applied(enc, f[n], cs[n + 1]) ELSE f[i]]
  <2>2. ASSUME NEW i \in 0 .. n + 1
        PROVE  g[i] = IF i = 0 THEN t ELSE Applied(enc, g[i - 1], cs[i])
    <3>1. CASE i = n + 1
      BY <3>1
    <3>2. CASE i \in 0 .. n
      <4>1. f[i] = IF i = 0 THEN t ELSE Applied(enc, f[i - 1], cs[i])
        BY <2>1, <3>2
      <4>2. g[i] = f[i] /\ (i # 0 => g[i - 1] = f[i - 1])
        BY <3>2
      <4> QED BY <4>1, <4>2
    <3> QED BY <3>1, <3>2
  <2>3. Runs(g, n + 1)
    <3>1. g = [i \in 0 .. n + 1 |-> g[i]]
      OBVIOUS
    <3> HIDE DEF g
    <3>2. [i \in 0 .. n + 1 |-> g[i]] = [i \in 0 .. n + 1 |->
             IF i = 0 THEN t ELSE Applied(enc, g[i - 1], cs[i])]
      BY <2>2, Zenon
    <3> QED BY <3>1, <3>2, Zenon
  <2> HIDE DEF g, Runs
  <2> QED BY <2>3
<1>3. Len(cs) \in S
  <2> HIDE DEF S
  <2> QED BY <1>1, <1>2, AllNumbers
<1>4. \E f : Runs(f, Len(cs))
  BY <1>3
<1>5. Runs(CHOOSE f : Runs(f, Len(cs)), Len(cs))
  <2> HIDE DEF Runs
  <2> QED BY <1>4, Zenon
<1> QED BY <1>5, Zenon DEF Changing


(* The texts in between.                                                     *)
LEMMA ChangingAt ==
  ASSUME NEW enc, NEW t, NEW cs, Len(cs) \in Nat
  PROVE  /\ Changing(enc, t, cs)[0] = t
         /\ \A i \in 1 .. Len(cs) :
              Changing(enc, t, cs)[i] =
                Applied(enc, Changing(enc, t, cs)[i - 1], cs[i])
<1> DEFINE r == Changing(enc, t, cs)
<1>1. r = [i \in 0 .. Len(cs) |->
             IF i = 0 THEN t ELSE Applied(enc, r[i - 1], cs[i])]
  BY ChangingRuns
<1> HIDE DEF r
<1>2. \A i \in 0 .. Len(cs) :
        r[i] = IF i = 0 THEN t ELSE Applied(enc, r[i - 1], cs[i])
  BY <1>1
<1> QED BY <1>2 DEF r

(* One change more.                                                          *)
LEMMA ChangedMore ==
  ASSUME NEW enc, NEW t, NEW S, NEW cs \in Seq(S), NEW c \in S
  PROVE  Changed(enc, t, Append(cs, c)) = Applied(enc, Changed(enc, t, cs), c)
<1> DEFINE ds == Append(cs, c)
           f  == Changing(enc, t, cs)
           g  == Changing(enc, t, ds)
           E  == {i \in Nat : i <= Len(cs) => g[i] = f[i]}
<1>1. /\ Len(cs) \in Nat /\ Len(ds) = Len(cs) + 1 /\ ds[Len(cs) + 1] = c
      /\ \A i \in 1 .. Len(cs) : ds[i] = cs[i]
  BY AppendProperties
<1> HIDE DEF ds
<1>2. /\ f[0] = t
      /\ \A i \in 1 .. Len(cs) : f[i] = Applied(enc, f[i - 1], cs[i])
      /\ g[0] = t
      /\ \A i \in 1 .. Len(ds) : g[i] = Applied(enc, g[i - 1], ds[i])
  BY <1>1, ChangingAt
<1> HIDE DEF f, g
<1>3. Nat \subseteq E
  <2>1. 0 \in E
    BY <1>2
  <2>2. ASSUME NEW n \in Nat, n \in E PROVE n + 1 \in E
    <3>1. SUFFICES ASSUME n + 1 <= Len(cs) PROVE g[n + 1] = f[n + 1]
      OBVIOUS
    <3>2. n + 1 \in 1 .. Len(cs) /\ n + 1 \in 1 .. Len(ds) /\ n + 1 - 1 = n
      BY <1>1, <3>1
    <3>3. g[n] = f[n] /\ ds[n + 1] = cs[n + 1]
      BY <1>1, <2>2, <3>1, <3>2
    <3> QED BY <1>2, <3>2, <3>3
  <2> HIDE DEF E
  <2> QED BY <2>1, <2>2, AllNumbers
<1>4. g[Len(cs)] = f[Len(cs)]
  BY <1>1, <1>3
<1>5. g[Len(ds)] = Applied(enc, g[Len(cs)], c)
  <2>1. Len(ds) \in 1 .. Len(ds) /\ Len(ds) - 1 = Len(cs) /\ ds[Len(ds)] = c
    BY <1>1
  <2> QED BY <1>2, <2>1
<1> QED BY <1>4, <1>5 DEF f, g, ds, Changed

LEMMA ChangedNot ==
  ASSUME NEW enc, NEW t PROVE Changed(enc, t, <<>>) = t
<1>1. Len(<<>>) = 0
  OBVIOUS
<1> QED BY <1>1, ChangingAt DEF Changed

-----------------------------------------------------------------------------
(* What the server will hold once it has read each of the messages.          *)

LEMMA HearingRuns ==
  ASSUME NEW enc, NEW t, NEW out, Len(out) \in Nat
  PROVE  LET r == Hearing(enc, t, out) IN
         r = [i \in 0 .. Len(out) |->
                IF i = 0 THEN t ELSE Heard(enc, r[i - 1], out[i])]
<1> DEFINE Runs(f, n) == f = [i \in 0 .. n |->
              IF i = 0 THEN t ELSE Heard(enc, f[i - 1], out[i])]
           S == {n \in Nat : \E f : Runs(f, n)}
<1>1. 0 \in S
  <2>1. Runs([i \in 0 .. 0 |-> t], 0)
    OBVIOUS
  <2> QED BY <2>1
<1>2. ASSUME NEW n \in Nat, n \in S PROVE n + 1 \in S
  <2>1. PICK f : Runs(f, n)
    BY <1>2
  <2> DEFINE g == [i \in 0 .. n + 1 |->
             IF i = n + 1 THEN Heard(enc, f[n], out[n + 1]) ELSE f[i]]
  <2>2. ASSUME NEW i \in 0 .. n + 1
        PROVE  g[i] = IF i = 0 THEN t ELSE Heard(enc, g[i - 1], out[i])
    <3>1. CASE i = n + 1
      BY <3>1
    <3>2. CASE i \in 0 .. n
      <4>1. f[i] = IF i = 0 THEN t ELSE Heard(enc, f[i - 1], out[i])
        BY <2>1, <3>2
      <4>2. g[i] = f[i] /\ (i # 0 => g[i - 1] = f[i - 1])
        BY <3>2
      <4> QED BY <4>1, <4>2
    <3> QED BY <3>1, <3>2
  <2>3. Runs(g, n + 1)
    <3>1. g = [i \in 0 .. n + 1 |-> g[i]]
      OBVIOUS
    <3> HIDE DEF g
    <3>2. [i \in 0 .. n + 1 |-> g[i]] = [i \in 0 .. n + 1 |->
             IF i = 0 THEN t ELSE Heard(enc, g[i - 1], out[i])]
      BY <2>2, Zenon
    <3> QED BY <3>1, <3>2, Zenon
  <2> HIDE DEF g, Runs
  <2> QED BY <2>3
<1>3. Len(out) \in S
  <2> HIDE DEF S
  <2> QED BY <1>1, <1>2, AllNumbers
<1>4. \E f : Runs(f, Len(out))
  BY <1>3
<1>5. Runs(CHOOSE f : Runs(f, Len(out)), Len(out))
  <2> HIDE DEF Runs
  <2> QED BY <1>4, Zenon
<1> QED BY <1>5, Zenon DEF Hearing

LEMMA HearingAt ==
  ASSUME NEW enc, NEW t, NEW out, Len(out) \in Nat
  PROVE  /\ Hearing(enc, t, out)[0] = t
         /\ \A i \in 1 .. Len(out) :
              Hearing(enc, t, out)[i] =
                Heard(enc, Hearing(enc, t, out)[i - 1], out[i])
<1> DEFINE r == Hearing(enc, t, out)
<1>1. r = [i \in 0 .. Len(out) |->
             IF i = 0 THEN t ELSE Heard(enc, r[i - 1], out[i])]
  BY HearingRuns
<1> HIDE DEF r
<1>2. \A i \in 0 .. Len(out) :
        r[i] = IF i = 0 THEN t ELSE Heard(enc, r[i - 1], out[i])
  BY <1>1
<1> QED BY <1>2 DEF r

(* One message more, and one message read.                                   *)
LEMMA HearingMore ==
  ASSUME NEW enc, NEW t, NEW S, NEW out \in Seq(S), NEW m \in S
  PROVE  /\ \A i \in 0 .. Len(out) : Hearing(enc, t, Append(out, m))[i]
                                       = Hearing(enc, t, out)[i]
         /\ Hearing(enc, t, Append(out, m))[Len(out) + 1]
              = Heard(enc, Hearing(enc, t, out)[Len(out)], m)
<1> DEFINE more == Append(out, m)
           f == Hearing(enc, t, out)
           g == Hearing(enc, t, more)
           E == {i \in Nat : i <= Len(out) => g[i] = f[i]}
<1>1. /\ Len(out) \in Nat /\ Len(more) = Len(out) + 1
      /\ more[Len(out) + 1] = m
      /\ \A i \in 1 .. Len(out) : more[i] = out[i]
  BY AppendProperties
<1> HIDE DEF more
<1>2. /\ f[0] = t
      /\ \A i \in 1 .. Len(out) : f[i] = Heard(enc, f[i - 1], out[i])
      /\ g[0] = t
      /\ \A i \in 1 .. Len(more) : g[i] = Heard(enc, g[i - 1], more[i])
  BY <1>1, HearingAt
<1> HIDE DEF f, g
<1>3. Nat \subseteq E
  <2>1. 0 \in E
    BY <1>2
  <2>2. ASSUME NEW n \in Nat, n \in E PROVE n + 1 \in E
    <3>1. SUFFICES ASSUME n + 1 <= Len(out) PROVE g[n + 1] = f[n + 1]
      OBVIOUS
    <3>2. n + 1 \in 1 .. Len(out) /\ n + 1 \in 1 .. Len(more) /\ n + 1 - 1 = n
      BY <1>1, <3>1
    <3>3. g[n] = f[n] /\ more[n + 1] = out[n + 1]
      BY <1>1, <2>2, <3>1, <3>2
    <3> QED BY <1>2, <3>2, <3>3
  <2> HIDE DEF E
  <2> QED BY <2>1, <2>2, AllNumbers
<1>4. \A i \in 0 .. Len(out) : g[i] = f[i]
  BY <1>1, <1>3
<1>5. g[Len(more)] = Heard(enc, g[Len(out)], m)
  <2>1. Len(more) \in 1 .. Len(more) /\ Len(more) - 1 = Len(out)
        /\ more[Len(more)] = m
    BY <1>1
  <2> QED BY <1>2, <2>1
<1>6. Len(out) \in 0 .. Len(out)
  BY <1>1
<1> QED BY <1>1, <1>4, <1>5, <1>6 DEF f, g, more

LEMMA HearingNext ==
  ASSUME NEW enc, NEW t, NEW S, NEW out \in Seq(S), out # <<>>
  PROVE  \A i \in 0 .. Len(out) - 1 :
           Hearing(enc, Heard(enc, t, Head(out)), Tail(out))[i]
             = Hearing(enc, t, out)[i + 1]
<1> DEFINE rest == Tail(out)
           u == Heard(enc, t, Head(out))
           f == Hearing(enc, t, out)
           g == Hearing(enc, u, rest)
           E == {i \in Nat : i <= Len(rest) => g[i] = f[i + 1]}
<1>1. /\ Len(out) \in Nat \ {0} /\ Len(rest) = Len(out) - 1
      /\ Head(out) = out[1]
      /\ \A i \in 1 .. Len(rest) : rest[i] = out[i + 1]
  OBVIOUS
<1> HIDE DEF rest
<1>2. /\ f[0] = t /\ f[1] = u
      /\ \A i \in 1 .. Len(out) : f[i] = Heard(enc, f[i - 1], out[i])
      /\ g[0] = u
      /\ \A i \in 1 .. Len(rest) : g[i] = Heard(enc, g[i - 1], rest[i])
  <2>1. 1 \in 1 .. Len(out) /\ 1 - 1 = 0 /\ Len(rest) \in Nat
    BY <1>1
  <2> QED BY <1>1, <2>1, HearingAt
<1> HIDE DEF f, g, u
<1>3. Nat \subseteq E
  <2>1. 0 \in E
    BY <1>2
  <2>2. ASSUME NEW n \in Nat, n \in E PROVE n + 1 \in E
    <3>1. SUFFICES ASSUME n + 1 <= Len(rest) PROVE g[n + 1] = f[n + 1 + 1]
      OBVIOUS
    <3>2. /\ n + 1 \in 1 .. Len(rest) /\ n + 1 + 1 \in 1 .. Len(out)
          /\ n + 1 - 1 = n /\ n + 1 + 1 - 1 = n + 1
      BY <1>1, <3>1
    <3>3. g[n] = f[n + 1] /\ rest[n + 1] = out[n + 1 + 1]
      BY <1>1, <2>2, <3>1, <3>2
    <3>4. g[n + 1] = Heard(enc, g[n], rest[n + 1])
      BY <1>2, <3>2
    <3>5. f[n + 1 + 1] = Heard(enc, f[n + 1], out[n + 1 + 1])
      BY <1>2, <3>2
    <3> QED BY <3>3, <3>4, <3>5
  <2> HIDE DEF E
  <2> QED BY <2>1, <2>2, AllNumbers
<1>4. \A i \in 0 .. Len(out) - 1 : g[i] = f[i + 1]
  BY <1>1, <1>3
<1> QED BY <1>4 DEF f, g, u, rest

LEMMA HearingNone ==
  ASSUME NEW enc, NEW t PROVE Hearing(enc, t, <<>>)[0] = t
<1>1. Len(<<>>) = 0
  OBVIOUS
<1> QED BY <1>1, HearingAt


-----------------------------------------------------------------------------
(* A position determines the place it was computed from, in either encoding. *)

Ends(t, k)    == {i \in 1 .. k : t[i] = Newline}
Bol(E)        == IF E = {} THEN 0 ELSE CHOOSE i \in E : \A j \in E : j <= i
Wides(t, b, k) == {i \in b + 1 .. k : t[i] = Wide}

LEMMA BolBefore ==
  ASSUME NEW k \in Nat, NEW E, E \subseteq 1 .. k
  PROVE  Bol(E) \in 0 .. k
<1>1. CASE E = {}
  BY <1>1 DEF Bol
<1>2. CASE E # {}
  <2> DEFINE D == {k - i : i \in E}
  <2>1. D \subseteq Nat /\ D # {}
    <3>1. \A i \in E : k - i \in Nat
      OBVIOUS
    <3> QED BY <1>2, <3>1
  <2>2. PICK x \in D : \A y \in D : x <= y
    <3> HIDE DEF D
    <3> QED BY <2>1, LeastExists
  <2>3. PICK i \in E : x = k - i
    BY <2>2
  <2>4. \A j \in E : j <= i
    BY <2>2, <2>3
  <2>5. Bol(E) \in E
    BY <1>2, <2>3, <2>4, Zenon DEF Bol
  <2>6. Bol(E) \in 1 .. k
    BY <2>5, Zenon
  <2> QED BY <2>6
<1> QED BY <1>1, <1>2

LEMMA PosOfIs ==
  ASSUME NEW enc, NEW t, NEW k
  PROVE  LET b == Bol(Ends(t, k)) IN
         PosOf(enc, t, k) =
           <<Cardinality(Ends(t, k)),
             k - b + (Columns(enc, Wide) - 1) * Cardinality(Wides(t, b, k))>>
BY DEF PosOf, Bol, Ends, Wides

LEMMA PosFits ==
  ASSUME NEW enc \in Encodings, NEW t, NEW k \in Nat
  PROVE  /\ IsFiniteSet(Ends(t, k)) /\ Cardinality(Ends(t, k)) \in Nat
         /\ Bol(Ends(t, k)) \in 0 .. k
         /\ \A b \in Nat : /\ IsFiniteSet(Wides(t, b, k))
                           /\ Cardinality(Wides(t, b, k)) \in Nat
         /\ Columns(enc, Wide) - 1 \in {1, 3}
<1>1. IsFiniteSet(1 .. k) /\ Ends(t, k) \in SUBSET (1 .. k)
  BY FS_Interval DEF Ends
<1>2. ASSUME NEW b \in Nat
      PROVE  /\ IsFiniteSet(Wides(t, b, k))
             /\ Cardinality(Wides(t, b, k)) \in Nat
  <2>1. Wides(t, b, k) \in SUBSET (1 .. k)
    BY DEF Wides
  <2> QED BY <1>1, <2>1, FS_Subset, FS_CardinalityType
<1>3. IsFiniteSet(Ends(t, k)) /\ Cardinality(Ends(t, k)) \in Nat
  BY <1>1, FS_Subset, FS_CardinalityType
<1>4. Columns(enc, Wide) - 1 \in {1, 3}
  BY DEF Encodings, Columns, Wide
<1> QED BY <1>1, <1>2, <1>3, <1>4, BolBefore

LEMMA PosGrows ==
  ASSUME NEW enc \in Encodings, NEW t, NEW k \in Nat, NEW l \in Nat, k < l
  PROVE  PosOf(enc, t, k) # PosOf(enc, t, l)
<1>1. SUFFICES ASSUME PosOf(enc, t, k) = PosOf(enc, t, l) PROVE FALSE
  OBVIOUS
<1>2. Ends(t, k) \in SUBSET Ends(t, l)
  BY DEF Ends
<1>3. Cardinality(Ends(t, k)) = Cardinality(Ends(t, l))
  BY <1>1, PosOfIs
<1>4. Ends(t, k) = Ends(t, l)
  BY <1>2, <1>3, PosFits, FS_Subset
<1> DEFINE b == Bol(Ends(t, k))
           w == Columns(enc, Wide) - 1
           m == Cardinality(Wides(t, b, k))
           n == Cardinality(Wides(t, b, l))
<1>5. k - b + w * m = l - b + w * n
  BY <1>1, <1>4, PosOfIs
<1>6. b \in Nat /\ w \in {1, 3} /\ m \in Nat /\ n \in Nat
  <2>1. b \in Nat /\ w \in {1, 3}
    BY PosFits
  <2> HIDE DEF b, w
  <2> QED BY <2>1, PosFits
<1>7. m <= n
  <2>1. Wides(t, b, k) \in SUBSET Wides(t, b, l)
    BY <1>6 DEF Wides
  <2> QED BY <1>6, <2>1, PosFits, FS_Subset
<1> HIDE DEF b, w, m, n
<1>8. CASE w = 1
  BY <1>5, <1>6, <1>7, <1>8
<1>9. CASE w = 3
  BY <1>5, <1>6, <1>7, <1>9
<1> QED BY <1>6, <1>8, <1>9

(* The server finds the place again in the text it was computed in.          *)
LEMMA PlaceFound ==
  ASSUME NEW enc \in Encodings, NEW t \in Seq(Chars), NEW k \in 0 .. Len(t)
  PROVE  OffOf(enc, t, PosOf(enc, t, k)) = k
<1> DEFINE at == {l \in 0 .. Len(t) : PosOf(enc, t, l) = PosOf(enc, t, k)}
<1>1. k \in at /\ \A l \in at : l = k
  <2>1. k \in at
    OBVIOUS
  <2>2. ASSUME NEW l \in at, l # k PROVE FALSE
    <3>1. l \in Nat /\ k \in Nat /\ (l < k \/ k < l)
      BY <2>2
    <3> QED BY <2>2, <3>1, PosGrows
  <2> QED BY <2>1, <2>2
<1>2. OffOf(enc, t, PosOf(enc, t, k)) = IF at = {} THEN Len(t)
                                        ELSE CHOOSE l \in at : TRUE
  BY Zenon DEF OffOf
<1> HIDE DEF at
<1> QED BY <1>1, <1>2

LEMMA ReplacedText ==
  ASSUME NEW t \in Seq(Chars), NEW lo \in 0 .. Len(t), NEW hi \in lo .. Len(t),
         NEW ins \in Seq(Chars)
  PROVE  Replaced(t, lo, hi, ins) \in Seq(Chars)
<1>1. SubSeq(t, 1, lo) \in Seq(Chars)
  <2>1. \A i \in 1 .. lo : t[i] \in Chars
    BY ElementOfSeq, LenProperties
  <2> QED BY <2>1, SubSeqProperties, LenProperties
<1>2. SubSeq(t, hi + 1, Len(t)) \in Seq(Chars)
  <2>1. \A i \in hi + 1 .. Len(t) : t[i] \in Chars
    BY ElementOfSeq, LenProperties
  <2> QED BY <2>1, SubSeqProperties, LenProperties
<1> QED BY <1>1, <1>2, ConcatProperties DEF Replaced


-----------------------------------------------------------------------------
(* The invariant.                                                            *)

Questions   == {"init", "ask", "shutdown"}
ChangeType  == [from : Nat \X Int, to : Nat \X Int, ins : Seq(Chars)]
MessageType == [op : {"open", "text"}, text : Seq(Chars)]
                 \cup [op : {"change"}, changes : Seq(ChangeType)]
                 \cup [op : {"close", "exit"}] \cup [op : Questions, id : Nat]
CallType    == [id : Nat, what : Questions, gen : Nat, life : Nat]

(* What a document may be: no change is kept while the whole text is owed.   *)
DocFits(d) ==
  /\ DOMAIN d = {"on", "open", "full", "pending"}
  /\ d.on \in BOOLEAN /\ d.open \in BOOLEAN /\ d.full \in BOOLEAN
  /\ d.pending \in Seq(ChangeType) /\ Len(d.pending) <= PendingMax
  /\ d.full => d.pending = <<>>
  /\ d.open => d.on

(* What a server may be, apart from its process.                             *)
SrvFits(s) ==
  /\ DOMAIN s = {"state", "gave_up", "restarts", "exit", "timed", "due",
                 "kind", "enc", "job", "run"}
  /\ s.state \in {"none", "init", "ready", "dead", "stopping"}
  /\ s.gave_up \in BOOLEAN /\ s.restarts \in 0 .. Tries
  /\ s.exit \in BOOLEAN /\ s.timed \in BOOLEAN /\ s.due \in BOOLEAN
  /\ s.kind \in 0 .. 2 /\ s.enc \in Encodings /\ s.job \in Nat
  /\ s.run \in {"none", "running", "exited", "execfail"}
  /\ s.restarts = Tries => s.gave_up
  /\ s.state \in {"none", "init", "ready"} => ~s.gave_up

WireFits(w) ==
  /\ DOMAIN w = {"live", "out", "in", "calls", "next", "shut"}
  /\ w.live \in BOOLEAN /\ w.shut \in {"no", "yes", "stuck"}
  /\ w.out \in Seq(MessageType) /\ w.calls \subseteq CallType
  /\ w.next \in Nat \ {0}
  /\ w.shut # "no" \/ w.calls # {} => w.live

Shapes ==
  /\ buf \in [text : Seq(Chars), gen : Nat, loaded : BOOLEAN, life : Nat]
  /\ DocFits(doc) /\ SrvFits(srv) /\ WireFits(wire)
  /\ DOMAIN peer = {"alive", "told", "enc", "copy"}
  /\ DOMAIN used = {"edits", "asks", "upsets", "stops", "tried"}
  /\ used.edits \in 0 .. MaxEdits /\ buf.gen <= used.edits
  /\ phase \in {"poll", "events", "keys"}

(* A document is open only at a server that was ready, and then always; a    *)
(* server that is ready has greeted.                                         *)
DocAgrees ==
  /\ doc.on => buf.loaded
  /\ doc.open => srv.state \in {"ready", "stopping"}
  /\ Ready /\ doc.on => doc.open
  /\ doc.open \/ Ready => \A c \in wire.calls : c.what # "init"
  /\ \A c, d \in wire.calls : c.what = "init" /\ d.what = "init" => c = d

(* The connection goes with the last job, and that one keeps it while it     *)
(* runs; between two turns a server that is ready runs.                      *)
JobAgrees ==
  /\ owners \subseteq {srv.job} /\ owners \subseteq 1 .. srv.job
  /\ peer.alive => srv.run = "running"
  /\ srv.run = "running" => wire.live
  /\ Ready /\ phase # "events" => srv.run = "running"
  /\ Ready \/ srv.state = "init" => wire.shut = "no"
  /\ srv.run = "execfail" => wire.in = {} /\ ~doc.open /\ ~Ready
  /\ srv.state = "none" => owners = {} /\ srv.run = "none"

(* Questions and answers belong to the calls with their numbers.             *)
Asking(m) == m.op \in Questions

Numbered(w) ==
  /\ \A c, d \in w.calls : c.id = d.id => c = d
  /\ \A c \in w.calls : c.id \in 1 .. w.next - 1
  /\ \A i \in 1 .. Len(w.out) : Asking(w.out[i]) =>
       /\ w.out[i].id \in 1 .. w.next - 1
       /\ \A c \in w.calls : c.id = w.out[i].id => c.what = w.out[i].op
  /\ \A a \in w.in :
       /\ a.id \in 1 .. w.next - 1
       /\ \A c \in w.calls : c.id = a.id => c.what = a.what

(* Until the server has read the greeting nothing is said of the document.   *)
Greeted(w)  == \A i \in 1 .. Len(w.out) : w.out[i].op # "init"
Greeting(w) ==
  \A i \in 1 .. Len(w.out) : w.out[i].op = "init" =>
    /\ i = 1 /\ \A a \in w.in : a.what # "init"
    /\ \A j \in 1 .. Len(w.out) :
         w.out[j].op \in {"init", "shutdown", "exit"}

Answered(w, p) ==
  \A a \in w.in : a.what = "init" =>
    a.enc = p.enc /\ a.enc \in Encodings /\ a.kind \in 0 .. 2

(* What the server answers to a call about the text the buffer holds is      *)
(* about that text.                                                          *)
Heeded(w, p) == Hearing(p.enc, p.copy, w.out)

Timely(c, w, p, b) ==
  /\ \A a \in w.in : a.id = c.id => a.seen = b.text
  /\ p.alive => \A i \in 1 .. Len(w.out) :
       w.out[i].op = "ask" /\ w.out[i].id = c.id =>
         Heeded(w, p)[i - 1] = b.text

Fresh(w, p, b) ==
  \A c \in w.calls :
    /\ c.life <= b.life
    /\ c.what = "ask" /\ b.loaded /\ c.life = b.life =>
         c.gen <= b.gen /\ (c.gen = b.gen => Timely(c, w, p, b))

(* What the server will hold with the changes of d, when all is read, is t.  *)
Mirrors(t, d, w, p) ==
  Changed(p.enc, Heeded(w, p)[Len(w.out)], d.pending) = t

ClientInv == Shapes /\ DocAgrees /\ JobAgrees
WireInv   ==
  /\ Numbered(wire) /\ Greeting(wire) /\ Answered(wire, peer)
  /\ Ready => Greeted(wire) /\ srv.enc = peer.enc /\ srv.kind # 0
TextInv   ==
  /\ Ready /\ doc.open /\ ~doc.full /\ peer.alive
       => Mirrors(buf.text, doc, wire, peer)
  /\ Fresh(wire, peer, buf) /\ AnswerFresh
LspInv    == ClientInv /\ WireInv /\ TextInv


-----------------------------------------------------------------------------
(* What happens to the connection: a message is sent that asks nothing ...   *)

Sending(w, m) == [w EXCEPT !.out = Append(@, m)]

LEMMA SendIs ==
  ASSUME NEW w, WireFits(w), NEW m \in MessageType
  PROVE  LET v == Sending(w, m) IN
         /\ WireFits(v)
         /\ v.in = w.in /\ v.calls = w.calls /\ v.next = w.next
         /\ v.live = w.live /\ v.shut = w.shut
         /\ v.out = Append(w.out, m) /\ Len(w.out) \in Nat
         /\ Len(v.out) = Len(w.out) + 1 /\ v.out[Len(w.out) + 1] = m
         /\ \A i \in 1 .. Len(w.out) : v.out[i] = w.out[i]
<1> DEFINE v == Sending(w, m)
<1>1. /\ DOMAIN v = DOMAIN w /\ v.out = Append(w.out, m)
      /\ v.in = w.in /\ v.calls = w.calls /\ v.next = w.next
      /\ v.live = w.live /\ v.shut = w.shut
  BY DEF WireFits, Sending
<1>2. /\ v.out \in Seq(MessageType) /\ Len(w.out) \in Nat
      /\ Len(v.out) = Len(w.out) + 1 /\ v.out[Len(w.out) + 1] = m
      /\ \A i \in 1 .. Len(w.out) : v.out[i] = w.out[i]
  <2> HIDE DEF v
  <2> QED BY <1>1, AppendProperties, LenProperties DEF WireFits
<1> HIDE DEF v
<1>3. WireFits(v)
  BY <1>1, <1>2 DEF WireFits
<1> QED BY <1>1, <1>2, <1>3 DEF v

LEMMA SendNumbered ==
  ASSUME NEW w, WireFits(w), NEW m \in MessageType, Numbered(w),
         Asking(m) => /\ m.id \in 1 .. w.next - 1
                      /\ \A c \in w.calls : c.id = m.id => c.what = m.op
  PROVE  Numbered(Sending(w, m))
<1> DEFINE v == Sending(w, m)
<1>1. /\ v.in = w.in /\ v.calls = w.calls /\ v.next = w.next
      /\ Len(v.out) = Len(w.out) + 1 /\ v.out[Len(w.out) + 1] = m
      /\ \A i \in 1 .. Len(w.out) : v.out[i] = w.out[i]
      /\ Len(w.out) \in Nat
  BY SendIs
<1> HIDE DEF v
<1>2. ASSUME NEW i \in 1 .. Len(v.out), Asking(v.out[i])
      PROVE  /\ v.out[i].id \in 1 .. v.next - 1
             /\ \A c \in v.calls : c.id = v.out[i].id => c.what = v.out[i].op
  <2>1. CASE i \in 1 .. Len(w.out)
    BY <1>1, <1>2, <2>1 DEF Numbered
  <2>2. CASE i = Len(w.out) + 1
    BY <1>1, <1>2, <2>2
  <2> QED BY <1>1, <2>1, <2>2
<1>3. Numbered(v)
  BY <1>1, <1>2 DEF Numbered
<1> QED BY <1>3 DEF v

LEMMA SendGreeting ==
  ASSUME NEW w, WireFits(w), NEW m \in MessageType, m.op # "init"
  PROVE  /\ Greeted(w) => Greeted(Sending(w, m)) /\ Greeting(Sending(w, m))
         /\ Greeting(w) /\ m.op \in {"shutdown", "exit"}
              => Greeting(Sending(w, m))
<1> DEFINE v == Sending(w, m)
<1>1. /\ v.in = w.in /\ Len(v.out) = Len(w.out) + 1
      /\ v.out[Len(w.out) + 1] = m
      /\ \A i \in 1 .. Len(w.out) : v.out[i] = w.out[i]
      /\ Len(w.out) \in Nat
  BY SendIs
<1> HIDE DEF v
<1>2. ASSUME Greeted(w) PROVE Greeted(v)
  BY <1>1, <1>2 DEF Greeted
<1>3. ASSUME Greeting(w), m.op \in {"shutdown", "exit"},
             NEW i \in 1 .. Len(v.out), v.out[i].op = "init"
      PROVE  /\ i = 1 /\ \A a \in v.in : a.what # "init"
             /\ \A j \in 1 .. Len(v.out) :
                  v.out[j].op \in {"init", "shutdown", "exit"}
  <2>1. i \in 1 .. Len(w.out) /\ w.out[i].op = "init"
    BY <1>1, <1>3
  <2>2. /\ i = 1 /\ \A a \in w.in : a.what # "init"
        /\ \A j \in 1 .. Len(w.out) :
             w.out[j].op \in {"init", "shutdown", "exit"}
    BY <1>3, <2>1 DEF Greeting
  <2> QED BY <1>1, <1>3, <2>2
<1>4. Greeting(w) /\ m.op \in {"shutdown", "exit"} => Greeting(v)
  BY <1>3 DEF Greeting
<1>5. Greeted(v) => Greeting(v)
  BY DEF Greeted, Greeting
<1> QED BY <1>2, <1>4, <1>5 DEF v

LEMMA SendHeeded ==
  ASSUME NEW w, NEW p, WireFits(w), NEW m \in MessageType
  PROVE  /\ \A i \in 0 .. Len(w.out) :
              Heeded(Sending(w, m), p)[i] = Heeded(w, p)[i]
         /\ Heeded(Sending(w, m), p)[Len(Sending(w, m).out)] =
              Heard(p.enc, Heeded(w, p)[Len(w.out)], m)
<1>1. /\ w.out \in Seq(MessageType) /\ Sending(w, m).out = Append(w.out, m)
      /\ Len(Sending(w, m).out) = Len(w.out) + 1
  <2>1. w.out \in Seq(MessageType)
    BY DEF WireFits
  <2> QED BY <2>1, SendIs
<1> QED BY <1>1, HearingMore DEF Heeded

LEMMA SendFresh ==
  ASSUME NEW w, NEW p, NEW b, WireFits(w), NEW m \in MessageType,
         Fresh(w, p, b),
         m.op = "ask" => \A c \in w.calls : c.id # m.id
  PROVE  Fresh(Sending(w, m), p, b)
<1>0. ASSUME NEW i \in 0 .. Len(w.out)
      PROVE  Heeded(Sending(w, m), p)[i] = Heeded(w, p)[i]
  BY SendHeeded
<1> DEFINE v == Sending(w, m)
<1>1. /\ v.in = w.in /\ v.calls = w.calls
      /\ Len(v.out) = Len(w.out) + 1 /\ v.out[Len(w.out) + 1] = m
      /\ \A i \in 1 .. Len(w.out) : v.out[i] = w.out[i]
      /\ Len(w.out) \in Nat
  BY SendIs
<1>2. \A i \in 0 .. Len(w.out) : Heeded(v, p)[i] = Heeded(w, p)[i]
  BY <1>0
<1> HIDE DEF v
<1>3. ASSUME NEW c \in w.calls, Timely(c, w, p, b) PROVE Timely(c, v, p, b)
  <2>1. ASSUME p.alive, NEW i \in 1 .. Len(v.out),
               v.out[i].op = "ask", v.out[i].id = c.id
        PROVE  Heeded(v, p)[i - 1] = b.text
    <3>1. i \in 1 .. Len(w.out) /\ i - 1 \in 0 .. Len(w.out)
      BY <1>1, <2>1
    <3>2. w.out[i].op = "ask" /\ w.out[i].id = c.id
      BY <1>1, <2>1, <3>1
    <3>3. Heeded(w, p)[i - 1] = b.text
      BY <1>3, <2>1, <3>1, <3>2 DEF Timely
    <3> QED BY <1>2, <3>1, <3>3
  <2> QED BY <1>1, <1>3, <2>1 DEF Timely
<1>4. Fresh(v, p, b)
  BY <1>1, <1>3 DEF Fresh
<1> QED BY <1>4 DEF v

(* ... a call is made ...                                                    *)
Noting(w, c) == [w EXCEPT !.calls = @ \cup {c}, !.next = @ + 1]

LEMMA NoteIs ==
  ASSUME NEW w, WireFits(w), w.live, NEW c \in CallType
  PROVE  LET v == Noting(w, c) IN
         /\ WireFits(v)
         /\ v.in = w.in /\ v.calls = w.calls \cup {c} /\ v.next = w.next + 1
         /\ v.live = w.live /\ v.shut = w.shut /\ v.out = w.out
<1> DEFINE v == Noting(w, c)
<1>1. /\ DOMAIN v = DOMAIN w
      /\ v.in = w.in /\ v.calls = w.calls \cup {c} /\ v.next = w.next + 1
      /\ v.live = w.live /\ v.shut = w.shut /\ v.out = w.out
  BY DEF WireFits, Noting
<1> HIDE DEF v
<1>2. WireFits(v)
  BY <1>1 DEF WireFits
<1> QED BY <1>1, <1>2 DEF v

LEMMA NoteNumbered ==
  ASSUME NEW w, WireFits(w), w.live, NEW c \in CallType, Numbered(w),
         c.id = w.next
  PROVE  Numbered(Noting(w, c))
<1> DEFINE v == Noting(w, c)
<1>1. /\ v.in = w.in /\ v.calls = w.calls \cup {c} /\ v.next = w.next + 1
      /\ v.out = w.out
  BY NoteIs
<1>2. /\ w.next \in Nat /\ w.next \notin 1 .. w.next - 1
      /\ \A i \in 1 .. w.next - 1 : i \in 1 .. v.next - 1
      /\ w.next \in 1 .. v.next - 1
  BY <1>1 DEF WireFits
<1> HIDE DEF v
<1>3. \A d, e \in v.calls : d.id = e.id => d = e
  BY <1>1, <1>2 DEF Numbered
<1>4. \A d \in v.calls : d.id \in 1 .. v.next - 1
  <2>1. \A d \in w.calls : d.id \in 1 .. w.next - 1
    BY DEF Numbered
  <2>2. ASSUME NEW d \in v.calls PROVE d.id \in 1 .. v.next - 1
    <3>1. CASE d \in w.calls
      BY <1>2, <2>1, <3>1
    <3>2. CASE d = c
      BY <1>2, <3>2
    <3> QED BY <1>1, <3>1, <3>2
  <2> QED BY <2>2
<1>5. ASSUME NEW i \in 1 .. Len(v.out), Asking(v.out[i])
      PROVE  /\ v.out[i].id \in 1 .. v.next - 1
             /\ \A d \in v.calls : d.id = v.out[i].id => d.what = v.out[i].op
  BY <1>1, <1>2, <1>5 DEF Numbered
<1>6. ASSUME NEW a \in v.in
      PROVE  /\ a.id \in 1 .. v.next - 1
             /\ \A d \in v.calls : d.id = a.id => d.what = a.what
  BY <1>1, <1>2, <1>6 DEF Numbered
<1>7. Numbered(v)
  BY <1>3, <1>4, <1>5, <1>6 DEF Numbered
<1> QED BY <1>7 DEF v

LEMMA NoteFresh ==
  ASSUME NEW w, WireFits(w), w.live, NEW c \in CallType, NEW p, NEW b,
         Fresh(w, p, b), c.life <= b.life,
         c.what = "ask" /\ b.loaded /\ c.life = b.life =>
           c.gen <= b.gen /\ (c.gen = b.gen => Timely(c, w, p, b))
  PROVE  Fresh(Noting(w, c), p, b)
<1> DEFINE v == Noting(w, c)
<1>1. v.in = w.in /\ v.calls = w.calls \cup {c} /\ v.out = w.out
  BY NoteIs
<1> HIDE DEF v
<1>2. \A d \in v.calls : Timely(d, w, p, b) <=> Timely(d, v, p, b)
  BY <1>1 DEF Timely, Heeded
<1>3. Fresh(v, p, b)
  BY <1>1, <1>2 DEF Fresh
<1> QED BY <1>3 DEF v

(* ... and answers and calls go.                                             *)
LEMMA DropKeeps ==
  ASSUME NEW w, NEW v, NEW p, NEW b,
         v.out = w.out, v.in \subseteq w.in, v.calls \subseteq w.calls,
         v.next = w.next
  PROVE  /\ Numbered(w) => Numbered(v)
         /\ Greeting(w) => Greeting(v)
         /\ Greeted(w) => Greeted(v)
         /\ Answered(w, p) => Answered(v, p)
         /\ Fresh(w, p, b) => Fresh(v, p, b)
<1>1. Numbered(w) => Numbered(v)
  BY DEF Numbered
<1>2. (Greeting(w) => Greeting(v)) /\ (Greeted(w) => Greeted(v))
  BY DEF Greeting, Greeted
<1>3. Answered(w, p) => Answered(v, p)
  BY DEF Answered
<1>4. Fresh(w, p, b) => Fresh(v, p, b)
  BY DEF Fresh, Timely, Heeded
<1> QED BY <1>1, <1>2, <1>3, <1>4


(* What is owed is flushed: nothing, the whole text or the changes.          *)
FlushMsg(d) == IF srv.kind = 1 \/ d.full
               THEN [op |-> "text", text |-> buf.text]
               ELSE [op |-> "change", changes |-> d.pending]

Flush(w, d) == [w EXCEPT !.out = @ \o FlushMsgs(d)]

LEMMA FlushIs ==
  ASSUME Shapes, NEW d, DocFits(d), NEW w, WireFits(w), Owes(d)
  PROVE  /\ FlushMsg(d) \in MessageType /\ FlushMsg(d).op \in {"text", "change"}
         /\ Flush(w, d) = Sending(w, FlushMsg(d))
<1>1. FlushMsg(d) \in MessageType /\ FlushMsg(d).op \in {"text", "change"}
  <2>1. CASE srv.kind = 1 \/ d.full
    <3>1. FlushMsg(d) = [op |-> "text", text |-> buf.text]
      BY <2>1 DEF FlushMsg
    <3>2. buf.text \in Seq(Chars)
      BY DEF Shapes
    <3> QED BY <3>1, <3>2 DEF MessageType
  <2>2. CASE ~(srv.kind = 1 \/ d.full)
    <3>1. FlushMsg(d) = [op |-> "change", changes |-> d.pending]
      BY <2>2 DEF FlushMsg
    <3>2. d.pending \in Seq(ChangeType)
      BY DEF DocFits
    <3> QED BY <3>1, <3>2 DEF MessageType
  <2> QED BY <2>1, <2>2
<1> DEFINE m == FlushMsg(d)
<1>2. FlushMsgs(d) = <<m>>
  BY DEF FlushMsgs, FlushMsg
<1> HIDE DEF m
<1>3. w.out \in Seq(MessageType)
  BY DEF WireFits
<1>4. Append(w.out, m) = w.out \o <<m>>
  BY <1>1, <1>3, AppendIsConcat DEF m
<1>5. Flush(w, d) = Sending(w, m)
  BY <1>2, <1>4 DEF Flush, Sending
<1> QED BY <1>1, <1>5 DEF m

LEMMA FlushNot ==
  ASSUME NEW d, NEW w, WireFits(w), ~Owes(d)
  PROVE  LET v == Flush(w, d) IN
         /\ WireFits(v)
         /\ v.in = w.in /\ v.calls = w.calls /\ v.next = w.next
         /\ v.live = w.live /\ v.shut = w.shut /\ v.out = w.out
<1>1. w.out \in Seq(MessageType)
  BY DEF WireFits
<1>2. w.out \o FlushMsgs(d) = w.out
  BY <1>1, ConcatEmptySeq DEF FlushMsgs
<1> DEFINE v == Flush(w, d)
<1>3. /\ DOMAIN v = DOMAIN w
      /\ v.in = w.in /\ v.calls = w.calls /\ v.next = w.next
      /\ v.live = w.live /\ v.shut = w.shut /\ v.out = w.out
  BY <1>2 DEF Flush, WireFits
<1> HIDE DEF v
<1>4. WireFits(v)
  BY <1>3 DEF WireFits
<1> QED BY <1>3, <1>4 DEF v

LEMMA Flushing ==
  ASSUME Shapes, NEW d, DocFits(d), NEW w, WireFits(w), NEW v,
         v = Flush(w, d)
  PROVE  /\ WireFits(v)
         /\ v.in = w.in /\ v.calls = w.calls /\ v.next = w.next
         /\ v.live = w.live /\ v.shut = w.shut
         /\ Numbered(w) => Numbered(v)
<1>1. CASE Owes(d)
  <2> DEFINE m == FlushMsg(d)
  <2>1. v = Sending(w, m) /\ m \in MessageType /\ m.op \in {"text", "change"}
    BY <1>1, FlushIs
  <2> HIDE DEF m
  <2>2. m.op # "ask" /\ m.op # "init" /\ ~Asking(m)
    BY <2>1 DEF Asking, Questions
  <2>3. /\ WireFits(v)
        /\ v.in = w.in /\ v.calls = w.calls /\ v.next = w.next
        /\ v.live = w.live /\ v.shut = w.shut
    BY <2>1, SendIs
  <2>4. Numbered(w) => Numbered(v)
    BY <2>1, <2>2, SendNumbered
  <2> QED BY <2>3, <2>4
<1>2. CASE ~Owes(d)
  <2>1. /\ WireFits(v)
        /\ v.in = w.in /\ v.calls = w.calls /\ v.next = w.next
        /\ v.live = w.live /\ v.shut = w.shut /\ v.out = w.out
    BY <1>2, FlushNot
  <2>2. Numbered(w) => Numbered(v)
    BY <2>1, DropKeeps
  <2> QED BY <2>1, <2>2
<1> QED BY <1>1, <1>2

LEMMA FlushingTexts ==
  ASSUME Shapes, NEW d, DocFits(d), NEW w, WireFits(w), NEW v,
         v = Flush(w, d), NEW p, NEW b
  PROVE  /\ Greeted(w) => Greeted(v) /\ Greeting(v)
         /\ Fresh(w, p, b) => Fresh(v, p, b)
         /\ d.open /\ (d.full \/ Mirrors(buf.text, d, w, p))
              => Heeded(v, p)[Len(v.out)] = buf.text
<1>1. CASE Owes(d)
  <2> DEFINE m == FlushMsg(d)
  <2>1. v = Sending(w, m) /\ m \in MessageType /\ m.op \in {"text", "change"}
    BY <1>1, FlushIs
  <2>2. m = FlushMsg(d)
    OBVIOUS
  <2> HIDE DEF m
  <2>3. Fresh(w, p, b) => Fresh(v, p, b)
    <3>1. m.op # "ask"
      BY <2>1
    <3> QED BY <2>1, <3>1, SendFresh
  <2>4. ASSUME d.full \/ Mirrors(buf.text, d, w, p)
        PROVE  Heeded(v, p)[Len(v.out)] = buf.text
    <3>1. Heeded(v, p)[Len(v.out)] = Heard(p.enc, Heeded(w, p)[Len(w.out)], m)
      BY <2>1, SendHeeded
    <3>2. CASE srv.kind = 1 \/ d.full
      <4>1. m.op = "text" /\ m.text = buf.text
        BY <2>2, <3>2 DEF FlushMsg
      <4> QED BY <3>1, <4>1 DEF Heard
    <3>3. CASE ~(srv.kind = 1 \/ d.full)
      <4>1. m.op = "change" /\ m.changes = d.pending
        BY <2>2, <3>3 DEF FlushMsg
      <4>2. Heeded(v, p)[Len(v.out)]
              = Changed(p.enc, Heeded(w, p)[Len(w.out)], d.pending)
        BY <3>1, <4>1 DEF Heard
      <4> QED BY <2>4, <3>3, <4>2 DEF Mirrors
    <3> QED BY <3>2, <3>3
  <2>5. Greeted(w) => Greeted(v) /\ Greeting(v)
    <3>1. m.op # "init"
      BY <2>1
    <3> QED BY <2>1, <3>1, SendGreeting
  <2> QED BY <2>3, <2>4, <2>5
<1>2. CASE ~Owes(d)
  <2>1. /\ v.in = w.in /\ v.calls = w.calls /\ v.next = w.next
        /\ v.out = w.out
    BY <1>2, FlushNot
  <2>2. ASSUME d.open, d.full \/ Mirrors(buf.text, d, w, p)
        PROVE  Heeded(v, p)[Len(v.out)] = buf.text
    <3>1. d.pending = <<>> /\ Mirrors(buf.text, d, w, p)
      BY <1>2, <2>2 DEF Owes
    <3>2. Heeded(v, p) = Heeded(w, p)
      BY <2>1 DEF Heeded
    <3>3. Changed(p.enc, Heeded(w, p)[Len(w.out)], <<>>) = buf.text
      BY <3>1 DEF Mirrors
    <3> QED BY <2>1, <3>2, <3>3, ChangedNot
  <2>3. Fresh(w, p, b) => Fresh(v, p, b)
    BY <2>1, DropKeeps
  <2>4. Greeted(w) => Greeted(v) /\ Greeting(v)
    <3>1. Greeted(w) => Greeted(v)
      BY <2>1, DropKeeps
    <3> QED BY <3>1 DEF Greeted, Greeting
  <2> QED BY <2>2, <2>3, <2>4
<1> QED BY <1>1, <1>2

LEMMA NothingFits == <<>> \in Seq(ChangeType) /\ Len(<<>>) <= PendingMax
BY LspAssumption

LEMMA FlushedFits ==
  ASSUME NEW d, DocFits(d)
  PROVE  /\ DocFits(Flushed(d)) /\ Flushed(d).on = d.on
         /\ Flushed(d).open = d.open
         /\ d.open => Flushed(d).pending = <<>> /\ ~Flushed(d).full
<1>1. CASE Owes(d)
  <2> DEFINE e == [d EXCEPT !.pending = <<>>, !.full = FALSE]
  <2>1. /\ DOMAIN e = DOMAIN d /\ e.on = d.on /\ e.open = d.open
        /\ e.pending = <<>> /\ e.full = FALSE
    BY DEF DocFits
  <2>2. Flushed(d) = e
    BY <1>1 DEF Flushed, Cleared
  <2> HIDE DEF e
  <2>3. DocFits(e)
    BY <2>1, NothingFits DEF DocFits
  <2> QED BY <2>1, <2>2, <2>3
<1>2. CASE ~Owes(d)
  BY <1>2 DEF Flushed, Owes
<1> QED BY <1>1, <1>2

(* A document with nothing to be told mirrors what is heeded.                *)
LEMMA MirrorsTold ==
  ASSUME NEW t, NEW d, NEW w, NEW p, d.pending = <<>>,
         Heeded(w, p)[Len(w.out)] = t
  PROVE  Mirrors(t, d, w, p)
BY ChangedNot DEF Mirrors

(* The document is opened.                                                   *)
LEMMA Opening ==
  ASSUME Shapes, NEW w, WireFits(w), NEW v, v = Sending(w, OpenMsg)
  PROVE  /\ WireFits(v)
         /\ v.in = w.in /\ v.calls = w.calls /\ v.next = w.next
         /\ v.live = w.live /\ v.shut = w.shut
         /\ Numbered(w) => Numbered(v)
<1> DEFINE m == OpenMsg
<1>1. m \in MessageType /\ m.op = "open" /\ v = Sending(w, m)
  BY DEF Shapes, OpenMsg, MessageType
<1> HIDE DEF m
<1>2. m.op # "ask" /\ m.op # "init" /\ ~Asking(m)
  BY <1>1 DEF Asking, Questions
<1>3. /\ WireFits(v)
      /\ v.in = w.in /\ v.calls = w.calls /\ v.next = w.next
      /\ v.live = w.live /\ v.shut = w.shut
  BY <1>1, SendIs
<1>4. Numbered(w) => Numbered(v)
  BY <1>1, <1>2, SendNumbered
<1> QED BY <1>3, <1>4

LEMMA OpeningTexts ==
  ASSUME Shapes, NEW w, WireFits(w), NEW v, v = Sending(w, OpenMsg),
         NEW p, NEW b
  PROVE  /\ Greeted(w) => Greeted(v) /\ Greeting(v)
         /\ Fresh(w, p, b) => Fresh(v, p, b)
         /\ Heeded(v, p)[Len(v.out)] = buf.text
<1> DEFINE m == OpenMsg
<1>1. /\ m \in MessageType /\ m.op = "open" /\ m.text = buf.text
      /\ v = Sending(w, m)
  BY DEF Shapes, OpenMsg, MessageType
<1> HIDE DEF m
<1>2. m.op # "ask" /\ m.op # "init"
  BY <1>1
<1>3. Fresh(w, p, b) => Fresh(v, p, b)
  BY <1>1, <1>2, SendFresh
<1>4. Heeded(v, p)[Len(v.out)] = buf.text
  <2>1. Heeded(v, p)[Len(v.out)] = Heard(p.enc, Heeded(w, p)[Len(w.out)], m)
    BY <1>1, SendHeeded
  <2> QED BY <1>1, <2>1 DEF Heard
<1>5. Greeted(w) => Greeted(v) /\ Greeting(v)
  BY <1>1, <1>2, SendGreeting
<1> QED BY <1>3, <1>4, <1>5

LEMMA ForgottenFits ==
  ASSUME NEW d, DocFits(d), NEW e, e = Forgotten(d)
  PROVE  DocFits(e) /\ e.on = d.on /\ ~e.open
<1>1. /\ DOMAIN e = DOMAIN d /\ e.on = d.on /\ e.open = FALSE
      /\ e.pending = <<>> /\ e.full = FALSE
  BY DEF DocFits, Forgotten, Cleared
<1>2. DocFits(e)
  BY <1>1, NothingFits DEF DocFits
<1> QED BY <1>1, <1>2

LEMMA OpenedFits ==
  ASSUME NEW d, DocFits(d), d.on, NEW e, e = Opened(d)
  PROVE  DocFits(e) /\ e.on /\ e.open /\ e.pending = <<>>
<1>1. /\ DOMAIN e = DOMAIN d /\ e.on = d.on /\ e.open = TRUE
      /\ e.pending = <<>> /\ e.full = FALSE
  BY DEF DocFits, Opened, Cleared
<1>2. DocFits(e)
  BY <1>1, NothingFits DEF DocFits
<1> QED BY <1>1, <1>2

LEMMA AttachedFits ==
  ASSUME NEW d, DocFits(d), NEW e, e = Attached(d)
  PROVE  /\ DocFits(e) /\ e.on /\ e.open = d.open /\ e.full = d.full
         /\ e.pending = d.pending
<1>1. /\ DOMAIN e = DOMAIN d /\ e.on = TRUE /\ e.open = d.open
      /\ e.full = d.full /\ e.pending = d.pending
  BY DEF DocFits, Attached
<1>2. DocFits(e)
  BY <1>1 DEF DocFits
<1> QED BY <1>1, <1>2

(* The end of the document or of the server is told.                         *)
LEMMA Telling ==
  ASSUME NEW w, WireFits(w), NEW what \in {"close", "exit"}, NEW v,
         v = Sending(w, [op |-> what])
  PROVE  /\ WireFits(v)
         /\ v.in = w.in /\ v.calls = w.calls /\ v.next = w.next
         /\ v.live = w.live /\ v.shut = w.shut
         /\ Numbered(w) => Numbered(v)
<1> DEFINE m == [op |-> what]
<1>1. m \in MessageType /\ v = Sending(w, m) /\ ~Asking(m)
  BY DEF MessageType, Asking, Questions
<1> HIDE DEF m
<1>2. /\ WireFits(v)
      /\ v.in = w.in /\ v.calls = w.calls /\ v.next = w.next
      /\ v.live = w.live /\ v.shut = w.shut
  BY <1>1, SendIs
<1>3. Numbered(w) => Numbered(v)
  BY <1>1, SendNumbered
<1> QED BY <1>2, <1>3

LEMMA TellingTexts ==
  ASSUME NEW w, WireFits(w), NEW what \in {"close", "exit"}, NEW v,
         v = Sending(w, [op |-> what]), NEW p, NEW b
  PROVE  /\ Greeted(w) => Greeted(v) /\ Greeting(v)
         /\ Greeting(w) /\ what = "exit" => Greeting(v)
         /\ Fresh(w, p, b) => Fresh(v, p, b)
         /\ what = "exit" =>
              Heeded(v, p)[Len(v.out)] = Heeded(w, p)[Len(w.out)]
<1> DEFINE m == [op |-> what]
<1>1. /\ m \in MessageType /\ v = Sending(w, m) /\ m.op = what
      /\ m.op # "ask" /\ m.op # "init"
  BY DEF MessageType
<1> HIDE DEF m
<1>2. /\ Greeted(w) => Greeted(v) /\ Greeting(v)
      /\ Greeting(w) /\ what = "exit" => Greeting(v)
  BY <1>1, SendGreeting
<1>3. Fresh(w, p, b) => Fresh(v, p, b)
  BY <1>1, SendFresh
<1>4. ASSUME what = "exit"
      PROVE  Heeded(v, p)[Len(v.out)] = Heeded(w, p)[Len(w.out)]
  <2>1. Heeded(v, p)[Len(v.out)] = Heard(p.enc, Heeded(w, p)[Len(w.out)], m)
    BY <1>1, SendHeeded
  <2> QED BY <1>1, <1>4, <2>1 DEF Heard
<1> QED BY <1>2, <1>3, <1>4

LEMMA StuckIs ==
  ASSUME NEW w, WireFits(w), w.live, NEW shut \in {"yes", "stuck"}, NEW v,
         v = [w EXCEPT !.shut = shut]
  PROVE  /\ WireFits(v)
         /\ v.in = w.in /\ v.calls = w.calls /\ v.next = w.next
         /\ v.live = w.live /\ v.out = w.out
<1>1. /\ DOMAIN v = DOMAIN w /\ v.shut = shut
      /\ v.in = w.in /\ v.calls = w.calls /\ v.next = w.next
      /\ v.live = w.live /\ v.out = w.out
  BY DEF WireFits
<1>2. WireFits(v)
  BY <1>1 DEF WireFits
<1> QED BY <1>1, <1>2

(* A call is made, and its question asked if the server can still be asked.  *)
Question(w, what)    == [op |-> what, id |-> w.next]
CallOf(w, what, gen) == [id |-> w.next, what |-> what, gen |-> gen,
                         life |-> buf.life]
Asked(w, what)       == Sent(w, Question(w, what))

LEMMA CalledIs ==
  ASSUME Shapes, NEW w, WireFits(w), w.live,
         NEW what \in Questions, NEW gen \in Nat, NEW c, NEW m, NEW u,
         c = CallOf(w, what, gen), m = Question(w, what), u = Asked(w, what)
  PROVE  /\ Called(w, what, gen) = Noting(u, c)
         /\ c \in CallType /\ c.id = w.next /\ c.what = what /\ c.gen = gen
         /\ c.life = buf.life /\ buf.life \in Nat
         /\ m \in MessageType /\ m.op = what /\ m.id = w.next
         /\ u = IF w.shut = "no" THEN Sending(w, m)
                ELSE [w EXCEPT !.shut = "stuck"]
         /\ WireFits(u) /\ u.in = w.in /\ u.calls = w.calls /\ u.next = w.next
         /\ u.live /\ (w.shut = "no" => u.shut = "no")
<1> USE DEF CallOf, Question, Asked
<1>1. /\ c \in CallType /\ c.id = w.next /\ c.what = what /\ c.gen = gen
      /\ c.life = buf.life /\ buf.life \in Nat
  BY DEF Shapes, CallType, WireFits
<1>2. m \in MessageType /\ m.op = what /\ m.id = w.next
  BY DEF MessageType, WireFits
<1>3. Called(w, what, gen) = Noting(u, c)
  <2>1. u.next = w.next
    BY DEF Sent, WireFits
  <2>2. DOMAIN u = {"live", "out", "in", "calls", "next", "shut"}
    BY DEF Sent, WireFits
  <2> QED BY <2>1, <2>2 DEF Called, Noting
<1>4. u = IF w.shut = "no" THEN Sending(w, m) ELSE [w EXCEPT !.shut = "stuck"]
  BY DEF Sent, Sending
<1>5. /\ WireFits(u) /\ u.in = w.in /\ u.calls = w.calls /\ u.next = w.next
      /\ u.live /\ (w.shut = "no" => u.shut = "no")
  BY <1>2, <1>4, SendIs, StuckIs
<1> QED BY <1>1, <1>2, <1>3, <1>4, <1>5

LEMMA Calling ==
  ASSUME Shapes, NEW w, WireFits(w), w.live, Numbered(w),
         NEW what \in Questions, NEW gen \in Nat, NEW v,
         v = Called(w, what, gen)
  PROVE  /\ WireFits(v) /\ Numbered(v)
         /\ v.in = w.in /\ v.live
         /\ v.calls = w.calls \cup {CallOf(w, what, gen)}
         /\ w.shut = "no" => v.shut = "no"
<1> DEFINE c == CallOf(w, what, gen)
           m == Question(w, what)
           u == Asked(w, what)
<1>1. /\ c \in CallType /\ c.id = w.next /\ c.what = what /\ c.gen = gen
      /\ c.life = buf.life /\ buf.life \in Nat
  BY CalledIs
<1>2. m \in MessageType /\ m.op = what /\ m.id = w.next
  BY CalledIs
<1>3. v = Noting(u, c)
  BY CalledIs
<1>4. u = IF w.shut = "no" THEN Sending(w, m) ELSE [w EXCEPT !.shut = "stuck"]
  BY CalledIs
<1>5. /\ WireFits(u) /\ u.in = w.in /\ u.calls = w.calls /\ u.next = w.next
      /\ u.live /\ (w.shut = "no" => u.shut = "no")
  BY CalledIs
<1> HIDE DEF c, m, u
(* The next number is of none yet.                                           *)
<1>6. /\ \A d \in w.calls : d.id # w.next
      /\ \A a \in w.in : a.id # w.next
      /\ \A i \in 1 .. Len(w.out) : Asking(w.out[i]) => w.out[i].id # w.next
  <2>1. w.next \in Nat /\ w.next \notin 1 .. w.next - 1
    BY DEF WireFits
  <2> QED BY <2>1 DEF Numbered
<1>7. WireFits(v) /\ Numbered(v)
  <2>1. WireFits(v)
    BY <1>1, <1>3, <1>5, NoteIs
  <2>2. CASE w.shut = "no"
    <3> DEFINE k == w.next
    <3>1. u.out = Append(w.out, m) /\ Len(w.out) \in Nat
          /\ Len(u.out) = Len(w.out) + 1 /\ u.out[Len(w.out) + 1] = m
          /\ \A i \in 1 .. Len(w.out) : u.out[i] = w.out[i]
      BY <1>2, <1>4, <2>2, SendIs
    <3>2. /\ v.in = w.in /\ v.calls = w.calls \cup {c} /\ v.next = k + 1
          /\ v.out = u.out
      BY <1>1, <1>3, <1>5, NoteIs
    <3>3. /\ k \in Nat /\ k \in 1 .. v.next - 1
          /\ \A i \in 1 .. k - 1 : i \in 1 .. v.next - 1
      BY <3>2 DEF WireFits
    <3> HIDE DEF k
    <3>4. c.id = k /\ m.id = k /\ m.op = c.what
      BY <1>1, <1>2 DEF k
    <3>5. \A d, e \in v.calls : d.id = e.id => d = e
      BY <1>6, <3>2, <3>4 DEF Numbered, k
    <3>6. ASSUME NEW d \in v.calls PROVE d.id \in 1 .. v.next - 1
      <4>1. d \in w.calls => d.id \in 1 .. k - 1
        BY DEF Numbered, k
      <4> QED BY <3>2, <3>3, <3>4, <4>1
    <3>7. ASSUME NEW i \in 1 .. Len(v.out), Asking(v.out[i])
          PROVE  /\ v.out[i].id \in 1 .. v.next - 1
                 /\ \A d \in v.calls : d.id = v.out[i].id => d.what = v.out[i].op
      <4>1. CASE i \in 1 .. Len(w.out)
        <5>1. /\ v.out[i] = w.out[i] /\ w.out[i].id \in 1 .. k - 1
              /\ w.out[i].id # k
              /\ \A d \in w.calls : d.id = w.out[i].id => d.what = w.out[i].op
          BY <1>6, <3>1, <3>2, <3>7, <4>1 DEF Numbered, k
        <5> QED BY <3>2, <3>3, <3>4, <5>1
      <4>2. CASE i = Len(w.out) + 1
        <5>1. v.out[i] = m
          BY <3>1, <3>2, <4>2
        <5>2. \A d \in w.calls : d.id # k
          BY <1>6 DEF k
        <5> QED BY <3>2, <3>3, <3>4, <5>1, <5>2
      <4> QED BY <3>1, <3>2, <4>1, <4>2
    <3>8. ASSUME NEW a \in v.in
          PROVE  /\ a.id \in 1 .. v.next - 1
                 /\ \A d \in v.calls : d.id = a.id => d.what = a.what
      <4>1. /\ a.id \in 1 .. k - 1 /\ a.id # k
            /\ \A d \in w.calls : d.id = a.id => d.what = a.what
        BY <1>6, <3>2, <3>8 DEF Numbered, k
      <4> QED BY <3>2, <3>3, <3>4, <4>1
    <3> QED BY <2>1, <3>5, <3>6, <3>7, <3>8, Zenon DEF Numbered
  <2>3. CASE w.shut # "no"
    <3>1. u.out = w.out
      BY <1>4, <2>3, StuckIs
    <3>2. Numbered(u)
      BY <1>5, <3>1, DropKeeps
    <3> QED BY <1>1, <1>3, <1>5, <2>1, <3>2, NoteNumbered
  <2> QED BY <2>1, <2>2, <2>3
<1>8. v.in = w.in /\ v.calls = w.calls \cup {c} /\ v.live
      /\ v.out = u.out /\ (w.shut = "no" => v.shut = "no")
  BY <1>1, <1>3, <1>5, NoteIs
<1> QED BY <1>7, <1>8 DEF c

LEMMA CallingGreets ==
  ASSUME Shapes, NEW w, WireFits(w), w.live, Numbered(w),
         NEW what \in {"ask", "shutdown"}, NEW gen \in Nat, NEW v,
         v = Called(w, what, gen)
  PROVE  /\ Greeted(w) => Greeted(v) /\ Greeting(v)
         /\ Greeting(w) /\ what = "shutdown" => Greeting(v)
<1>0. what \in Questions
  BY DEF Questions
<1> DEFINE c == CallOf(w, what, gen)
           m == Question(w, what)
           u == Asked(w, what)
<1>1. /\ c \in CallType /\ c.id = w.next /\ c.what = what /\ c.gen = gen
      /\ c.life = buf.life /\ buf.life \in Nat
  BY <1>0, CalledIs
<1>2. m \in MessageType /\ m.op = what /\ m.id = w.next
  BY <1>0, CalledIs
<1>3. v = Noting(u, c)
  BY <1>0, CalledIs
<1>4. u = IF w.shut = "no" THEN Sending(w, m) ELSE [w EXCEPT !.shut = "stuck"]
  BY <1>0, CalledIs
<1>5. /\ WireFits(u) /\ u.in = w.in /\ u.calls = w.calls /\ u.next = w.next
      /\ u.live /\ (w.shut = "no" => u.shut = "no")
  BY <1>0, CalledIs
<1> HIDE DEF c, m, u
<1>6. v.in = w.in /\ v.calls = w.calls \cup {c} /\ v.live
      /\ v.out = u.out /\ (w.shut = "no" => v.shut = "no")
  BY <1>1, <1>3, <1>5, NoteIs
<1>7. /\ Greeted(w) => Greeted(u) /\ Greeting(u)
      /\ Greeting(w) /\ what = "shutdown" => Greeting(u)
  <2>1. CASE w.shut = "no"
    BY <1>2, <1>4, <2>1, SendGreeting
  <2>2. CASE w.shut # "no"
    <3>1. u.out = w.out
      BY <1>4, <2>2, StuckIs
    <3> QED BY <1>5, <3>1 DEF Greeted, Greeting
  <2> QED BY <2>1, <2>2
<1> QED BY <1>5, <1>6, <1>7 DEF Greeting, Greeted

LEMMA CallingFresh ==
  ASSUME Shapes, NEW w, WireFits(w), w.live, Numbered(w),
         NEW what \in Questions, NEW gen \in Nat, NEW v,
         v = Called(w, what, gen), NEW p,
         Fresh(w, p, buf),
         what = "ask" =>
           /\ w.shut = "no" /\ gen <= buf.gen
           /\ p.alive => Heeded(w, p)[Len(w.out)] = buf.text
  PROVE  Fresh(v, p, buf)
<1> DEFINE c == CallOf(w, what, gen)
           m == Question(w, what)
           u == Asked(w, what)
<1>1. /\ c \in CallType /\ c.id = w.next /\ c.what = what /\ c.gen = gen
      /\ c.life = buf.life /\ buf.life \in Nat
  BY CalledIs
<1>2. m \in MessageType /\ m.op = what /\ m.id = w.next
  BY CalledIs
<1>3. v = Noting(u, c)
  BY CalledIs
<1>4. u = IF w.shut = "no" THEN Sending(w, m) ELSE [w EXCEPT !.shut = "stuck"]
  BY CalledIs
<1>5. /\ WireFits(u) /\ u.in = w.in /\ u.calls = w.calls /\ u.next = w.next
      /\ u.live /\ (w.shut = "no" => u.shut = "no")
  BY CalledIs
<1> HIDE DEF c, m, u
(* The next number is of none yet.                                           *)
<1>6. /\ \A d \in w.calls : d.id # w.next
      /\ \A a \in w.in : a.id # w.next
      /\ \A i \in 1 .. Len(w.out) : Asking(w.out[i]) => w.out[i].id # w.next
  <2>1. w.next \in Nat /\ w.next \notin 1 .. w.next - 1
    BY DEF WireFits
  <2> QED BY <2>1 DEF Numbered
<1>7. v.in = w.in /\ v.calls = w.calls \cup {c} /\ v.live
      /\ v.out = u.out /\ (w.shut = "no" => v.shut = "no")
  BY <1>1, <1>3, <1>5, NoteIs
<1>8. Fresh(u, p, buf)
  <2>1. CASE w.shut = "no"
    BY <1>2, <1>4, <1>6, <2>1, SendFresh
  <2>2. CASE w.shut # "no"
    <3>1. u.out = w.out
      BY <1>4, <2>2, StuckIs
    <3> QED BY <1>5, <3>1, DropKeeps
  <2> QED BY <2>1, <2>2
<1>9. ASSUME what = "ask" PROVE Timely(c, u, p, buf)
  <2>1. /\ u.out = Append(w.out, m) /\ Len(w.out) \in Nat
        /\ Len(u.out) = Len(w.out) + 1 /\ u.out[Len(w.out) + 1] = m
        /\ \A i \in 1 .. Len(w.out) : u.out[i] = w.out[i]
    BY <1>2, <1>4, <1>9, SendIs
  <2>2. Heeded(u, p)[Len(w.out)] = Heeded(w, p)[Len(w.out)]
    <3>1. u = Sending(w, m) /\ Len(w.out) \in 0 .. Len(w.out)
      BY <1>4, <1>9, <2>1
    <3> QED BY <1>2, <3>1, SendHeeded
  <2>3. ASSUME p.alive, NEW i \in 1 .. Len(u.out),
               u.out[i].op = "ask", u.out[i].id = c.id
        PROVE  Heeded(u, p)[i - 1] = buf.text
    <3>1. i = Len(w.out) + 1
      BY <1>1, <1>6, <2>1, <2>3 DEF Asking, Questions
    <3>2. i - 1 = Len(w.out)
      BY <2>1, <3>1
    <3> QED BY <1>9, <2>2, <2>3, <3>2
  <2>4. \A a \in u.in : a.id # c.id
    BY <1>1, <1>5, <1>6
  <2> QED BY <2>3, <2>4 DEF Timely
<1>10. c.life <= buf.life
  BY <1>1
<1>11. c.what = "ask" => c.gen <= buf.gen /\ Timely(c, u, p, buf)
  BY <1>1, <1>9
<1> QED BY <1>1, <1>3, <1>5, <1>8, <1>10, <1>11, NoteFresh

LEMMA CallingHeeds ==
  ASSUME Shapes, NEW w, WireFits(w), w.live, Numbered(w),
         NEW what \in Questions, NEW gen \in Nat, NEW v,
         v = Called(w, what, gen), NEW p,
         w.shut = "no"
  PROVE  Heeded(v, p)[Len(v.out)] = Heeded(w, p)[Len(w.out)]
<1> DEFINE c == CallOf(w, what, gen)
           m == Question(w, what)
           u == Asked(w, what)
<1>1. /\ c \in CallType /\ c.id = w.next /\ c.what = what /\ c.gen = gen
      /\ c.life = buf.life /\ buf.life \in Nat
  BY CalledIs
<1>2. m \in MessageType /\ m.op = what /\ m.id = w.next
  BY CalledIs
<1>3. v = Noting(u, c)
  BY CalledIs
<1>4. u = IF w.shut = "no" THEN Sending(w, m) ELSE [w EXCEPT !.shut = "stuck"]
  BY CalledIs
<1>5. /\ WireFits(u) /\ u.in = w.in /\ u.calls = w.calls /\ u.next = w.next
      /\ u.live /\ (w.shut = "no" => u.shut = "no")
  BY CalledIs
<1> HIDE DEF c, m, u
<1>6. v.in = w.in /\ v.calls = w.calls \cup {c} /\ v.live
      /\ v.out = u.out /\ (w.shut = "no" => v.shut = "no")
  BY <1>1, <1>3, <1>5, NoteIs
<1>7. Heeded(u, p)[Len(u.out)] = Heard(p.enc, Heeded(w, p)[Len(w.out)], m)
  BY <1>2, <1>4, SendHeeded
<1>8. Heeded(v, p) = Heeded(u, p) /\ v.out = u.out
  BY <1>6 DEF Heeded
<1>9. m.op \notin {"open", "text", "change", "close"}
  BY <1>2 DEF Questions
<1> QED BY <1>7, <1>8, <1>9 DEF Heard

(* The server reads a message ...                                            *)
Taking(w)     == [w EXCEPT !.out = Tail(@)]
Holding(w, a) == [w EXCEPT !.in = @ \cup {a}]

LEMMA Reading ==
  ASSUME NEW w, WireFits(w), w.out # <<>>, NEW v, v = Taking(w)
  PROVE  /\ WireFits(v)
         /\ v.in = w.in /\ v.calls = w.calls /\ v.next = w.next
         /\ v.live = w.live /\ v.shut = w.shut
         /\ w.out \in Seq(MessageType)
         /\ v.out = Tail(w.out) /\ Len(w.out) \in Nat \ {0}
         /\ Len(v.out) = Len(w.out) - 1 /\ Head(w.out) = w.out[1]
         /\ \A i \in 1 .. Len(v.out) : /\ v.out[i] = w.out[i + 1]
                                       /\ i + 1 \in 1 .. Len(w.out)
<1>1. /\ DOMAIN v = DOMAIN w /\ v.out = Tail(w.out)
      /\ v.in = w.in /\ v.calls = w.calls /\ v.next = w.next
      /\ v.live = w.live /\ v.shut = w.shut
  BY DEF WireFits, Taking
<1>2. w.out \in Seq(MessageType)
  BY DEF WireFits
<1>3. v.out \in Seq(MessageType)
  BY <1>1, <1>2, HeadTailProperties
<1>4. WireFits(v)
  BY <1>1, <1>3 DEF WireFits
<1>5. /\ Len(w.out) \in Nat \ {0} /\ Len(v.out) = Len(w.out) - 1
      /\ Head(w.out) = w.out[1]
      /\ \A i \in 1 .. Len(v.out) : v.out[i] = w.out[i + 1]
  BY <1>1, <1>2
<1>6. \A i \in 1 .. Len(v.out) : i + 1 \in 1 .. Len(w.out)
  BY <1>5
<1> QED BY <1>1, <1>2, <1>4, <1>5, <1>6

LEMMA ReadingKeeps ==
  ASSUME NEW w, WireFits(w), w.out # <<>>, NEW v, v = Taking(w),
         Numbered(w), Greeting(w), NEW p, Answered(w, p)
  PROVE  Numbered(v) /\ Greeted(v) /\ Greeting(v) /\ Answered(v, p)
<1>1. /\ v.in = w.in /\ v.calls = w.calls /\ v.next = w.next
      /\ \A i \in 1 .. Len(v.out) : /\ v.out[i] = w.out[i + 1]
                                    /\ i + 1 \in 1 .. Len(w.out)
  BY Reading
<1>2. Numbered(v)
  BY <1>1 DEF Numbered
<1>3. ASSUME NEW i \in 1 .. Len(v.out) PROVE v.out[i].op # "init"
  <2>1. i + 1 # 1
    OBVIOUS
  <2> QED BY <1>1, <2>1 DEF Greeting
<1>4. Greeted(v) /\ Greeting(v)
  BY <1>3 DEF Greeted, Greeting
<1>5. Answered(v, p)
  BY <1>1 DEF Answered
<1> QED BY <1>2, <1>4, <1>5

LEMMA ReadingTexts ==
  ASSUME NEW w, WireFits(w), w.out # <<>>, NEW v, v = Taking(w),
         NEW p, NEW q, q.enc = p.enc, q.alive = p.alive,
         q.copy = Heard(p.enc, p.copy, Head(w.out)), NEW b, NEW t, NEW d
  PROVE  /\ Fresh(w, p, b) => Fresh(v, q, b)
         /\ Mirrors(t, d, w, p) => Mirrors(t, d, v, q)
<1>1. /\ v.in = w.in /\ v.calls = w.calls /\ v.next = w.next
      /\ v.out = Tail(w.out) /\ w.out \in Seq(MessageType)
      /\ Len(w.out) \in Nat \ {0} /\ Len(v.out) = Len(w.out) - 1
      /\ \A i \in 1 .. Len(v.out) : /\ v.out[i] = w.out[i + 1]
                                    /\ i + 1 \in 1 .. Len(w.out)
  BY Reading
<1>2. ASSUME NEW i \in 0 .. Len(w.out) - 1
      PROVE  Heeded(v, q)[i] = Heeded(w, p)[i + 1]
  <2>1. Hearing(p.enc, Heard(p.enc, p.copy, Head(w.out)), Tail(w.out))[i]
          = Hearing(p.enc, p.copy, w.out)[i + 1]
    <3>1. w.out \in Seq(MessageType)
      BY <1>1
    <3> QED BY <3>1, HearingNext
  <2> QED BY <1>1, <2>1 DEF Heeded
<1>3. ASSUME NEW c \in w.calls, Timely(c, w, p, b)
      PROVE  Timely(c, v, q, b)
  <2>1. ASSUME q.alive, NEW i \in 1 .. Len(v.out),
               v.out[i].op = "ask", v.out[i].id = c.id
        PROVE  Heeded(v, q)[i - 1] = b.text
    <3>1. i + 1 \in 1 .. Len(w.out) /\ w.out[i + 1].op = "ask"
          /\ w.out[i + 1].id = c.id /\ p.alive
      BY <1>1, <2>1
    <3>2. Heeded(w, p)[i + 1 - 1] = b.text
      BY <1>3, <3>1 DEF Timely
    <3>3. i - 1 \in 0 .. Len(w.out) - 1 /\ i - 1 + 1 = i + 1 - 1
      BY <1>1
    <3> QED BY <1>2, <3>2, <3>3
  <2> QED BY <1>1, <1>3, <2>1 DEF Timely
<1>4. Fresh(w, p, b) => Fresh(v, q, b)
  BY <1>1, <1>3 DEF Fresh
<1>5. Heeded(v, q)[Len(v.out)] = Heeded(w, p)[Len(w.out)]
  <2>1. Len(v.out) \in 0 .. Len(w.out) - 1 /\ Len(v.out) + 1 = Len(w.out)
    BY <1>1
  <2> QED BY <1>2, <2>1
<1>6. Mirrors(t, d, w, p) => Mirrors(t, d, v, q)
  BY <1>5 DEF Mirrors
<1> QED BY <1>4, <1>6

(* ... and may answer.                                                       *)
LEMMA Answering ==
  ASSUME NEW w, WireFits(w), NEW a, NEW v, v = Holding(w, a)
  PROVE  /\ WireFits(v)
         /\ v.in = w.in \cup {a} /\ v.calls = w.calls /\ v.next = w.next
         /\ v.live = w.live /\ v.shut = w.shut /\ v.out = w.out
<1>1. /\ DOMAIN v = DOMAIN w
      /\ v.in = w.in \cup {a} /\ v.calls = w.calls /\ v.next = w.next
      /\ v.live = w.live /\ v.shut = w.shut /\ v.out = w.out
  BY DEF WireFits, Holding
<1>2. WireFits(v)
  BY <1>1 DEF WireFits
<1> QED BY <1>1, <1>2

LEMMA AnsweringNumbered ==
  ASSUME NEW w, WireFits(w), NEW a, NEW v, v = Holding(w, a),
         Numbered(w), a.id \in 1 .. w.next - 1,
         \A c \in w.calls : c.id = a.id => c.what = a.what
  PROVE  Numbered(v)
<1>1. /\ v.in = w.in \cup {a} /\ v.calls = w.calls /\ v.next = w.next
      /\ v.out = w.out
  BY Answering
<1> QED BY <1>1 DEF Numbered

LEMMA AnsweringTexts ==
  ASSUME NEW w, WireFits(w), NEW a, NEW v, v = Holding(w, a),
         NEW p, NEW b, NEW t, NEW d
  PROVE  /\ Greeted(w) => Greeted(v) /\ Greeting(v)
         /\ Answered(w, p) /\ a.what # "init" => Answered(v, p)
         /\ /\ Fresh(w, p, b)
            /\ \A c \in w.calls : c.id = a.id =>
                 c.what = a.what /\ (c.what = "ask" /\ b.loaded /\
                   c.life = b.life /\ c.gen = b.gen => a.seen = b.text)
            => Fresh(v, p, b)
         /\ Mirrors(t, d, w, p) => Mirrors(t, d, v, p)
<1>1. /\ v.in = w.in \cup {a} /\ v.calls = w.calls /\ v.next = w.next
      /\ v.out = w.out
  BY DEF WireFits, Holding
<1>2. Greeted(w) => Greeted(v) /\ Greeting(v)
  BY <1>1 DEF Greeted, Greeting
<1>3. Answered(w, p) /\ a.what # "init" => Answered(v, p)
  BY <1>1 DEF Answered
<1>4. ASSUME Fresh(w, p, b),
             \A c \in w.calls : c.id = a.id =>
               c.what = a.what /\ (c.what = "ask" /\ b.loaded /\
                 c.life = b.life /\ c.gen = b.gen => a.seen = b.text)
      PROVE  Fresh(v, p, b)
  BY <1>1, <1>4 DEF Fresh, Timely, Heeded
<1>5. Mirrors(t, d, w, p) => Mirrors(t, d, v, p)
  BY <1>1 DEF Mirrors, Heeded
<1> QED BY <1>2, <1>3, <1>4, <1>5

-----------------------------------------------------------------------------
(* The invariant holds at the start and is kept by each action.              *)

LEMMA InitInv == Init => LspInv
<1> SUFFICES ASSUME Init PROVE LspInv
  OBVIOUS
<1> USE LspAssumption
<1>1. /\ buf.text \in Seq(Chars) /\ buf.gen = 0 /\ buf.life = 0
      /\ buf \in [text : Seq(Chars), gen : Nat, loaded : BOOLEAN, life : Nat]
  BY DEF Init
<1>2. DocFits(doc)
  BY DEF Init, NoDoc, DocFits
<1>3. SrvFits(srv)
  BY DEF Init, SrvFits, Encodings
<1>4. WireFits(wire)
  BY DEF Init, NoWire, WireFits
<1>5. Shapes
  BY <1>1, <1>2, <1>3, <1>4 DEF Init, Shapes, NoPeer
<1>6. ClientInv
  BY <1>5 DEF Init, ClientInv, DocAgrees, JobAgrees, Ready, NoDoc, NoWire, NoPeer
<1>7. Numbered(wire) /\ Greeting(wire) /\ Answered(wire, peer)
  BY DEF Init, NoWire, Numbered, Greeting, Answered
<1>8. Fresh(wire, peer, buf) /\ AnswerFresh /\ ~Ready
  BY DEF Init, NoWire, Fresh, AnswerFresh, Ready
<1> QED BY <1>6, <1>7, <1>8 DEF LspInv, WireInv, TextInv

(* Nothing is changed but what the turn is at.                               *)
LEMMA QuietKeeps ==
  ASSUME LspInv,
         UNCHANGED <<buf, doc, srv, owners, wire, peer, shown, used>>,
         phase' \in {"poll", "events", "keys"},
         phase = "events" => phase' = "events"
  PROVE  LspInv'
<1>1. ClientInv'
  BY DEF LspInv, ClientInv, Shapes, DocAgrees, JobAgrees, Ready
<1>2. WireInv'
  BY DEF LspInv, WireInv, Ready
<1>3. TextInv'
  BY DEF LspInv, TextInv, Ready, AnswerFresh
<1> QED BY <1>1, <1>2, <1>3 DEF LspInv


(* What only the process of the server changes.                              *)
LEMMA SamePeer ==
  ASSUME NEW p, NEW q, q.enc = p.enc, q.copy = p.copy, q.alive => p.alive
  PROVE  \A w : /\ Answered(w, p) => Answered(w, q)
                /\ \A b : Fresh(w, p, b) => Fresh(w, q, b)
                /\ \A t, d : Mirrors(t, d, w, p) => Mirrors(t, d, w, q)
BY DEF Answered, Fresh, Timely, Heeded, Mirrors

LEMMA ToldIs ==
  ASSUME Shapes
  PROVE  LET q == Told(peer) IN
         /\ DOMAIN q = {"alive", "told", "enc", "copy"}
         /\ q.enc = peer.enc /\ q.copy = peer.copy /\ q.alive = peer.alive
BY DEF Told, Shapes

LEMMA EmptyWire ==
  ASSUME NEW w, w = NoWire \/ w = [NoWire EXCEPT !.live = TRUE]
  PROVE  /\ WireFits(w) /\ Numbered(w) /\ w.shut = "no"
         /\ w.out = <<>> /\ w.in = {} /\ w.calls = {} /\ w.next = 1
         /\ Greeted(w) /\ Greeting(w)
         /\ \A p : Answered(w, p)
         /\ \A p, b : Fresh(w, p, b)
<1>1. /\ DOMAIN w = DOMAIN NoWire /\ w.live \in BOOLEAN /\ w.shut = "no"
      /\ w.out = <<>> /\ w.in = {} /\ w.calls = {} /\ w.next = 1
  <2>1. CASE w = NoWire
    BY <2>1 DEF NoWire
  <2>2. CASE w = [NoWire EXCEPT !.live = TRUE]
    BY <2>2 DEF NoWire
  <2> QED BY <2>1, <2>2
<1>2. WireFits(w)
  BY <1>1 DEF WireFits, NoWire
<1>3. Numbered(w)
  BY <1>1 DEF Numbered
<1>4. Greeted(w) /\ Greeting(w)
  BY <1>1 DEF Greeted, Greeting
<1>5. (\A p : Answered(w, p)) /\ \A p, b : Fresh(w, p, b)
  BY <1>1 DEF Answered, Fresh
<1> QED BY <1>1, <1>2, <1>3, <1>4, <1>5

LEMMA ReapKeeps ==
  ASSUME LspInv, Reap PROVE LspInv'
<1>1. /\ srv.run = "running" /\ ~peer.alive /\ phase' = "events"
      /\ srv' = [srv EXCEPT !.run = "exited"]
      /\ UNCHANGED <<buf, doc, owners, wire, peer, shown, used>>
  BY DEF Reap, AtJobs
<1>2. Shapes /\ DocAgrees /\ JobAgrees /\ WireInv /\ TextInv
  BY DEF LspInv, ClientInv
<1>3. /\ SrvFits(srv') /\ srv'.state = srv.state /\ srv'.run = "exited"
      /\ srv'.job = srv.job /\ srv'.enc = srv.enc /\ srv'.kind = srv.kind
  BY <1>1, <1>2 DEF Shapes, SrvFits
<1>4. ClientInv'
  <2>1. Shapes'
    BY <1>1, <1>2, <1>3 DEF Shapes
  <2>2. DocAgrees' /\ JobAgrees'
    BY <1>1, <1>2, <1>3 DEF DocAgrees, JobAgrees, Ready
  <2> QED BY <2>1, <2>2 DEF ClientInv
<1>5. WireInv' /\ TextInv'
  BY <1>1, <1>2, <1>3 DEF WireInv, TextInv, Ready, AnswerFresh
<1> QED BY <1>4, <1>5 DEF LspInv

LEMMA DelayKeeps ==
  ASSUME LspInv, Delay PROVE LspInv'
<1>1. /\ srv' = [srv EXCEPT !.due = TRUE]
      /\ UNCHANGED <<buf, doc, owners, wire, peer, phase, shown, used>>
  BY DEF Delay
<1>2. Shapes /\ DocAgrees /\ JobAgrees /\ WireInv /\ TextInv
  BY DEF LspInv, ClientInv
<1>3. /\ SrvFits(srv') /\ srv'.state = srv.state /\ srv'.run = srv.run
      /\ srv'.job = srv.job /\ srv'.enc = srv.enc /\ srv'.kind = srv.kind
  BY <1>1, <1>2 DEF Shapes, SrvFits
<1>4. ClientInv'
  <2>1. Shapes'
    BY <1>1, <1>2, <1>3 DEF Shapes
  <2>2. DocAgrees' /\ JobAgrees'
    BY <1>1, <1>2, <1>3 DEF DocAgrees, JobAgrees, Ready
  <2> QED BY <2>1, <2>2 DEF ClientInv
<1>5. WireInv' /\ TextInv'
  BY <1>1, <1>2, <1>3 DEF WireInv, TextInv, Ready, AnswerFresh
<1> QED BY <1>4, <1>5 DEF LspInv

(* The end of a job takes the connection, and only the last job has one.     *)
LEMMA SettleKeeps ==
  ASSUME LspInv, Settle PROVE LspInv'
<1>1. PICK j \in owners : Over(j) /\ owners' = owners \ {j}
  BY DEF Settle
<1>2. /\ phase' = "events" /\ wire' = NoWire
      /\ UNCHANGED <<buf, doc, srv, peer, shown, used>>
  BY DEF Settle, AtJobs
<1>3. Shapes /\ DocAgrees /\ JobAgrees /\ WireInv /\ TextInv
  BY DEF LspInv, ClientInv
<1>4. srv.run # "running" /\ ~peer.alive
  BY <1>1, <1>3 DEF Over, JobAgrees
<1>5. /\ WireFits(wire') /\ Numbered(wire') /\ wire'.shut = "no"
      /\ wire'.in = {} /\ wire'.calls = {}
      /\ Greeted(wire') /\ Greeting(wire')
      /\ \A p : Answered(wire', p)
      /\ \A p, b : Fresh(wire', p, b)
  BY <1>2, EmptyWire, Zenon
<1>6. ClientInv'
  <2>1. Shapes'
    BY <1>2, <1>3, <1>5 DEF Shapes
  <2>2. DocAgrees' /\ JobAgrees'
    BY <1>1, <1>2, <1>3, <1>4, <1>5 DEF DocAgrees, JobAgrees, Ready
  <2> QED BY <2>1, <2>2 DEF ClientInv
<1>7. WireInv'
  BY <1>2, <1>3, <1>5 DEF WireInv, Ready
<1>8. TextInv'
  BY <1>2, <1>3, <1>4, <1>5 DEF TextInv, Ready, AnswerFresh
<1> QED BY <1>6, <1>7, <1>8 DEF LspInv


(* A position is a line and a column.                                        *)
LEMMA PosIsPair ==
  ASSUME NEW enc \in Encodings, NEW t, NEW k \in Nat
  PROVE  PosOf(enc, t, k) \in Nat \X Int
<1> DEFINE b == Bol(Ends(t, k))
           n == Cardinality(Wides(t, b, k))
           wide == Columns(enc, Wide) - 1
<1>1. Cardinality(Ends(t, k)) \in Nat /\ b \in 0 .. k /\ wide \in {1, 3}
  BY PosFits
<1>2. PosOf(enc, t, k) = <<Cardinality(Ends(t, k)), k - b + wide * n>>
  BY PosOfIs
<1>3. b \in Nat
  BY <1>1
<1>4. n \in Nat
  BY <1>3, PosFits
<1> HIDE DEF b, n, wide
<1>5. wide * n \in Int
  BY <1>1, <1>4
<1> QED BY <1>1, <1>2, <1>3, <1>5

(* An edit is noted as a range of the text before it, and the text of the    *)
(* server follows when it makes the same change.                             *)
NotedAs(t, lo, hi, ins) ==
  [from |-> PosOf(srv.enc, t, lo), to |-> PosOf(srv.enc, t, hi), ins |-> ins]

LEMMA NotedFits ==
  ASSUME NEW d, DocFits(d), NEW t \in Seq(Chars), NEW lo \in 0 .. Len(t),
         NEW hi \in lo .. Len(t), NEW ins \in Seq(Chars),
         srv.enc \in Encodings, NEW e, e = Noted(d, t, lo, hi, ins)
  PROVE  /\ DocFits(e) /\ e.on = d.on /\ e.open = d.open
         /\ d.open /\ ~e.full =>
              /\ ~d.full
              /\ NotedAs(t, lo, hi, ins) \in ChangeType
              /\ e.pending = Append(d.pending, NotedAs(t, lo, hi, ins))
<1> USE LspAssumption
<1> DEFINE c == NotedAs(t, lo, hi, ins)
<1>1. ASSUME NEW k \in 0 .. Len(t) PROVE PosOf(srv.enc, t, k) \in Nat \X Int
  BY <1>1, PosIsPair
<1>2. lo \in 0 .. Len(t) /\ hi \in 0 .. Len(t)
  OBVIOUS
<1>3. c \in ChangeType
  BY <1>1, <1>2 DEF ChangeType, NotedAs
<1>4. CASE ~d.open \/ d.full
  BY <1>4 DEF Noted
<1>5. CASE ~(~d.open \/ d.full) /\ (srv.kind = 1 \/ Len(d.pending) >= PendingMax)
  <2>1. e = [d EXCEPT !.full = TRUE, !.pending = <<>>]
    BY <1>5 DEF Noted
  <2>2. /\ DOMAIN e = DOMAIN d /\ e.on = d.on /\ e.open = d.open
        /\ e.full = TRUE /\ e.pending = <<>>
    BY <2>1 DEF DocFits
  <2>3. DocFits(e)
    BY <2>2, NothingFits DEF DocFits
  <2> QED BY <2>2, <2>3
<1>6. CASE ~(~d.open \/ d.full) /\ ~(srv.kind = 1 \/ Len(d.pending) >= PendingMax)
  <2>1. e = [d EXCEPT !.pending = Append(@, c)]
    BY <1>6 DEF Noted, NotedAs
  <2> HIDE DEF c
  <2>2. /\ DOMAIN e = DOMAIN d /\ e.on = d.on /\ e.open = d.open
        /\ e.full = d.full /\ e.pending = Append(d.pending, c)
    BY <2>1 DEF DocFits
  <2>3. d.pending \in Seq(ChangeType)
    BY DEF DocFits
  <2>4. /\ Append(d.pending, c) \in Seq(ChangeType)
        /\ Len(Append(d.pending, c)) = Len(d.pending) + 1
        /\ Len(d.pending) \in Nat
    BY <1>3, <2>3
  <2>5. Len(e.pending) <= PendingMax
    BY <1>6, <2>2, <2>4
  <2>6. DocFits(e)
    BY <1>6, <2>2, <2>4, <2>5 DEF DocFits
  <2> QED BY <1>3, <1>6, <2>2, <2>6 DEF c
<1> QED BY <1>4, <1>5, <1>6

LEMMA NotedMirrors ==
  ASSUME NEW d, DocFits(d), NEW t \in Seq(Chars), NEW lo \in 0 .. Len(t),
         NEW hi \in lo .. Len(t), NEW ins \in Seq(Chars),
         srv.enc \in Encodings, NEW e, e = Noted(d, t, lo, hi, ins),
         d.open, ~e.full, NEW w, NEW p, p.enc = srv.enc, Mirrors(t, d, w, p)
  PROVE  Mirrors(Replaced(t, lo, hi, ins), e, w, p)
<1> DEFINE c == NotedAs(t, lo, hi, ins)
<1>0. c \in ChangeType /\ e.pending = Append(d.pending, c)
  BY NotedFits
<1>1. /\ c.from = PosOf(srv.enc, t, lo) /\ c.to = PosOf(srv.enc, t, hi)
      /\ c.ins = ins
  BY DEF NotedAs
<1> HIDE DEF c
<1>2. d.pending \in Seq(ChangeType)
  BY DEF DocFits
<1> DEFINE h == Heeded(w, p)[Len(w.out)]
<1>3. Changed(p.enc, h, d.pending) = t
  BY DEF Mirrors
<1>4. OffOf(p.enc, t, c.from) = lo /\ OffOf(p.enc, t, c.to) = hi
  <2>1. lo \in 0 .. Len(t) /\ hi \in 0 .. Len(t)
    OBVIOUS
  <2> QED BY <1>1, <2>1, PlaceFound
<1>5. Changed(p.enc, h, e.pending) = Applied(p.enc, t, c)
  <2> HIDE DEF h
  <2> QED BY <1>0, <1>2, <1>3, ChangedMore
<1> QED BY <1>1, <1>4, <1>5 DEF Mirrors, Applied

LEMMA EditKeeps ==
  ASSUME LspInv, Edit PROVE LspInv'
<1> USE LspAssumption
<1>0. PICK lo \in 0 .. Len(buf.text) : \E hi \in lo .. Len(buf.text) :
           \E ins \in {<<>>} \cup {<<c>> : c \in Inserts} :
        /\ buf' = [buf EXCEPT !.gen = @ + 1,
                              !.text = Replaced(@, lo, hi, ins)]
        /\ doc' = IF Ready THEN Noted(doc, buf.text, lo, hi, ins) ELSE doc
  BY DEF Edit
<1>1. PICK hi \in lo .. Len(buf.text),
           ins \in {<<>>} \cup {<<c>> : c \in Inserts} :
        /\ buf' = [buf EXCEPT !.gen = @ + 1,
                              !.text = Replaced(@, lo, hi, ins)]
        /\ doc' = IF Ready THEN Noted(doc, buf.text, lo, hi, ins) ELSE doc
  BY <1>0
<1>2. /\ phase = "keys" /\ phase' = "keys" /\ buf.loaded
      /\ used.edits < MaxEdits /\ used' = [used EXCEPT !.edits = @ + 1]
      /\ UNCHANGED <<srv, owners, wire, peer, shown>>
  BY DEF Edit, AtKeys
<1>3. Shapes /\ DocAgrees /\ JobAgrees /\ WireInv /\ TextInv
  BY DEF LspInv, ClientInv
<1>4. /\ ins \in Seq(Chars) /\ buf.text \in Seq(Chars) /\ buf.gen \in Nat
      /\ used.edits \in Nat /\ srv.enc \in Encodings /\ DocFits(doc)
  <2>1. CASE ins = <<>>
    BY <1>3, <2>1 DEF Shapes, SrvFits
  <2>2. ASSUME NEW c \in Inserts, ins = <<c>> PROVE ins \in Seq(Chars)
    BY <2>2
  <2> QED BY <1>3, <2>1, <2>2 DEF Shapes, SrvFits
<1>5. /\ buf' \in [text : Seq(Chars), gen : Nat, loaded : BOOLEAN, life : Nat]
      /\ buf'.text = Replaced(buf.text, lo, hi, ins) /\ buf'.gen = buf.gen + 1
      /\ buf'.loaded = buf.loaded /\ buf'.life = buf.life
  <2>1. Replaced(buf.text, lo, hi, ins) \in Seq(Chars)
    BY <1>4, ReplacedText
  <2>2. buf \in [text : Seq(Chars), gen : Nat, loaded : BOOLEAN, life : Nat]
    BY <1>3 DEF Shapes
  <2> DEFINE r == Replaced(buf.text, lo, hi, ins)
  <2>3. r \in Seq(Chars) /\ buf' = [buf EXCEPT !.gen = @ + 1, !.text = r]
    BY <1>1, <2>1
  <2> HIDE DEF r
  <2>4. /\ buf' \in [text : Seq(Chars), gen : Nat, loaded : BOOLEAN,
                     life : Nat]
        /\ buf'.text = r /\ buf'.gen = buf.gen + 1
        /\ buf'.loaded = buf.loaded /\ buf'.life = buf.life
    <3> DEFINE f == [buf EXCEPT !.gen = @ + 1]
    <3>1. /\ f \in [text : Seq(Chars), gen : Nat, loaded : BOOLEAN, life : Nat]
          /\ f.gen = buf.gen + 1 /\ f.loaded = buf.loaded
          /\ f.life = buf.life
      BY <2>2
    <3>2. buf' = [f EXCEPT !.text = r]
      BY <2>3
    <3> HIDE DEF f
    <3> QED BY <2>3, <3>1, <3>2
  <2> QED BY <2>4 DEF r
<1>6. DocFits(doc') /\ doc'.on = doc.on /\ doc'.open = doc.open
  <2>1. CASE Ready
    BY <1>1, <1>4, <2>1, NotedFits
  <2>2. CASE ~Ready
    BY <1>1, <1>4, <2>2
  <2> QED BY <2>1, <2>2
<1>7. Shapes'
  <2>1. /\ DOMAIN used' = DOMAIN used /\ used'.edits = used.edits + 1
    BY <1>2, <1>3 DEF Shapes
  <2> QED BY <1>2, <1>3, <1>4, <1>5, <1>6, <2>1 DEF Shapes
<1>8. DocAgrees' /\ JobAgrees'
  BY <1>2, <1>3, <1>5, <1>6 DEF DocAgrees, JobAgrees, Ready
<1>9. WireInv'
  BY <1>2, <1>3 DEF WireInv, Ready
<1>10. ASSUME NEW c \in wire.calls
       PROVE  /\ c.life <= buf'.life
              /\ c.what = "ask" /\ buf'.loaded /\ c.life = buf'.life =>
                   c.gen <= buf'.gen /\ c.gen # buf'.gen
  <2>1. c.gen \in Nat
    <3>1. c \in CallType
      BY <1>3 DEF Shapes, WireFits
    <3> QED BY <3>1 DEF CallType
  <2>2. /\ c.life <= buf.life
        /\ c.what = "ask" /\ buf.loaded /\ c.life = buf.life =>
             c.gen <= buf.gen
    BY <1>3 DEF TextInv, Fresh
  <2> QED BY <1>4, <1>5, <2>1, <2>2
<1>11. Fresh(wire', peer', buf')
  BY <1>2, <1>10 DEF Fresh
<1>12. ASSUME Ready, doc'.open, ~doc'.full, peer.alive
       PROVE  Mirrors(buf'.text, doc', wire, peer)
  <2>1. doc' = Noted(doc, buf.text, lo, hi, ins) /\ doc.open
    BY <1>1, <1>6, <1>12
  <2>2. ~doc.full
    BY <1>4, <1>12, <2>1, NotedFits
  <2>3. peer.enc = srv.enc /\ Mirrors(buf.text, doc, wire, peer)
    BY <1>3, <1>12, <2>1, <2>2 DEF WireInv, TextInv
  <2> QED BY <1>4, <1>5, <1>12, <2>1, <2>3, NotedMirrors
<1>13. TextInv'
  BY <1>2, <1>3, <1>11, <1>12 DEF TextInv, AnswerFresh, Ready
<1> QED BY <1>7, <1>8, <1>9, <1>13 DEF LspInv, ClientInv

LEMMA SaveKeeps ==
  ASSUME LspInv, Save PROVE LspInv'
<1>1. /\ phase = "keys" /\ phase' = "keys" /\ buf.loaded /\ Ready /\ Owes(doc)
      /\ doc' = Flushed(doc) /\ wire' = Flush(wire, doc)
      /\ UNCHANGED <<buf, srv, owners, peer, shown, used>>
  BY DEF Save, AtKeys, Flush
<1>2. Shapes /\ DocAgrees /\ JobAgrees /\ WireInv /\ TextInv
  BY DEF LspInv, ClientInv
<1>3. DocFits(doc) /\ WireFits(wire) /\ Greeted(wire)
  BY <1>1, <1>2 DEF Shapes, WireInv, Ready
<1>4. /\ DocFits(doc') /\ doc'.on = doc.on /\ doc'.open = doc.open
      /\ doc.open => doc'.pending = <<>> /\ ~doc'.full
  BY <1>1, <1>3, FlushedFits
<1>5. /\ WireFits(wire')
      /\ wire'.in = wire.in /\ wire'.calls = wire.calls
      /\ wire'.next = wire.next
      /\ wire'.live = wire.live /\ wire'.shut = wire.shut
      /\ Numbered(wire) => Numbered(wire')
  BY <1>1, <1>2, <1>3, Flushing
<1>6. /\ Greeted(wire') /\ Greeting(wire')
      /\ Fresh(wire, peer, buf) => Fresh(wire', peer, buf)
      /\ doc.open /\ (doc.full \/ Mirrors(buf.text, doc, wire, peer))
           => Heeded(wire', peer)[Len(wire'.out)] = buf.text
  BY <1>1, <1>2, <1>3, FlushingTexts
<1>7. ClientInv'
  <2>1. Shapes'
    BY <1>1, <1>2, <1>4, <1>5 DEF Shapes
  <2>2. DocAgrees' /\ JobAgrees'
    BY <1>1, <1>2, <1>4, <1>5 DEF DocAgrees, JobAgrees, Ready
  <2> QED BY <2>1, <2>2 DEF ClientInv
<1>8. WireInv'
  BY <1>1, <1>2, <1>5, <1>6 DEF WireInv, Answered, Ready
<1>9. TextInv'
  <2>1. ASSUME doc'.open, peer.alive PROVE Mirrors(buf.text, doc', wire', peer)
    BY <1>1, <1>2, <1>4, <1>6, <2>1, MirrorsTold DEF TextInv
  <2> QED BY <1>1, <1>2, <1>6, <2>1 DEF TextInv, AnswerFresh
<1> QED BY <1>7, <1>8, <1>9 DEF LspInv


LEMMA AskKeeps ==
  ASSUME LspInv, Ask PROVE LspInv'
<1> DEFINE w == Flush(wire, doc)
<1>1. /\ phase = "keys" /\ phase' = "keys" /\ buf.loaded /\ Ready /\ doc.on
      /\ doc' = Flushed(doc) /\ wire' = Called(w, "ask", buf.gen)
      /\ used' = [used EXCEPT !.asks = @ + 1]
      /\ UNCHANGED <<buf, srv, owners, peer, shown>>
  BY DEF Ask, AtKeys, Flush
<1>2. Shapes /\ DocAgrees /\ JobAgrees /\ WireInv /\ TextInv
  BY DEF LspInv, ClientInv
<1>3. /\ DocFits(doc) /\ WireFits(wire) /\ Greeted(wire)
      /\ doc.open /\ wire.live /\ wire.shut = "no"
  BY <1>1, <1>2 DEF Shapes, WireInv, Ready, DocAgrees, JobAgrees
<1>4. /\ DocFits(doc') /\ doc'.on /\ doc'.open
      /\ doc'.pending = <<>> /\ ~doc'.full
  BY <1>1, <1>3, FlushedFits
<1>5. w = Flush(wire, doc)
  OBVIOUS
<1> HIDE DEF w
<1>6. /\ WireFits(w) /\ w.in = wire.in /\ w.calls = wire.calls
      /\ w.next = wire.next /\ w.live /\ w.shut = "no" /\ Numbered(w)
  BY <1>2, <1>3, <1>5, Flushing DEF WireInv
<1>7. /\ Greeted(w) /\ Fresh(w, peer, buf)
      /\ peer.alive => Heeded(w, peer)[Len(w.out)] = buf.text
  <2>1. /\ Greeted(wire) => Greeted(w) /\ Greeting(w)
        /\ Fresh(wire, peer, buf) => Fresh(w, peer, buf)
        /\ doc.open /\ (doc.full \/ Mirrors(buf.text, doc, wire, peer))
             => Heeded(w, peer)[Len(w.out)] = buf.text
    BY <1>2, <1>3, <1>5, FlushingTexts
  <2> QED BY <1>1, <1>2, <1>3, <2>1 DEF TextInv
<1> DEFINE c == CallOf(w, "ask", buf.gen)
<1>8. buf.gen \in Nat /\ "ask" \in Questions
  BY <1>2 DEF Shapes, Questions
<1>9. /\ WireFits(wire') /\ Numbered(wire')
      /\ wire'.in = wire.in /\ wire'.calls = wire.calls \cup {c}
      /\ wire'.live /\ wire'.shut = "no"
  BY <1>1, <1>2, <1>6, <1>8, Calling
<1>10. /\ Greeted(wire') /\ Greeting(wire')
       /\ Fresh(wire', peer, buf)
       /\ Heeded(wire', peer)[Len(wire'.out)] = Heeded(w, peer)[Len(w.out)]
  <2>1. Greeted(wire') /\ Greeting(wire')
    BY <1>1, <1>2, <1>6, <1>7, <1>8, CallingGreets
  <2>2. Fresh(wire', peer, buf)
    BY <1>1, <1>2, <1>6, <1>7, <1>8, CallingFresh
  <2>3. Heeded(wire', peer)[Len(wire'.out)] = Heeded(w, peer)[Len(w.out)]
    BY <1>1, <1>2, <1>6, <1>8, CallingHeeds
  <2> QED BY <2>1, <2>2, <2>3
<1>11. c.what # "init"
  BY DEF CallOf
<1> HIDE DEF c
<1>12. ClientInv'
  <2>1. Shapes'
    <3>1. DOMAIN used' = DOMAIN used /\ used'.edits = used.edits
      BY <1>1, <1>2 DEF Shapes
    <3> QED BY <1>1, <1>2, <1>4, <1>9, <3>1 DEF Shapes
  <2>2. DocAgrees' /\ JobAgrees'
    BY <1>1, <1>2, <1>3, <1>4, <1>9, <1>11 DEF DocAgrees, JobAgrees, Ready
  <2> QED BY <2>1, <2>2 DEF ClientInv
<1>13. WireInv'
  BY <1>1, <1>2, <1>9, <1>10 DEF WireInv, Answered, Ready
<1>14. TextInv'
  <2>1. peer.alive => Mirrors(buf.text, doc', wire', peer)
    BY <1>4, <1>7, <1>10, MirrorsTold
  <2> QED BY <1>1, <1>2, <1>10, <2>1 DEF TextInv, AnswerFresh
<1> QED BY <1>12, <1>13, <1>14 DEF LspInv

(* The document goes and, if it is known to the server, the server is told.  *)
Closing(v) == v = IF Ready /\ doc.open THEN Sending(wire, [op |-> "close"])
                  ELSE wire

LEMMA ClosingKeeps ==
  ASSUME Shapes, WireInv, NEW v, Closing(v), NEW b, Fresh(wire, peer, b)
  PROVE  /\ WireFits(v)
         /\ v.in = wire.in /\ v.calls = wire.calls /\ v.next = wire.next
         /\ v.live = wire.live /\ v.shut = wire.shut
         /\ Numbered(v) /\ Greeting(v) /\ Answered(v, peer)
         /\ Ready => Greeted(v)
         /\ Fresh(v, peer, b)
<1>1. /\ WireFits(wire) /\ Numbered(wire) /\ Greeting(wire)
      /\ Answered(wire, peer) /\ (Ready => Greeted(wire))
  BY DEF Shapes, WireInv
<1>2. CASE Ready /\ doc.open
  <2>1. v = Sending(wire, [op |-> "close"])
    BY <1>2 DEF Closing
  <2>2. /\ WireFits(v)
        /\ v.in = wire.in /\ v.calls = wire.calls /\ v.next = wire.next
        /\ v.live = wire.live /\ v.shut = wire.shut
        /\ Numbered(v)
    BY <1>1, <2>1, Telling
  <2>3. Greeted(v) /\ Greeting(v) /\ Fresh(v, peer, b)
    BY <1>1, <1>2, <2>1, TellingTexts
  <2>4. Answered(v, peer)
    BY <1>1, <2>2 DEF Answered
  <2> QED BY <2>2, <2>3, <2>4
<1>3. CASE ~(Ready /\ doc.open)
  BY <1>1, <1>3 DEF Closing
<1> QED BY <1>2, <1>3

LEMMA DeferKeeps ==
  ASSUME LspInv, Defer PROVE LspInv'
<1>1. /\ phase = "keys" /\ phase' = "keys"
      /\ buf' = [buf EXCEPT !.loaded = FALSE, !.text = <<>>, !.gen = 0]
      /\ doc' = NoDoc /\ Closing(wire')
      /\ used' = [used EXCEPT !.upsets = @ + 1]
      /\ UNCHANGED <<srv, owners, peer, shown>>
  BY DEF Defer, AtKeys, Closing, Sending
<1>2. Shapes /\ DocAgrees /\ JobAgrees /\ WireInv /\ TextInv
  BY DEF LspInv, ClientInv
<1>3. /\ buf' \in [text : Seq(Chars), gen : Nat, loaded : BOOLEAN, life : Nat]
      /\ buf'.gen = 0 /\ ~buf'.loaded /\ buf'.life = buf.life
  <2> DEFINE f == [buf EXCEPT !.loaded = FALSE]
             g == [f EXCEPT !.text = <<>>]
  <2>1. /\ f \in [text : Seq(Chars), gen : Nat, loaded : BOOLEAN, life : Nat]
        /\ ~f.loaded /\ f.life = buf.life
    BY <1>2 DEF Shapes
  <2>2. buf' = [g EXCEPT !.gen = 0]
    BY <1>1
  <2>3. g = [f EXCEPT !.text = <<>>] /\ <<>> \in Seq(Chars)
    OBVIOUS
  <2> HIDE DEF f, g
  <2>4. /\ g \in [text : Seq(Chars), gen : Nat, loaded : BOOLEAN, life : Nat]
        /\ ~g.loaded /\ g.life = buf.life
    BY <2>1, <2>3
  <2> QED BY <2>2, <2>4
<1>4. DocFits(doc') /\ ~doc'.on /\ ~doc'.open
  <2>1. <<>> \in Seq(ChangeType) /\ Len(<<>>) = 0
    OBVIOUS
  <2> QED BY <1>1, <2>1, LspAssumption DEF NoDoc, DocFits
<1>5. Fresh(wire, peer, buf')
  BY <1>2, <1>3 DEF TextInv, Fresh
<1>6. /\ WireFits(wire')
      /\ wire'.in = wire.in /\ wire'.calls = wire.calls
      /\ wire'.next = wire.next
      /\ wire'.live = wire.live /\ wire'.shut = wire.shut
      /\ Numbered(wire') /\ Greeting(wire') /\ Answered(wire', peer)
      /\ Ready => Greeted(wire')
      /\ Fresh(wire', peer, buf')
  BY <1>1, <1>2, <1>5, ClosingKeeps
<1>7. ClientInv'
  <2>1. Shapes'
    <3>1. DOMAIN used' = DOMAIN used /\ used'.edits = used.edits
      BY <1>1, <1>2 DEF Shapes
    <3> QED BY <1>1, <1>2, <1>3, <1>4, <1>6, <3>1 DEF Shapes
  <2>2. DocAgrees' /\ JobAgrees'
    BY <1>1, <1>2, <1>3, <1>4, <1>6 DEF DocAgrees, JobAgrees, Ready
  <2> QED BY <2>1, <2>2 DEF ClientInv
<1>8. WireInv'
  BY <1>1, <1>2, <1>6 DEF WireInv, Ready
<1>9. TextInv'
  BY <1>1, <1>2, <1>4, <1>6 DEF TextInv, AnswerFresh
<1> QED BY <1>7, <1>8, <1>9 DEF LspInv

LEMMA LoadKeeps ==
  ASSUME LspInv, Load PROVE LspInv'
<1>1. PICK t \in Texts :
        buf' = [text |-> t, gen |-> 0, loaded |-> TRUE, life |-> buf.life + 1]
  BY DEF Load
<1>2. /\ phase = "keys" /\ phase' = "keys" /\ ~buf.loaded
      /\ UNCHANGED <<doc, srv, owners, wire, peer, shown, used>>
  BY DEF Load, AtKeys
<1>3. Shapes /\ DocAgrees /\ JobAgrees /\ WireInv /\ TextInv
  BY DEF LspInv, ClientInv
<1>4. /\ buf' \in [text : Seq(Chars), gen : Nat, loaded : BOOLEAN, life : Nat]
      /\ buf'.gen = 0 /\ buf'.loaded /\ buf'.life = buf.life + 1
      /\ buf.life \in Nat /\ ~doc.on /\ ~doc.open
  BY <1>1, <1>2, <1>3, LspAssumption DEF Shapes, DocAgrees, DocFits
<1>5. ASSUME NEW c \in wire.calls
      PROVE  c.life <= buf'.life /\ c.life # buf'.life
  <2>1. c \in CallType /\ c.life <= buf.life
    BY <1>3 DEF Shapes, WireFits, TextInv, Fresh
  <2> QED BY <1>4, <2>1 DEF CallType
<1>6. ClientInv'
  <2>1. Shapes'
    BY <1>2, <1>3, <1>4 DEF Shapes
  <2>2. DocAgrees' /\ JobAgrees'
    BY <1>2, <1>3, <1>4 DEF DocAgrees, JobAgrees, Ready
  <2> QED BY <2>1, <2>2 DEF ClientInv
<1>7. WireInv'
  BY <1>2, <1>3 DEF WireInv, Ready
<1>8. TextInv'
  <2>1. Fresh(wire', peer', buf')
    BY <1>2, <1>5 DEF Fresh
  <2> QED BY <1>2, <1>3, <1>4, <2>1 DEF TextInv, AnswerFresh
<1> QED BY <1>6, <1>7, <1>8 DEF LspInv


LEMMA RestartKeeps ==
  ASSUME LspInv, Restart PROVE LspInv'
<1>1. /\ phase = "keys" /\ phase' = "keys" /\ doc.on
      /\ Closing(wire') /\ doc' = Forgotten(doc)
      /\ srv' = [Reset(srv) EXCEPT !.restarts = 0, !.gave_up = FALSE,
                                   !.state = "dead", !.timed = TRUE,
                                   !.due = TRUE]
      /\ peer' = Told(peer)
      /\ used' = [used EXCEPT !.upsets = @ + 1, !.tried = FALSE]
      /\ UNCHANGED <<buf, owners, shown>>
  BY DEF Restart, AtKeys, Closing, Sending
<1>2. Shapes /\ DocAgrees /\ JobAgrees /\ WireInv /\ TextInv
  BY DEF LspInv, ClientInv
<1>3. /\ SrvFits(srv') /\ srv'.state = "dead" /\ srv'.job = srv.job
      /\ srv'.run = srv.run
  <2> DEFINE r == Reset(srv)
  <2>1. /\ DOMAIN r = DOMAIN srv /\ r.exit = FALSE /\ r.kind = 0
        /\ r.enc = "utf-16" /\ r.job = srv.job /\ r.run = srv.run
    BY <1>2 DEF Shapes, SrvFits, Reset
  <2>2. srv' = [r EXCEPT !.restarts = 0, !.gave_up = FALSE, !.state = "dead",
                         !.timed = TRUE, !.due = TRUE]
    BY <1>1
  <2> HIDE DEF r
  <2>3. /\ DOMAIN srv' = DOMAIN srv /\ srv'.state = "dead"
        /\ srv'.job = srv.job /\ srv'.run = srv.run /\ srv'.restarts = 0
        /\ srv'.gave_up = FALSE /\ srv'.timed = TRUE /\ srv'.due = TRUE
        /\ srv'.exit = FALSE /\ srv'.kind = 0 /\ srv'.enc = "utf-16"
    BY <1>2, <2>1, <2>2 DEF Shapes, SrvFits
  <2>4. Tries # 0 /\ 0 \in 0 .. Tries
    BY LspAssumption
  <2>5. SrvFits(srv')
    <3>1. SrvFits(srv)
      BY <1>2 DEF Shapes
    <3>2. /\ srv'.job \in Nat /\ DOMAIN srv' = DOMAIN srv
          /\ srv'.run \in {"none", "running", "exited", "execfail"}
      BY <2>3, <3>1 DEF SrvFits
    <3>3. srv'.restarts \in 0 .. Tries /\ srv'.restarts # Tries
      BY <2>3, <2>4
    <3>4. srv'.kind \in 0 .. 2 /\ srv'.enc \in Encodings
      BY <2>3 DEF Encodings
    <3> QED BY <2>3, <3>1, <3>2, <3>3, <3>4 DEF SrvFits
  <2> QED BY <2>3, <2>5
<1>4. DocFits(doc') /\ doc'.on = doc.on /\ ~doc'.open
  BY <1>1, <1>2, ForgottenFits DEF Shapes
<1>5. /\ WireFits(wire')
      /\ wire'.in = wire.in /\ wire'.calls = wire.calls
      /\ wire'.next = wire.next
      /\ wire'.live = wire.live /\ wire'.shut = wire.shut
      /\ Numbered(wire') /\ Greeting(wire') /\ Answered(wire', peer)
      /\ Fresh(wire', peer, buf)
  <2>1. Fresh(wire, peer, buf)
    BY <1>2 DEF TextInv
  <2> QED BY <1>1, <1>2, <2>1, ClosingKeeps
<1>6. /\ DOMAIN peer' = {"alive", "told", "enc", "copy"}
      /\ peer'.enc = peer.enc /\ peer'.copy = peer.copy
      /\ peer'.alive = peer.alive
  BY <1>1, <1>2, ToldIs
<1>7. Answered(wire', peer') /\ Fresh(wire', peer', buf)
  BY <1>5, <1>6, SamePeer
<1>8. ClientInv'
  <2>1. Shapes'
    <3>1. DOMAIN used' = DOMAIN used /\ used'.edits = used.edits
      BY <1>1, <1>2 DEF Shapes
    <3> QED BY <1>1, <1>2, <1>3, <1>4, <1>5, <1>6, <3>1 DEF Shapes
  <2>2. DocAgrees' /\ JobAgrees'
    BY <1>1, <1>2, <1>3, <1>4, <1>5, <1>6 DEF DocAgrees, JobAgrees, Ready
  <2> QED BY <2>1, <2>2 DEF ClientInv
<1>9. ~Ready'
  BY <1>3 DEF Ready
<1>10. WireInv' /\ TextInv'
  BY <1>1, <1>2, <1>5, <1>7, <1>9 DEF WireInv, TextInv, AnswerFresh
<1> QED BY <1>8, <1>10 DEF LspInv

LEMMA StopKeeps ==
  ASSUME LspInv, Stop PROVE LspInv'
<1>1. /\ phase = "keys" /\ phase' = "keys"
      /\ srv.state \in {"init", "ready", "stopping"}
      /\ srv' = [srv EXCEPT !.state = "stopping"]
      /\ IF wire.live THEN wire' = Called(wire, "shutdown", 0) /\ peer' = peer
                      ELSE wire' = wire /\ peer' = Told(peer)
      /\ used' = [used EXCEPT !.upsets = @ + 1, !.stops = @ + 1]
      /\ UNCHANGED <<buf, doc, owners, shown>>
  BY DEF Stop, AtKeys
<1>2. Shapes /\ DocAgrees /\ JobAgrees /\ WireInv /\ TextInv
  BY DEF LspInv, ClientInv
<1>3. /\ SrvFits(srv') /\ srv'.state = "stopping" /\ srv'.job = srv.job
      /\ srv'.run = srv.run
  BY <1>1, <1>2 DEF Shapes, SrvFits
<1>4. /\ WireFits(wire') /\ Numbered(wire') /\ Greeting(wire')
      /\ wire'.in = wire.in /\ wire'.live = wire.live
      /\ \A c \in wire'.calls : c \in wire.calls \/ c.what = "shutdown"
  <2>1. WireFits(wire) /\ Numbered(wire) /\ Greeting(wire)
    BY <1>2 DEF Shapes, WireInv
  <2>2. CASE wire.live
    <3> DEFINE c == CallOf(wire, "shutdown", 0)
    <3>1. "shutdown" \in Questions /\ 0 \in Nat /\ c.what = "shutdown"
      BY DEF Questions, CallOf
    <3> HIDE DEF c
    <3>2. wire' = Called(wire, "shutdown", 0)
      BY <1>1, <2>2
    <3>3. /\ WireFits(wire') /\ Numbered(wire')
          /\ wire'.in = wire.in /\ wire'.live
          /\ wire'.calls = wire.calls \cup {c}
      BY <1>2, <2>1, <2>2, <3>1, <3>2, Calling DEF c
    <3>4. Greeting(wire')
      BY <1>2, <2>1, <2>2, <3>1, <3>2, CallingGreets
    <3>5. wire.live \in BOOLEAN /\ wire'.live \in BOOLEAN
      BY <2>1, <3>3 DEF WireFits
    <3> QED BY <2>2, <3>1, <3>3, <3>4, <3>5
  <2>3. CASE ~wire.live
    BY <1>1, <2>1, <2>3
  <2> QED BY <2>2, <2>3
<1>5. Fresh(wire', peer, buf)
  <2>1. Fresh(wire, peer, buf)
    BY <1>2 DEF TextInv
  <2>2. CASE wire.live
    <3>1. /\ "shutdown" \in Questions /\ 0 \in Nat
          /\ wire' = Called(wire, "shutdown", 0)
          /\ WireFits(wire) /\ Numbered(wire)
      BY <1>1, <1>2, <2>2 DEF Questions, Shapes, WireInv
    <3> QED BY <1>2, <2>1, <2>2, <3>1, CallingFresh
  <2>3. CASE ~wire.live
    BY <1>1, <2>1, <2>3
  <2> QED BY <2>2, <2>3
<1>6. /\ DOMAIN peer' = {"alive", "told", "enc", "copy"}
      /\ peer'.enc = peer.enc /\ peer'.copy = peer.copy
      /\ peer'.alive = peer.alive
  BY <1>1, <1>2, ToldIs DEF Shapes
<1>7. Answered(wire', peer') /\ Fresh(wire', peer', buf)
  <2>1. Answered(wire', peer)
    BY <1>2, <1>4 DEF WireInv, Answered
  <2> QED BY <1>5, <1>6, <2>1, SamePeer
<1>8. ClientInv'
  <2>1. Shapes'
    <3>1. DOMAIN used' = DOMAIN used /\ used'.edits = used.edits
      BY <1>1, <1>2 DEF Shapes
    <3> QED BY <1>1, <1>2, <1>3, <1>4, <1>6, <3>1 DEF Shapes
  <2>2. DocAgrees' /\ JobAgrees'
    BY <1>1, <1>2, <1>3, <1>4, <1>6 DEF DocAgrees, JobAgrees, Ready
  <2> QED BY <2>1, <2>2 DEF ClientInv
<1>9. ~Ready'
  BY <1>3 DEF Ready
<1>10. WireInv' /\ TextInv'
  BY <1>1, <1>2, <1>4, <1>7, <1>9 DEF WireInv, TextInv, AnswerFresh
<1> QED BY <1>8, <1>10 DEF LspInv


(* Answers and calls are taken from the connection.                          *)
Dropped(w) ==
  /\ WireFits(w) /\ w.in \subseteq wire.in /\ w.calls \subseteq wire.calls
  /\ w.out = wire.out /\ w.next = wire.next
  /\ w.live = wire.live /\ w.shut = wire.shut

LEMMA DroppedKeeps ==
  ASSUME WireInv, Fresh(wire, peer, buf), NEW w, Dropped(w)
  PROVE  /\ Numbered(w) /\ Greeting(w) /\ Answered(w, peer)
         /\ Ready => Greeted(w)
         /\ Fresh(w, peer, buf)
         /\ \A t, d : Mirrors(t, d, wire, peer) => Mirrors(t, d, w, peer)
<1>1. /\ w.out = wire.out /\ w.in \subseteq wire.in
      /\ w.calls \subseteq wire.calls /\ w.next = wire.next
  BY DEF Dropped
<1>2. /\ Numbered(w) /\ Greeting(w) /\ Answered(w, peer)
      /\ Ready => Greeted(w)
      /\ Fresh(w, peer, buf)
  BY <1>1, DropKeeps DEF WireInv
<1>3. \A t, d : Mirrors(t, d, wire, peer) => Mirrors(t, d, w, peer)
  BY <1>1 DEF Mirrors, Heeded
<1> QED BY <1>2, <1>3

(* A call is dropped, or answered by none that waits for it.                 *)
LEMMA DroppingKeeps ==
  ASSUME LspInv, phase' = "events", Dropped(wire'),
         UNCHANGED <<buf, doc, srv, owners, peer, used>>, shown' # "stale"
  PROVE  LspInv'
<1>1. Shapes /\ DocAgrees /\ JobAgrees /\ WireInv /\ TextInv
  BY DEF LspInv, ClientInv
<1>2. /\ Numbered(wire') /\ Greeting(wire') /\ Answered(wire', peer)
      /\ Ready => Greeted(wire')
      /\ Fresh(wire', peer, buf)
      /\ \A t, d : Mirrors(t, d, wire, peer) => Mirrors(t, d, wire', peer)
  BY <1>1, DroppedKeeps DEF TextInv
<1>3. ClientInv'
  <2>1. Shapes'
    BY <1>1 DEF Shapes, Dropped
  <2>2. DocAgrees' /\ JobAgrees'
    BY <1>1 DEF DocAgrees, JobAgrees, Ready, Dropped
  <2> QED BY <2>1, <2>2 DEF ClientInv
<1>4. WireInv'
  BY <1>1, <1>2 DEF WireInv, Ready
<1>5. TextInv'
  BY <1>1, <1>2 DEF TextInv, Ready, AnswerFresh
<1> QED BY <1>3, <1>4, <1>5 DEF LspInv

(* The greeting is answered: the server is ready, or off.                    *)
LEMMA RefusedKeeps ==
  ASSUME LspInv, phase' = "events", Dropped(wire'), ~doc.open,
         srv' = [srv EXCEPT !.state = "dead", !.gave_up = TRUE],
         peer' = Told(peer), UNCHANGED <<buf, doc, owners, shown, used>>
  PROVE  LspInv'
<1>1. Shapes /\ DocAgrees /\ JobAgrees /\ WireInv /\ TextInv
  BY DEF LspInv, ClientInv
<1>2. /\ Numbered(wire') /\ Greeting(wire') /\ Answered(wire', peer)
      /\ Fresh(wire', peer, buf)
  BY <1>1, DroppedKeeps DEF TextInv
<1>3. /\ DOMAIN peer' = {"alive", "told", "enc", "copy"}
      /\ peer'.enc = peer.enc /\ peer'.copy = peer.copy
      /\ peer'.alive = peer.alive
  BY <1>1, ToldIs
<1>4. Answered(wire', peer') /\ Fresh(wire', peer', buf)
  BY <1>2, <1>3, SamePeer
<1>5. /\ SrvFits(srv') /\ srv'.state = "dead" /\ srv'.job = srv.job
      /\ srv'.run = srv.run
  <2>1. SrvFits(srv)
    BY <1>1 DEF Shapes
  <2>2. /\ DOMAIN srv' = DOMAIN srv /\ srv'.state = "dead"
        /\ srv'.gave_up = TRUE /\ srv'.restarts = srv.restarts
        /\ srv'.exit = srv.exit /\ srv'.timed = srv.timed
        /\ srv'.due = srv.due /\ srv'.kind = srv.kind
        /\ srv'.enc = srv.enc /\ srv'.job = srv.job /\ srv'.run = srv.run
    BY <2>1 DEF SrvFits
  <2> QED BY <2>1, <2>2 DEF SrvFits
<1>6. ClientInv'
  <2>1. Shapes'
    BY <1>1, <1>3, <1>5 DEF Shapes, Dropped
  <2>2. DocAgrees' /\ JobAgrees'
    BY <1>1, <1>3, <1>5 DEF DocAgrees, JobAgrees, Ready, Dropped
  <2> QED BY <2>1, <2>2 DEF ClientInv
<1>7. ~Ready'
  BY <1>5 DEF Ready
<1>8. WireInv' /\ TextInv'
  BY <1>1, <1>2, <1>4, <1>7 DEF WireInv, TextInv, AnswerFresh
<1> QED BY <1>6, <1>8 DEF LspInv

LEMMA AgreedKeeps ==
  ASSUME LspInv, phase' = "events", srv.state = "init", srv.run # "execfail",
         NEW kind \in 1 .. 2, NEW enc \in Encodings, enc = peer.enc,
         NEW w, Dropped(w), Greeted(w),
         \A c \in w.calls : c.what # "init",
         srv' = [srv EXCEPT !.state = "ready", !.kind = kind, !.enc = enc],
         IF doc.on /\ ~doc.open /\ buf.loaded
         THEN doc' = Opened(doc) /\ wire' = Sending(w, OpenMsg)
         ELSE doc' = doc /\ wire' = w,
         UNCHANGED <<buf, owners, peer, shown, used>>
  PROVE  LspInv'
<1>1. Shapes /\ DocAgrees /\ JobAgrees /\ WireInv /\ TextInv
  BY DEF LspInv, ClientInv
<1>2. /\ WireFits(w) /\ Numbered(w) /\ Greeting(w) /\ Answered(w, peer)
      /\ Fresh(w, peer, buf) /\ w.shut = "no"
  <2>1. w.shut = "no"
    BY <1>1 DEF JobAgrees, Dropped
  <2>2. WireFits(w)
    BY DEF Dropped
  <2> QED BY <1>1, <2>1, <2>2, DroppedKeeps DEF TextInv
<1>3. /\ SrvFits(srv') /\ srv'.state = "ready" /\ srv'.job = srv.job
      /\ srv'.run = srv.run /\ srv'.kind = kind /\ srv'.enc = enc
  <2>1. SrvFits(srv)
    BY <1>1 DEF Shapes
  <2>2. /\ DOMAIN srv' = DOMAIN srv /\ srv'.state = "ready"
        /\ srv'.gave_up = srv.gave_up /\ srv'.restarts = srv.restarts
        /\ srv'.exit = srv.exit /\ srv'.timed = srv.timed
        /\ srv'.due = srv.due /\ srv'.kind = kind
        /\ srv'.enc = enc /\ srv'.job = srv.job /\ srv'.run = srv.run
    BY <2>1 DEF SrvFits
  <2> QED BY <2>1, <2>2 DEF SrvFits
<1>4. ~doc.open /\ DocFits(doc)
  BY <1>1 DEF DocAgrees, Shapes
<1>5. /\ WireFits(wire') /\ Numbered(wire') /\ Greeting(wire')
      /\ Greeted(wire') /\ Answered(wire', peer) /\ Fresh(wire', peer, buf)
      /\ wire'.in = w.in /\ wire'.calls = w.calls /\ wire'.live = w.live
      /\ wire'.shut = w.shut
      /\ DocFits(doc') /\ doc'.on = doc.on /\ (doc.on => doc'.open)
      /\ doc'.open => Mirrors(buf.text, doc', wire', peer)
  <2>1. CASE doc.on
    <3>1. doc' = Opened(doc) /\ wire' = Sending(w, OpenMsg)
      BY <1>1, <1>4, <2>1 DEF DocAgrees
    <3>2. /\ WireFits(wire')
          /\ wire'.in = w.in /\ wire'.calls = w.calls /\ wire'.next = w.next
          /\ wire'.live = w.live /\ wire'.shut = w.shut
          /\ Numbered(w) => Numbered(wire')
      BY <1>1, <1>2, <3>1, Opening
    <3>3. /\ Greeted(w) => Greeted(wire') /\ Greeting(wire')
          /\ Fresh(w, peer, buf) => Fresh(wire', peer, buf)
          /\ Heeded(wire', peer)[Len(wire'.out)] = buf.text
      BY <1>1, <1>2, <3>1, OpeningTexts
    <3>4. DocFits(doc') /\ doc'.on /\ doc'.open /\ doc'.pending = <<>>
      BY <1>4, <2>1, <3>1, OpenedFits
    <3>5. Mirrors(buf.text, doc', wire', peer)
      BY <3>3, <3>4, MirrorsTold
    <3>6. Answered(wire', peer) /\ doc.on \in BOOLEAN /\ doc'.on \in BOOLEAN
      BY <1>2, <1>4, <3>2, <3>4 DEF Answered, DocFits
    <3> QED BY <1>2, <2>1, <3>2, <3>3, <3>4, <3>5, <3>6
  <2>2. CASE ~doc.on
    BY <1>2, <1>4, <2>2
  <2> QED BY <2>1, <2>2
<1>6. ClientInv'
  <2>1. Shapes'
    BY <1>1, <1>3, <1>5 DEF Shapes
  <2>2. DocAgrees' /\ JobAgrees'
    BY <1>1, <1>2, <1>3, <1>5 DEF DocAgrees, JobAgrees, Ready, Dropped
  <2> QED BY <2>1, <2>2 DEF ClientInv
<1>7. WireInv'
  BY <1>1, <1>3, <1>5 DEF WireInv
<1>8. TextInv'
  BY <1>1, <1>5 DEF TextInv, AnswerFresh
<1> QED BY <1>6, <1>7, <1>8 DEF LspInv

(* The shutdown is answered, or its time is up: the server is told to exit.  *)
LEMMA ShutdownKeeps ==
  ASSUME LspInv, phase' = "events", NEW w, Dropped(w), ShutdownDone(w),
         srv.run # "execfail", UNCHANGED <<buf, owners, shown, used>>
  PROVE  LspInv'
<1>1. Shapes /\ DocAgrees /\ JobAgrees /\ WireInv /\ TextInv
  BY DEF LspInv, ClientInv
<1>2. /\ WireFits(w) /\ Numbered(w) /\ Greeting(w) /\ Answered(w, peer)
      /\ Fresh(w, peer, buf) /\ (Ready => Greeted(w))
      /\ \A t, d : Mirrors(t, d, wire, peer) => Mirrors(t, d, w, peer)
  <2>1. WireFits(w)
    BY DEF Dropped
  <2> QED BY <1>1, <2>1, DroppedKeeps DEF TextInv
<1>3. /\ srv' = [srv EXCEPT !.exit = TRUE, !.timed = FALSE, !.due = TRUE]
      /\ wire' = Sent(w, [op |-> "exit"])
      /\ UNCHANGED <<doc, peer>>
  BY DEF ShutdownDone
<1>4. /\ SrvFits(srv') /\ srv'.state = srv.state /\ srv'.job = srv.job
      /\ srv'.run = srv.run /\ srv'.kind = srv.kind /\ srv'.enc = srv.enc
  <2>1. SrvFits(srv)
    BY <1>1 DEF Shapes
  <2>2. /\ DOMAIN srv' = DOMAIN srv /\ srv'.state = srv.state
        /\ srv'.gave_up = srv.gave_up /\ srv'.restarts = srv.restarts
        /\ srv'.exit = TRUE /\ srv'.timed = FALSE
        /\ srv'.due = TRUE /\ srv'.kind = srv.kind
        /\ srv'.enc = srv.enc /\ srv'.job = srv.job /\ srv'.run = srv.run
    BY <1>3, <2>1 DEF SrvFits
  <2> QED BY <2>1, <2>2 DEF SrvFits
<1>5. /\ WireFits(wire') /\ Numbered(wire') /\ Greeting(wire')
      /\ Ready => Greeted(wire')
      /\ Ready \/ srv.state = "init" => wire'.shut = "no"
      /\ Answered(wire', peer) /\ Fresh(wire', peer, buf)
      /\ wire'.in = w.in /\ wire'.calls = w.calls /\ wire'.live = w.live
      /\ Ready /\ Mirrors(buf.text, doc, wire, peer)
           => Mirrors(buf.text, doc, wire', peer)
  <2>1. CASE w.shut = "no"
    <3> DEFINE what == "exit"
    <3>1. /\ wire' = Sending(w, [op |-> what]) /\ what \in {"close", "exit"}
          /\ what = "exit"
      BY <1>3, <2>1 DEF Sent, Sending
    <3> HIDE DEF what
    <3>2. /\ WireFits(wire')
          /\ wire'.in = w.in /\ wire'.calls = w.calls /\ wire'.next = w.next
          /\ wire'.live = w.live /\ wire'.shut = w.shut
          /\ Numbered(w) => Numbered(wire')
      BY <1>2, <3>1, Telling
    <3>3. /\ Greeted(w) => Greeted(wire') /\ Greeting(wire')
          /\ Greeting(w) /\ what = "exit" => Greeting(wire')
          /\ Fresh(w, peer, buf) => Fresh(wire', peer, buf)
          /\ what = "exit" => Heeded(wire', peer)[Len(wire'.out)]
                                = Heeded(w, peer)[Len(w.out)]
      BY <1>2, <3>1, TellingTexts
    <3>4. Answered(wire', peer)
      BY <1>2, <3>2 DEF Answered
    <3>5. Mirrors(buf.text, doc, wire, peer)
            => Mirrors(buf.text, doc, wire', peer)
      BY <1>2, <3>1, <3>3 DEF Mirrors
    <3> QED BY <1>2, <2>1, <3>1, <3>2, <3>3, <3>4, <3>5
  <2>2. CASE w.shut # "no"
    <3>1. wire' = [w EXCEPT !.shut = "stuck"]
      BY <1>3, <2>2 DEF Sent
    <3>2. /\ WireFits(wire')
          /\ wire'.in = w.in /\ wire'.calls = w.calls /\ wire'.next = w.next
          /\ wire'.live = w.live /\ wire'.out = w.out
      BY <1>2, <2>2, <3>1, StuckIs DEF WireFits
    <3>3. /\ Numbered(wire') /\ Greeting(wire')
          /\ Answered(wire', peer) /\ Fresh(wire', peer, buf)
      BY <1>2, <3>2, DropKeeps
    <3>4. ~(Ready \/ srv.state = "init")
      BY <1>1, <2>2 DEF JobAgrees, Dropped
    <3> QED BY <3>2, <3>3, <3>4
  <2> QED BY <2>1, <2>2
<1>6. ClientInv'
  <2>1. Shapes'
    BY <1>1, <1>3, <1>4, <1>5 DEF Shapes
  <2>2. DocAgrees' /\ JobAgrees'
    BY <1>1, <1>2, <1>3, <1>4, <1>5 DEF DocAgrees, JobAgrees, Ready, Dropped
  <2> QED BY <2>1, <2>2 DEF ClientInv
<1>7. WireInv'
  BY <1>1, <1>3, <1>4, <1>5 DEF WireInv, Ready
<1>8. TextInv'
  BY <1>1, <1>3, <1>4, <1>5 DEF TextInv, AnswerFresh, Ready
<1> QED BY <1>6, <1>7, <1>8 DEF LspInv


(* The call that an answer with its number is given to is the one it is to,  *)
(* and about the text it was asked of.                                       *)
LEMMA AnswersItsCall ==
  ASSUME LspInv, NEW a \in wire.in, NEW c \in wire.calls, c.id = a.id
  PROVE  /\ c.what = a.what /\ {d \in wire.calls : d.id = a.id} = {c}
         /\ c.what = "ask" /\ Current(c) => Freshness(c, a) # "stale"
<1>1. Numbered(wire) /\ Fresh(wire, peer, buf)
  BY DEF LspInv, WireInv, TextInv
<1>2. c.what = a.what /\ {d \in wire.calls : d.id = a.id} = {c}
  BY <1>1 DEF Numbered
<1>3. ASSUME c.what = "ask", Current(c), c.life = buf.life
      PROVE  a.seen = buf.text
  BY <1>1, <1>3 DEF Fresh, Timely, Current
<1> QED BY <1>2, <1>3 DEF Freshness

LEMMA DeliverKeeps ==
  ASSUME LspInv, Deliver PROVE LspInv'
<1>1. PICK a \in wire.in :
        LET rest == [wire EXCEPT !.in = @ \ {a}]
            mine == {c \in wire.calls : c.id = a.id}
            w    == [rest EXCEPT !.calls = @ \ mine]
        IN IF mine # {} /\ a.what = "init"
           THEN InitializeDone(w, a.kind, a.enc) /\ shown' = shown
           ELSE IF mine # {} /\ a.what = "shutdown"
           THEN ShutdownDone(w) /\ shown' = shown
           ELSE /\ wire' = w /\ UNCHANGED <<doc, srv, peer>>
                /\ shown' = IF \E c \in mine : Current(c)
                            THEN Freshness(CHOOSE c \in mine : TRUE, a)
                            ELSE shown
  BY DEF Deliver
<1>2. phase' = "events" /\ UNCHANGED <<buf, owners, used>>
  BY DEF Deliver, AtJobs
<1>3. Shapes /\ DocAgrees /\ JobAgrees /\ WireInv /\ TextInv
  BY DEF LspInv, ClientInv
<1> DEFINE mine == {c \in wire.calls : c.id = a.id}
           w    == [wire EXCEPT !.in = wire.in \ {a},
                                !.calls = wire.calls \ mine]
<1>4. Dropped(w) /\ w.in = wire.in \ {a} /\ w.calls = wire.calls \ mine
  <2>1. WireFits(wire)
    BY <1>3 DEF Shapes
  <2>2. /\ DOMAIN w = DOMAIN wire /\ w.in = wire.in \ {a}
        /\ w.calls = wire.calls \ mine /\ w.out = wire.out
        /\ w.next = wire.next /\ w.live = wire.live /\ w.shut = wire.shut
    BY <2>1 DEF WireFits
  <2> HIDE DEF w
  <2>3. WireFits(w)
    BY <2>1, <2>2 DEF WireFits
  <2> QED BY <2>2, <2>3 DEF Dropped
<1>5. /\ mine # {} /\ a.what = "init" =>
           InitializeDone(w, a.kind, a.enc) /\ shown' = shown
      /\ mine # {} /\ a.what = "shutdown" =>
           ShutdownDone(w) /\ shown' = shown
      /\ mine = {} \/ a.what \notin {"init", "shutdown"} =>
           /\ wire' = w /\ UNCHANGED <<doc, srv, peer>>
           /\ shown' = IF \E c \in mine : Current(c)
                       THEN Freshness(CHOOSE c \in mine : TRUE, a)
                       ELSE shown
  BY <1>1
<1>6. srv.run # "execfail"
  BY <1>3 DEF JobAgrees
<1>7. ASSUME mine # {}
      PROVE  \E c \in wire.calls :
               /\ mine = {c} /\ c.what = a.what /\ c.id = a.id
  BY <1>7, AnswersItsCall
<1> HIDE DEF w
<1>8. CASE mine # {} /\ a.what = "init"
  <2>1. PICK c \in wire.calls : mine = {c} /\ c.what = "init"
    BY <1>7, <1>8
  <2>2. ~doc.open /\ ~Ready
    BY <1>3, <2>1 DEF DocAgrees
  <2>3. InitializeDone(w, a.kind, a.enc) /\ shown' = shown
    BY <1>5, <1>8
  <2>4. CASE a.kind = 0 \/ srv.state # "init"
    <3>1. /\ srv' = [srv EXCEPT !.state = "dead", !.gave_up = TRUE]
          /\ peer' = Told(peer) /\ wire' = w /\ doc' = doc
      BY <2>3, <2>4 DEF InitializeDone
    <3> QED BY <1>2, <1>4, <2>2, <2>3, <3>1, RefusedKeeps
  <2>5. CASE ~(a.kind = 0 \/ srv.state # "init")
    <3>1. /\ srv' = [srv EXCEPT !.state = "ready", !.kind = a.kind,
                                !.enc = a.enc]
          /\ IF doc.on /\ ~doc.open /\ buf.loaded
             THEN doc' = Opened(doc) /\ wire' = Sending(w, OpenMsg)
             ELSE doc' = doc /\ wire' = w
          /\ peer' = peer
      BY <2>3, <2>5 DEF InitializeDone, Sending
    <3>2. a.enc = peer.enc /\ a.enc \in Encodings /\ a.kind \in 1 .. 2
      BY <1>3, <1>8, <2>5 DEF WireInv, Answered
    <3>3. Greeted(w)
      <4>1. Greeted(wire)
        BY <1>3, <1>8 DEF WireInv, Greeting, Greeted
      <4> QED BY <1>4, <4>1 DEF Dropped, Greeted
    <3>4. \A d \in w.calls : d.what # "init"
      BY <1>3, <1>4, <2>1 DEF DocAgrees
    <3> QED BY <1>2, <1>4, <1>6, <2>3, <2>5, <3>1, <3>2, <3>3, <3>4,
               AgreedKeeps
  <2> QED BY <2>4, <2>5
<1>9. CASE mine # {} /\ a.what = "shutdown"
  BY <1>2, <1>4, <1>5, <1>6, <1>9, ShutdownKeeps
<1>10. CASE mine = {} \/ a.what \notin {"init", "shutdown"}
  <2>1. /\ wire' = w /\ UNCHANGED <<doc, srv, peer>>
        /\ shown' = IF \E c \in mine : Current(c)
                    THEN Freshness(CHOOSE c \in mine : TRUE, a)
                    ELSE shown
    BY <1>5, <1>10
  <2>2. shown' # "stale"
    <3>1. CASE \E c \in mine : Current(c)
      <4>1. PICK c \in wire.calls : mine = {c} /\ c.what = a.what /\ c.id = a.id
        BY <1>7, <3>1
      <4>2. (CHOOSE d \in mine : TRUE) = c /\ Current(c)
        BY <3>1, <4>1
      <4>3. c.what = "ask"
        BY <1>3, <1>10, <4>1 DEF Shapes, WireFits, CallType, Questions
      <4>4. Freshness(c, a) # "stale"
        BY <4>1, <4>2, <4>3, AnswersItsCall
      <4> QED BY <2>1, <3>1, <4>2, <4>4
    <3>2. CASE ~\E c \in mine : Current(c)
      BY <1>3, <2>1, <3>2 DEF TextInv, AnswerFresh
    <3> QED BY <3>1, <3>2
  <2> QED BY <1>2, <1>4, <2>1, <2>2, DroppingKeeps
<1> QED BY <1>8, <1>9, <1>10

LEMMA ExpireKeeps ==
  ASSUME LspInv, Expire PROVE LspInv'
<1>1. PICK c \in wire.calls :
        LET w == [wire EXCEPT !.calls = @ \ {c}]
        IN IF c.what = "init" THEN InitializeDone(w, 0, "utf-16")
           ELSE IF c.what = "shutdown" THEN ShutdownDone(w)
           ELSE wire' = w /\ UNCHANGED <<doc, srv, peer>>
  BY DEF Expire
<1>2. /\ phase' = "events" /\ srv.run = "running"
      /\ UNCHANGED <<buf, owners, shown, used>>
  BY DEF Expire, AtJobs
<1>3. Shapes /\ DocAgrees /\ JobAgrees /\ WireInv /\ TextInv
  BY DEF LspInv, ClientInv
<1> DEFINE w == [wire EXCEPT !.calls = @ \ {c}]
<1>4. Dropped(w)
  <2>1. WireFits(wire)
    BY <1>3 DEF Shapes
  <2>2. /\ DOMAIN w = DOMAIN wire /\ w.in = wire.in
        /\ w.calls = wire.calls \ {c} /\ w.out = wire.out
        /\ w.next = wire.next /\ w.live = wire.live /\ w.shut = wire.shut
    BY <2>1 DEF WireFits
  <2> HIDE DEF w
  <2>3. WireFits(w)
    BY <2>1, <2>2 DEF WireFits
  <2> QED BY <2>2, <2>3 DEF Dropped
<1>5. /\ c.what = "init" => InitializeDone(w, 0, "utf-16")
      /\ c.what = "shutdown" => ShutdownDone(w)
      /\ c.what \notin {"init", "shutdown"} =>
           wire' = w /\ UNCHANGED <<doc, srv, peer>>
  BY <1>1
<1> HIDE DEF w
<1>6. CASE c.what = "init"
  <2>1. ~doc.open
    BY <1>3, <1>6 DEF DocAgrees
  <2>2. /\ srv' = [srv EXCEPT !.state = "dead", !.gave_up = TRUE]
        /\ peer' = Told(peer) /\ wire' = w /\ doc' = doc
    BY <1>5, <1>6 DEF InitializeDone
  <2> QED BY <1>2, <1>4, <2>1, <2>2, RefusedKeeps
<1>7. CASE c.what = "shutdown"
  <2>1. srv.run # "execfail"
    BY <1>2
  <2> QED BY <1>2, <1>4, <1>5, <1>7, <2>1, ShutdownKeeps
<1>8. CASE c.what \notin {"init", "shutdown"}
  <2>1. shown' # "stale"
    BY <1>2, <1>3 DEF TextInv, AnswerFresh
  <2> QED BY <1>2, <1>4, <1>5, <1>8, <2>1, DroppingKeeps
<1> QED BY <1>6, <1>7, <1>8


(* A new process is started and greeted, or there is no room for one.        *)
NewWire == [NoWire EXCEPT !.live = TRUE]

LEMMA Greets ==
  ASSUME Shapes, NEW v, v = Called(NewWire, "init", 0)
  PROVE  /\ WireFits(v) /\ Numbered(v) /\ Greeting(v)
         /\ v.in = {} /\ v.live /\ v.shut = "no"
         /\ \A c, d \in v.calls : c = d
<1> DEFINE c == CallOf(NewWire, "init", 0)
           m == Question(NewWire, "init")
           u == Asked(NewWire, "init")
<1>1. /\ WireFits(NewWire) /\ Numbered(NewWire) /\ NewWire.shut = "no"
      /\ NewWire.out = <<>> /\ NewWire.in = {} /\ NewWire.calls = {}
  BY EmptyWire, Zenon DEF NewWire
<1>2. NewWire.live /\ "init" \in Questions /\ 0 \in Nat
  BY DEF NewWire, NoWire, Questions
<1>3. /\ WireFits(v) /\ Numbered(v) /\ v.in = {} /\ v.live
      /\ v.calls = {} \cup {c} /\ v.shut = "no"
  BY <1>1, <1>2, Calling
<1>4. /\ v = Noting(u, c) /\ c \in CallType
      /\ m \in MessageType /\ m.op = "init"
      /\ u = Sending(NewWire, m) /\ WireFits(u) /\ u.live
  BY <1>1, <1>2, CalledIs
<1> HIDE DEF c, m, u
<1>5. Len(u.out) = Len(<<>>) + 1 /\ u.out[Len(<<>>) + 1] = m
  BY <1>1, <1>4, SendIs
<1>6. v.out = u.out
  BY <1>4, NoteIs
<1>7. Len(v.out) = 1 /\ v.out[1].op = "init"
  BY <1>4, <1>5, <1>6
<1>8. Greeting(v)
  BY <1>3, <1>7 DEF Greeting
<1> QED BY <1>3, <1>8

LEMMA SpawningKeeps ==
  ASSUME LspInv, phase' = "keys", srv.run # "running", owners = {},
         NEW s, SrvFits(s), s.job = srv.job, ~s.gave_up, Spawning(s),
         DocFits(doc'), ~doc'.open, doc'.on => buf.loaded,
         UNCHANGED <<buf, shown>>
  PROVE  LspInv'
<1>1. Shapes /\ DocAgrees /\ JobAgrees /\ WireInv /\ TextInv
  BY DEF LspInv, ClientInv
<1>2. ~peer.alive /\ s.job \in Nat
  BY <1>1 DEF JobAgrees, SrvFits
<1>3. ASSUME NEW how \in {"running", "execfail"}, Spawn(s, how)
      PROVE  LspInv'
  <2>1. /\ srv' = [s EXCEPT !.state = "init", !.job = @ + 1, !.run = how]
        /\ owners' = {s.job + 1} /\ wire' = Called(NewWire, "init", 0)
        /\ peer' = [NoPeer EXCEPT !.alive = (how = "running")]
        /\ used' = [used EXCEPT !.tried = TRUE]
    BY <1>3 DEF Spawn, NewWire
  <2>2. /\ SrvFits(srv') /\ srv'.state = "init" /\ srv'.job = s.job + 1
        /\ srv'.run = how
    <3>1. /\ DOMAIN srv' = DOMAIN s /\ srv'.state = "init"
          /\ srv'.gave_up = s.gave_up /\ srv'.restarts = s.restarts
          /\ srv'.exit = s.exit /\ srv'.timed = s.timed
          /\ srv'.due = s.due /\ srv'.kind = s.kind /\ srv'.enc = s.enc
          /\ srv'.job = s.job + 1 /\ srv'.run = how
      BY <2>1 DEF SrvFits
    <3> QED BY <1>2, <3>1 DEF SrvFits
  <2>3. /\ WireFits(wire') /\ Numbered(wire') /\ Greeting(wire')
        /\ wire'.in = {} /\ wire'.live /\ wire'.shut = "no"
        /\ \A c, d \in wire'.calls : c = d
    BY <1>1, <2>1, Greets
  <2>4. Fresh(wire', peer', buf)
    <3>1. /\ WireFits(NewWire) /\ Numbered(NewWire)
          /\ Fresh(NewWire, peer', buf)
      BY EmptyWire, Zenon DEF NewWire
    <3>2. /\ NewWire.live /\ "init" \in Questions /\ 0 \in Nat
          /\ "init" # "ask"
      BY DEF NewWire, NoWire, Questions
    <3> QED BY <1>1, <2>1, <3>1, <3>2, CallingFresh
  <2>5. /\ DOMAIN peer' = {"alive", "told", "enc", "copy"}
        /\ peer'.alive => how = "running"
    BY <2>1 DEF NoPeer
  <2>6. DOMAIN used' = DOMAIN used /\ used'.edits = used.edits
    BY <1>1, <2>1 DEF Shapes
  <2>7. Shapes'
    BY <1>1, <2>2, <2>3, <2>5, <2>6 DEF Shapes
  <2>8. DocAgrees'
    BY <2>2, <2>3 DEF DocAgrees, Ready
  <2>9. JobAgrees'
    <3>1. s.job + 1 \in 1 .. s.job + 1
      BY <1>2
    <3> QED BY <2>1, <2>2, <2>3, <2>5, <3>1 DEF JobAgrees, Ready
  <2>10. WireInv'
    BY <2>2, <2>3 DEF WireInv, Ready, Answered
  <2>11. TextInv'
    BY <1>1, <2>2, <2>4 DEF TextInv, Ready, AnswerFresh
  <2> QED BY <2>7, <2>8, <2>9, <2>10, <2>11 DEF LspInv, ClientInv
<1>4. ASSUME NoRoom(s) PROVE LspInv'
  <2>1. /\ srv' = [s EXCEPT !.state = "dead", !.gave_up = TRUE, !.run = "none"]
        /\ used' = [used EXCEPT !.tried = TRUE]
        /\ owners' = owners /\ peer' = peer /\ wire' = NoWire
    BY <1>4 DEF NoRoom
  <2>2. /\ SrvFits(srv') /\ srv'.state = "dead" /\ srv'.job = s.job
        /\ srv'.run = "none"
    <3>1. /\ DOMAIN srv' = DOMAIN s /\ srv'.state = "dead"
          /\ srv'.gave_up = TRUE /\ srv'.restarts = s.restarts
          /\ srv'.exit = s.exit /\ srv'.timed = s.timed
          /\ srv'.due = s.due /\ srv'.kind = s.kind /\ srv'.enc = s.enc
          /\ srv'.job = s.job /\ srv'.run = "none"
      BY <2>1 DEF SrvFits
    <3> QED BY <1>2, <3>1 DEF SrvFits
  <2>3. /\ WireFits(wire') /\ Numbered(wire') /\ Greeting(wire')
        /\ wire'.in = {} /\ wire'.calls = {} /\ wire'.shut = "no"
        /\ Fresh(wire', peer', buf)
    BY <2>1, EmptyWire, Zenon
  <2>4. DOMAIN used' = DOMAIN used /\ used'.edits = used.edits
    BY <1>1, <2>1 DEF Shapes
  <2>5. Shapes'
    BY <1>1, <2>1, <2>2, <2>3, <2>4 DEF Shapes
  <2>6. DocAgrees' /\ JobAgrees'
    BY <1>2, <2>1, <2>2, <2>3 DEF DocAgrees, JobAgrees, Ready
  <2>7. WireInv'
    BY <2>2, <2>3 DEF WireInv, Ready, Answered
  <2>8. TextInv'
    BY <1>1, <2>2, <2>3 DEF TextInv, Ready, AnswerFresh
  <2> QED BY <2>5, <2>6, <2>7, <2>8 DEF LspInv, ClientInv
<1> QED BY <1>3, <1>4 DEF Spawning

(* A server that has gone is tried again, once its pipes have gone too.      *)
LEMMA RetryKeeps ==
  ASSUME LspInv, phase' = "keys", srv.run \in {"exited", "none"},
         NEW s, SrvFits(s), s.job = srv.job, s.run = srv.run,
         s.state \in {"dead", "stopping"}, Retry(s),
         DocFits(doc'),
         doc'.open => doc.open /\ s.state = "stopping",
         doc'.on => buf.loaded, UNCHANGED <<buf, shown>>
  PROVE  LspInv'
<1>1. Shapes /\ DocAgrees /\ JobAgrees /\ WireInv /\ TextInv
  BY DEF LspInv, ClientInv
<1>2. CASE s.state = "dead" /\ ~s.gave_up /\ s.due /\ Drained
  <2>1. owners = {} /\ Spawning(s)
    BY <1>1, <1>2 DEF JobAgrees, Drained, Retry
  <2>2. ~doc'.open /\ srv.run # "running"
    BY <1>2 DEF DocFits
  <2> QED BY <1>2, <2>1, <2>2, SpawningKeeps
<1>3. CASE ~(s.state = "dead" /\ ~s.gave_up /\ s.due /\ Drained)
  <2>1. srv' = s /\ UNCHANGED <<owners, wire, peer, used>>
    BY <1>3 DEF Retry
  <2>2. Shapes'
    BY <1>1, <2>1 DEF Shapes
  <2>3. DocAgrees' /\ JobAgrees'
    BY <1>1, <2>1 DEF DocAgrees, JobAgrees, Ready
  <2>4. WireInv' /\ TextInv'
    BY <1>1, <2>1 DEF WireInv, TextInv, Ready, AnswerFresh
  <2> QED BY <2>2, <2>3, <2>4 DEF LspInv, ClientInv
<1> QED BY <1>2, <1>3

(* The document of a buffer that is looked at exists from now on.            *)
Seen == IF buf.loaded THEN Attached(doc) ELSE doc

LEMMA SeenFits ==
  ASSUME Shapes, DocAgrees
  PROVE  /\ DocFits(Seen) /\ (Seen.on <=> buf.loaded)
         /\ Seen.open = doc.open /\ Seen.full = doc.full
         /\ Seen.pending = doc.pending
<1>1. DocFits(doc) /\ (doc.on => buf.loaded)
  BY DEF Shapes, DocAgrees
<1>2. CASE buf.loaded
  <2>1. Seen = Attached(doc)
    BY <1>2 DEF Seen
  <2> QED BY <1>1, <1>2, <2>1, AttachedFits
<1>3. CASE ~buf.loaded
  BY <1>1, <1>3 DEF Seen
<1> QED BY <1>2, <1>3

LEMMA PumpFirstKeeps ==
  ASSUME LspInv, phase' = "keys", PumpFirst, UNCHANGED <<buf, shown>>
  PROVE  LspInv'
<1>1. /\ srv.state = "none" /\ buf.loaded /\ doc' = Attached(doc)
      /\ Spawning(srv)
  BY DEF PumpFirst
<1>2. Shapes /\ DocAgrees /\ JobAgrees
  BY DEF LspInv, ClientInv
<1>3. DocFits(doc) /\ SrvFits(srv)
  BY <1>2 DEF Shapes
<1>4. DocFits(doc') /\ doc'.open = doc.open
  BY <1>1, <1>3, AttachedFits
<1>5. ~srv.gave_up /\ owners = {} /\ srv.run # "running" /\ ~doc.open
  BY <1>1, <1>2, <1>3 DEF SrvFits, DocAgrees, JobAgrees
<1> QED BY <1>1, <1>3, <1>4, <1>5, SpawningKeeps

LEMMA PumpMissingKeeps ==
  ASSUME LspInv, phase' = "keys", PumpMissing, UNCHANGED <<buf, shown>>
  PROVE  LspInv'
<1>1. /\ srv.run = "execfail" /\ doc' = Seen
      /\ srv' = [srv EXCEPT !.state = "dead", !.gave_up = TRUE]
      /\ UNCHANGED <<owners, wire, peer, used>>
  BY DEF PumpMissing, Seen
<1>2. Shapes /\ DocAgrees /\ JobAgrees /\ WireInv /\ TextInv
  BY DEF LspInv, ClientInv
<1>3. DocFits(doc') /\ (doc'.on <=> buf.loaded) /\ ~doc'.open
  BY <1>1, <1>2, SeenFits DEF JobAgrees
<1>4. /\ SrvFits(srv') /\ srv'.state = "dead" /\ srv'.job = srv.job
      /\ srv'.run = srv.run
  <2>1. SrvFits(srv)
    BY <1>2 DEF Shapes
  <2>2. /\ DOMAIN srv' = DOMAIN srv /\ srv'.state = "dead"
        /\ srv'.gave_up = TRUE /\ srv'.restarts = srv.restarts
        /\ srv'.exit = srv.exit /\ srv'.timed = srv.timed
        /\ srv'.due = srv.due /\ srv'.kind = srv.kind
        /\ srv'.enc = srv.enc /\ srv'.job = srv.job /\ srv'.run = srv.run
    BY <1>1, <2>1 DEF SrvFits
  <2> QED BY <2>1, <2>2 DEF SrvFits
<1>5. ClientInv'
  <2>1. Shapes'
    BY <1>1, <1>2, <1>3, <1>4 DEF Shapes
  <2>2. DocAgrees' /\ JobAgrees'
    BY <1>1, <1>2, <1>3, <1>4 DEF DocAgrees, JobAgrees, Ready
  <2> QED BY <2>1, <2>2 DEF ClientInv
<1>6. WireInv' /\ TextInv'
  BY <1>1, <1>2, <1>4 DEF WireInv, TextInv, Ready, AnswerFresh
<1> QED BY <1>5, <1>6 DEF LspInv

(* While the server runs, each turn opens the document or tells its changes. *)
LEMMA PumpRunningTells ==
  ASSUME LspInv, PumpRunning
  PROVE  /\ WireFits(wire') /\ wire'.in = wire.in /\ wire'.calls = wire.calls
         /\ wire'.live = wire.live /\ wire'.shut = wire.shut
         /\ Numbered(wire') /\ Greeting(wire') /\ (Ready => Greeted(wire'))
         /\ Fresh(wire', peer, buf)
         /\ DocFits(doc') /\ (doc'.on => buf.loaded)
         /\ doc'.open => doc.open \/ Ready
         /\ Ready /\ doc'.on => doc'.open
         /\ Ready /\ doc'.open /\ peer.alive
              => Mirrors(buf.text, doc', wire', peer)
<1>1. Shapes /\ DocAgrees /\ JobAgrees /\ WireInv /\ TextInv
  BY DEF LspInv, ClientInv
<1>2. /\ DocFits(Seen) /\ (Seen.on <=> buf.loaded)
      /\ Seen.open = doc.open /\ Seen.full = doc.full
      /\ Seen.pending = doc.pending
  BY <1>1, SeenFits
<1>3. /\ WireFits(wire) /\ wire.out \in Seq(MessageType)
      /\ Numbered(wire) /\ Greeting(wire) /\ (Ready => Greeted(wire))
      /\ Fresh(wire, peer, buf)
  BY <1>1 DEF Shapes, WireFits, WireInv, TextInv
<1>4. CASE buf.loaded /\ Ready /\ ~doc.on
  <2>1. doc' = Opened(Seen) /\ wire' = [wire EXCEPT !.out = @ \o <<OpenMsg>>]
    BY <1>4 DEF PumpRunning, Seen
  <2>2. OpenMsg \in MessageType
    BY <1>1 DEF Shapes, OpenMsg, MessageType
  <2>3. Append(wire.out, OpenMsg) = wire.out \o <<OpenMsg>>
    BY <1>3, <2>2, AppendIsConcat
  <2>4. wire' = Sending(wire, OpenMsg)
    BY <2>1, <2>3 DEF Sending
  <2>5. /\ WireFits(wire')
        /\ wire'.in = wire.in /\ wire'.calls = wire.calls
        /\ wire'.next = wire.next
        /\ wire'.live = wire.live /\ wire'.shut = wire.shut
        /\ Numbered(wire) => Numbered(wire')
    BY <1>1, <1>3, <2>4, Opening
  <2>6. /\ Greeted(wire) => Greeted(wire') /\ Greeting(wire')
        /\ Fresh(wire, peer, buf) => Fresh(wire', peer, buf)
        /\ Heeded(wire', peer)[Len(wire'.out)] = buf.text
    BY <1>1, <1>3, <2>4, OpeningTexts
  <2>7. DocFits(doc') /\ doc'.on /\ doc'.open /\ doc'.pending = <<>>
    BY <1>2, <1>4, <2>1, OpenedFits
  <2>8. Mirrors(buf.text, doc', wire', peer)
    BY <2>6, <2>7, MirrorsTold
  <2> QED BY <1>3, <1>4, <2>5, <2>6, <2>7, <2>8
<1>5. CASE buf.loaded /\ Ready /\ doc.on
  <2>1. doc' = Flushed(Seen) /\ wire' = Flush(wire, Seen)
    BY <1>5 DEF PumpRunning, Seen, Flush
  <2>2. doc.open /\ Seen.open
    BY <1>1, <1>2, <1>5 DEF DocAgrees
  <2>3. /\ DocFits(doc') /\ doc'.on /\ doc'.open
        /\ doc'.pending = <<>> /\ ~doc'.full
    BY <1>2, <1>5, <2>1, <2>2, FlushedFits
  <2>4. /\ WireFits(wire')
        /\ wire'.in = wire.in /\ wire'.calls = wire.calls
        /\ wire'.next = wire.next
        /\ wire'.live = wire.live /\ wire'.shut = wire.shut
        /\ Numbered(wire) => Numbered(wire')
    BY <1>1, <1>2, <1>3, <2>1, Flushing
  <2>5. /\ Greeted(wire) => Greeted(wire') /\ Greeting(wire')
        /\ Fresh(wire, peer, buf) => Fresh(wire', peer, buf)
        /\ Seen.open /\ (Seen.full \/ Mirrors(buf.text, Seen, wire, peer))
             => Heeded(wire', peer)[Len(wire'.out)] = buf.text
    BY <1>1, <1>2, <1>3, <2>1, FlushingTexts
  <2>6. ASSUME peer.alive PROVE Mirrors(buf.text, doc', wire', peer)
    <3>1. Seen.full \/ Mirrors(buf.text, doc, wire, peer)
      BY <1>1, <1>2, <1>5, <2>2, <2>6 DEF TextInv
    <3>2. Seen.full \/ Mirrors(buf.text, Seen, wire, peer)
      BY <1>2, <3>1 DEF Mirrors
    <3>3. Heeded(wire', peer)[Len(wire'.out)] = buf.text
      BY <2>2, <2>5, <3>2
    <3> QED BY <2>3, <3>3, MirrorsTold
  <2> QED BY <1>3, <1>5, <2>2, <2>3, <2>4, <2>5, <2>6
<1>6. CASE ~(buf.loaded /\ Ready)
  <2>1. doc' = Seen /\ wire' = [wire EXCEPT !.out = @ \o <<>>]
    BY <1>6 DEF PumpRunning, Seen
  <2>2. wire.out \o <<>> = wire.out
    BY <1>3, ConcatEmptySeq
  <2>3. /\ DOMAIN wire' = DOMAIN wire /\ wire'.out = wire.out
        /\ wire'.in = wire.in /\ wire'.calls = wire.calls
        /\ wire'.next = wire.next
        /\ wire'.live = wire.live /\ wire'.shut = wire.shut
    BY <1>3, <2>1, <2>2 DEF WireFits
  <2>4. WireFits(wire')
    BY <1>3, <2>3 DEF WireFits
  <2>5. /\ Numbered(wire') /\ Greeting(wire') /\ (Ready => Greeted(wire'))
        /\ Fresh(wire', peer, buf)
    BY <1>3, <2>3, DropKeeps
  <2>6. Ready => ~Seen.on /\ ~Seen.open
    BY <1>2, <1>6 DEF DocFits
  <2> QED BY <1>2, <2>1, <2>3, <2>4, <2>5, <2>6
<1> QED BY <1>4, <1>5, <1>6

LEMMA PumpRunningKeeps ==
  ASSUME LspInv, phase' = "keys", PumpRunning, UNCHANGED <<buf, shown>>
  PROVE  LspInv'
<1>1. Shapes /\ DocAgrees /\ JobAgrees /\ WireInv /\ TextInv
  BY DEF LspInv, ClientInv
<1>2. srv.run = "running" /\ UNCHANGED <<srv, owners, peer, used>>
  BY DEF PumpRunning
<1>3. /\ WireFits(wire') /\ wire'.in = wire.in /\ wire'.calls = wire.calls
      /\ wire'.live = wire.live /\ wire'.shut = wire.shut
      /\ Numbered(wire') /\ Greeting(wire') /\ (Ready => Greeted(wire'))
      /\ Fresh(wire', peer, buf)
      /\ DocFits(doc') /\ (doc'.on => buf.loaded)
      /\ doc'.open => doc.open \/ Ready
      /\ Ready /\ doc'.on => doc'.open
      /\ Ready /\ doc'.open /\ peer.alive
           => Mirrors(buf.text, doc', wire', peer)
  BY PumpRunningTells
<1>4. Shapes'
  BY <1>1, <1>2, <1>3 DEF Shapes
<1>5. DocAgrees' /\ JobAgrees'
  BY <1>1, <1>2, <1>3 DEF DocAgrees, JobAgrees, Ready
<1>6. WireInv'
  BY <1>1, <1>2, <1>3 DEF WireInv, Answered, Ready
<1>7. TextInv'
  BY <1>1, <1>2, <1>3 DEF TextInv, AnswerFresh, Ready
<1> QED BY <1>4, <1>5, <1>6, <1>7 DEF LspInv, ClientInv

(* A server that was told to exit: its input is closed, then it is told.     *)
LEMMA PumpStoppingKeeps ==
  ASSUME LspInv, phase' = "keys", PumpStopping, UNCHANGED <<buf, shown>>
  PROVE  LspInv'
<1>1. Shapes /\ DocAgrees /\ JobAgrees /\ WireInv /\ TextInv
  BY DEF LspInv, ClientInv
<1>2. /\ srv.run = "running" /\ srv.state = "stopping" /\ doc' = Seen
      /\ UNCHANGED <<owners, used>>
  BY DEF PumpStopping, Seen
<1>3. /\ DocFits(doc') /\ (doc'.on <=> buf.loaded)
      /\ doc'.open = doc.open
  BY <1>1, <1>2, SeenFits
<1>4. WireFits(wire) /\ SrvFits(srv) /\ wire.live /\ Fresh(wire, peer, buf)
  BY <1>1, <1>2 DEF Shapes, JobAgrees, TextInv
<1>5. /\ WireFits(wire') /\ wire'.in = wire.in /\ wire'.calls = wire.calls
      /\ wire'.live /\ Numbered(wire') /\ Greeting(wire')
      /\ Answered(wire', peer) /\ Fresh(wire', peer, buf)
  <2>1. CASE wire' = [wire EXCEPT !.shut = "yes"]
    <3>1. /\ WireFits(wire')
          /\ wire'.in = wire.in /\ wire'.calls = wire.calls
          /\ wire'.next = wire.next
          /\ wire'.live = wire.live /\ wire'.out = wire.out
      BY <1>4, <2>1, StuckIs
    <3>2. /\ Numbered(wire') /\ Greeting(wire')
          /\ Answered(wire', peer) /\ Fresh(wire', peer, buf)
      BY <1>1, <1>4, <3>1, DropKeeps DEF WireInv
    <3> QED BY <1>4, <3>1, <3>2
  <2>2. CASE wire' = wire
    BY <1>1, <1>4, <2>2 DEF WireInv
  <2> QED BY <2>1, <2>2 DEF PumpStopping
<1>6. /\ SrvFits(srv') /\ srv'.state = "stopping" /\ srv'.run = "running"
      /\ srv'.job = srv.job
  <2>1. CASE srv' = srv
    BY <1>2, <1>4, <2>1
  <2>2. CASE srv' = [srv EXCEPT !.timed = TRUE, !.due = FALSE]
    <3>1. /\ DOMAIN srv' = DOMAIN srv /\ srv'.state = srv.state
          /\ srv'.gave_up = srv.gave_up /\ srv'.restarts = srv.restarts
          /\ srv'.exit = srv.exit /\ srv'.timed = TRUE
          /\ srv'.due = FALSE /\ srv'.kind = srv.kind
          /\ srv'.enc = srv.enc /\ srv'.job = srv.job /\ srv'.run = srv.run
      BY <1>4, <2>2 DEF SrvFits
    <3> QED BY <1>2, <1>4, <3>1 DEF SrvFits
  <2>3. CASE srv' = [srv EXCEPT !.timed = FALSE, !.exit = FALSE]
    <3>1. /\ DOMAIN srv' = DOMAIN srv /\ srv'.state = srv.state
          /\ srv'.gave_up = srv.gave_up /\ srv'.restarts = srv.restarts
          /\ srv'.exit = FALSE /\ srv'.timed = FALSE
          /\ srv'.due = srv.due /\ srv'.kind = srv.kind
          /\ srv'.enc = srv.enc /\ srv'.job = srv.job /\ srv'.run = srv.run
      BY <1>4, <2>3 DEF SrvFits
    <3> QED BY <1>2, <1>4, <3>1 DEF SrvFits
  <2> QED BY <2>1, <2>2, <2>3 DEF PumpStopping
<1>7. /\ DOMAIN peer' = {"alive", "told", "enc", "copy"}
      /\ peer'.enc = peer.enc /\ peer'.copy = peer.copy
      /\ peer'.alive = peer.alive
  <2>1. peer' = peer \/ peer' = Told(peer)
    BY DEF PumpStopping
  <2> QED BY <1>1, <2>1, ToldIs DEF Shapes
<1>8. Answered(wire', peer') /\ Fresh(wire', peer', buf)
  BY <1>5, <1>7, SamePeer
<1>9. Shapes'
  BY <1>1, <1>2, <1>3, <1>5, <1>6, <1>7 DEF Shapes
<1>10. DocAgrees' /\ JobAgrees'
  BY <1>1, <1>2, <1>3, <1>5, <1>6, <1>7 DEF DocAgrees, JobAgrees, Ready
<1>11. WireInv' /\ TextInv'
  BY <1>1, <1>5, <1>6, <1>8 DEF WireInv, TextInv, Ready, AnswerFresh
<1> QED BY <1>9, <1>10, <1>11 DEF LspInv, ClientInv

(* The server is found gone.                                                 *)
LEMMA CountedFits ==
  ASSUME SrvFits(srv), NEW n \in 0 .. Tries, NEW g \in BOOLEAN,
         n = Tries => g = TRUE, NEW s,
         /\ DOMAIN s = DOMAIN srv /\ s.restarts = n /\ s.state = "dead"
         /\ s.gave_up = g /\ s.timed = TRUE /\ s.due = FALSE
         /\ s.exit = FALSE /\ s.kind = 0 /\ s.enc = "utf-16"
         /\ s.job = srv.job /\ s.run = srv.run
  PROVE  SrvFits(s)
<1>1. /\ s.restarts \in 0 .. Tries /\ s.gave_up \in BOOLEAN
      /\ s.restarts = Tries => s.gave_up
  OBVIOUS
<1>2. s.timed \in BOOLEAN /\ s.due \in BOOLEAN /\ s.exit \in BOOLEAN
  OBVIOUS
<1>3. s.kind \in 0 .. 2
  OBVIOUS
<1>4. /\ DOMAIN s = {"state", "gave_up", "restarts", "exit", "timed",
                      "due", "kind", "enc", "job", "run"}
      /\ s.run \in {"none", "running", "exited", "execfail"}
      /\ s.job \in Nat /\ s.enc \in Encodings
  BY DEF SrvFits, Encodings
<1> QED BY <1>1, <1>2, <1>3, <1>4 DEF SrvFits

LEMMA CrashedFits ==
  ASSUME SrvFits(srv), ~srv.gave_up, NEW fresh \in BOOLEAN, NEW s,
         s = Crashed(srv, fresh)
  PROVE  SrvFits(s) /\ s.state = "dead" /\ s.job = srv.job /\ s.run = srv.run
<1> DEFINE n == IF fresh THEN 1 ELSE srv.restarts + 1
           g == srv.gave_up \/ n >= Tries
           r == Reset(srv)
<1>1. Tries \in Nat \ {0} /\ n \in 0 .. Tries
  BY LspAssumption DEF SrvFits
<1>2. g \in BOOLEAN /\ (n = Tries => g = TRUE)
  BY <1>1
<1>3. /\ DOMAIN r = DOMAIN srv /\ r.exit = FALSE /\ r.kind = 0
      /\ r.enc = "utf-16" /\ r.job = srv.job /\ r.run = srv.run
      /\ r.gave_up = srv.gave_up
  BY DEF SrvFits, Reset
<1>4. s = [r EXCEPT !.restarts = n, !.state = "dead", !.gave_up = g,
                    !.timed = TRUE, !.due = FALSE]
  BY <1>3 DEF Crashed
<1> HIDE DEF n, g, r
<1>5. /\ DOMAIN s = DOMAIN srv /\ s.restarts = n /\ s.state = "dead"
      /\ s.timed = TRUE /\ s.due = FALSE /\ s.exit = FALSE /\ s.kind = 0
      /\ s.enc = "utf-16" /\ s.job = srv.job /\ s.run = srv.run
  BY <1>3, <1>4 DEF SrvFits
<1>6. s.gave_up = g
  BY <1>3, <1>4 DEF SrvFits
<1> QED BY <1>1, <1>2, <1>5, <1>6, CountedFits

LEMMA PumpExitedKeeps ==
  ASSUME LspInv, phase' = "keys", PumpExited, UNCHANGED <<buf, shown>>
  PROVE  LspInv'
<1>1. Shapes /\ DocAgrees /\ JobAgrees
  BY DEF LspInv, ClientInv
<1>2. SrvFits(srv) /\ srv.run \in {"exited", "none"}
  BY <1>1 DEF Shapes, PumpExited
<1>3. DocFits(Seen) /\ (Seen.on <=> buf.loaded) /\ Seen.open = doc.open
  BY <1>1, SeenFits
<1>4. CASE srv.state \notin {"dead", "stopping"}
  <2>1. doc' = Forgotten(Seen)
    BY <1>4 DEF PumpExited, Seen
  <2>2. PICK fresh \in BOOLEAN : Retry(Crashed(srv, fresh))
    BY <1>4 DEF PumpExited
  <2> DEFINE s == Crashed(srv, fresh)
  <2>3. ~srv.gave_up
    BY <1>2, <1>4 DEF SrvFits
  <2>4. SrvFits(s) /\ s.state = "dead" /\ s.job = srv.job /\ s.run = srv.run
    BY <1>2, <2>3, CrashedFits
  <2>5. DocFits(doc') /\ doc'.on = Seen.on /\ ~doc'.open
    BY <1>3, <2>1, ForgottenFits
  <2> HIDE DEF s
  <2>6. Retry(s)
    BY <2>2 DEF s
  <2> QED BY <1>2, <1>3, <2>4, <2>5, <2>6, RetryKeeps
<1>5. CASE srv.state \in {"dead", "stopping"}
  <2>1. doc' = Seen /\ Retry(srv)
    BY <1>5 DEF PumpExited, Seen
  <2>2. doc.open => srv.state = "stopping"
    BY <1>1, <1>5 DEF DocAgrees
  <2> QED BY <1>2, <1>3, <1>5, <2>1, <2>2, RetryKeeps
<1> QED BY <1>4, <1>5

LEMMA PumpKeeps == ASSUME LspInv, Pump PROVE LspInv'
<1>1. phase' = "keys" /\ UNCHANGED <<buf, shown>>
  BY DEF Pump
<1> QED BY <1>1, PumpFirstKeeps, PumpMissingKeeps, PumpRunningKeeps,
           PumpStoppingKeeps, PumpExitedKeeps DEF Pump

(* The server reads, answers, and ends: what it had not read is lost.        *)
Emptied(w) == [w EXCEPT !.out = <<>>]

LEMMA Emptying ==
  ASSUME NEW w, WireFits(w), NEW v, v = Emptied(w), NEW p, NEW b
  PROVE  /\ WireFits(v)
         /\ v.in = w.in /\ v.calls = w.calls /\ v.next = w.next
         /\ v.live = w.live /\ v.shut = w.shut
         /\ Numbered(w) => Numbered(v)
         /\ Greeted(v) /\ Greeting(v)
         /\ Answered(w, p) => Answered(v, p)
         /\ Fresh(w, p, b) => Fresh(v, p, b)
<1>1. /\ DOMAIN v = DOMAIN w /\ v.out = <<>> /\ Len(v.out) = 0
      /\ v.in = w.in /\ v.calls = w.calls /\ v.next = w.next
      /\ v.live = w.live /\ v.shut = w.shut
  BY DEF WireFits, Emptied
<1>2. WireFits(v)
  <2>1. <<>> \in Seq(MessageType)
    OBVIOUS
  <2> QED BY <1>1, <2>1 DEF WireFits
<1>3. Numbered(w) => Numbered(v)
  BY <1>1 DEF Numbered
<1>4. Greeted(v) /\ Greeting(v) /\ (Answered(w, p) => Answered(v, p))
  BY <1>1 DEF Greeted, Greeting, Answered
<1>5. Fresh(w, p, b) => Fresh(v, p, b)
  BY <1>1 DEF Fresh, Timely
<1> QED BY <1>1, <1>2, <1>3, <1>4, <1>5

LEMMA EndKeeps ==
  ASSUME LspInv, phase' = phase, wire' = Emptied(wire),
         peer' = [peer EXCEPT !.alive = FALSE],
         DOMAIN used' = DOMAIN used, used'.edits = used.edits,
         UNCHANGED <<buf, doc, srv, owners, shown>>
  PROVE  LspInv'
<1>1. Shapes /\ DocAgrees /\ JobAgrees /\ WireInv /\ TextInv
  BY DEF LspInv, ClientInv
<1>2. WireFits(wire)
  BY <1>1 DEF Shapes
<1>3. /\ DOMAIN peer' = DOMAIN peer /\ ~peer'.alive
      /\ peer'.enc = peer.enc /\ peer'.copy = peer.copy
  BY <1>1 DEF Shapes
<1>4. Answered(wire, peer') /\ Fresh(wire, peer', buf)
  BY <1>1, <1>3, SamePeer DEF WireInv, TextInv
<1>5. /\ WireFits(wire')
      /\ wire'.in = wire.in /\ wire'.calls = wire.calls
      /\ wire'.live = wire.live /\ wire'.shut = wire.shut
      /\ Numbered(wire) => Numbered(wire')
      /\ Greeted(wire') /\ Greeting(wire')
      /\ Answered(wire, peer') => Answered(wire', peer')
      /\ Fresh(wire, peer', buf) => Fresh(wire', peer', buf)
  BY <1>2, Emptying
<1>6. Shapes'
  BY <1>1, <1>3, <1>5 DEF Shapes
<1>7. DocAgrees' /\ JobAgrees'
  BY <1>1, <1>3, <1>5 DEF DocAgrees, JobAgrees, Ready
<1>8. WireInv'
  BY <1>1, <1>3, <1>4, <1>5 DEF WireInv, Ready
<1>9. TextInv'
  BY <1>1, <1>3, <1>4, <1>5 DEF TextInv, AnswerFresh
<1> QED BY <1>6, <1>7, <1>8, <1>9 DEF LspInv, ClientInv

LEMMA DieKeeps == ASSUME LspInv, Die PROVE LspInv'
<1>1. /\ phase' = phase /\ wire' = Emptied(wire)
      /\ peer' = [peer EXCEPT !.alive = FALSE]
      /\ UNCHANGED <<buf, doc, srv, owners, shown>>
      /\ used' = used \/ used' = [used EXCEPT !.upsets = @ + 1]
  BY DEF Die, Emptied
<1>2. DOMAIN used' = DOMAIN used /\ used'.edits = used.edits
  <2>1. Shapes
    BY DEF LspInv, ClientInv
  <2> QED BY <1>1, <2>1 DEF Shapes
<1> QED BY <1>1, <1>2, EndKeeps

(* What is common to the steps at which the server reads a message.          *)
LEMMA ServedKeeps ==
  ASSUME LspInv, phase = "poll", phase' = phase, WireFits(wire'),
         wire'.live = wire.live, wire'.calls = wire.calls,
         wire'.shut = wire.shut,
         Numbered(wire'), Greeted(wire'), Answered(wire', peer'),
         Fresh(wire', peer', buf), srv.run = "running",
         DOMAIN peer' = {"alive", "told", "enc", "copy"},
         peer'.alive = peer.alive, Ready => peer'.enc = peer.enc,
         Ready /\ Mirrors(buf.text, doc, wire, peer)
           => Mirrors(buf.text, doc, wire', peer'),
         UNCHANGED <<buf, doc, srv, owners, shown, used>>
  PROVE  LspInv'
<1>1. Shapes /\ DocAgrees /\ JobAgrees /\ WireInv /\ TextInv
  BY DEF LspInv, ClientInv
<1>2. Shapes'
  BY <1>1 DEF Shapes
<1>3. DocAgrees' /\ JobAgrees'
  BY <1>1 DEF DocAgrees, JobAgrees, Ready
<1>4. Greeting(wire')
  BY DEF Greeted, Greeting
<1>5. WireInv'
  BY <1>1, <1>4 DEF WireInv, Ready
<1>6. TextInv'
  BY <1>1 DEF TextInv, AnswerFresh, Ready
<1> QED BY <1>2, <1>3, <1>5, <1>6 DEF LspInv, ClientInv

LEMMA ServeKeeps == ASSUME LspInv, Serve PROVE LspInv'
<1> DEFINE m == Head(wire.out)
           w == Taking(wire)
<1>1. /\ phase = "poll" /\ phase' = phase /\ peer.alive /\ wire.out # <<>>
      /\ UNCHANGED <<buf, doc, srv, owners, shown, used>>
  BY DEF Serve
<1>2. \/ /\ m.op = "init"
         /\ \E g \in Agreements :
              /\ wire' = Holding(w, [id |-> m.id, what |-> "init",
                                     kind |-> g[1], enc |-> g[2]])
              /\ peer' = [peer EXCEPT !.enc = g[2]]
      \/ /\ m.op = "ask" /\ peer' = peer
         /\ wire' = Holding(w, [id |-> m.id, what |-> "ask",
                                seen |-> peer.copy])
      \/ /\ m.op = "shutdown" /\ peer' = peer
         /\ wire' = Holding(w, [id |-> m.id, what |-> "shutdown"])
      \/ /\ m.op = "exit" /\ peer' = [peer EXCEPT !.alive = FALSE]
         /\ wire' = Emptied(wire)
      \/ /\ wire' = w
         /\ peer' = [peer EXCEPT !.copy = Heard(peer.enc, @, m)]
  BY DEF Serve, Holding, Taking, Emptied
<1>3. Shapes /\ DocAgrees /\ JobAgrees /\ WireInv /\ TextInv
  BY DEF LspInv, ClientInv
<1>4. /\ WireFits(wire) /\ Numbered(wire) /\ Greeting(wire)
      /\ Answered(wire, peer) /\ Fresh(wire, peer, buf)
      /\ srv.run = "running"
      /\ DOMAIN peer = {"alive", "told", "enc", "copy"}
  BY <1>1, <1>3 DEF Shapes, WireInv, TextInv, JobAgrees
<1>5. w = Taking(wire)
  OBVIOUS
<1> HIDE DEF w
<1>6. /\ WireFits(w)
      /\ w.in = wire.in /\ w.calls = wire.calls /\ w.next = wire.next
      /\ w.live = wire.live /\ w.shut = wire.shut
      /\ Len(wire.out) \in Nat \ {0} /\ Len(w.out) = Len(wire.out) - 1
      /\ m = wire.out[1]
      /\ \A i \in 1 .. Len(w.out) : /\ w.out[i] = wire.out[i + 1]
                                    /\ i + 1 \in 1 .. Len(wire.out)
  BY <1>1, <1>4, <1>5, Reading
<1>7. Numbered(w) /\ Greeted(w) /\ Greeting(w) /\ Answered(w, peer)
  BY <1>1, <1>4, <1>5, ReadingKeeps
<1>8. 1 \in 1 .. Len(wire.out)
  BY <1>6
(* The question at the head belongs to the call with its number.             *)
<1>9. ASSUME Asking(m)
      PROVE  /\ m.id \in 1 .. w.next - 1
             /\ \A c \in w.calls : c.id = m.id => c.what = m.op
  BY <1>4, <1>6, <1>8, <1>9 DEF Numbered
<1> HIDE DEF m
<1>10. CASE m.op = "init"
            /\ \E g \in Agreements :
                 /\ wire' = Holding(w, [id |-> m.id, what |-> "init",
                                        kind |-> g[1], enc |-> g[2]])
                 /\ peer' = [peer EXCEPT !.enc = g[2]]
  <2>1. PICK g \in Agreements :
          /\ wire' = Holding(w, [id |-> m.id, what |-> "init",
                                 kind |-> g[1], enc |-> g[2]])
          /\ peer' = [peer EXCEPT !.enc = g[2]]
    BY <1>10
  <2>2. g[1] \in 0 .. 2 /\ g[2] \in Encodings
    BY DEF Agreements, Encodings
  <2> DEFINE a == [id |-> m.id, what |-> "init", kind |-> g[1], enc |-> g[2]]
  <2>3. /\ a.id = m.id /\ a.what = "init" /\ a.kind = g[1] /\ a.enc = g[2]
        /\ wire' = Holding(w, a)
    BY <2>1
  <2> HIDE DEF a
  <2>4. /\ DOMAIN peer' = DOMAIN peer /\ peer'.enc = g[2]
        /\ peer'.copy = peer.copy /\ peer'.alive = peer.alive
    BY <1>4, <2>1
  <2>5. Asking(m)
    BY <1>10 DEF Asking, Questions
  <2>6. /\ WireFits(wire')
        /\ wire'.in = w.in \cup {a} /\ wire'.calls = w.calls
        /\ wire'.next = w.next
        /\ wire'.live = w.live /\ wire'.shut = w.shut /\ wire'.out = w.out
        /\ Numbered(wire')
    <3>1. /\ a.id \in 1 .. w.next - 1
          /\ \A c \in w.calls : c.id = a.id => c.what = a.what
      BY <1>9, <1>10, <2>3, <2>5
    <3> QED BY <1>6, <1>7, <2>3, <3>1, Answering, AnsweringNumbered
  <2>7. Greeted(wire')
    BY <1>7, <2>6 DEF Greeted
  <2>8. /\ \A b \in wire.in : b.what # "init"
        /\ \A j \in 1 .. Len(wire.out) :
             wire.out[j].op \in {"init", "shutdown", "exit"}
    BY <1>4, <1>6, <1>8, <1>10 DEF Greeting
  <2>9. Answered(wire', peer')
    BY <1>6, <2>2, <2>3, <2>4, <2>6, <2>8 DEF Answered
  <2>10. ~Ready
    BY <1>3, <1>6, <1>8, <1>10 DEF WireInv, Greeted
  <2>11. \A i \in 1 .. Len(wire'.out) : wire'.out[i].op # "ask"
    BY <1>6, <2>6, <2>8
  <2>12. Fresh(wire', peer', buf)
    <3>1. ASSUME NEW c \in w.calls, c.what = "ask", Timely(c, wire, peer, buf)
          PROVE  Timely(c, wire', peer', buf)
      <4>1. c.id # a.id
        BY <1>9, <1>10, <2>3, <2>5, <3>1
      <4> QED BY <1>6, <2>6, <2>11, <3>1, <4>1 DEF Timely
    <3> QED BY <1>4, <1>6, <2>6, <3>1 DEF Fresh
  <2> QED BY <1>1, <1>4, <1>6, <2>4, <2>6, <2>7, <2>9, <2>10, <2>12,
             ServedKeeps
(* What only takes the message from the pipe ...                             *)
<1>11. ASSUME m.op \in {"ask", "shutdown"}
       PROVE  /\ Fresh(w, peer, buf)
              /\ Mirrors(buf.text, doc, wire, peer)
                   => Mirrors(buf.text, doc, w, peer)
  <2>1. Heard(peer.enc, peer.copy, m) = peer.copy
    BY <1>11 DEF Heard
  <2> QED BY <1>1, <1>4, <1>5, <2>1, ReadingTexts DEF m
(* ... and what adds an answer to it.                                        *)
<1>12. ASSUME NEW a, a.id = m.id, a.what = m.op, m.op \in {"ask", "shutdown"},
              wire' = Holding(w, a), peer' = peer,
              m.op = "ask" => a.seen = peer.copy
       PROVE  LspInv'
  <2>1. Asking(m) /\ a.what # "init"
    BY <1>12 DEF Asking, Questions
  <2>2. /\ a.id \in 1 .. w.next - 1
        /\ \A c \in w.calls : c.id = a.id => c.what = a.what
    BY <1>9, <1>12, <2>1
  <2>3. /\ WireFits(wire')
        /\ wire'.in = w.in \cup {a} /\ wire'.calls = w.calls
        /\ wire'.next = w.next
        /\ wire'.live = w.live /\ wire'.shut = w.shut /\ wire'.out = w.out
        /\ Numbered(wire')
    BY <1>6, <1>7, <1>12, <2>2, Answering, AnsweringNumbered
  <2>4. ASSUME NEW c \in w.calls, c.id = a.id, c.what = "ask", buf.loaded,
               c.life = buf.life, c.gen = buf.gen
        PROVE  a.seen = buf.text
    <3>1. m.op = "ask" /\ m.id = c.id
      BY <1>12, <2>2, <2>4
    <3>2. Timely(c, wire, peer, buf)
      BY <1>4, <1>6, <2>4 DEF Fresh
    <3>3. Heeded(wire, peer)[1 - 1] = buf.text
      BY <1>1, <1>6, <1>8, <3>1, <3>2 DEF Timely
    <3>4. Len(wire.out) \in Nat
      BY <1>6
    <3>5. Heeded(wire, peer)[0] = peer.copy
      BY <3>4, HearingAt DEF Heeded
    <3> QED BY <1>12, <3>1, <3>3, <3>5
  <2>5. \A c \in w.calls : c.id = a.id =>
          c.what = a.what /\ (c.what = "ask" /\ buf.loaded /\
            c.life = buf.life /\ c.gen = buf.gen => a.seen = buf.text)
    BY <2>2, <2>4
  <2>6. /\ Greeted(w) => Greeted(wire') /\ Greeting(wire')
        /\ Answered(w, peer) /\ a.what # "init" => Answered(wire', peer)
        /\ Mirrors(buf.text, doc, w, peer)
             => Mirrors(buf.text, doc, wire', peer)
    BY <1>6, <1>12, AnsweringTexts
  <2>7. Fresh(wire', peer, buf)
    BY <1>6, <1>11, <1>12, <2>5, AnsweringTexts
  <2>8. /\ Greeted(wire') /\ Answered(wire', peer)
        /\ Mirrors(buf.text, doc, wire, peer)
             => Mirrors(buf.text, doc, wire', peer)
    BY <1>7, <1>11, <1>12, <2>1, <2>6
  <2>9. Ready => peer'.enc = peer.enc
    BY <1>12
  <2> QED BY <1>1, <1>4, <1>6, <1>12, <2>3, <2>7, <2>8, <2>9, ServedKeeps
<1>13. CASE m.op = "ask" /\ peer' = peer
            /\ wire' = Holding(w, [id |-> m.id, what |-> "ask",
                                   seen |-> peer.copy])
  <2> DEFINE a == [id |-> m.id, what |-> "ask", seen |-> peer.copy]
  <2>1. /\ a.id = m.id /\ a.what = m.op /\ a.seen = peer.copy
        /\ wire' = Holding(w, a)
    BY <1>13
  <2> HIDE DEF a
  <2> QED BY <1>12, <1>13, <2>1
<1>14. CASE m.op = "shutdown" /\ peer' = peer
            /\ wire' = Holding(w, [id |-> m.id, what |-> "shutdown"])
  <2> DEFINE a == [id |-> m.id, what |-> "shutdown"]
  <2>1. a.id = m.id /\ a.what = m.op /\ wire' = Holding(w, a)
    BY <1>14
  <2> HIDE DEF a
  <2> QED BY <1>12, <1>14, <2>1
<1>15. CASE peer' = [peer EXCEPT !.alive = FALSE] /\ wire' = Emptied(wire)
  BY <1>1, <1>15, EndKeeps
<1>16. CASE wire' = w
            /\ peer' = [peer EXCEPT !.copy = Heard(peer.enc, @, m)]
  <2>1. /\ DOMAIN peer' = DOMAIN peer /\ peer'.enc = peer.enc
        /\ peer'.copy = Heard(peer.enc, peer.copy, m)
        /\ peer'.alive = peer.alive
    BY <1>4, <1>16
  <2>2. wire' = Taking(wire)
    BY <1>5, <1>16
  <2>3. /\ Fresh(wire', peer', buf)
        /\ Mirrors(buf.text, doc, wire, peer)
             => Mirrors(buf.text, doc, wire', peer')
    BY <1>1, <1>4, <2>1, <2>2, ReadingTexts DEF m
  <2>4. Answered(wire', peer')
    BY <1>7, <1>16, <2>1 DEF Answered
  <2> QED BY <1>1, <1>4, <1>6, <1>7, <1>16, <2>1, <2>3, <2>4, ServedKeeps
<1> QED BY <1>2, <1>10, <1>13, <1>14, <1>15, <1>16

-----------------------------------------------------------------------------
LEMMA NextInv == ASSUME LspInv, [Next]_vars PROVE LspInv'
<1>1. CASE Edit     BY <1>1, EditKeeps
<1>2. CASE Save     BY <1>2, SaveKeeps
<1>3. CASE Ask      BY <1>3, AskKeeps
<1>4. CASE Defer    BY <1>4, DeferKeeps
<1>5. CASE Load     BY <1>5, LoadKeeps
<1>6. CASE Restart  BY <1>6, RestartKeeps
<1>7. CASE Stop     BY <1>7, StopKeeps
<1>8. CASE Key      BY <1>8, QuietKeeps DEF Key
<1>9. CASE Sleep    BY <1>9, QuietKeeps DEF Sleep
<1>10. CASE Deliver BY <1>10, DeliverKeeps
<1>11. CASE Expire  BY <1>11, ExpireKeeps
<1>12. CASE Reap    BY <1>12, ReapKeeps
<1>13. CASE Settle  BY <1>13, SettleKeeps
<1>14. CASE Delay   BY <1>14, DelayKeeps
<1>15. CASE Pump    BY <1>15, PumpKeeps
<1>16. CASE Serve   BY <1>16, ServeKeeps
<1>17. CASE Die     BY <1>17, DieKeeps
<1>18. CASE UNCHANGED vars
  <2>1. phase \in {"poll", "events", "keys"}
    BY DEF LspInv, ClientInv, Shapes
  <2> QED BY <1>18, <2>1, QuietKeeps DEF vars
<1> QED BY <1>1, <1>2, <1>3, <1>4, <1>5, <1>6, <1>7, <1>8, <1>9, <1>10,
           <1>11, <1>12, <1>13, <1>14, <1>15, <1>16, <1>17, <1>18 DEF Next

LEMMA Invariant == Spec => []LspInv
<1>1. LspInv /\ [Next]_vars => LspInv'
  BY NextInv
<1> QED BY InitInv, <1>1, PTL DEF Spec

(* The client's records agree with each other in every state: a document is  *)
(* open only at a server that answered the greeting, no change is kept while *)
(* the whole text is owed, the crashes counted stay within the limit, a      *)
(* connection has every call that waits (LspServer, LspDoc, RpcConn).        *)
THEOREM TypeCorrect == Spec => []TypeOK
<1>1. LspInv => TypeOK
  <2> SUFFICES ASSUME LspInv PROVE TypeOK
    OBVIOUS
  <2>1. Shapes /\ DocAgrees /\ JobAgrees /\ WireInv
    BY DEF LspInv, ClientInv
  <2>2. /\ buf.text \in Seq(Chars) /\ buf.loaded \in BOOLEAN
        /\ buf.gen \in Nat /\ buf.gen <= used.edits
        /\ used.edits \in 0 .. MaxEdits /\ MaxEdits \in Nat
    BY <2>1, LspAssumption DEF Shapes
  <2>3. DocFits(doc) /\ SrvFits(srv) /\ WireFits(wire)
    BY <2>1 DEF Shapes
  <2>4. buf.gen \in 0 .. MaxEdits
    BY <2>2
  <2>5. {srv.exit, srv.timed, srv.due} \subseteq BOOLEAN
    BY <2>3 DEF SrvFits
  <2>6. /\ wire.shut # "no" => wire.live /\ ~Ready
        /\ wire.calls # {} => wire.live
        /\ \A c \in wire.calls : c.id \in 1 .. (wire.next - 1)
    BY <2>1, <2>3 DEF WireFits, JobAgrees, WireInv, Numbered
  <2>7. owners \subseteq 1 .. srv.job /\ phase \in {"poll", "events", "keys"}
    BY <2>1 DEF JobAgrees, Shapes
  <2>8. /\ doc.open => doc.on /\ srv.state \in {"ready", "stopping"}
        /\ doc.on => buf.loaded
        /\ Len(doc.pending) <= PendingMax /\ (doc.full => doc.pending = <<>>)
    BY <2>1, <2>3 DEF DocFits, DocAgrees
  <2>9. /\ srv.state \in {"none", "init", "ready", "dead", "stopping"}
        /\ srv.run \in {"none", "running", "exited", "execfail"}
        /\ srv.restarts \in 0 .. Tries /\ srv.kind \in 0 .. 2
        /\ srv.enc \in Encodings
    BY <2>3 DEF SrvFits
  <2> QED BY <2>2, <2>4, <2>5, <2>6, <2>7, <2>8, <2>9 DEF TypeOK
<1> QED BY Invariant, <1>1, PTL

(* After any edits, batches, overflows, saves, questions, reloads, crashes   *)
(* and restarts, what the server will hold once it has read all it was sent, *)
(* with the edits still to be sent, is the text of the buffer                *)
(* (yew_lsp_doc_note_edit, yew_lsp_doc_flush, yew_lsp_doc_open).             *)
THEOREM AlwaysMirrors == Spec => []LspMirror
<1>1. LspInv => LspMirror
  BY DEF LspInv, TextInv, LspMirror, Mirrors, ServerWill, Heeded
<1> QED BY Invariant, <1>1, PTL

(* No answer about a text that has moved on is let through, whatever comes   *)
(* between a question and its answer (yew_lsp_dispatch_response).            *)
THEOREM AnswersAreFresh == Spec => []AnswerFresh
<1>1. LspInv => AnswerFresh
  BY DEF LspInv, TextInv
<1> QED BY Invariant, <1>1, PTL

=============================================================================
