----------------------- MODULE AccountLayouts_proofs -----------------------
(***************************************************************************)
(* The five loaders read what the program writes, for data of any length   *)
(* and with any bytes: every offset in the code is the sum of the widths   *)
(* of the fields declared before it.                                       *)
(***************************************************************************)
EXTENDS AccountLayouts, WellFoundedInduction, SequenceTheorems, TLAPS

\* A sequence of fields, whatever they are called.
Field(names) == [name : names, at : Nat, width : Nat]
Structure(fields) == \E names : fields \in Seq(Field(names))

\* Induction over the naturals, for a set of numbers.
LEMMA NumberInduction ==
    ASSUME NEW I \in SUBSET Nat, 0 \in I, \A n \in I : n + 1 \in I
    PROVE  I = Nat
<1>. DEFINE R == OpToRel(<, Nat)
            T == Nat \ I
<1>1. SUFFICES ASSUME T # {} PROVE FALSE
  OBVIOUS
<1>2. PICK m \in T : \A n \in T : ~ (<<n, m>> \in R)
  <2>1. T \subseteq Nat
    OBVIOUS
  <2>. HIDE DEF R, T
  <2>. QED
    BY <1>1, <2>1, NatLessThanWellFounded, WFMin DEF R
<1>3. m - 1 \in Nat /\ m \in Nat
  OBVIOUS
<1>4. m - 1 \in I
  <2>1. SUFFICES ASSUME m - 1 \in T PROVE FALSE
    BY <1>3
  <2>2. <<m - 1, m>> \in R
    BY <1>3 DEF OpToRel
  <2>. QED
    BY <1>2, <2>1, <2>2
<1>. QED
  BY <1>3, <1>4

\* f holds where the first fields end.
Sums(f, fields) ==
    /\ f \in [0..Len(fields) -> Nat]
    /\ f[0] = 0
    /\ \A i \in 1..Len(fields) : f[i] = f[i - 1] + fields[i].width

\* A structure, field by field.
LEMMA StructureTyped ==
    ASSUME NEW fields, Structure(fields)
    PROVE  /\ Len(fields) \in Nat
           /\ DOMAIN fields = 1..Len(fields)
           /\ \A i \in 1..Len(fields) : fields[i].width \in Nat
<1>1. PICK names : fields \in Seq(Field(names))
  BY DEF Structure
<1>. DEFINE F == Field(names)
<1>2. \A f \in F : f.width \in Nat
  BY DEF Field
<1>. HIDE DEF F
<1>3. /\ Len(fields) \in Nat
      /\ DOMAIN fields = 1..Len(fields)
      /\ fields \in [1..Len(fields) -> F]
  BY <1>1, LenProperties DEF F
<1>. QED
  BY <1>2, <1>3

\* One structure behind another is a structure.
LEMMA StructuresJoin ==
    ASSUME NEW a, Structure(a), NEW b, Structure(b)
    PROVE  /\ Structure(a \o b)
           /\ Len(a \o b) = Len(a) + Len(b)
           /\ \A i \in 1..(Len(a) + Len(b)) :
                 (a \o b)[i] = IF i <= Len(a) THEN a[i] ELSE b[i - Len(a)]
<1>1. PICK A : a \in Seq(Field(A))
  BY DEF Structure
<1>2. PICK B : b \in Seq(Field(B))
  BY DEF Structure
<1>. DEFINE C == A \union B
<1>3. Field(A) \subseteq Field(C) /\ Field(B) \subseteq Field(C)
  BY DEF Field
<1>4. a \in Seq(Field(C)) /\ b \in Seq(Field(C))
  BY <1>1, <1>2, <1>3, SeqMonotonic
<1>. HIDE DEF C
<1>5. /\ a \o b \in Seq(Field(C))
      /\ Len(a \o b) = Len(a) + Len(b)
      /\ \A i \in 1..(Len(a) + Len(b)) :
            (a \o b)[i] = IF i <= Len(a) THEN a[i] ELSE b[i - Len(a)]
  BY <1>4, ConcatProperties
<1>. QED
  BY <1>5 DEF Structure

\* There is one such f.
LEMMA SumsUnique ==
    ASSUME NEW fields, Structure(fields), NEW f, Sums(f, fields), NEW g, Sums(g, fields)
    PROVE  f = g
<1>. DEFINE I == {i \in Nat : i <= Len(fields) => f[i] = g[i]}
<1>1. Len(fields) \in Nat
  BY StructureTyped
<1>2. 0 \in I
  BY DEF Sums
<1>3. ASSUME NEW i \in I PROVE i + 1 \in I
  BY <1>1, <1>3 DEF Sums
<1>4. I = Nat
  <2>1. I \in SUBSET Nat
    OBVIOUS
  <2>. HIDE DEF I
  <2>. QED
    BY <1>2, <1>3, <2>1, NumberInduction
<1>5. \A i \in 0..Len(fields) : f[i] = g[i]
  BY <1>1, <1>4
<1>. QED
  BY <1>5 DEF Sums

\* The recursion is defined: Ends is that f.
LEMMA EndsSum ==
    ASSUME NEW fields, Structure(fields)
    PROVE  Sums(Ends(fields), fields)
<1>. DEFINE w == [i \in Nat |-> IF i \in 1..Len(fields) THEN fields[i].width ELSE 0]
            Upto(f, n) == /\ f \in [0..n -> Nat]
                          /\ f[0] = 0
                          /\ \A i \in 1..n : f[i] = f[i - 1] + w[i]
            I == {n \in Nat : \E f : Upto(f, n)}
            Recursion(f) == f = [i \in 0..Len(fields) |->
                                    IF i = 0 THEN 0 ELSE f[i - 1] + fields[i].width]
            end == CHOOSE f : Recursion(f)
<1>1. Len(fields) \in Nat /\ w \in [Nat -> Nat]
  BY StructureTyped
<1>2. I = Nat
  <2>. HIDE DEF w
  <2>1. 0 \in I
    <3>1. Upto([i \in 0..0 |-> 0], 0)
      OBVIOUS
    <3>. QED
      BY <3>1
  <2>2. ASSUME NEW n \in I PROVE n + 1 \in I
    <3>1. PICK f : n \in Nat /\ Upto(f, n)
      OBVIOUS
    <3>0. n + 1 \in Nat /\ w[n + 1] \in Nat
      <4>1. n + 1 \in Nat
        BY <3>1
      <4>. QED
        BY <1>1, <4>1
    <3>. DEFINE g == [i \in 0..(n + 1) |-> IF i <= n THEN f[i] ELSE f[n] + w[n + 1]]
    <3>2. g \in [0..(n + 1) -> Nat] /\ g[0] = 0
      BY <3>0, <3>1
    <3>3. ASSUME NEW i \in 1..(n + 1) PROVE g[i] = g[i - 1] + w[i]
      <4>1. n \in Nat /\ i \in 0..(n + 1) /\ i - 1 \in 0..(n + 1) /\ i - 1 <= n
        BY <3>1
      <4>2. g[i - 1] = f[i - 1]
        BY <4>1
      <4>3. CASE i <= n
        BY <3>1, <4>1, <4>2, <4>3
      <4>4. CASE ~(i <= n)
        BY <4>1, <4>2, <4>4
      <4>. QED
        BY <4>3, <4>4
    <3>. HIDE DEF g
    <3>4. Upto(g, n + 1)
      BY <3>2, <3>3, Zenon
    <3>5. \E h : Upto(h, n + 1)
      <4>. HIDE DEF Upto
      <4>. QED
        BY <3>4
    <3>. QED
      BY <3>0, <3>5
  <2>3. I \in SUBSET Nat
    OBVIOUS
  <2>. HIDE DEF I
  <2>. QED
    BY <2>1, <2>2, <2>3, NumberInduction
<1>3. PICK f : Upto(f, Len(fields))
  BY <1>1, <1>2
<1>4. Recursion(f)
  <2>. DEFINE g == [i \in 0..Len(fields) |-> IF i = 0 THEN 0 ELSE f[i - 1] + fields[i].width]
  <2>1. ASSUME NEW i \in 0..Len(fields) PROVE f[i] = g[i]
    <3>1. CASE i = 0
      BY <1>3, <3>1
    <3>2. CASE i # 0
      <4>1. i \in 1..Len(fields) /\ i \in Nat
        BY <1>1, <3>2
      <4>2. w[i] = fields[i].width
        BY <4>1
      <4>. QED
        BY <1>3, <3>2, <4>1, <4>2
    <3>. QED
      BY <3>1, <3>2
  <2>2. f = [i \in 0..Len(fields) |-> f[i]]
    BY <1>3
  <2>3. f = g
    BY <2>1, <2>2
  <2>. QED
    BY <2>3
<1>5. Recursion(end)
  <2>. HIDE DEF Recursion
  <2>. QED
    BY <1>4
<1>6. end = Ends(fields)
  BY DEF Ends
<1>. HIDE DEF end
<1>7. /\ end[0] = 0
      /\ \A i \in 1..Len(fields) : end[i] = end[i - 1] + fields[i].width
  BY <1>1, <1>5
<1>8. \A i \in 0..Len(fields) : end[i] \in Nat
  <2>. DEFINE J == {i \in Nat : i <= Len(fields) => end[i] \in Nat}
  <2>1. 0 \in J
    BY <1>7
  <2>2. ASSUME NEW i \in J PROVE i + 1 \in J
    <3>1. i + 1 <= Len(fields) => fields[i + 1].width \in Nat
      BY <1>1, StructureTyped
    <3>. QED
      BY <1>1, <1>7, <3>1
  <2>3. J = Nat
    <3>1. J \in SUBSET Nat
      OBVIOUS
    <3>. HIDE DEF J
    <3>. QED
      BY <2>1, <2>2, <3>1, NumberInduction
  <2>. QED
    BY <1>1, <2>3
<1>9. end = [i \in 0..Len(fields) |-> end[i]]
  BY <1>5
<1>10. end \in [0..Len(fields) -> Nat]
  BY <1>8, <1>9
<1>. QED
  BY <1>6, <1>7, <1>10 DEF Sums

\* No field reaches beyond the width of the whole.
LEMMA PackedWithin ==
    ASSUME NEW fields, Structure(fields), NEW r \in Packed(fields)
    PROVE  /\ Width(fields) \in Nat /\ r.offset \in Nat /\ r.width \in Nat
           /\ r.offset + r.width <= Width(fields)
<1>. DEFINE end == Ends(fields)
            I == {n \in Nat : n <= Len(fields) => \A i \in 0..n : end[i] <= end[n]}
<1>1. Len(fields) \in Nat /\ Sums(end, fields)
  BY StructureTyped, EndsSum
<1>. HIDE DEF end
<1>2. \A i \in 0..Len(fields) : end[i] \in Nat
  BY <1>1 DEF Sums
<1>3. 0 \in I
  BY <1>1 DEF Sums
<1>4. ASSUME NEW n \in I PROVE n + 1 \in I
  <2>1. SUFFICES ASSUME n + 1 <= Len(fields), NEW i \in 0..(n + 1)
                 PROVE  end[i] <= end[n + 1]
    OBVIOUS
  <2>2. end[n + 1] = end[n] + fields[n + 1].width /\ fields[n + 1].width \in Nat
    BY <1>1, <2>1, StructureTyped DEF Sums
  <2>3. end[n] \in Nat /\ end[i] \in Nat
    BY <1>1, <1>2, <2>1
  <2>4. CASE i = n + 1
    BY <2>3, <2>4
  <2>5. CASE i # n + 1
    <3>1. end[i] <= end[n]
      BY <1>1, <2>1, <2>5
    <3>. QED
      BY <2>2, <2>3, <3>1
  <2>. QED
    BY <2>4, <2>5
<1>5. I = Nat
  <2>1. I \in SUBSET Nat
    OBVIOUS
  <2>. HIDE DEF I
  <2>. QED
    BY <1>3, <1>4, <2>1, NumberInduction
<1>6. PICK i \in 1..Len(fields) :
           r = Read(fields[i].name, fields[i].at, end[i - 1], fields[i].width)
  BY StructureTyped DEF Packed, end
<1>7. r.offset = end[i - 1] /\ r.width = fields[i].width /\ fields[i].width \in Nat
  BY <1>6, StructureTyped DEF Read
<1>8. end[i] = end[i - 1] + fields[i].width /\ end[i - 1] \in Nat /\ end[i] \in Nat
  BY <1>1, <1>2 DEF Sums
<1>9. end[i] <= end[Len(fields)] /\ end[Len(fields)] \in Nat
  BY <1>1, <1>2, <1>5
<1>. QED
  BY <1>7, <1>8, <1>9 DEF Width, end

\* The ends of fields that follow others.
LEMMA ConcatEnds ==
    ASSUME NEW a, Structure(a), NEW b, Structure(b)
    PROVE  /\ \A i \in 0..Len(a) : Ends(a \o b)[i] = Ends(a)[i]
           /\ \A i \in 0..Len(b) : Ends(a \o b)[Len(a) + i] = Width(a) + Ends(b)[i]
<1>. DEFINE m == Len(a)
            n == Len(b)
            ea == Ends(a)
            eb == Ends(b)
            f == [i \in 0..(m + n) |-> IF i <= m THEN ea[i] ELSE ea[m] + eb[i - m]]
<1>1. m \in Nat /\ n \in Nat /\ Sums(ea, a) /\ Sums(eb, b)
  BY StructureTyped, EndsSum
<1>2. /\ Structure(a \o b)
      /\ Len(a \o b) = m + n
      /\ \A i \in 1..(m + n) : (a \o b)[i] = IF i <= m THEN a[i] ELSE b[i - m]
  BY StructuresJoin
<1>. HIDE DEF m, n, ea, eb
<1>3. /\ \A i \in 0..m : ea[i] \in Nat
      /\ \A i \in 0..n : eb[i] \in Nat
      /\ ea[0] = 0 /\ eb[0] = 0
  BY <1>1 DEF Sums, m, n
<1>4. f \in [0..(m + n) -> Nat]
  <2>1. ASSUME NEW i \in 0..(m + n) PROVE f[i] \in Nat
    <3>1. CASE i <= m
      BY <1>1, <1>3, <3>1
    <3>2. CASE ~(i <= m)
      <4>1. i - m \in 0..n /\ m \in 0..m
        BY <1>1, <3>2
      <4>2. ea[m] \in Nat /\ eb[i - m] \in Nat
        BY <1>3, <4>1
      <4>. QED
        BY <3>2, <4>2
    <3>. QED
      BY <3>1, <3>2
  <2>. QED
    BY <2>1
<1>5. f[0] = 0
  BY <1>1, <1>3
<1>6. ASSUME NEW i \in 1..(m + n) PROVE f[i] = f[i - 1] + (a \o b)[i].width
  <2>0. i \in Int /\ m \in Nat /\ n \in Nat /\ i \in 0..(m + n) /\ i - 1 \in 0..(m + n)
    BY <1>1
  <2>1. CASE i <= m
    <3>1. ea[i] = ea[i - 1] + a[i].width
      BY <1>1, <2>0, <2>1 DEF Sums, m
    <3>2. f[i] = ea[i] /\ f[i - 1] = ea[i - 1] /\ (a \o b)[i] = a[i]
      BY <1>2, <2>0, <2>1
    <3>. QED
      BY <3>1, <3>2
  <2>2. CASE i = m + 1
    <3>1. 1 \in 1..n /\ 1 \in 0..n
      BY <2>0, <2>2
    <3>2. eb[1] = eb[0] + b[1].width
      BY <1>1, <3>1 DEF Sums, n
    <3>3. f[i - 1] = ea[m]
      BY <2>0, <2>2
    <3>4. f[i] = ea[m] + eb[1] /\ (a \o b)[i] = b[1]
      BY <1>2, <2>0, <2>2
    <3>5. eb[1] = b[1].width
      BY <1>3, <3>1, <3>2, StructureTyped DEF n
    <3>. QED
      BY <3>3, <3>4, <3>5
  <2>3. CASE i > m + 1
    <3>. DEFINE j == i - m
    <3>1. j \in 1..n /\ j \in Int /\ j - 1 \in 0..n /\ (i - 1) - m = j - 1
      BY <2>0, <2>3
    <3>2. eb[j] = eb[j - 1] + b[j].width
      BY <1>1, <3>1 DEF Sums, n
    <3>3. f[i - 1] = ea[m] + eb[j - 1]
      BY <2>0, <2>3, <3>1
    <3>4. f[i] = ea[m] + eb[j] /\ (a \o b)[i] = b[j]
      <4>1. ~(i <= m)
        BY <2>0, <2>3
      <4>2. f[i] = ea[m] + eb[j]
        BY <2>0, <4>1
      <4>. HIDE DEF f
      <4>. QED
        BY <1>2, <4>1, <4>2
    <3>5. b[j].width \in Nat /\ eb[j - 1] \in Nat /\ ea[m] \in Nat
      BY <1>3, <2>0, <3>1, StructureTyped DEF n
    <3>. HIDE DEF f, j
    <3>. QED
      BY <3>2, <3>3, <3>4, <3>5
  <2>4. i <= m \/ i = m + 1 \/ i > m + 1
    BY <2>0
  <2>. HIDE DEF f
  <2>. QED
    BY <2>1, <2>2, <2>3, <2>4, Zenon
<1>7. f = Ends(a \o b)
  <2>1. Sums(f, a \o b)
    BY <1>2, <1>4, <1>5, <1>6 DEF Sums
  <2>. QED
    BY <1>2, <2>1, EndsSum, SumsUnique
<1>8. ASSUME NEW i \in 0..m PROVE Ends(a \o b)[i] = ea[i]
  <2>1. i \in 0..(m + n) /\ i <= m
    BY <1>1
  <2>2. f[i] = ea[i]
    BY <2>1
  <2>. QED
    BY <1>7, <2>2
<1>9. ASSUME NEW i \in 0..n PROVE Ends(a \o b)[m + i] = ea[m] + eb[i]
  <2>0. /\ m \in Nat /\ n \in Nat /\ i \in Nat
        /\ m + i \in 0..(m + n) /\ (m + i) - m = i
    BY <1>1
  <2>1. f[m + i] = ea[m] + eb[i]
    <3>1. CASE i = 0
      <4>1. ea[m] \in Nat /\ m \in 0..(m + n)
        BY <1>3, <2>0
      <4>. QED
        BY <1>3, <2>0, <3>1, <4>1
    <3>2. CASE i # 0
      BY <2>0, <3>2
    <3>. QED
      BY <3>1, <3>2
  <2>. QED
    BY <1>7, <2>1
<1>. QED
  BY <1>8, <1>9 DEF Width, m, n, ea, eb

\* Fields keep their place whatever follows them, and what follows is moved by
\* their width.
LEMMA ConcatPacked ==
    ASSUME NEW a, Structure(a), NEW b, Structure(b)
    PROVE  /\ Structure(a \o b)
           /\ Width(a \o b) = Width(a) + Width(b)
           /\ Packed(a) \subseteq Packed(a \o b)
           /\ \A i \in 1..Len(b) :
                 Read(b[i].name, b[i].at, Width(a) + Ends(b)[i - 1], b[i].width)
                    \in Packed(a \o b)
<1>. DEFINE m == Len(a)
            n == Len(b)
            c == a \o b
<1>1. /\ m \in Nat /\ n \in Nat
      /\ DOMAIN a = 1..m
  BY StructureTyped
<1>2. /\ Structure(c)
      /\ Len(c) = m + n
      /\ \A i \in 1..(m + n) : c[i] = IF i <= m THEN a[i] ELSE b[i - m]
  BY StructuresJoin
<1>3. /\ DOMAIN c = 1..(m + n)
      /\ \A i \in 0..m : Ends(c)[i] = Ends(a)[i]
      /\ \A i \in 0..n : Ends(c)[m + i] = Width(a) + Ends(b)[i]
  BY <1>2, StructureTyped, ConcatEnds
<1>. HIDE DEF m, n, c
<1>4. Width(c) = Width(a) + Width(b)
  BY <1>1, <1>2, <1>3 DEF Width, n
<1>5. Packed(a) \subseteq Packed(c)
  <2>1. SUFFICES ASSUME NEW i \in 1..m
                 PROVE  Read(a[i].name, a[i].at, Ends(a)[i - 1], a[i].width) \in Packed(c)
    BY <1>1 DEF Packed
  <2>2. i \in 1..(m + n) /\ i - 1 \in 0..m /\ i <= m
    BY <1>1
  <2>3. c[i] = a[i] /\ Ends(c)[i - 1] = Ends(a)[i - 1]
    BY <1>2, <1>3, <2>2
  <2>. QED
    BY <1>3, <2>2, <2>3 DEF Packed
<1>6. ASSUME NEW i \in 1..n
      PROVE  Read(b[i].name, b[i].at, Width(a) + Ends(b)[i - 1], b[i].width) \in Packed(c)
  <2>1. /\ m + i \in 1..(m + n) /\ i - 1 \in 0..n /\ ~(m + i <= m)
        /\ (m + i) - m = i /\ (m + i) - 1 = m + (i - 1)
    BY <1>1
  <2>2. c[m + i] = b[i]
    BY <1>2, <2>1
  <2>3. Ends(c)[(m + i) - 1] = Width(a) + Ends(b)[i - 1]
    BY <1>3, <2>1
  <2>. QED
    BY <1>3, <2>1, <2>2, <2>3 DEF Packed
<1>. QED
  BY <1>2, <1>4, <1>5, <1>6 DEF n, c

\* What the ends of the fields are, once they are known to be sums.
LEMMA EndsAre ==
    ASSUME NEW fields, Structure(fields), NEW f, Sums(f, fields)
    PROVE  Ends(fields) = f
  BY EndsSum, SumsUnique

\* A field alone.
LEMMA DeclaredAlone ==
    ASSUME NEW name, NEW w \in Nat
    PROVE  /\ Structure(Declared(name, w))
           /\ Len(Declared(name, w)) = 1
           /\ Declared(name, w)[1].name = name
           /\ Declared(name, w)[1].at = 0
           /\ Declared(name, w)[1].width = w
           /\ Ends(Declared(name, w))[1 - 1] = 0
           /\ Width(Declared(name, w)) = w
<1>. DEFINE d == Declared(name, w)
<1>1. Structure(d) /\ Len(d) = 1 /\ d[1] = [name |-> name, at |-> 0, width |-> w]
  <2>1. d \in Seq(Field({name}))
    BY DEF Declared, Field
  <2>. QED
    BY <2>1 DEF Structure, Declared
<1>2. Sums(Ends(d), d)
  BY <1>1, EndsSum
<1>. HIDE DEF d
<1>3. /\ Ends(d)[0] = 0 /\ Ends(d)[1 - 1] = 0
      /\ Ends(d)[1] = w
  BY <1>1, <1>2 DEF Sums
<1>. QED
  BY <1>1, <1>3 DEF Width, d

\* The n elements of w bytes of an array.
Elements(a, name, n, w) ==
    /\ Structure(a)
    /\ Len(a) = n
    /\ \A i \in 1..n : a[i].name = name /\ a[i].at = i - 1 /\ a[i].width = w
    /\ \A i \in 0..n : Ends(a)[i] = i * w
    /\ Width(a) = n * w

\* The elements of an array stand at multiples of their width.
LEMMA ArrayAlone ==
    ASSUME NEW name, NEW n \in Nat, NEW w \in Nat
    PROVE  Elements(Array(name, n, w), name, n, w)
<1>. DEFINE a == Array(name, n, w)
            f == [i \in 0..n |-> i * w]
<1>1. /\ a \in [1..n -> Field({name})]
      /\ \A i \in 1..n : a[i] = [name |-> name, at |-> i - 1, width |-> w]
  BY DEF Array, Field
<1>2. Structure(a) /\ Len(a) = n
  <2>1. a \in Seq(Field({name})) /\ DOMAIN a = 1..n
    BY <1>1, SeqDef
  <2>2. Len(a) = n
    BY <2>1, LenProperties
  <2>. QED
    BY <2>1, <2>2 DEF Structure
<1>. HIDE DEF a
<1>3. Sums(f, a)
  <2>1. \A i \in 0..n : i * w \in Nat
    <3>1. ASSUME NEW i \in Nat PROVE i * w \in Nat
      BY SMT
    <3>. QED
      BY <3>1
  <2>2. \A i \in 1..n : i * w = (i - 1) * w + w
    BY SMT
  <2>. QED
    BY <1>1, <1>2, <2>1, <2>2 DEF Sums
<1>4. Ends(a) = f
  BY <1>2, <1>3, EndsAre
<1>. QED
  BY <1>1, <1>2, <1>4 DEF Width, Elements, a

(***************************************************************************)
(* A structure, declared field by field: its width so far, and reads that  *)
(* take the bytes of one of its fields.                                    *)
(***************************************************************************)
Laid(p, width, reads) ==
    /\ Structure(p)
    /\ Width(p) = width
    /\ reads \subseteq Packed(p)

\* The first field of a structure is read at offset 0.
LEMMA First ==
    ASSUME NEW name, NEW w \in Nat
    PROVE  Laid(Declared(name, w), w, One(name, 0, w))
<1>. DEFINE d == Declared(name, w)
<1>1. /\ Structure(d) /\ Len(d) = 1 /\ Width(d) = w /\ Ends(d)[1 - 1] = 0
      /\ d[1].name = name /\ d[1].at = 0 /\ d[1].width = w
  BY DeclaredAlone, Zenon
<1>. HIDE DEF d
<1>2. 1 \in DOMAIN d
  BY <1>1, StructureTyped
<1>3. Read(name, 0, 0, w) \in Packed(d)
  BY <1>1, <1>2 DEF Packed
<1>. QED
  BY <1>1, <1>3 DEF Laid, One, d

\* The next field is read where what is laid so far ends.
LEMMA Then ==
    ASSUME NEW name, NEW w \in Nat,
           NEW p, NEW width \in Nat, NEW reads, Laid(p, width, reads)
    PROVE  Laid(p \o Declared(name, w), width + w, reads \union One(name, width, w))
<1>. DEFINE d == Declared(name, w)
<1>1. /\ Structure(d) /\ Len(d) = 1 /\ Width(d) = w /\ Ends(d)[1 - 1] = 0
      /\ d[1].name = name /\ d[1].at = 0 /\ d[1].width = w
  BY DeclaredAlone, Zenon
<1>. HIDE DEF d
<1>2. /\ Structure(p \o d)
      /\ Width(p \o d) = width + w
      /\ reads \subseteq Packed(p \o d)
  BY <1>1, ConcatPacked DEF Laid
<1>3. Read(name, 0, width + 0, w) \in Packed(p \o d)
  <2>1. 1 \in 1..Len(d)
    BY <1>1
  <2>2. Read(d[1].name, d[1].at, Width(p) + Ends(d)[1 - 1], d[1].width) \in Packed(p \o d)
    BY <1>1, <2>1, ConcatPacked DEF Laid
  <2>. QED
    BY <1>1, <2>2 DEF Laid
<1>4. width + 0 = width
  OBVIOUS
<1>. QED
  BY <1>2, <1>3, <1>4 DEF Laid, One, d

\* The elements of an array that begins at offset.
Slots(name, n, offset, w) ==
    {Read(name, i, offset + i * w, w) : i \in 0..(n - 1)}

\* So are the elements of an array, one after the other.
LEMMA ThenArray ==
    ASSUME NEW name, NEW n \in Nat, NEW w \in Nat,
           NEW p, NEW width \in Nat, NEW reads, Laid(p, width, reads)
    PROVE  Laid(p \o Array(name, n, w), width + n * w,
                reads \union Slots(name, n, width, w))
<1>. DEFINE a == Array(name, n, w)
<1>0. Elements(a, name, n, w)
  BY ArrayAlone, Zenon
<1>. HIDE DEF a
<1>1. /\ Structure(a) /\ Len(a) = n /\ Width(a) = n * w
      /\ \A i \in 1..n : a[i].name = name /\ a[i].at = i - 1 /\ a[i].width = w
      /\ \A i \in 0..n : Ends(a)[i] = i * w
  BY <1>0 DEF Elements
<1>2. /\ Structure(p \o a)
      /\ Width(p \o a) = width + n * w
      /\ reads \subseteq Packed(p \o a)
  BY <1>1, ConcatPacked DEF Laid
<1>3. ASSUME NEW i \in 0..(n - 1)
      PROVE  Read(name, i, width + i * w, w) \in Packed(p \o a)
  <2>1. i + 1 \in 1..n /\ (i + 1) - 1 = i /\ i \in 0..n
    OBVIOUS
  <2>2. Read(a[i + 1].name, a[i + 1].at, Width(p) + Ends(a)[(i + 1) - 1], a[i + 1].width)
            \in Packed(p \o a)
    BY <1>1, <2>1, ConcatPacked DEF Laid
  <2>. QED
    BY <1>1, <2>1, <2>2 DEF Laid
<1>. QED
  BY <1>2, <1>3 DEF Laid, Slots, a

(***************************************************************************)
(* The structures that are read by hand, from offsets.                     *)
(***************************************************************************)
\* State::load: the offsets after the twenty admins.
LEMMA StateLaid == Laid(StateFields, 938, StateReads)
<1>. DEFINE p1 == Declared("boss", 32)
            r1 == One("boss", 0, 32)
            p2 == p1 \o Declared("proposed_boss", 32)
            r2 == r1 \union One("proposed_boss", 32, 32)
            p3 == p2 \o Declared("is_killed", 1)
            r3 == r2 \union One("is_killed", 64, 1)
            p4 == p3 \o Declared("onyc_mint", 32)
            r4 == r3 \union One("onyc_mint", 65, 32)
            p5 == p4 \o Array("admins", Admins, 32)
            r5 == r4 \union Slots("admins", Admins, 97, 32)
            p6 == p5 \o Declared("approver1", 32)
            r6 == r5 \union One("approver1", 737, 32)
            p7 == p6 \o Declared("approver2", 32)
            r7 == r6 \union One("approver2", 769, 32)
            p8 == p7 \o Declared("bump", 1)
            r8 == r7 \union One("bump", 801, 1)
            p9 == p8 \o Declared("max_supply", 8)
            r9 == r8 \union One("max_supply", 802, 8)
            p10 == p9 \o Declared("redemption_admin", 32)
            r10 == r9 \union One("redemption_admin", 810, 32)
            p11 == p10 \o Declared("max_mint_amount", 8)
            r11 == r10 \union One("max_mint_amount", 842, 8)
            p12 == p11 \o Declared("main_offer", 32)
            r12 == r11 \union One("main_offer", 850, 32)
            p13 == p12 \o Declared("reserved", 56)
            r13 == r12 \union One("reserved", 882, 56)
<1>. HIDE DEF p1, p2, p3, p4, p5, p6, p7, p8, p9, p10, p11, p12, p13, r1, r2,
              r3, r4, r5, r6, r7, r8, r9, r10, r11, r12, r13
<1>1. Laid(p1, 32, r1)
  BY First DEF p1, r1
<1>2. Laid(p2, 64, r2)
  BY <1>1, Then DEF p2, r2
<1>3. Laid(p3, 65, r3)
  BY <1>2, Then DEF p3, r3
<1>4. Laid(p4, 97, r4)
  BY <1>3, Then DEF p4, r4
<1>5. Laid(p5, 737, r5)
  <2>1. Admins \in Nat
    BY DEF Admins
  <2>2. Laid(p4 \o Array("admins", Admins, 32), 97 + Admins * 32,
             r4 \union Slots("admins", Admins, 97, 32))
    BY <1>4, <2>1, ThenArray
  <2>3. 97 + Admins * 32 = 737
    BY DEF Admins
  <2>. QED
    BY <2>2, <2>3, Zenon DEF p5, r5
<1>6. Laid(p6, 769, r6)
  BY <1>5, Then DEF p6, r6
<1>7. Laid(p7, 801, r7)
  BY <1>6, Then DEF p7, r7
<1>8. Laid(p8, 802, r8)
  BY <1>7, Then DEF p8, r8
<1>9. Laid(p9, 810, r9)
  BY <1>8, Then DEF p9, r9
<1>10. Laid(p10, 842, r10)
  BY <1>9, Then DEF p10, r10
<1>11. Laid(p11, 850, r11)
  BY <1>10, Then DEF p11, r11
<1>12. Laid(p12, 882, r12)
  BY <1>11, Then DEF p12, r12
<1>13. Laid(p13, 938, r13)
  BY <1>12, Then DEF p13, r13
<1>14. StateFields = p13
  BY DEF StateFields, p1, p2, p3, p4, p5, p6, p7, p8, p9, p10, p11, p12, p13
<1>15. StateReads \subseteq r13
  BY DEF StateReads, Pubkey, U8, Word, r1, r2, r3, r4, r5, r6, r7, r8, r9,
         r10, r11, r12, r13, Slots
<1>. QED
  BY <1>13, <1>14, <1>15 DEF Laid

\* PropAmmPairState::load.
LEMMA PairLaid == Laid(PairFields, 452, PairReads)
<1>. DEFINE p1 == Declared("offer", 32)
            r1 == One("offer", 0, 32)
            p2 == p1 \o Declared("asset_mint", 32)
            r2 == r1 \union One("asset_mint", 32, 32)
            p3 == p2 \o Declared("onyc_mint", 32)
            r3 == r2 \union One("onyc_mint", 64, 32)
            p4 == p3 \o Declared("enabled", 1)
            r4 == r3 \union One("enabled", 96, 1)
            p5 == p4 \o Declared("curve_peg_haircut_bps", 2)
            r5 == r4 \union One("curve_peg_haircut_bps", 97, 2)
            p6 == p5 \o Declared("curve_exponent_scaled", 4)
            r6 == r5 \union One("curve_exponent_scaled", 99, 4)
            p7 == p6 \o Declared("cadence_threshold", 4)
            r7 == r6 \union One("cadence_threshold", 103, 4)
            p8 == p7 \o Declared("cadence_wave_scaled", 4)
            r8 == r7 \union One("cadence_wave_scaled", 107, 4)
            p9 == p8 \o Declared("epoch_duration_seconds", 8)
            r9 == r8 \union One("epoch_duration_seconds", 111, 8)
            p10 == p9 \o Declared("wall_sensitivity_scaled", 4)
            r10 == r9 \union One("wall_sensitivity_scaled", 119, 4)
            p11 == p10 \o Declared("minimum_sell_haircut_onyc", 8)
            r11 == r10 \union One("minimum_sell_haircut_onyc", 123, 8)
            p12 == p11 \o Declared("curr_sell_value_stable", 8)
            r12 == r11 \union One("curr_sell_value_stable", 131, 8)
            p13 == p12 \o Declared("curr_buy_value_stable", 8)
            r13 == r12 \union One("curr_buy_value_stable", 139, 8)
            p14 == p13 \o Declared("prev_net_sell_value_stable", 8)
            r14 == r13 \union One("prev_net_sell_value_stable", 147, 8)
            p15 == p14 \o Declared("curr_sell_trade_count", 4)
            r15 == r14 \union One("curr_sell_trade_count", 155, 4)
            p16 == p15 \o Declared("epoch_start", 8)
            r16 == r15 \union One("epoch_start", 159, 8)
            p17 == p16 \o Declared("bump", 1)
            r17 == r16 \union One("bump", 167, 1)
            p18 == p17 \o Declared("reserved", 284)
            r18 == r17 \union One("reserved", 168, 284)
<1>. HIDE DEF p1, p2, p3, p4, p5, p6, p7, p8, p9, p10, p11, p12, p13, p14,
              p15, p16, p17, p18, r1, r2, r3, r4, r5, r6, r7, r8, r9, r10,
              r11, r12, r13, r14, r15, r16, r17, r18
<1>1. Laid(p1, 32, r1)
  BY First DEF p1, r1
<1>2. Laid(p2, 64, r2)
  BY <1>1, Then DEF p2, r2
<1>3. Laid(p3, 96, r3)
  BY <1>2, Then DEF p3, r3
<1>4. Laid(p4, 97, r4)
  BY <1>3, Then DEF p4, r4
<1>5. Laid(p5, 99, r5)
  BY <1>4, Then DEF p5, r5
<1>6. Laid(p6, 103, r6)
  BY <1>5, Then DEF p6, r6
<1>7. Laid(p7, 107, r7)
  BY <1>6, Then DEF p7, r7
<1>8. Laid(p8, 111, r8)
  BY <1>7, Then DEF p8, r8
<1>9. Laid(p9, 119, r9)
  BY <1>8, Then DEF p9, r9
<1>10. Laid(p10, 123, r10)
  BY <1>9, Then DEF p10, r10
<1>11. Laid(p11, 131, r11)
  BY <1>10, Then DEF p11, r11
<1>12. Laid(p12, 139, r12)
  BY <1>11, Then DEF p12, r12
<1>13. Laid(p13, 147, r13)
  BY <1>12, Then DEF p13, r13
<1>14. Laid(p14, 155, r14)
  BY <1>13, Then DEF p14, r14
<1>15. Laid(p15, 159, r15)
  BY <1>14, Then DEF p15, r15
<1>16. Laid(p16, 167, r16)
  BY <1>15, Then DEF p16, r16
<1>17. Laid(p17, 168, r17)
  BY <1>16, Then DEF p17, r17
<1>18. Laid(p18, 452, r18)
  BY <1>17, Then DEF p18, r18
<1>19. PairFields = p18
  BY DEF PairFields, p1, p2, p3, p4, p5, p6, p7, p8, p9, p10, p11, p12, p13,
         p14, p15, p16, p17, p18
<1>20. PairReads \subseteq r18
  BY DEF PairReads, Pubkey, U16, U32, U8, Word, r1, r2, r3, r4, r5, r6, r7,
         r8, r9, r10, r11, r12, r13, r14, r15, r16, r17, r18
<1>. QED
  BY <1>18, <1>19, <1>20 DEF Laid

\* RedemptionOffer::load.
LEMMA RedemptionLaid == Laid(RedemptionFields, 248, RedemptionReads)
<1>. DEFINE p1 == Declared("offer", 32)
            r1 == One("offer", 0, 32)
            p2 == p1 \o Declared("token_in_mint", 32)
            r2 == r1 \union One("token_in_mint", 32, 32)
            p3 == p2 \o Declared("token_out_mint", 32)
            r3 == r2 \union One("token_out_mint", 64, 32)
            p4 == p3 \o Declared("executed_redemptions", 16)
            r4 == r3 \union One("executed_redemptions", 96, 16)
            p5 == p4 \o Declared("requested_redemptions", 16)
            r5 == r4 \union One("requested_redemptions", 112, 16)
            p6 == p5 \o Declared("fee_basis_points", 2)
            r6 == r5 \union One("fee_basis_points", 128, 2)
            p7 == p6 \o Declared("request_counter", 8)
            r7 == r6 \union One("request_counter", 130, 8)
            p8 == p7 \o Declared("bump", 1)
            r8 == r7 \union One("bump", 138, 1)
            p9 == p8 \o Declared("vault_target_bps", 2)
            r9 == r8 \union One("vault_target_bps", 139, 2)
            p10 == p9 \o Declared("disabled", 1)
            r10 == r9 \union One("disabled", 141, 1)
            p11 == p10 \o Declared("fee_basis_points_prop_amm_sell", 2)
            r11 == r10 \union One("fee_basis_points_prop_amm_sell", 142, 2)
            p12 == p11 \o Declared("reserved", 104)
            r12 == r11 \union One("reserved", 144, 104)
<1>. HIDE DEF p1, p2, p3, p4, p5, p6, p7, p8, p9, p10, p11, p12, r1, r2, r3,
              r4, r5, r6, r7, r8, r9, r10, r11, r12
<1>1. Laid(p1, 32, r1)
  BY First DEF p1, r1
<1>2. Laid(p2, 64, r2)
  BY <1>1, Then DEF p2, r2
<1>3. Laid(p3, 96, r3)
  BY <1>2, Then DEF p3, r3
<1>4. Laid(p4, 112, r4)
  BY <1>3, Then DEF p4, r4
<1>5. Laid(p5, 128, r5)
  BY <1>4, Then DEF p5, r5
<1>6. Laid(p6, 130, r6)
  BY <1>5, Then DEF p6, r6
<1>7. Laid(p7, 138, r7)
  BY <1>6, Then DEF p7, r7
<1>8. Laid(p8, 139, r8)
  BY <1>7, Then DEF p8, r8
<1>9. Laid(p9, 141, r9)
  BY <1>8, Then DEF p9, r9
<1>10. Laid(p10, 142, r10)
  BY <1>9, Then DEF p10, r10
<1>11. Laid(p11, 144, r11)
  BY <1>10, Then DEF p11, r11
<1>12. Laid(p12, 248, r12)
  BY <1>11, Then DEF p12, r12
<1>13. RedemptionFields = p12
  BY DEF RedemptionFields, p1, p2, p3, p4, p5, p6, p7, p8, p9, p10, p11, p12
<1>14. RedemptionReads \subseteq r12
  BY DEF RedemptionReads, Pubkey, U128, U16, U8, Word, r1, r2, r3, r4, r5, r6,
         r7, r8, r9, r10, r11, r12
<1>. QED
  BY <1>12, <1>13, <1>14 DEF Laid

\* CirculatingSupplyExcludedBalance::load.
LEMMA ExcludedLaid == Laid(ExcludedFields, 56, ExcludedReads)
<1>. DEFINE p1 == Declared("amount", 8)
            r1 == One("amount", 0, 8)
            p2 == p1 \o Declared("last_updated_at", 8)
            r2 == r1 \union One("last_updated_at", 8, 8)
            p3 == p2 \o Declared("last_updated_slot", 8)
            r3 == r2 \union One("last_updated_slot", 16, 8)
            p4 == p3 \o Declared("bump", 1)
            r4 == r3 \union One("bump", 24, 1)
            p5 == p4 \o Declared("reserved", 31)
            r5 == r4 \union One("reserved", 25, 31)
<1>. HIDE DEF p1, p2, p3, p4, p5, r1, r2, r3, r4, r5
<1>1. Laid(p1, 8, r1)
  BY First DEF p1, r1
<1>2. Laid(p2, 16, r2)
  BY <1>1, Then DEF p2, r2
<1>3. Laid(p3, 24, r3)
  BY <1>2, Then DEF p3, r3
<1>4. Laid(p4, 25, r4)
  BY <1>3, Then DEF p4, r4
<1>5. Laid(p5, 56, r5)
  BY <1>4, Then DEF p5, r5
<1>6. ExcludedFields = p5
  BY DEF ExcludedFields, p1, p2, p3, p4, p5
<1>7. ExcludedReads \subseteq r5
  BY DEF ExcludedReads, U8, Word, r1, r2, r3, r4, r5
<1>. QED
  BY <1>5, <1>6, <1>7 DEF Laid

(***************************************************************************)
(* The structure that is cast.                                             *)
(***************************************************************************)

\* Every field happens to begin where repr(C) would put it.
Aligned(fields) ==
    \A i \in 1..Len(fields) :
        RoundedUp(Ends(fields)[i - 1], Align(fields[i])) = Ends(fields)[i - 1]

\* Then the cast inserts no padding.
LEMMA CastPacked ==
    ASSUME NEW fields, Structure(fields), Aligned(fields)
    PROVE  CastEnds(fields) = Ends(fields)
<1>. DEFINE e == Ends(fields)
            Recursion(f) == f = [i \in 0..Len(fields) |->
                        IF i = 0 THEN 0
                        ELSE RoundedUp(f[i - 1], Align(fields[i])) + fields[i].width]
            end == CHOOSE f : Recursion(f)
<1>1. Len(fields) \in Nat /\ Sums(e, fields)
  BY StructureTyped, EndsSum
<1>2. \A i \in 1..Len(fields) : RoundedUp(e[i - 1], Align(fields[i])) = e[i - 1]
  BY DEF Aligned
<1>. HIDE DEF e
<1>3. Recursion(e)
  <2>. DEFINE g == [i \in 0..Len(fields) |->
                        IF i = 0 THEN 0
                        ELSE RoundedUp(e[i - 1], Align(fields[i])) + fields[i].width]
  <2>1. ASSUME NEW i \in 0..Len(fields) PROVE e[i] = g[i]
    <3>1. CASE i = 0
      BY <1>1, <3>1 DEF Sums
    <3>2. CASE i # 0
      <4>1. i \in 1..Len(fields)
        BY <1>1, <3>2
      <4>2. g[i] = RoundedUp(e[i - 1], Align(fields[i])) + fields[i].width
        BY <3>2
      <4>. QED
        BY <1>1, <1>2, <4>1, <4>2 DEF Sums
    <3>. QED
      BY <3>1, <3>2
  <2>2. e = [i \in 0..Len(fields) |-> e[i]]
    BY <1>1 DEF Sums
  <2>3. e = g
    BY <2>1, <2>2
  <2>. QED
    BY <2>3
<1>4. Recursion(end)
  <2>. HIDE DEF Recursion
  <2>. QED
    BY <1>3
<1>5. end = CastEnds(fields)
  BY DEF CastEnds
<1>. HIDE DEF end
<1>6. /\ end[0] = 0
      /\ \A i \in 1..Len(fields) :
            end[i] = RoundedUp(end[i - 1], Align(fields[i])) + fields[i].width
  BY <1>1, <1>4
<1>7. \A i \in 0..Len(fields) : end[i] = e[i]
  <2>. DEFINE J == {i \in Nat : i <= Len(fields) => end[i] = e[i]}
  <2>1. 0 \in J
    BY <1>1, <1>6 DEF Sums
  <2>2. ASSUME NEW i \in J PROVE i + 1 \in J
    <3>1. SUFFICES ASSUME i + 1 <= Len(fields) PROVE end[i + 1] = e[i + 1]
      OBVIOUS
    <3>2. i + 1 \in 1..Len(fields) /\ (i + 1) - 1 = i /\ end[i] = e[i]
      BY <1>1, <3>1
    <3>3. end[i + 1] = RoundedUp(e[i], Align(fields[i + 1])) + fields[i + 1].width
      BY <1>6, <3>2
    <3>4. e[i + 1] = RoundedUp(e[i], Align(fields[i + 1])) + fields[i + 1].width
      BY <1>1, <1>2, <3>2 DEF Sums
    <3>. QED
      BY <3>3, <3>4
  <2>3. J = Nat
    <3>1. J \in SUBSET Nat
      OBVIOUS
    <3>. HIDE DEF J
    <3>. QED
      BY <2>1, <2>2, <3>1, NumberInduction
  <2>. QED
    BY <1>1, <2>3
<1>8. end = [i \in 0..Len(fields) |-> end[i]]
  BY <1>4
<1>9. e = [i \in 0..Len(fields) |-> e[i]]
  BY <1>1 DEF Sums
<1>. QED
  BY <1>5, <1>7, <1>8, <1>9 DEF e

\* What is aligned stays so when aligned fields follow.
LEMMA ThenAligned ==
    ASSUME NEW a, Structure(a), Aligned(a), NEW b, Structure(b),
           \A i \in 1..Len(b) : RoundedUp(Width(a) + Ends(b)[i - 1], Align(b[i]))
                                  = Width(a) + Ends(b)[i - 1]
    PROVE  Aligned(a \o b)
<1>. DEFINE m == Len(a)
            n == Len(b)
            c == a \o b
<1>1. /\ m \in Nat /\ n \in Nat /\ Len(c) = m + n
      /\ \A i \in 1..(m + n) : c[i] = IF i <= m THEN a[i] ELSE b[i - m]
      /\ \A i \in 0..m : Ends(c)[i] = Ends(a)[i]
      /\ \A i \in 0..n : Ends(c)[m + i] = Width(a) + Ends(b)[i]
  <2>1. m \in Nat /\ n \in Nat
    BY StructureTyped
  <2>2. /\ Len(c) = m + n
        /\ \A i \in 1..(m + n) : c[i] = IF i <= m THEN a[i] ELSE b[i - m]
    BY StructuresJoin
  <2>3. /\ \A i \in 0..m : Ends(c)[i] = Ends(a)[i]
        /\ \A i \in 0..n : Ends(c)[m + i] = Width(a) + Ends(b)[i]
    BY ConcatEnds
  <2>. QED
    BY <2>1, <2>2, <2>3
<1>2. /\ \A i \in 1..m : RoundedUp(Ends(a)[i - 1], Align(a[i])) = Ends(a)[i - 1]
      /\ \A i \in 1..n : RoundedUp(Width(a) + Ends(b)[i - 1], Align(b[i]))
                                  = Width(a) + Ends(b)[i - 1]
  BY DEF Aligned
<1>. HIDE DEF m, n, c
<1>3. ASSUME NEW i \in 1..(m + n)
      PROVE  RoundedUp(Ends(c)[i - 1], Align(c[i])) = Ends(c)[i - 1]
  <2>1. CASE i <= m
    <3>1. i \in 1..m /\ i - 1 \in 0..m
      BY <1>1, <2>1
    <3>2. c[i] = a[i] /\ Ends(c)[i - 1] = Ends(a)[i - 1]
      BY <1>1, <2>1, <3>1
    <3>. QED
      BY <1>2, <3>1, <3>2
  <2>2. CASE ~(i <= m)
    <3>. DEFINE j == i - m
    <3>1. j \in 1..n /\ j - 1 \in 0..n /\ i - 1 = m + (j - 1)
      BY <1>1, <2>2
    <3>2. c[i] = b[j] /\ Ends(c)[i - 1] = Width(a) + Ends(b)[j - 1]
      BY <1>1, <2>2, <3>1
    <3>. HIDE DEF j
    <3>. QED
      BY <1>2, <3>1, <3>2
  <2>. QED
    BY <2>1, <2>2
<1>. QED
  BY <1>1, <1>3 DEF Aligned, c

\* The first field is aligned, whatever it is.
LEMMA FirstDeclared ==
    ASSUME NEW name, NEW w \in Nat,
           \A f : f.name = name => RoundedUp(0, Align(f)) = 0
    PROVE  Aligned(Declared(name, w))
<1>. DEFINE d == Declared(name, w)
<1>1. Len(d) = 1 /\ Ends(d)[1 - 1] = 0 /\ d[1].name = name
  BY DeclaredAlone, Zenon
<1>. HIDE DEF d
<1>. QED
  BY <1>1 DEF Aligned, d

\* A field is aligned if what stands before it ends at one of its multiples.
LEMMA DeclaredAligned ==
    ASSUME NEW name, NEW w \in Nat,
           NEW p, NEW width \in Nat, NEW reads, Laid(p, width, reads), Aligned(p),
           \A f : f.name = name => RoundedUp(width, Align(f)) = width
    PROVE  Aligned(p \o Declared(name, w))
<1>. DEFINE d == Declared(name, w)
<1>1. Structure(d) /\ Len(d) = 1 /\ Ends(d)[1 - 1] = 0 /\ d[1].name = name
  BY DeclaredAlone, Zenon
<1>. HIDE DEF d
<1>2. Structure(p) /\ Width(p) + Ends(d)[1 - 1] = width
  BY <1>1 DEF Laid
<1>3. RoundedUp(Width(p) + Ends(d)[1 - 1], Align(d[1])) = Width(p) + Ends(d)[1 - 1]
  BY <1>1, <1>2
<1>4. \A i \in 1..Len(d) : RoundedUp(Width(p) + Ends(d)[i - 1], Align(d[i]))
                                  = Width(p) + Ends(d)[i - 1]
  BY <1>1, <1>3
<1>. QED
  BY <1>1, <1>2, <1>4, ThenAligned DEF d

\* An array is if its elements' width is such a multiple as well.
LEMMA ArrayAligned ==
    ASSUME NEW name, NEW n \in Nat, NEW w \in Nat,
           NEW p, NEW width \in Nat, NEW reads, Laid(p, width, reads), Aligned(p),
           \A f : f.name = name =>
              \A i \in 0..(n - 1) : RoundedUp(width + i * w, Align(f)) = width + i * w
    PROVE  Aligned(p \o Array(name, n, w))
<1>. DEFINE a == Array(name, n, w)
<1>1. Elements(a, name, n, w)
  BY ArrayAlone, Zenon
<1>. HIDE DEF a
<1>2. Structure(a) /\ Structure(p) /\ Width(p) = width
  BY <1>1 DEF Elements, Laid
<1>3. ASSUME NEW i \in 1..Len(a)
      PROVE  RoundedUp(Width(p) + Ends(a)[i - 1], Align(a[i])) = Width(p) + Ends(a)[i - 1]
  <2>1. i \in 1..n /\ i - 1 \in 0..(n - 1) /\ i - 1 \in 0..n
    BY <1>1 DEF Elements
  <2>2. a[i].name = name /\ Ends(a)[i - 1] = (i - 1) * w
    BY <1>1, <2>1 DEF Elements
  <2>. QED
    BY <1>2, <2>1, <2>2
<1>. QED
  BY <1>2, <1>3, ThenAligned DEF a

\* Offer::load: the compiler leaves no gaps in Offer.
LEMMA OfferLaid == Laid(OfferFields, 600, {}) /\ Aligned(OfferFields)
<1>. DEFINE p1 == Declared("token_in_mint", 32)
            r1 == One("token_in_mint", 0, 32)
            p2 == p1 \o Declared("token_out_mint", 32)
            r2 == r1 \union One("token_out_mint", 32, 32)
            p3 == p2 \o Array("vectors", OfferVectors, 40)
            r3 == r2 \union Slots("vectors", OfferVectors, 64, 40)
            p4 == p3 \o Declared("fee_basis_points", 2)
            r4 == r3 \union One("fee_basis_points", 464, 2)
            p5 == p4 \o Declared("bump", 1)
            r5 == r4 \union One("bump", 466, 1)
            p6 == p5 \o Declared("needs_approval", 1)
            r6 == r5 \union One("needs_approval", 467, 1)
            p7 == p6 \o Declared("allow_permissionless", 1)
            r7 == r6 \union One("allow_permissionless", 468, 1)
            p8 == p7 \o Declared("disabled", 1)
            r8 == r7 \union One("disabled", 469, 1)
            p9 == p8 \o Declared("fee_basis_points_permissionless", 2)
            r9 == r8 \union One("fee_basis_points_permissionless", 470, 2)
            p10 == p9 \o Declared("reserved", 128)
            r10 == r9 \union One("reserved", 472, 128)
<1>. HIDE DEF p1, p2, p3, p4, p5, p6, p7, p8, p9, p10, r1, r2, r3, r4, r5, r6,
              r7, r8, r9, r10
<1>1. Laid(p1, 32, r1) /\ Aligned(p1)
  <2>1. Laid(p1, 32, r1)
    BY First DEF p1, r1
  <2>2. \A f : f.name = "token_in_mint" => RoundedUp(0, Align(f)) = 0
    BY DEF RoundedUp, Align
  <2>3. Aligned(p1)
    BY <2>2, FirstDeclared DEF p1
  <2>. QED
    BY <2>1, <2>3
<1>2. Laid(p2, 64, r2) /\ Aligned(p2)
  <2>1. Laid(p2, 64, r2)
    BY <1>1, Then DEF p2, r2
  <2>2. \A f : f.name = "token_out_mint" => RoundedUp(32, Align(f)) = 32
    BY DEF RoundedUp, Align
  <2>3. Aligned(p2)
    BY <1>1, <2>2, DeclaredAligned DEF p2
  <2>. QED
    BY <2>1, <2>3
<1>3. Laid(p3, 464, r3) /\ Aligned(p3)
  <2>1. Laid(p3, 464, r3)
    <3>1. OfferVectors \in Nat
      BY DEF OfferVectors
    <3>2. Laid(p2 \o Array("vectors", OfferVectors, 40), 64 + OfferVectors * 40,
               r2 \union Slots("vectors", OfferVectors, 64, 40))
      BY <1>2, <3>1, ThenArray
    <3>3. 64 + OfferVectors * 40 = 464
      BY DEF OfferVectors
    <3>. QED
      BY <3>2, <3>3, Zenon DEF p3, r3
  <2>2. \A f : f.name = "vectors" => \A i \in 0..(OfferVectors - 1) :
              RoundedUp(64 + i * 40, Align(f)) = 64 + i * 40
    BY DEF RoundedUp, Align, OfferVectors
  <2>3. Aligned(p3)
    BY <1>2, <2>2, ArrayAligned DEF p3, OfferVectors
  <2>. QED
    BY <2>1, <2>3
<1>4. Laid(p4, 466, r4) /\ Aligned(p4)
  <2>1. Laid(p4, 466, r4)
    BY <1>3, Then DEF p4, r4
  <2>2. \A f : f.name = "fee_basis_points" => RoundedUp(464, Align(f)) = 464
    BY DEF RoundedUp, Align
  <2>3. Aligned(p4)
    BY <1>3, <2>2, DeclaredAligned DEF p4
  <2>. QED
    BY <2>1, <2>3
<1>5. Laid(p5, 467, r5) /\ Aligned(p5)
  <2>1. Laid(p5, 467, r5)
    BY <1>4, Then DEF p5, r5
  <2>2. \A f : f.name = "bump" => RoundedUp(466, Align(f)) = 466
    BY DEF RoundedUp, Align
  <2>3. Aligned(p5)
    BY <1>4, <2>2, DeclaredAligned DEF p5
  <2>. QED
    BY <2>1, <2>3
<1>6. Laid(p6, 468, r6) /\ Aligned(p6)
  <2>1. Laid(p6, 468, r6)
    BY <1>5, Then DEF p6, r6
  <2>2. \A f : f.name = "needs_approval" => RoundedUp(467, Align(f)) = 467
    BY DEF RoundedUp, Align
  <2>3. Aligned(p6)
    BY <1>5, <2>2, DeclaredAligned DEF p6
  <2>. QED
    BY <2>1, <2>3
<1>7. Laid(p7, 469, r7) /\ Aligned(p7)
  <2>1. Laid(p7, 469, r7)
    BY <1>6, Then DEF p7, r7
  <2>2. \A f : f.name = "allow_permissionless" => RoundedUp(468, Align(f)) = 468
    BY DEF RoundedUp, Align
  <2>3. Aligned(p7)
    BY <1>6, <2>2, DeclaredAligned DEF p7
  <2>. QED
    BY <2>1, <2>3
<1>8. Laid(p8, 470, r8) /\ Aligned(p8)
  <2>1. Laid(p8, 470, r8)
    BY <1>7, Then DEF p8, r8
  <2>2. \A f : f.name = "disabled" => RoundedUp(469, Align(f)) = 469
    BY DEF RoundedUp, Align
  <2>3. Aligned(p8)
    BY <1>7, <2>2, DeclaredAligned DEF p8
  <2>. QED
    BY <2>1, <2>3
<1>9. Laid(p9, 472, r9) /\ Aligned(p9)
  <2>1. Laid(p9, 472, r9)
    BY <1>8, Then DEF p9, r9
  <2>2. \A f : f.name = "fee_basis_points_permissionless" => RoundedUp(470, Align(f)) = 470
    BY DEF RoundedUp, Align
  <2>3. Aligned(p9)
    BY <1>8, <2>2, DeclaredAligned DEF p9
  <2>. QED
    BY <2>1, <2>3
<1>10. Laid(p10, 600, r10) /\ Aligned(p10)
  <2>1. Laid(p10, 600, r10)
    BY <1>9, Then DEF p10, r10
  <2>2. \A f : f.name = "reserved" => RoundedUp(472, Align(f)) = 472
    BY DEF RoundedUp, Align
  <2>3. Aligned(p10)
    BY <1>9, <2>2, DeclaredAligned DEF p10
  <2>. QED
    BY <2>1, <2>3
<1>11. OfferFields = p10
  BY DEF OfferFields, p1, p2, p3, p4, p5, p6, p7, p8, p9, p10
<1>. QED
  BY <1>10, <1>11 DEF Laid

(***************************************************************************)
(* The loaders, whatever they are given.                                   *)
(***************************************************************************)

\* The cast reads what is written, as do the loads by hand, and the length each
\* loader asks for is the width of what is written.
LEMMA LoaderReads ==
    ASSUME NEW kind \in Kinds
    PROVE  /\ Structure(Fields(kind))
           /\ SerializedLen(kind) = Width(Fields(kind))
           /\ Reads(kind) \subseteq Packed(Fields(kind))
<1>1. CASE kind = "offer"
  <2>1. Structure(OfferFields) /\ Width(OfferFields) = 600 /\ Aligned(OfferFields)
    BY OfferLaid DEF Laid
  <2>2. CastEnds(OfferFields) = Ends(OfferFields) /\ DOMAIN OfferFields = 1..Len(OfferFields)
    BY <2>1, CastPacked, StructureTyped
  <2>3. OfferSize = 600
    BY <2>1, <2>2 DEF OfferSize, Width, RoundedUp, OfferAlign
  <2>4. OfferReads \subseteq Packed(OfferFields)
    <3>1. SUFFICES ASSUME NEW i \in 1..Len(OfferFields)
                   PROVE  Read(OfferFields[i].name, OfferFields[i].at,
                               RoundedUp(CastEnds(OfferFields)[i - 1],
                                         Align(OfferFields[i])),
                               OfferFields[i].width) \in Packed(OfferFields)
      BY <2>2 DEF OfferReads
    <3>2. RoundedUp(CastEnds(OfferFields)[i - 1], Align(OfferFields[i]))
            = Ends(OfferFields)[i - 1]
      BY <2>1, <2>2 DEF Aligned
    <3>. QED
      BY <2>2, <3>2 DEF Packed
  <2>5. Fields("offer") = OfferFields /\ Reads("offer") = OfferReads
        /\ SerializedLen("offer") = OfferSize
    BY DEF Fields, Reads, SerializedLen
  <2>. QED
    BY <1>1, <2>1, <2>3, <2>4, <2>5
<1>2. CASE kind = "state"
  <2>1. Fields("state") = StateFields /\ Reads("state") = StateReads
        /\ SerializedLen("state") = 938
    BY DEF Fields, Reads, SerializedLen, Admins
  <2>. QED
    BY <1>2, <2>1, StateLaid DEF Laid
<1>3. CASE kind = "pair"
  <2>1. Fields("pair") = PairFields /\ Reads("pair") = PairReads
        /\ SerializedLen("pair") = 452
    BY DEF Fields, Reads, SerializedLen
  <2>. QED
    BY <1>3, <2>1, PairLaid DEF Laid
<1>4. CASE kind = "redemption"
  <2>1. Fields("redemption") = RedemptionFields /\ Reads("redemption") = RedemptionReads
        /\ SerializedLen("redemption") = 248
    BY DEF Fields, Reads, SerializedLen
  <2>. QED
    BY <1>4, <2>1, RedemptionLaid DEF Laid
<1>5. CASE kind = "excluded"
  <2>1. Fields("excluded") = ExcludedFields /\ Reads("excluded") = ExcludedReads
        /\ SerializedLen("excluded") = 56
    BY DEF Fields, Reads, SerializedLen
  <2>. QED
    BY <1>5, <2>1, ExcludedLaid DEF Laid
<1>. QED
  BY <1>1, <1>2, <1>3, <1>4, <1>5 DEF Kinds

\* The width of an account is a number.
LEMMA WidthTyped == ASSUME NEW kind \in Kinds PROVE Width(Fields(kind)) \in Nat
<1>1. Structure(Fields(kind))
  BY LoaderReads
<1>2. Len(Fields(kind)) \in 0..Len(Fields(kind))
  BY <1>1, StructureTyped
<1>. QED
  BY <1>1, <1>2, EndsSum DEF Sums, Width

\* Data keeps its shape, whatever is done to it.
LEMMA DataInvariant == Spec => [](data \in Data)
<1>. DEFINE Of(kind) == [stamp : {kind}, length : Nat, switches : [Switches(kind) -> 0..255],
                         address : 0..(OfferAlign - 1)]
<1>1. \A kind \in Kinds : Opened(kind) \in [Switches(kind) -> 0..255]
  BY DEF Opened
<1>2. Data = UNION {Of(kind) : kind \in Kinds}
  BY DEF Data
<1>3. Init => data \in Data
  <2>1. SUFFICES ASSUME NEW kind \in Kinds,
                        data = [stamp |-> kind,
                                length |-> DiscriminatorLen + Width(Fields(kind)),
                                switches |-> Opened(kind),
                                address |-> 0]
                 PROVE  data \in Of(kind)
    BY <1>2 DEF Init
  <2>2. DiscriminatorLen + Width(Fields(kind)) \in Nat
    BY WidthTyped DEF DiscriminatorLen
  <2>3. 0 \in 0..(OfferAlign - 1)
    BY DEF OfferAlign
  <2>. QED
    BY <1>1, <2>1, <2>2, <2>3
<1>4. data \in Data /\ [Next]_data => (data \in Data)'
  <2> SUFFICES ASSUME data \in Data, [Next]_data PROVE data' \in Data
    OBVIOUS
  <2>1. PICK kind \in Kinds : data \in Of(kind)
    BY <1>2
  <2>2. ASSUME NEW length \in Lengths, Resize(length) PROVE data' \in Of(kind)
    BY <2>1, <2>2, LayoutAssumption DEF Resize
  <2>3. ASSUME NEW other \in Kinds, Replace(other) PROVE data' \in Of(other)
    BY <1>1, <2>1, <2>3 DEF Replace
  <2>4. ASSUME NEW name \in DOMAIN data.switches, NEW byte \in Bytes, Set(name, byte)
        PROVE  data' \in Of(kind)
    <3>1. byte \in 0..255
      BY LayoutAssumption
    <3>2. [data.switches EXCEPT ![name] = byte] \in [Switches(kind) -> 0..255]
      BY <2>1, <2>4, <3>1
    <3>3. data' = [data EXCEPT !.switches = [data.switches EXCEPT ![name] = byte]]
      BY <2>4 DEF Set
    <3>. QED
      BY <2>1, <3>2, <3>3
  <2>5. ASSUME NEW address \in 0..(OfferAlign - 1), Move(address) PROVE data' \in Of(kind)
    BY <2>1, <2>5 DEF Move
  <2>6. CASE UNCHANGED data
    BY <2>6
  <2>. QED
    BY <1>2, <2>2, <2>3, <2>4, <2>5, <2>6 DEF Next
<1>. QED
  BY <1>3, <1>4, PTL DEF Spec

\* Data of any length, of any account: what the checks let through is long enough
\* for every read after them, so no slice panics.
THEOREM NoReadBeyondAlways == Spec => []NoReadBeyond
<1>1. data \in Data => NoReadBeyond
  <2>1. SUFFICES ASSUME data \in Data,
                        NEW kind \in Kinds, Accepted(kind, data),
                        NEW r \in Reads(kind)
                 PROVE  DiscriminatorLen + r.offset + r.width <= data.length
    BY DEF NoReadBeyond
  <2>2. r \in Packed(Fields(kind))
    BY LoaderReads
  <2>3. /\ Width(Fields(kind)) \in Nat /\ r.offset \in Nat /\ r.width \in Nat
        /\ r.offset + r.width <= Width(Fields(kind))
    BY <2>2, LoaderReads, PackedWithin
  <2>4. data.length >= DiscriminatorLen + Width(Fields(kind))
    BY <2>1, LoaderReads DEF Accepted, LongEnough
  <2>5. data.length \in Nat
    BY <2>1 DEF Data
  <2>. QED
    BY <2>3, <2>4, <2>5 DEF DiscriminatorLen
<1>. QED
  BY <1>1, DataInvariant, PTL

\* Every offset a loader uses is where the program has written that field: the
\* offsets in the code, the constants of the lengths and the order of the
\* declarations agree, and the compiler adds no padding to the one that is cast.
THEOREM ReadsWhatIsWrittenAlways == Spec => []ReadsWhatIsWritten
<1>1. ReadsWhatIsWritten
  BY LoaderReads DEF ReadsWhatIsWritten
<1>. QED
  BY <1>1, PTL

\* Each loader accepts the accounts the program writes for it, and of the
\* accounts it writes no others.
THEOREM LoadsAsWrittenAlways == Spec => []LoadsAsWritten
<1>1. data \in Data => LoadsAsWritten
  <2>1. SUFFICES ASSUME data \in Data, NEW kind \in Kinds,
                        \A name \in DOMAIN data.switches : data.switches[name] \in {0, 1},
                        kind = "offer" => data.address = 0
                 PROVE  Accepted(kind, data)
                            <=> /\ data.stamp = kind
                                /\ data.length >= DiscriminatorLen + Width(Fields(kind))
    BY DEF LoadsAsWritten
  <2>2. LongEnough(kind, data)
            <=> data.length >= DiscriminatorLen + Width(Fields(kind))
    BY LoaderReads DEF LongEnough
  <2>3. kind = "offer" => Castable(data)
    BY <2>1 DEF Castable, DiscriminatorLen, OfferAlign
  <2>4. data.stamp = "pair" => ReadBool(data.switches["enabled"]).ok
    <3>1. data.stamp = "pair" => "enabled" \in DOMAIN data.switches
      BY <2>1 DEF Data, Switches
    <3>. QED
      BY <2>1, <3>1 DEF ReadBool
  <2>. QED
    BY <2>2, <2>3, <2>4 DEF Accepted
<1>. QED
  BY <1>1, DataInvariant, PTL

\* Whatever bytes stand for the switches of an offer, the state or a pair, only
\* the one the program writes for open lets a venue trade on the account.
THEOREM StopSwitchesFailClosedAlways == Spec => []StopSwitchesFailClosed
<1>1. StopSwitchesFailClosed
  <2>1. SUFFICES ASSUME NEW kind \in {"offer", "state", "pair"},
                        Accepted(kind, data), GoesOn(kind, data)
                 PROVE  data.switches[StopSwitch[kind]] = Opened(kind)[StopSwitch[kind]]
    BY DEF StopSwitchesFailClosed, StopSwitch
  <2>2. CASE kind = "offer"
    <3>1. data.switches["disabled"] = 0
      BY <2>1, <2>2 DEF GoesOn, NonZero
    <3>2. Opened("offer")["disabled"] = 0
      BY DEF Opened, Switches
    <3>. QED
      BY <2>2, <3>1, <3>2 DEF StopSwitch
  <2>3. CASE kind = "state"
    <3>1. data.switches["is_killed"] = 0
      BY <2>1, <2>3 DEF GoesOn, NonZero
    <3>2. Opened("state")["is_killed"] = 0
      BY DEF Opened, Switches
    <3>. QED
      BY <2>3, <3>1, <3>2 DEF StopSwitch
  <2>4. CASE kind = "pair"
    <3>1. data.switches["enabled"] = 1
      BY <2>1, <2>4 DEF GoesOn, ReadBool
    <3>2. Opened("pair")["enabled"] = 1
      BY DEF Opened, Switches
    <3>. QED
      BY <2>4, <3>1, <3>2 DEF StopSwitch
  <2>. QED
    BY <2>1, <2>2, <2>3, <2>4
<1>. QED
  BY <1>1, PTL
=============================================================================
