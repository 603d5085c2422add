--------------------------- MODULE OrderingProofs ---------------------------
(* What the functions of ordering.py do to every list, of any length.       *)
EXTENDS Ordering, SequenceTheorems, TLAPS

\* The places of a list without duplicates are 0..n-1, one for each item.
LEMMA PlaceOf ==
    ASSUME NEW S, NEW items \in Seq(S), NEW x \in Range(items)
    PROVE  /\ Place(items, x) \in 0 .. Len(items) - 1
           /\ items[Place(items, x) + 1] = x
<1>1. PICK i \in DOMAIN items : items[i] = x
  BY DEF Range
<1>2. \E j \in DOMAIN items : items[j] = x
  BY <1>1
<1> DEFINE c == CHOOSE j \in DOMAIN items : items[j] = x
<1>3. c \in DOMAIN items /\ items[c] = x
  BY <1>2
<1>4. c \in 1 .. Len(items)
  BY <1>3
<1> QED
  BY <1>3, <1>4 DEF Place

LEMMA PlaceAt ==
    ASSUME NEW S, NEW items \in Seq(S), IsInjective(items), NEW i \in 0 .. Len(items) - 1
    PROVE  items[i + 1] \in Range(items) /\ Place(items, items[i + 1]) = i
<1>1. i + 1 \in DOMAIN items /\ items[i + 1] \in Range(items)
  BY DEF Range
<1>2. Place(items, items[i + 1]) \in 0 .. Len(items) - 1
       /\ items[Place(items, items[i + 1]) + 1] = items[i + 1]
  BY <1>1, PlaceOf
<1>3. Place(items, items[i + 1]) + 1 = i + 1
  BY <1>1, <1>2 DEF IsInjective
<1> QED
  BY <1>1, <1>2, <1>3

\* What renumber writes: rows of the list only, and naturals only.
LEMMA RenumberType ==
    ASSUME NEW S, NEW items \in Seq(S), NEW position
    PROVE  /\ DOMAIN renumber(items, position) \subseteq Range(items)
           /\ \A x \in DOMAIN renumber(items, position) :
                 renumber(items, position)[x] \in Nat
<1>1. \A x \in Range(items) : Place(items, x) \in Nat
  BY PlaceOf
<1> QED
  BY <1>1 DEF renumber

\* The positions after what was written has been assigned.
Assigned(rows, position, written) ==
    [x \in rows |-> IF x \in DOMAIN written THEN written[x] ELSE position[x]]

LEMMA RenumberAssigns ==
    ASSUME NEW S, NEW items \in Seq(S), NEW position, NEW x \in Range(items)
    PROVE  Assigned(S, position, renumber(items, position))[x] = Place(items, x)
<1>1. x \in S
  BY DEF Range
<1> QED
  BY <1>1 DEF Assigned, renumber

\* The list s of the rows in the order of their positions, which are 0..n-1.
NumberedBy(s, rows, positions) ==
    /\ s \in Seq(rows) /\ Range(s) = rows
    /\ \A i \in DOMAIN s : positions[s[i]] = i - 1

LEMMA NumberedOnce ==
    ASSUME NEW S, NEW pos, NEW s, NumberedBy(s, S, pos)
    PROVE  IsInjective(s) /\ DOMAIN s = 1 .. Len(s) /\ Len(s) \in Nat
<1>1. DOMAIN s = 1 .. Len(s) /\ Len(s) \in Nat
  BY LenProperties DEF NumberedBy
<1> QED
  BY <1>1 DEF NumberedBy, IsInjective

LEMMA NumberedContiguous ==
    ASSUME NEW S, NEW pos, NEW s, NumberedBy(s, S, pos)
    PROVE  Contiguous(S, pos)
<1>1. IsInjective(s) /\ DOMAIN s = 1 .. Len(s) /\ Len(s) \in Nat
  BY NumberedOnce
<1>2. \A x \in S : \E i \in 1 .. Len(s) : s[i] = x /\ pos[x] = i - 1
  BY <1>1 DEF NumberedBy, Range
<1>3. ASSUME NEW x \in S, NEW i \in 0 .. pos[x] - 1
      PROVE  \E y \in S : pos[y] = i
  <2>1. i + 1 \in DOMAIN s /\ i + 1 - 1 = i
    BY <1>1, <1>2
  <2>2. s[i + 1] \in S /\ pos[s[i + 1]] = i + 1 - 1
    BY <2>1 DEF NumberedBy, Range
  <2> QED
    BY <2>2
<1>4. \A x, y \in S : pos[x] = pos[y] => x = y
  BY <1>1, <1>2
<1> QED
  BY <1>3, <1>4 DEF Contiguous

LEMMA NumberedSame ==
    ASSUME NEW S, NEW pos, NEW s, NumberedBy(s, S, pos), NEW after, \A x \in S : after[x] = pos[x]
    PROVE  NumberedBy(s, S, after)
  BY DEF NumberedBy, Range

LEMMA EmptyNumbered ==
    ASSUME NEW S, S = {}, NEW pos
    PROVE  NumberedBy(<<>>, S, pos)
<1>1. <<>> \in Seq(S) /\ DOMAIN <<>> = {}
  OBVIOUS
<1> QED
  BY <1>1 DEF NumberedBy, Range

\* A row with the next position.
LEMMA NumberedAppend ==
    ASSUME NEW S, NEW pos, NEW s, NumberedBy(s, S, pos),
           NEW x, x \notin S, NEW after, after[x] = Len(s), \A y \in S : after[y] = pos[y]
    PROVE  NumberedBy(Append(s, x), S \cup {x}, after)
<1>1. DOMAIN s = 1 .. Len(s) /\ Len(s) \in Nat /\ s \in Seq(S \cup {x})
  <2>1. s \in Seq(S)
    BY DEF NumberedBy
  <2> QED
    BY <2>1, NumberedOnce
<1>2. PICK t : t = Append(s, x)
  OBVIOUS
<1>3. /\ t \in Seq(S \cup {x}) /\ DOMAIN t = 1 .. Len(s) + 1
      /\ \A i \in 1 .. Len(s) : t[i] = s[i]
      /\ t[Len(s) + 1] = x
  <2>1. /\ t \in Seq(S \cup {x}) /\ Len(t) = Len(s) + 1
        /\ \A i \in 1 .. Len(s) : t[i] = s[i]
        /\ t[Len(s) + 1] = x
    BY <1>1, <1>2, AppendProperties
  <2> QED
    BY <2>1, LenProperties
<1>4. \A i \in 1 .. Len(s) : s[i] \in S /\ pos[s[i]] = i - 1
  BY <1>1 DEF NumberedBy, Range
<1>5. \A i \in DOMAIN t : after[t[i]] = i - 1
  <2> SUFFICES ASSUME NEW i \in 1 .. Len(s) + 1
               PROVE  after[t[i]] = i - 1
    BY <1>3
  <2>1. CASE i = Len(s) + 1
    BY <1>1, <1>3, <2>1
  <2>2. CASE i # Len(s) + 1
    <3>1. i \in 1 .. Len(s)
      BY <1>1, <2>2
    <3> QED
      BY <1>3, <1>4, <3>1
  <2> QED
    BY <2>1, <2>2
<1>6. ASSUME NEW y \in S
      PROVE  y \in Range(t)
  <2>1. PICK i \in 1 .. Len(s) : s[i] = y
    BY <1>1 DEF NumberedBy, Range
  <2>2. i \in DOMAIN t
    BY <1>1, <1>3
  <2> QED
    BY <1>3, <2>1, <2>2 DEF Range
<1>7. x \in Range(t)
  <2>1. Len(s) + 1 \in DOMAIN t
    BY <1>1, <1>3
  <2> QED
    BY <1>3, <2>1 DEF Range
<1>8. \A i \in DOMAIN t : t[i] \in S \cup {x}
  BY <1>3, ElementOfSeq, LenProperties
<1>9. Range(t) = S \cup {x}
  <2>1. \A y \in Range(t) : y \in S \cup {x}
    BY <1>8 DEF Range
  <2> QED
    BY <1>6, <1>7, <2>1
<1> QED
  BY <1>2, <1>3, <1>5, <1>9 DEF NumberedBy

\* What renumber makes of a list.
LEMMA RenumberNumbers ==
    ASSUME NEW S, NEW items \in Seq(S), IsInjective(items), NEW pos
    PROVE  NumberedBy(items, Range(items), Assigned(S, pos, renumber(items, pos)))
<1>1. PICK after : after = Assigned(S, pos, renumber(items, pos))
  OBVIOUS
<1>2. DOMAIN items = 1 .. Len(items) /\ Len(items) \in Nat
  BY LenProperties
<1>3. ASSUME NEW i \in DOMAIN items
      PROVE  after[items[i]] = i - 1
  <2>1. i - 1 \in 0 .. Len(items) - 1 /\ i - 1 + 1 = i
    BY <1>2
  <2>2. items[i] \in Range(items) /\ Place(items, items[i]) = i - 1
    BY <2>1, PlaceAt
  <2> QED
    BY <1>1, <2>2, RenumberAssigns
<1>4. items \in Seq(Range(items))
  <2>1. items = [i \in 1 .. Len(items) |-> items[i]]
    BY LenProperties
  <2>2. items \in [1 .. Len(items) -> Range(items)]
    BY <1>2, <2>1 DEF Range
  <2> QED
    BY <1>2, <2>2
<1> QED
  BY <1>1, <1>3, <1>4 DEF NumberedBy

\* ordering.py:3-5: after renumber the rows of any list without duplicates are
\* numbered 0..n-1, whatever positions they carried before.
THEOREM RenumberRestores ==
    ASSUME NEW S, NEW items \in Seq(S), IsInjective(items), NEW position
    PROVE  Contiguous(Range(items), Assigned(S, position, renumber(items, position)))
  BY RenumberNumbers, NumberedContiguous

\* Taking a row out leaves a list without duplicates of the others.
LEMMA WithoutProperties ==
    ASSUME NEW S, NEW items \in Seq(S), NEW item
    PROVE  /\ without(items, item) \in Seq(S)
           /\ Range(without(items, item)) \subseteq Range(items)
           /\ IsInjective(items) =>
                 /\ IsInjective(without(items, item))
                 /\ Range(without(items, item)) = Range(items) \ {item}
<1>1. CASE item \notin Range(items)
  BY <1>1 DEF without
<1>2. CASE item \in Range(items)
  <2> DEFINE at == Place(items, item) + 1
             rest == [i \in 1 .. Len(items) - 1 |-> IF i < at THEN items[i] ELSE items[i + 1]]
  <2>1. without(items, item) = rest
    BY <1>2 DEF without
  <2>2. at \in 1 .. Len(items) /\ items[at] = item
    BY <1>2, PlaceOf
  <2>3. Len(items) - 1 \in Nat /\ \A i \in 1 .. Len(items) : items[i] \in S
    BY <2>2
  <2>4. rest \in [1 .. Len(items) - 1 -> S]
    BY <2>2, <2>3
  <2>5. rest \in Seq(S) /\ DOMAIN rest = 1 .. Len(items) - 1
    BY <2>3, <2>4
  <2>6. Range(rest) \subseteq Range(items)
    BY <2>2, <2>5 DEF Range
  <2>7. ASSUME IsInjective(items)
        PROVE  IsInjective(rest) /\ Range(rest) = Range(items) \ {item}
    <3>1. IsInjective(rest)
      BY <2>2, <2>5, <2>7 DEF IsInjective
    <3>2. \A i \in DOMAIN rest : rest[i] # item
      BY <2>2, <2>5, <2>7 DEF IsInjective
    <3>3. ASSUME NEW x \in Range(items), x # item
          PROVE  x \in Range(rest)
      <4>1. PICK i \in 1 .. Len(items) : items[i] = x
        BY DEF Range
      <4>2. CASE i < at
        <5>1. i \in DOMAIN rest /\ rest[i] = x
          BY <4>1, <4>2, <2>2, <2>5
        <5> QED BY <5>1 DEF Range
      <4>3. CASE i > at
        <5>1. i - 1 \in DOMAIN rest /\ rest[i - 1] = x
          BY <4>1, <4>3, <2>2, <2>5
        <5> QED BY <5>1 DEF Range
      <4> QED
        BY <4>1, <4>2, <4>3, <2>2, <3>3
    <3> QED
      BY <3>1, <3>2, <3>3, <2>6 DEF Range
  <2> QED
    BY <2>1, <2>5, <2>6, <2>7
<1> QED
  BY <1>1, <1>2

\* The list insert_at renumbers holds the rows it was given and the item, once.
LEMMA PlacedProperties ==
    ASSUME NEW S, NEW siblings \in Seq(S), NEW item \in S, NEW index \in Int
    PROVE  /\ Placed(siblings, item, index) \in Seq(S)
           /\ Range(Placed(siblings, item, index)) \subseteq Range(siblings) \cup {item}
           /\ IsInjective(siblings) =>
                 /\ IsInjective(Placed(siblings, item, index))
                 /\ Range(Placed(siblings, item, index)) = Range(siblings) \cup {item}
<1> DEFINE rest == without(siblings, item)
           at   == Clamp(index, Len(rest)) + 1
           new  == [i \in 1 .. Len(rest) + 1 |->
                       IF i < at THEN rest[i] ELSE IF i = at THEN item ELSE rest[i - 1]]
<1>1. Placed(siblings, item, index) = new
  BY DEF Placed
<1>2. rest \in Seq(S) /\ Range(rest) \subseteq Range(siblings)
  BY WithoutProperties
<1>3. at \in 1 .. Len(rest) + 1
  BY <1>2 DEF Clamp
<1>4. \A i \in 1 .. Len(rest) : rest[i] \in S
  BY <1>2
<1>5. Range(rest) = {rest[i] : i \in 1 .. Len(rest)}
  <2>1. DOMAIN rest = 1 .. Len(rest)
    BY <1>2
  <2> QED
    BY <2>1 DEF Range
<1>6. new \in [1 .. Len(rest) + 1 -> S]
  BY <1>2, <1>3, <1>4
<1>7. new \in Seq(S) /\ DOMAIN new = 1 .. Len(rest) + 1
  BY <1>2, <1>6
<1>8. Range(new) \subseteq Range(rest) \cup {item}
  BY <1>2, <1>3, <1>7 DEF Range
<1>9. ASSUME IsInjective(siblings)
      PROVE  IsInjective(new) /\ Range(new) = Range(siblings) \cup {item}
  <2>1. IsInjective(rest) /\ Range(rest) = Range(siblings) \ {item}
    BY <1>9, WithoutProperties
  <2>2. \A i \in 1 .. Len(rest) : rest[i] # item
    BY <2>1, <1>5
  <2>3. IsInjective(new)
    BY <2>1, <2>2, <1>2, <1>3, <1>7 DEF IsInjective
  <2>4. item \in Range(new)
    BY <1>3, <1>7 DEF Range
  <2>5. ASSUME NEW i \in 1 .. Len(rest)
        PROVE  rest[i] \in Range(new)
    <3>1. CASE i < at
      <4>1. i \in DOMAIN new /\ new[i] = rest[i]
        BY <3>1, <1>2, <1>3, <1>7
      <4> QED BY <4>1 DEF Range
    <3>2. CASE i >= at
      <4>1. i + 1 \in DOMAIN new /\ new[i + 1] = rest[i]
        BY <3>2, <1>2, <1>3, <1>7
      <4> QED BY <4>1 DEF Range
    <3> QED BY <3>1, <3>2, <1>3
  <2>6. Range(rest) \subseteq Range(new)
    BY <2>5, <1>5
  <2> QED
    BY <2>1, <2>3, <2>4, <2>6, <1>8
<1> QED
  BY <1>1, <1>2, <1>7, <1>8, <1>9

LEMMA InsertAtNumbers ==
    ASSUME NEW S, NEW siblings \in Seq(S), IsInjective(siblings),
           NEW item \in S, NEW index \in Int, NEW position
    PROVE  NumberedBy(Placed(siblings, item, index), Range(siblings) \cup {item},
                      Assigned(S, position, insert_at(siblings, item, index, position)))
<1>1. PICK new : new = Placed(siblings, item, index)
  OBVIOUS
<1>2. new \in Seq(S) /\ IsInjective(new) /\ Range(new) = Range(siblings) \cup {item}
  BY <1>1, PlacedProperties
<1>3. NumberedBy(new, Range(new), Assigned(S, position, renumber(new, position)))
  BY <1>2, RenumberNumbers
<1> QED
  BY <1>1, <1>2, <1>3 DEF insert_at

\* ordering.py:32-42: insert_at leaves the siblings and the item numbered 0..n-1,
\* whether or not the siblings held the item and however large the index.
THEOREM InsertAtRestores ==
    ASSUME NEW S, NEW siblings \in Seq(S), IsInjective(siblings),
           NEW item \in S, NEW index \in Int, NEW position
    PROVE  Contiguous(Range(siblings) \cup {item},
                      Assigned(S, position, insert_at(siblings, item, index, position)))
  BY InsertAtNumbers, NumberedContiguous

\* ordering.py:32-42: and with the item at the index asked for, or at the end of a list
\* that is shorter.
THEOREM InsertAtLands ==
    ASSUME NEW S, NEW siblings \in Seq(S), IsInjective(siblings),
           NEW item \in S, NEW index \in Int, NEW position
    PROVE  Assigned(S, position, insert_at(siblings, item, index, position))[item]
              = Clamp(index, Len(without(siblings, item)))
<1>1. PICK new, rest, at : /\ new = Placed(siblings, item, index)
                           /\ rest = without(siblings, item) /\ at = Clamp(index, Len(rest))
  OBVIOUS
<1>2. new \in Seq(S) /\ IsInjective(new) /\ Range(new) = Range(siblings) \cup {item}
  BY <1>1, PlacedProperties
<1>3. rest \in Seq(S) /\ at \in 0 .. Len(rest)
  BY <1>1, WithoutProperties DEF Clamp
<1>4. new = [i \in 1 .. Len(rest) + 1 |-> IF i < at + 1 THEN rest[i]
                                          ELSE IF i = at + 1 THEN item ELSE rest[i - 1]]
  BY <1>1 DEF Placed
<1>5. Len(new) = Len(rest) + 1 /\ new[at + 1] = item
  BY <1>2, <1>3, <1>4
<1>6. Place(new, item) = at
  BY <1>2, <1>3, <1>5, PlaceAt
<1> QED
  BY <1>1, <1>2, <1>6, RenumberAssigns DEF insert_at

\* The list less a row that is in it, or not.
LEMMA WithoutLength ==
    ASSUME NEW S, NEW siblings \in Seq(S), NEW item
    PROVE  Len(without(siblings, item)) =
              IF item \in Range(siblings) THEN Len(siblings) - 1 ELSE Len(siblings)
<1>1. CASE item \notin Range(siblings)
  BY <1>1 DEF without
<1>2. CASE item \in Range(siblings)
  <2>1. Len(siblings) - 1 \in Nat
    BY <1>2 DEF Range
  <2>2. PICK at : at = Place(siblings, item) + 1
    OBVIOUS
  <2>3. without(siblings, item) =
           [i \in 1 .. Len(siblings) - 1 |-> IF i < at THEN siblings[i] ELSE siblings[i + 1]]
    BY <1>2, <2>2 DEF without
  <2>4. without(siblings, item) \in Seq(S)
    BY WithoutProperties
  <2> QED
    BY <1>2, <2>1, <2>3, <2>4
<1> QED
  BY <1>1, <1>2

LEMMA RemoveFromNumbers ==
    ASSUME NEW S, NEW siblings \in Seq(S), IsInjective(siblings), NEW item, NEW position
    PROVE  NumberedBy(without(siblings, item), Range(siblings) \ {item},
                      Assigned(S, position, remove_from(siblings, item, position)))
<1>1. PICK new : new = without(siblings, item)
  OBVIOUS
<1>2. new \in Seq(S) /\ IsInjective(new) /\ Range(new) = Range(siblings) \ {item}
  BY <1>1, WithoutProperties
<1>3. NumberedBy(new, Range(new), Assigned(S, position, renumber(new, position)))
  BY <1>2, RenumberNumbers
<1> QED
  BY <1>1, <1>2, <1>3 DEF remove_from

\* ordering.py:45-47: remove_from leaves the other siblings numbered 0..n-1.
THEOREM RemoveFromRestores ==
    ASSUME NEW S, NEW siblings \in Seq(S), IsInjective(siblings), NEW item, NEW position
    PROVE  Contiguous(Range(siblings) \ {item},
                      Assigned(S, position, remove_from(siblings, item, position)))
  BY RemoveFromNumbers, NumberedContiguous

-----------------------------------------------------------------------------
(* Lists cut and joined, as the pages' models do it.                       *)

\* SubSeq, for a part that is there or empty.
LEMMA PartFacts ==
    ASSUME NEW S, NEW s \in Seq(S), NEW m \in 1 .. Len(s) + 1, NEW n \in m - 1 .. Len(s)
    PROVE  /\ SubSeq(s, m, n) \in Seq(S) /\ Len(SubSeq(s, m, n)) = n - m + 1
           /\ \A i \in 1 .. n - m + 1 : SubSeq(s, m, n)[i] = s[m + i - 1]
<1>1. Len(s) \in Nat /\ m \in Int /\ n \in Int
  BY LenProperties
<1>2. \A i \in m .. n : s[i] \in S
  BY <1>1, ElementOfSeq
<1>3. /\ SubSeq(s, m, n) \in Seq(S)
      /\ Len(SubSeq(s, m, n)) = IF m <= n THEN n - m + 1 ELSE 0
      /\ \A i \in 1 .. n - m + 1 : SubSeq(s, m, n)[i] = s[m + i - 1]
  BY <1>1, <1>2, SubSeqProperties
<1>4. ~(m <= n) => n - m + 1 = 0
  BY <1>1
<1> QED
  BY <1>3, <1>4

\* The list less what is at place k, counted from 1.
LEMMA CutOut ==
    ASSUME NEW S, NEW s \in Seq(S), NEW k \in 1 .. Len(s)
    PROVE  /\ SubSeq(s, 1, k - 1) \o SubSeq(s, k + 1, Len(s)) \in Seq(S)
           /\ SubSeq(s, 1, k - 1) \o SubSeq(s, k + 1, Len(s)) =
                 [i \in 1 .. Len(s) - 1 |-> IF i < k THEN s[i] ELSE s[i + 1]]
<1>1. Len(s) \in Nat /\ \A i \in 1 .. Len(s) : s[i] \in S
  BY LenProperties, ElementOfSeq
<1>2. PICK front : front = SubSeq(s, 1, k - 1)
  OBVIOUS
<1>3. PICK back : back = SubSeq(s, k + 1, Len(s))
  OBVIOUS
<1>4. front \in Seq(S) /\ Len(front) = k - 1 /\ \A i \in 1 .. k - 1 : front[i] = s[i]
  <2>1. 1 \in 1 .. Len(s) + 1 /\ k - 1 \in 1 - 1 .. Len(s)
    BY <1>1
  <2>2. /\ SubSeq(s, 1, k - 1) \in Seq(S) /\ Len(SubSeq(s, 1, k - 1)) = k - 1 - 1 + 1
        /\ \A i \in 1 .. k - 1 - 1 + 1 : SubSeq(s, 1, k - 1)[i] = s[1 + i - 1]
    BY <2>1, PartFacts
  <2>3. k - 1 - 1 + 1 = k - 1 /\ \A i \in 1 .. k - 1 : 1 + i - 1 = i
    BY <1>1
  <2> QED
    BY <1>2, <2>2, <2>3
<1>5. back \in Seq(S) /\ Len(back) = Len(s) - k /\ \A i \in 1 .. Len(s) - k : back[i] = s[k + i]
  <2>1. k + 1 \in 1 .. Len(s) + 1 /\ Len(s) \in k + 1 - 1 .. Len(s)
    BY <1>1
  <2>2. /\ SubSeq(s, k + 1, Len(s)) \in Seq(S)
        /\ Len(SubSeq(s, k + 1, Len(s))) = Len(s) - (k + 1) + 1
        /\ \A i \in 1 .. Len(s) - (k + 1) + 1 : SubSeq(s, k + 1, Len(s))[i] = s[k + 1 + i - 1]
    BY <2>1, PartFacts
  <2>3. Len(s) - (k + 1) + 1 = Len(s) - k /\ \A i \in 1 .. Len(s) - k : k + 1 + i - 1 = k + i
    BY <1>1
  <2> QED
    BY <1>3, <2>2, <2>3
<1>6. PICK joined : joined = front \o back
  OBVIOUS
<1>7. /\ joined \in Seq(S) /\ Len(joined) = Len(front) + Len(back)
      /\ \A i \in 1 .. Len(front) + Len(back) :
            joined[i] = IF i <= Len(front) THEN front[i] ELSE back[i - Len(front)]
  BY <1>4, <1>5, <1>6, ConcatProperties
<1>8. Len(joined) = Len(s) - 1
  BY <1>1, <1>4, <1>5, <1>7
<1>9. ASSUME NEW i \in 1 .. Len(s) - 1 PROVE joined[i] = IF i < k THEN s[i] ELSE s[i + 1]
  <2>1. i \in 1 .. Len(front) + Len(back)
    BY <1>1, <1>4, <1>5
  <2>2. CASE i < k
    <3>1. i <= Len(front) /\ i \in 1 .. k - 1
      BY <1>1, <1>4, <2>2
    <3> QED
      BY <1>4, <1>7, <2>1, <2>2, <3>1
  <2>3. CASE ~(i < k)
    <3>1. ~(i <= Len(front)) /\ i - Len(front) \in 1 .. Len(s) - k /\ k + (i - Len(front)) = i + 1
      BY <1>1, <1>4, <2>3
    <3> QED
      BY <1>5, <1>7, <2>1, <2>3, <3>1
  <2> QED
    BY <2>2, <2>3
<1>10. joined = [i \in 1 .. Len(s) - 1 |-> IF i < k THEN s[i] ELSE s[i + 1]]
  <2>1. joined = [i \in 1 .. Len(s) - 1 |-> joined[i]]
    BY <1>7, <1>8, LenProperties
  <2> QED
    BY <1>9, <2>1
<1> QED
  BY <1>2, <1>3, <1>6, <1>7, <1>10

\* The list with x put in at place k, counted from 1: joined from parts, and place by place.
Spliced(s, k, x) == SubSeq(s, 1, k - 1) \o <<x>> \o SubSeq(s, k, Len(s))
Shifted(s, k, x) ==
    [i \in 1 .. Len(s) + 1 |-> IF i < k THEN s[i] ELSE IF i = k THEN x ELSE s[i - 1]]

LEMMA PutIn ==
    ASSUME NEW S, NEW s \in Seq(S), NEW x \in S, NEW k \in 1 .. Len(s) + 1
    PROVE  Spliced(s, k, x) = Shifted(s, k, x)
<1>1. Len(s) \in Nat
  BY LenProperties
<1>2. PICK front : front = SubSeq(s, 1, k - 1)
  OBVIOUS
<1>3. PICK back : back = SubSeq(s, k, Len(s))
  OBVIOUS
<1>4. front \in Seq(S) /\ Len(front) = k - 1 /\ \A i \in 1 .. k - 1 : front[i] = s[i]
  <2>1. 1 \in 1 .. Len(s) + 1 /\ k - 1 \in 1 - 1 .. Len(s)
    BY <1>1
  <2>2. /\ SubSeq(s, 1, k - 1) \in Seq(S) /\ Len(SubSeq(s, 1, k - 1)) = k - 1 - 1 + 1
        /\ \A i \in 1 .. k - 1 - 1 + 1 : SubSeq(s, 1, k - 1)[i] = s[1 + i - 1]
    BY <2>1, PartFacts
  <2>3. k - 1 - 1 + 1 = k - 1 /\ \A i \in 1 .. k - 1 : 1 + i - 1 = i
    BY <1>1
  <2> QED
    BY <1>2, <2>2, <2>3
<1>5. /\ back \in Seq(S) /\ Len(back) = Len(s) - k + 1
      /\ \A i \in 1 .. Len(s) - k + 1 : back[i] = s[k + i - 1]
  <2>1. Len(s) \in k - 1 .. Len(s)
    BY <1>1
  <2> QED
    BY <1>3, <2>1, PartFacts
<1>6. PICK one : one = <<x>>
  OBVIOUS
<1>7. one \in Seq(S) /\ Len(one) = 1 /\ one[1] = x
  BY <1>6
<1>8. PICK start : start = front \o one
  OBVIOUS
<1>9. start \in Seq(S) /\ Len(start) = k /\ \A i \in 1 .. k : start[i] = IF i < k THEN s[i] ELSE x
  <2>1. /\ start \in Seq(S) /\ Len(start) = Len(front) + Len(one)
        /\ \A i \in 1 .. Len(front) + Len(one) :
              start[i] = IF i <= Len(front) THEN front[i] ELSE one[i - Len(front)]
    BY <1>4, <1>7, <1>8, ConcatProperties
  <2>2. Len(start) = k
    BY <1>1, <1>4, <1>7, <2>1
  <2>3. ASSUME NEW i \in 1 .. k PROVE start[i] = IF i < k THEN s[i] ELSE x
    <3>1. i \in 1 .. Len(front) + Len(one)
      BY <1>1, <1>4, <1>7
    <3>2. CASE i < k
      <4>1. i <= Len(front) /\ i \in 1 .. k - 1
        BY <1>1, <1>4, <3>2
      <4> QED
        BY <1>4, <2>1, <3>1, <3>2, <4>1
    <3>3. CASE ~(i < k)
      <4>1. ~(i <= Len(front)) /\ i - Len(front) = 1
        BY <1>1, <1>4, <3>3
      <4> QED
        BY <1>7, <2>1, <3>1, <3>3, <4>1
    <3> QED
      BY <3>2, <3>3
  <2> QED
    BY <2>1, <2>2, <2>3
<1>10. PICK joined : joined = start \o back
  OBVIOUS
<1>11. /\ joined \in Seq(S) /\ Len(joined) = Len(start) + Len(back)
       /\ \A i \in 1 .. Len(start) + Len(back) :
             joined[i] = IF i <= Len(start) THEN start[i] ELSE back[i - Len(start)]
  BY <1>5, <1>9, <1>10, ConcatProperties
<1>12. Len(joined) = Len(s) + 1
  BY <1>1, <1>5, <1>9, <1>11
<1>13. ASSUME NEW i \in 1 .. Len(s) + 1
       PROVE  joined[i] = IF i < k THEN s[i] ELSE IF i = k THEN x ELSE s[i - 1]
  <2>1. i \in 1 .. Len(start) + Len(back)
    BY <1>1, <1>5, <1>9
  <2>2. CASE i <= k
    <3>1. i <= Len(start) /\ i \in 1 .. k
      BY <1>1, <1>9, <2>2
    <3>2. joined[i] = IF i < k THEN s[i] ELSE x
      BY <1>9, <1>11, <2>1, <3>1
    <3> QED
      BY <1>1, <2>2, <3>2
  <2>3. CASE ~(i <= k)
    <3>1. /\ ~(i <= Len(start)) /\ i - Len(start) \in 1 .. Len(s) - k + 1
          /\ k + (i - Len(start)) - 1 = i - 1
      BY <1>1, <1>9, <2>3
    <3>2. joined[i] = s[i - 1]
      BY <1>5, <1>11, <2>1, <3>1
    <3> QED
      BY <1>1, <2>3, <3>2
  <2> QED
    BY <2>2, <2>3
<1>14. joined = [i \in 1 .. Len(s) + 1 |-> IF i < k THEN s[i] ELSE IF i = k THEN x ELSE s[i - 1]]
  <2>1. joined = [i \in 1 .. Len(s) + 1 |-> joined[i]]
    BY <1>11, <1>12, LenProperties
  <2> QED
    BY <1>13, <2>1
<1> QED
  BY <1>2, <1>3, <1>6, <1>8, <1>10, <1>14 DEF Spliced, Shifted

\* The list less what is at place k, counted from 1, joined from parts.
CutAt(s, k) == SubSeq(s, 1, k - 1) \o SubSeq(s, k + 1, Len(s))

\* Taken out, and put back, by the place of the row.
LEMMA CutIsWithout ==
    ASSUME NEW S, NEW s \in Seq(S), NEW x \in Range(s), NEW k, k = Place(s, x) + 1
    PROVE  /\ k \in DOMAIN s /\ s[k] = x
           /\ CutAt(s, k) = without(s, x)
<1>1. k \in 1 .. Len(s) /\ s[k] = x /\ DOMAIN s = 1 .. Len(s)
  <2>1. Place(s, x) \in 0 .. Len(s) - 1 /\ s[Place(s, x) + 1] = x
    BY PlaceOf
  <2> QED
    BY <2>1, LenProperties
<1>2. CutAt(s, k) = [i \in 1 .. Len(s) - 1 |-> IF i < k THEN s[i] ELSE s[i + 1]]
  BY <1>1, CutOut DEF CutAt
<1>3. without(s, x) = [i \in 1 .. Len(s) - 1 |-> IF i < k THEN s[i] ELSE s[i + 1]]
  BY DEF without
<1> QED
  BY <1>1, <1>2, <1>3

LEMMA SpliceIsPlaced ==
    ASSUME NEW S, NEW s \in Seq(S), NEW x \in S, NEW index \in Int,
           NEW rest, rest = without(s, x), NEW at, at = Clamp(index, Len(rest)) + 1
    PROVE  /\ at \in 1 .. Len(rest) + 1
           /\ Spliced(rest, at, x) = Placed(s, x, index)
<1>1. rest \in Seq(S) /\ Len(rest) \in Nat
  BY WithoutProperties, LenProperties
<1>2. at \in 1 .. Len(rest) + 1
  BY <1>1 DEF Clamp
<1>3. Spliced(rest, at, x) = Shifted(rest, at, x)
  BY <1>1, <1>2, PutIn
<1>4. Placed(s, x, index) = Shifted(rest, at, x)
  BY DEF Placed, Shifted
<1> QED
  BY <1>2, <1>3, <1>4

LEMMA PlacedAgain ==
    ASSUME NEW S, NEW s \in Seq(S), IsInjective(s), NEW x, NEW index
    PROVE  /\ Placed(without(s, x), x, index) = Placed(s, x, index)
           /\ x \notin Range(without(s, x))
<1>1. x \notin Range(without(s, x))
  BY WithoutProperties
<1>2. without(without(s, x), x) = without(s, x)
  BY <1>1 DEF without
<1> QED
  BY <1>1, <1>2 DEF Placed

\* What follows place k of a list without duplicates: it ends as before.
RestAfter(s, k) == SubSeq(s, k + 1, Len(s))

LEMMA RestFacts ==
    ASSUME NEW S, NEW s \in Seq(S), IsInjective(s), NEW k \in DOMAIN s
    PROVE  /\ RestAfter(s, k) \in Seq(S) /\ IsInjective(RestAfter(s, k))
           /\ \A i \in DOMAIN RestAfter(s, k) :
                 \E j \in DOMAIN s : RestAfter(s, k)[i] = s[j] /\ s[j] # s[k]
           /\ RestAfter(s, k) = <<>> => k = Len(s)
           /\ RestAfter(s, k) # <<>> => RestAfter(s, k)[Len(RestAfter(s, k))] = s[Len(s)]
<1>1. Len(s) \in Nat /\ DOMAIN s = 1 .. Len(s) /\ k \in 1 .. Len(s)
  BY LenProperties
<1>2. /\ RestAfter(s, k) \in Seq(S)
      /\ Len(RestAfter(s, k)) = IF k + 1 <= Len(s) THEN Len(s) - (k + 1) + 1 ELSE 0
      /\ \A i \in 1 .. Len(s) - (k + 1) + 1 : RestAfter(s, k)[i] = s[k + 1 + i - 1]
  <2>1. k + 1 \in Int /\ Len(s) \in Int /\ \A i \in k + 1 .. Len(s) : s[i] \in S
    BY <1>1, ElementOfSeq
  <2>2. /\ SubSeq(s, k + 1, Len(s)) \in Seq(S)
        /\ Len(SubSeq(s, k + 1, Len(s))) = IF k + 1 <= Len(s) THEN Len(s) - (k + 1) + 1 ELSE 0
        /\ \A i \in 1 .. Len(s) - (k + 1) + 1 : SubSeq(s, k + 1, Len(s))[i] = s[k + 1 + i - 1]
    BY <2>1, SubSeqProperties
  <2> QED
    BY <2>2 DEF RestAfter
<1>3. PICK rest : rest = RestAfter(s, k)
  OBVIOUS
<1>4. rest \in Seq(S) /\ Len(rest) = Len(s) - k /\ DOMAIN rest = 1 .. Len(s) - k
  BY <1>1, <1>2, <1>3, LenProperties
<1>5. \A i \in 1 .. Len(s) - k : rest[i] = s[k + i] /\ k + i \in DOMAIN s
  <2> SUFFICES ASSUME NEW i \in 1 .. Len(s) - k PROVE rest[i] = s[k + i] /\ k + i \in DOMAIN s
    OBVIOUS
  <2>1. i \in 1 .. Len(s) - (k + 1) + 1 /\ k + 1 + i - 1 = k + i /\ k + i \in 1 .. Len(s)
    BY <1>1
  <2>2. RestAfter(s, k)[i] = s[k + 1 + i - 1]
    BY <1>2, <2>1
  <2> QED
    BY <1>1, <1>3, <2>1, <2>2
<1>6. IsInjective(rest)
  BY <1>1, <1>4, <1>5 DEF IsInjective
<1>7. \A i \in DOMAIN rest : \E j \in DOMAIN s : rest[i] = s[j] /\ s[j] # s[k]
  <2> SUFFICES ASSUME NEW i \in 1 .. Len(s) - k PROVE rest[i] = s[k + i] /\ s[k + i] # s[k]
    BY <1>4, <1>5
  <2>1. k + i \in DOMAIN s /\ k + i # k
    BY <1>1, <1>5
  <2> QED
    BY <1>5, <2>1 DEF IsInjective
<1>8. rest = <<>> => k = Len(s)
  BY <1>1, <1>4, EmptySeq
<1>9. rest # <<>> => rest[Len(rest)] = s[Len(s)]
  BY <1>1, <1>4, <1>5, EmptySeq
<1> QED
  BY <1>3, <1>4, <1>6, <1>7, <1>8, <1>9

=============================================================================
