---------------------------- MODULE BunchProofs ----------------------------
(***************************************************************************)
(* Proofs about the bunch records: BunchText, the status of a waveform and *)
(* the text that selects bunches, then BunchBank, the banks.               *)
(*                                                                         *)
(* The invariant of BunchText says how far the parser has come: with the   *)
(* tokens taken so far it has selected what their list means, and what is  *)
(* left decides the rest.                                                  *)
(*                                                                         *)
(* That of BunchBank has two parts.  For the hardware: the lock and the    *)
(* port of an axis belong to the client that writes it, the configuration  *)
(* of a source is that of its waveforms or a client has still to set it,   *)
(* and each word of an axis is that of the configuration or a client has   *)
(* still to write it.  For the operations, as long as no two have met on   *)
(* a bank: each record still to write will be given what was wanted, and   *)
(* each record of a bank is what was wanted or has still to be written.    *)
(***************************************************************************)
EXTENDS BunchText, BunchBank, Integers, FiniteSetTheorems, SequenceTheorems,
        NaturalsInduction, WellFoundedInduction, TLAPS

\* The bunches enabled that have the value v, and those that have not.
Same(v) == {i \in Enabled : wf[i] = v}
Others(v) == {i \in Enabled : wf[i] # v}

LEMMA LeastIs ==
  ASSUME NEW S \in SUBSET Nat, S # {}
  PROVE  Least(S) \in S /\ \A j \in S : Least(S) <= j
<1> DEFINE R == {ss \in Nat \X Nat : ss[1] < ss[2]}
<1>1. IsWellFoundedOn(R, Nat)
  BY NatLessThanWellFounded DEF OpToRel
<1>2. PICK x \in S : \A y \in S : ~(<<y, x>> \in R)
  BY <1>1, WFMin
<1>3. \A y \in S : x <= y
  <2> SUFFICES ASSUME NEW y \in S, y < x PROVE FALSE
    OBVIOUS
  <2>1. <<y, x>> \in R
    OBVIOUS
  <2>2. QED BY <1>2, <2>1
<1> HIDE DEF R
<1>4. QED BY <1>3 DEF Least

LEMMA GreatestOfOne ==
  ASSUME NEW x \in Nat
  PROVE  Greatest({x}) = x
BY DEF Greatest

LEMMA Counting ==
  ASSUME enables \in SUBSET TextBunch, enables # None, NEW v
  PROVE  /\ IsFiniteSet(Enabled) /\ Cardinality(Enabled) \in Nat
         /\ Counted(v) \in Nat /\ Counted(v) = Cardinality(Same(v))
         /\ Cardinality(Others(v)) \in Nat
         /\ Counted(v) + Cardinality(Others(v)) = Cardinality(Enabled)
         /\ IsFiniteSet(Same(v)) /\ IsFiniteSet(Others(v))
<1>1. IsFiniteSet(Enabled)
  <2>1. IsFiniteSet(TextBunch)
    BY FS_Interval, TextAssumption DEF TextBunch
  <2>2. QED BY <2>1, FS_Subset DEF Enabled
<1>2. IsFiniteSet(Same(v)) /\ IsFiniteSet(Others(v))
  BY <1>1, FS_Subset DEF Same, Others
<1>3. Same(v) \cup Others(v) = Enabled /\ Same(v) \cap Others(v) = {}
  BY DEF Same, Others
<1>4. Cardinality(Enabled) = Cardinality(Same(v)) + Cardinality(Others(v))
                             - Cardinality(Same(v) \cap Others(v))
  BY <1>2, <1>3, FS_Union
<1>5. Counted(v) = Cardinality(Same(v))
  BY DEF Counted, Same
<1>6. /\ Cardinality(Enabled) \in Nat /\ Cardinality(Same(v)) \in Nat
      /\ Cardinality(Others(v)) \in Nat
  BY <1>1, <1>2, FS_CardinalityType
<1>7. Cardinality(Same(v) \cap Others(v)) = 0
  BY <1>3, FS_EmptySet
<1>8. QED BY <1>1, <1>2, <1>4, <1>5, <1>6, <1>7

LEMMA OneElement ==
  ASSUME NEW S, IsFiniteSet(S), NEW x \in S
  PROVE  Cardinality(S) = 1 <=> S = {x}
<1>1. Cardinality(S) = 1 <=> \E y : S = {y}
  BY FS_Singleton
<1>2. QED BY <1>1

LEMMA ComplexityTrue ==
  ASSUME wf \in [TextBunch -> TextValues], enables \in SUBSET TextBunch,
         enables # None, summary = Complexity
  PROVE  SummaryTrue
<1> DEFINE E == Enabled
           f == Least(E)
           v == wf[f]
<1>1. E \in SUBSET TextBunch /\ TextBunch \subseteq Nat /\ 0 \in TextBunch
  BY TextAssumption DEF Enabled, TextBunch
<1>2. CASE E = {}
  <2>1. summary = [kind |-> "disabled", value |-> 0, other |-> 0, at |-> 0]
    BY <1>2 DEF Complexity, NoSummary
  <2>2. QED BY <1>2, <2>1 DEF SummaryTrue, AllBut
<1>3. CASE E # {}
  <2>1. f \in E /\ \A j \in E : f <= j
    BY <1>1, <1>3, LeastIs
  <2>2. NextEnabled(0) = f
    <3>1. {i \in enables : i >= 0} = E
      <4>1. E = enables
        BY DEF Enabled
      <4>2. \A i \in E : i >= 0
        BY <1>1
      <4>3. QED BY <4>1, <4>2
    <3>2. QED BY <3>1 DEF NextEnabled
  <2>3. /\ Counted(v) < Cardinality(E) => summary = OneDiffers(v)
        /\ ~(Counted(v) < Cardinality(E)) =>
             summary = Summary(IF Counted(v) = 1 THEN "single" ELSE "same", v, f)
    BY <1>3, <2>2 DEF Complexity
  <2>4. /\ IsFiniteSet(E) /\ Cardinality(E) \in Nat
        /\ Counted(v) \in Nat /\ Counted(v) = Cardinality(Same(v))
        /\ Cardinality(Others(v)) \in Nat
        /\ Counted(v) + Cardinality(Others(v)) = Cardinality(E)
        /\ IsFiniteSet(Same(v)) /\ IsFiniteSet(Others(v))
    BY Counting
  <2>5. f \in Same(v)
    BY <2>1 DEF Same
  <2>6. CASE Others(v) = {}
    <3>1. ~(Counted(v) < Cardinality(E))
      BY <2>4, <2>6, FS_EmptySet
    <3>2. Counted(v) = 1 <=> E = {f}
      <4>1. Same(v) = E
        BY <2>6 DEF Same, Others
      <4> HIDE DEF v, f
      <4>2. QED BY <2>4, <2>5, <4>1, OneElement
    <3>3. \A j \in E : wf[j] = v
      BY <2>6 DEF Others
    <3>4. summary = Summary(IF Counted(v) = 1 THEN "single" ELSE "same", v, f)
      BY <2>3, <3>1
    <3>5. /\ summary.kind = IF E = {f} THEN "single" ELSE "same"
          /\ summary.value = v /\ summary.at = f
      BY <3>2, <3>4 DEF Summary
    <3> HIDE DEF v, f
    <3>6. QED BY <1>3, <2>1, <3>3, <3>5 DEF SummaryTrue, AllBut
  <2>7. CASE Others(v) # {}
    <3>1. Counted(v) < Cardinality(E)
      <4>1. Cardinality(Others(v)) # 0
        BY <2>4, <2>7, FS_EmptySet
      <4>2. QED BY <2>4, <4>1
    <3>2. CASE Counted(v) = Cardinality(E) - 1
      <4>1. PICK x : Others(v) = {x}
        <5>1. Cardinality(Others(v)) = 1
          BY <2>4, <3>2
        <5>2. QED BY <2>4, <5>1, FS_Singleton
      <4>2. x \in E /\ wf[x] # v /\ x \in Nat
        BY <1>1, <4>1 DEF Others
      <4>3. LastOther(v) = x
        BY <2>7, <4>1, <4>2, GreatestOfOne DEF LastOther, Others
      <4>4. summary = Summary("but_one", v, x)
        BY <2>3, <3>1, <3>2, <4>3 DEF OneDiffers
      <4>5. /\ summary.kind = "but_one" /\ summary.value = v
            /\ summary.at = x /\ summary.other = wf[x]
        BY <4>4 DEF Summary
      <4>6. \A j \in E \ {x} : wf[j] = v
        BY <4>1 DEF Others
      <4>7. f # x
        BY <4>2
      <4> HIDE DEF v, f
      <4>8. QED BY <1>3, <2>1, <4>2, <4>5, <4>6, <4>7 DEF SummaryTrue, AllBut
    <3>3. CASE Counted(v) # Cardinality(E) - 1 /\ Counted(v) = 1
      <4> DEFINE n == NextEnabled(f + 1)
                 u == wf[n]
      <4>1. Same(v) = {f}
        <5> HIDE DEF v, f
        <5>1. QED BY <2>4, <2>5, <3>3, OneElement
      <4>2. n \in E /\ n # f
        <5>1. {i \in enables : i >= f + 1} \in SUBSET Nat
          BY <1>1
        <5>2. {i \in enables : i >= f + 1} # {}
          <6>1. PICK x : x \in Others(v)
            BY <2>7
          <6>2. x \in enables /\ x # f /\ f <= x /\ x \in Nat /\ f \in Nat
            BY <1>1, <2>1, <6>1 DEF Others, Enabled
          <6> HIDE DEF f
          <6>3. QED BY <6>2
        <5>3. n \in {i \in enables : i >= f + 1}
          BY <5>1, <5>2, LeastIs DEF NextEnabled
        <5>4. n \in E /\ n >= f + 1 /\ f \in Nat
          BY <1>1, <2>1, <5>3 DEF Enabled
        <5> HIDE DEF n, f
        <5>5. QED BY <1>1, <5>4
      <4>3. u # v
        <5>1. n \notin Same(v)
          BY <4>1, <4>2
        <5>2. QED BY <4>2, <5>1 DEF Same
      <4>4. /\ Counted(u) \in Nat
            /\ Cardinality(Others(u)) \in Nat
            /\ Counted(u) + Cardinality(Others(u)) = Cardinality(E)
            /\ IsFiniteSet(Others(u))
        BY Counting
      <4>5. CASE Counted(u) = Cardinality(E) - 1
        <5>1. PICK x : Others(u) = {x}
          <6>1. Cardinality(Others(u)) = 1
            BY <2>4, <4>4, <4>5
          <6>2. QED BY <4>4, <6>1, FS_Singleton
        <5>2. x = f
          <6>1. f \in Others(u)
            BY <2>1, <4>3 DEF Others
          <6>2. QED BY <5>1, <6>1
        <5>3. LastOther(u) = f
          <6>1. f \in Nat
            BY <1>1, <2>1
          <6>2. QED BY <5>1, <5>2, <6>1, GreatestOfOne DEF LastOther, Others
        <5>4. summary = Summary("but_one", u, f)
          <6>1. wf[NextEnabled(NextEnabled(0) + 1)] = u
            BY <2>2
          <6> HIDE DEF u, v, n
          <6>2. QED BY <2>3, <3>1, <3>3, <4>5, <5>3, <6>1 DEF OneDiffers
        <5>5. /\ summary.kind = "but_one" /\ summary.value = u
              /\ summary.at = f /\ summary.other = wf[f]
          BY <5>4 DEF Summary
        <5>6. \A j \in E \ {f} : wf[j] = u
          BY <5>1, <5>2 DEF Others
        <5> HIDE DEF f, n
        <5>7. QED BY <1>3, <2>1, <4>2, <4>3, <5>5, <5>6 DEF SummaryTrue, AllBut
      <4>6. CASE Counted(u) # Cardinality(E) - 1
        <5>1. summary = Summary("mixed", v, 0)
          <6>1. wf[NextEnabled(NextEnabled(0) + 1)] = u
            BY <2>2
          <6> HIDE DEF u, v, n
          <6>2. QED BY <2>3, <3>1, <3>3, <4>6, <6>1 DEF OneDiffers
        <5>2. summary.kind = "mixed" /\ summary.value = v /\ summary.at = 0
          BY <5>1 DEF Summary
        <5>3. ASSUME NEW i \in E, NEW w, AllBut(w, i) PROVE FALSE
          <6>1. Others(w) = {i}
            BY <5>3 DEF AllBut, Others
          <6>2. CASE w = v
            BY <2>4, <3>3, <6>1, <6>2, FS_Singleton
          <6>3. CASE w # v
            <7>1. i = f
              BY <2>1, <6>1, <6>3 DEF Others
            <7>2. w = u
              BY <4>2, <6>1, <7>1 DEF Others
            <7>3. Cardinality(Others(u)) = 1
              BY <6>1, <7>2, FS_Singleton
            <7> HIDE DEF u
            <7>4. QED BY <2>4, <4>4, <4>6, <7>3
          <6>4. QED BY <6>2, <6>3
        <5>4. PICK x \in E : wf[x] # v
          BY <2>7 DEF Others
        <5>5. E # {0}
          BY <2>1, <5>4
        <5> HIDE DEF f, n, u, v
        <5>6. QED BY <1>3, <2>1, <5>2, <5>3, <5>4, <5>5 DEF SummaryTrue, AllBut
      <4>7. QED BY <4>5, <4>6
    <3>4. CASE Counted(v) # Cardinality(E) - 1 /\ Counted(v) # 1
      <4>1. summary = Summary("mixed", v, 0)
        <5> HIDE DEF v, f
        <5>1. QED BY <2>3, <3>1, <3>4 DEF OneDiffers
      <4>2. summary.kind = "mixed" /\ summary.value = v /\ summary.at = 0
        BY <4>1 DEF Summary
      <4>3. ASSUME NEW i \in E, NEW w, AllBut(w, i) PROVE FALSE
        <5>1. Others(w) = {i}
          BY <4>3 DEF AllBut, Others
        <5>2. CASE w = v
          BY <2>4, <3>4, <5>1, <5>2, FS_Singleton
        <5>3. CASE w # v
          <6>1. i = f
            BY <2>1, <5>1, <5>3 DEF Others
          <6>2. Same(v) = {f}
            BY <2>1, <5>1, <5>3, <6>1 DEF Same, Others
          <6>3. QED BY <2>4, <3>4, <6>2, FS_Singleton
        <5>4. QED BY <5>2, <5>3
      <4>4. PICK x \in E : wf[x] # v
        BY <2>7 DEF Others
      <4>5. E # {0}
        BY <2>1, <4>4
      <4> HIDE DEF f, v
      <4>6. QED BY <1>3, <2>1, <4>2, <4>3, <4>4, <4>5 DEF SummaryTrue, AllBut
    <3>5. QED BY <3>2, <3>3, <3>4
  <2>8. QED BY <2>6, <2>7
<1>4. QED BY <1>2, <1>3

LEMMA GreatestIs ==
  ASSUME NEW S \in SUBSET TextBunch, S # {}
  PROVE  Greatest(S) \in S
<1>1. TextBunch = 0 .. TextBunches - 1 /\ TextBunches \in Nat
  BY TextAssumption DEF TextBunch
<1> DEFINE T == {n \in Nat : \E i \in S : n = TextBunches - i}
<1>2. T \in SUBSET Nat /\ T # {}
  <2>1. PICK i : i \in S
    OBVIOUS
  <2>2. TextBunches - i \in Nat
    BY <1>1, <2>1
  <2>3. QED BY <2>1, <2>2
<1>3. Least(T) \in T /\ \A j \in T : Least(T) <= j
  BY <1>2, LeastIs
<1>4. PICK m : m \in T /\ \A j \in T : m <= j
  BY <1>3
<1>5. PICK i \in S : m = TextBunches - i
  BY <1>4
<1>6. ASSUME NEW j \in S PROVE i >= j
  <2>1. TextBunches - j \in T
    BY <1>1
  <2>2. m <= TextBunches - j
    BY <1>4, <2>1
  <2>3. QED BY <1>1, <1>5, <2>2
<1>7. QED BY <1>6 DEF Greatest

\* The summary always names a bunch there is, with or without enables.
LEMMA ComplexityTyped ==
  ASSUME enables \in (SUBSET TextBunch) \cup {None}
  PROVE  Complexity.kind \in Kinds /\ Complexity.at \in TextBunch
<1>1. TextBunch \subseteq Nat /\ 0 \in TextBunch
  BY TextAssumption DEF TextBunch
<1>2. Enabled \in SUBSET TextBunch
  BY DEF Enabled
<1>3. \A v : LastOther(v) \in TextBunch
  <2> SUFFICES ASSUME NEW v PROVE LastOther(v) \in TextBunch
    OBVIOUS
  <2>1. Others(v) \in SUBSET TextBunch
    BY <1>2 DEF Others
  <2>2. Others(v) # {} => Greatest(Others(v)) \in TextBunch
    BY <2>1, GreatestIs
  <2>3. LastOther(v) = IF Others(v) = {} THEN 0 ELSE Greatest(Others(v))
    BY DEF LastOther, Others
  <2>4. QED BY <1>1, <2>2, <2>3
<1>4. Enabled # {} => NextEnabled(0) \in TextBunch
  <2>1. CASE enables = None
    BY <1>1, <2>1 DEF NextEnabled
  <2>2. CASE enables # None
    <3>1. Enabled = enables
      BY <2>2 DEF Enabled
    <3>2. \A i \in enables : i >= 0
      BY <1>1, <1>2, <3>1
    <3>3. {i \in enables : i >= 0} = Enabled
      BY <3>1, <3>2
    <3>4. NextEnabled(0) = Least(Enabled)
      BY <2>2, <3>3 DEF NextEnabled
    <3>5. QED BY <1>1, <1>2, <3>4, LeastIs
  <2>3. QED BY <2>1, <2>2
<1>5. \A k, v, at : Summary(k, v, at).kind = k /\ Summary(k, v, at).at = at
  BY DEF Summary
<1>6. \A v : OneDiffers(v).kind \in Kinds /\ OneDiffers(v).at \in TextBunch
  BY <1>1, <1>3, <1>5 DEF OneDiffers, Kinds
<1>7. CASE Enabled = {}
  BY <1>1, <1>7 DEF Complexity, NoSummary, Kinds
<1>8. CASE Enabled # {}
  <2>1. \/ Complexity = OneDiffers(wf[NextEnabled(0)])
        \/ Complexity = Summary("single", wf[NextEnabled(0)], NextEnabled(0))
        \/ Complexity = Summary("same", wf[NextEnabled(0)], NextEnabled(0))
    BY <1>8 DEF Complexity
  <2>2. QED BY <1>4, <1>5, <1>6, <1>8, <2>1 DEF Kinds
<1>9. QED BY <1>7, <1>8

Suffix(n) == SubSeq(text, n + 1, Len(text))

LEMMA TextSeq ==
  ASSUME text \in Texts
  PROVE  /\ text \in Seq(Token) /\ Len(text) \in Nat
         /\ DOMAIN text = 1 .. Len(text)
         /\ \A i \in 1 .. Len(text) : text[i] \in Token
<1>1. PICK n \in 0 .. MaxTokens : text \in [1 .. n -> Token]
  BY DEF Texts
<1>2. n \in Nat
  BY <1>1, TextAssumption
<1>3. text \in Seq(Token)
  BY <1>1, <1>2, SeqDef
<1>4. QED BY <1>3, LenProperties, ElementOfSeq

LEMMA SuffixIs ==
  ASSUME text \in Texts, NEW n \in 0 .. Len(text)
  PROVE  /\ Suffix(n) \in Seq(Token) /\ Len(Suffix(n)) = Len(text) - n
         /\ \A i \in 1 .. Len(text) - n : Suffix(n)[i] = text[n + i]
         /\ Suffix(n) = <<>> <=> n = Len(text)
<1>1. text \in Seq(Token) /\ Len(text) \in Nat
  BY TextSeq
<1>2. \A i \in n + 1 .. Len(text) : text[i] \in Token
  BY <1>1, TextSeq
<1>3. /\ Suffix(n) \in Seq(Token)
      /\ Len(Suffix(n)) = IF n + 1 <= Len(text) THEN Len(text) - (n + 1) + 1 ELSE 0
      /\ \A i \in 1 .. Len(text) - (n + 1) + 1 : Suffix(n)[i] = text[n + 1 + i - 1]
  BY <1>1, <1>2, SubSeqProperties DEF Suffix
<1>4. Len(Suffix(n)) = Len(text) - n
  BY <1>1, <1>3
<1>5. ASSUME NEW i \in 1 .. Len(text) - n PROVE Suffix(n)[i] = text[n + i]
  <2>1. i \in 1 .. Len(text) - (n + 1) + 1 /\ n + 1 + i - 1 = n + i
    BY <1>1
  <2>2. QED BY <1>3, <2>1
<1>6. Suffix(n) = <<>> <=> Len(Suffix(n)) = 0
  BY <1>3, EmptySeq
<1>7. QED BY <1>1, <1>3, <1>4, <1>5, <1>6

LEMMA DropSuffix ==
  ASSUME text \in Texts, NEW n \in 0 .. Len(text), NEW k \in Nat,
         n + k <= Len(text)
  PROVE  /\ Drop(Suffix(n), k) = Suffix(n + k)
         /\ n < Len(text) => /\ Tail(Suffix(n)) = Suffix(n + 1)
                             /\ Head(Suffix(n)) = text[n + 1]
         /\ Suffix(0) = text
<1>1. Len(text) \in Nat /\ text \in Seq(Token)
  BY TextSeq
<1>2. /\ Suffix(n) \in Seq(Token) /\ Len(Suffix(n)) = Len(text) - n
      /\ \A i \in 1 .. Len(text) - n : Suffix(n)[i] = text[n + i]
  BY SuffixIs
<1>3. ASSUME NEW m \in Nat, n + m <= Len(text)
      PROVE  SubSeq(Suffix(n), m + 1, Len(Suffix(n))) = Suffix(n + m)
  <2>1. n + m \in 0 .. Len(text)
    BY <1>1, <1>3
  <2>2. /\ Suffix(n + m) \in Seq(Token) /\ Len(Suffix(n + m)) = Len(text) - (n + m)
        /\ \A i \in 1 .. Len(text) - (n + m) : Suffix(n + m)[i] = text[(n + m) + i]
    BY <2>1, SuffixIs
  <2>3. \A i \in m + 1 .. Len(Suffix(n)) : Suffix(n)[i] \in Token
    BY <1>1, <1>2, ElementOfSeq
  <2>4. /\ SubSeq(Suffix(n), m + 1, Len(Suffix(n))) \in Seq(Token)
        /\ Len(SubSeq(Suffix(n), m + 1, Len(Suffix(n)))) =
             IF m + 1 <= Len(Suffix(n)) THEN Len(Suffix(n)) - (m + 1) + 1 ELSE 0
        /\ \A i \in 1 .. Len(Suffix(n)) - (m + 1) + 1 :
             SubSeq(Suffix(n), m + 1, Len(Suffix(n)))[i] = Suffix(n)[m + 1 + i - 1]
    BY <1>1, <1>2, <2>3, SubSeqProperties
  <2>5. Len(SubSeq(Suffix(n), m + 1, Len(Suffix(n)))) = Len(Suffix(n + m))
    BY <1>1, <1>2, <1>3, <2>2, <2>4
  <2>6. ASSUME NEW i \in 1 .. Len(Suffix(n + m))
        PROVE  SubSeq(Suffix(n), m + 1, Len(Suffix(n)))[i] = Suffix(n + m)[i]
    <3>1. /\ i \in 1 .. Len(Suffix(n)) - (m + 1) + 1
          /\ m + 1 + i - 1 = m + i /\ m + i \in 1 .. Len(text) - n
          /\ n + (m + i) = (n + m) + i
      BY <1>1, <1>2, <1>3, <2>2
    <3>2. QED BY <1>2, <2>2, <2>4, <3>1
  <2>7. QED BY ONLY <2>2, <2>4, <2>5, <2>6, SeqEqual
<1>4. Drop(Suffix(n), k) = Suffix(n + k)
  BY <1>3 DEF Drop
<1>5. ASSUME n < Len(text)
      PROVE  Tail(Suffix(n)) = Suffix(n + 1) /\ Head(Suffix(n)) = text[n + 1]
  <2>1. Suffix(n) # <<>>
    BY <1>5, SuffixIs
  <2>2. Tail(Suffix(n)) = SubSeq(Suffix(n), 2, Len(Suffix(n)))
    BY <1>2, <2>1, HeadTailProperties, TailIsSubSeq
  <2>3. SubSeq(Suffix(n), 1 + 1, Len(Suffix(n))) = Suffix(n + 1)
    BY <1>1, <1>3, <1>5
  <2>4. Head(Suffix(n)) = Suffix(n)[1]
    BY <1>2, <2>1, HeadTailProperties
  <2>5. 1 \in 1 .. Len(text) - n
    BY <1>1, <1>5
  <2>6. 1 + 1 = 2
    OBVIOUS
  <2>7. QED BY <1>2, <2>2, <2>3, <2>4, <2>5, <2>6
<1>6. Suffix(0) = text
  BY <1>1, SubSeqFull DEF Suffix
<1>7. QED BY <1>4, <1>5, <1>6

-----------------------------------------------------------------------------
\* What an item of the list is, as text: from p to q, with what follows it.
Items(p, q) ==
  /\ text[p] \in TextBunch
  /\ \/ q = p
     \/ /\ q = p + 2 /\ text[p + 1] = Colon /\ text[p + 2] \in TextBunch
     \/ /\ q = p + 4 /\ text[p + 1] = Colon /\ text[p + 2] \in TextBunch
        /\ text[p + 3] = Colon /\ text[p + 4] \in TextBunch
Ends(q) == q = Len(text) \/ text[q + 1] # Colon

Proper(p, q) == Span(p, q) /\ text[p] <= text[q] /\ Skip(p, q) > 0
Picked(p, q) ==
  {i \in TextBunch :
     \E n \in TextBunch : i = text[p] + n * Skip(p, q) /\ i <= text[q]}

LEMMA TokenSorts ==
  /\ Colon \notin TextBunch /\ TextBunch \subseteq Nat
  /\ 0 \in TextBunch
BY TextAssumption DEF Colon, TextBunch

LEMMA SpanIs ==
  ASSUME text \in Texts, NEW p \in 1 .. Len(text), NEW q \in p .. Len(text)
  PROVE  Span(p, q) <=> Items(p, q) /\ Ends(q)
<1>1. Len(text) \in Nat
  BY TextSeq
<1>2. ASSUME q - p \in {0, 2, 4}
      PROVE  (\A k \in p .. q : IF (k - p) % 2 = 0 THEN text[k] \in TextBunch
                                ELSE text[k] = Colon) <=> Items(p, q)
  <2>1. /\ (p - p) % 2 = 0 /\ (p + 1 - p) % 2 = 1 /\ (p + 2 - p) % 2 = 0
        /\ (p + 3 - p) % 2 = 1 /\ (p + 4 - p) % 2 = 0
    BY <1>1
  <2>2. CASE q = p
    <3>1. p .. q = {p}
      BY <1>1, <2>2
    <3>2. ~(q = p + 2) /\ ~(q = p + 4)
      BY <1>1, <2>2
    <3>3. QED BY <2>1, <2>2, <3>1, <3>2 DEF Items
  <2>3. CASE q = p + 2
    <3>1. p .. q = {p, p + 1, p + 2}
      BY <1>1, <2>3
    <3>2. ~(q = p) /\ ~(q = p + 4)
      BY <1>1, <2>3
    <3>3. QED BY <2>1, <2>3, <3>1, <3>2 DEF Items
  <2>4. CASE q = p + 4
    <3>1. p .. q = {p, p + 1, p + 2, p + 3, p + 4}
      BY <1>1, <2>4
    <3>2. ~(q = p) /\ ~(q = p + 2)
      BY <1>1, <2>4
    <3>3. QED BY <2>1, <2>4, <3>1, <3>2 DEF Items
  <2>5. QED BY <1>1, <1>2, <2>2, <2>3, <2>4
<1>3. Items(p, q) => q - p \in {0, 2, 4}
  BY <1>1 DEF Items
<1>4. QED BY <1>2, <1>3 DEF Span, Ends

LEMMA SpanUnique ==
  ASSUME text \in Texts, NEW p \in 1 .. Len(text),
         NEW q \in p .. Len(text), NEW r \in p .. Len(text),
         Span(p, q), Span(p, r)
  PROVE  q = r
<1>1. Len(text) \in Nat
  BY TextSeq
<1>2. Items(p, q) /\ Ends(q) /\ Items(p, r) /\ Ends(r)
  BY SpanIs
<1>3. QED BY <1>1, <1>2, TokenSorts DEF Items, Ends

\* No item starts inside another.
LEMMA NoStartInside ==
  ASSUME text \in Texts, NEW p \in 1 .. Len(text), NEW q \in p .. Len(text),
         Items(p, q), NEW r \in p + 1 .. q
  PROVE  /\ ~Start(r)
         /\ text[r] \in TextBunch \cup {Colon}
<1>1. Len(text) \in Nat
  BY TextSeq
<1>2. r \in {p + 1, p + 2, p + 3, p + 4} /\ r # 1
  BY <1>1 DEF Items
<1>3. /\ r = p + 1 => text[r] = Colon
      /\ r = p + 2 => text[r - 1] = Colon /\ text[r] \in TextBunch
      /\ r = p + 3 => text[r] = Colon
      /\ r = p + 4 => text[r - 1] = Colon /\ text[r] \in TextBunch
  <2>1. p + 2 - 1 = p + 1 /\ p + 4 - 1 = p + 3
    OBVIOUS
  <2>2. QED BY <1>1, <2>1 DEF Items
<1>4. QED BY <1>2, <1>3, TokenSorts DEF Start

(***************************************************************************)
(* The bunches of a range.                                                 *)
(***************************************************************************)
LEMMA Multiple ==
  ASSUME NEW a \in Nat, NEW s \in Nat \ {0}
  PROVE  a % s = 0 <=> \E m \in 0 .. a : a = m * s
<1>1. ASSUME a % s = 0 PROVE \E m \in 0 .. a : a = m * s
  <2> DEFINE m == a \div s
  <2>1. m \in Int /\ a = (s * m) + (a % s)
    BY SMT
  <2>2. a = s * m
    BY <1>1, <2>1
  <2>3. m >= 0
    BY <2>1, <2>2, SMT
  <2>4. m <= a
    BY <2>1, <2>2, <2>3, SMT
  <2>5. QED BY <2>1, <2>2, <2>3, <2>4
<1>2. ASSUME NEW m \in 0 .. a, a = m * s PROVE a % s = 0
  <2>1. (m * s) % s = 0
    BY SMT
  <2>2. QED BY <1>2, <2>1
<1>3. QED BY <1>1, <1>2

LEMMA PickedRange ==
  ASSUME NEW p, NEW q, text[p] \in TextBunch, text[q] \in TextBunch,
         Skip(p, q) \in Nat \ {0}
  PROVE  Picked(p, q) = SetRange(text[p], Skip(p, q), text[q])
<1>1. PICK a : a = text[p]
  OBVIOUS
<1>2. PICK b : b = text[q]
  OBVIOUS
<1>3. PICK s : s = Skip(p, q)
  OBVIOUS
<1>4. a \in TextBunch /\ b \in TextBunch /\ s \in Nat \ {0}
  BY <1>1, <1>2, <1>3
<1>5. TextBunch = 0 .. TextBunches - 1 /\ TextBunches \in Nat
  BY TextAssumption DEF TextBunch
<1>6. ASSUME NEW i \in TextBunch, i <= b
      PROVE  (\E n \in TextBunch : i = a + n * s) <=> (i >= a /\ (i - a) % s = 0)
  <2>1. ASSUME i >= a, (i - a) % s = 0 PROVE \E n \in TextBunch : i = a + n * s
    <3>1. i - a \in Nat
      BY <1>4, <1>5, <2>1
    <3>2. PICK m \in 0 .. (i - a) : i - a = m * s
      BY <1>4, <2>1, <3>1, Multiple
    <3>3. m \in TextBunch
      BY <1>4, <1>5, <3>1
    <3>4. m * s \in Int
      BY <1>4, <1>5, <3>3
    <3>5. i = a + m * s
      BY <1>4, <1>5, <3>2, <3>4
    <3>6. QED BY <3>3, <3>5
  <2>2. ASSUME NEW n \in TextBunch, i = a + n * s PROVE i >= a /\ (i - a) % s = 0
    <3>1. n \in Nat /\ a \in Nat /\ s \in Nat
      BY <1>4, <1>5
    <3>2. n * s \in Nat
      BY <3>1, SMT
    <3>3. i - a = n * s /\ i >= a
      BY <2>2, <3>1, <3>2
    <3>4. (n * s) % s = 0
      BY <1>4, <3>1, SMT
    <3>5. QED BY <3>3, <3>4
  <2>3. QED BY <2>1, <2>2
<1>7. \A i \in TextBunch :
        (\E n \in TextBunch : i = a + n * s /\ i <= b)
          <=> (i >= a /\ i <= b /\ (i - a) % s = 0)
  BY <1>6
<1>8. QED BY <1>1, <1>2, <1>3, <1>7 DEF Picked, SetRange

LEMMA PickedOne ==
  ASSUME NEW p \in Nat, text[p] \in TextBunch
  PROVE  Picked(p, p) = {text[p]}
<1>1. Skip(p, p) = 1
  BY DEF Skip
<1>2. 0 \in TextBunch /\ TextBunch \subseteq Nat
  BY TokenSorts
<1>3. PICK a : a = text[p]
  OBVIOUS
<1>4. \A i \in TextBunch :
        (\E n \in TextBunch : i = a + n * 1 /\ i <= a) <=> i = a
  <2>0. a \in Nat
    BY <1>2, <1>3
  <2>1. a = a + 0 * 1 /\ a <= a
    BY <2>0
  <2>2. \A i \in Nat, n \in Nat : i = a + n * 1 /\ i <= a => i = a
    BY <2>0
  <2>3. QED BY <1>2, <1>3, <2>0, <2>1, <2>2
<1>5. QED BY <1>1, <1>3, <1>4 DEF Picked

-----------------------------------------------------------------------------
(***************************************************************************)
(* The first n tokens are a list of items, and the bunches they mean.      *)
(***************************************************************************)
ListTo(n) ==
  /\ n > 0 => text[1] # Colon
  /\ \A p \in 1 .. n :
       /\ text[p] \in TextBunch \cup {Colon}
       /\ Start(p) => \E q \in p .. n : Proper(p, q)

ChosenBy(n) ==
  {i \in TextBunch : \E p \in 1 .. n :
     Start(p) /\ \E q \in p .. n : Span(p, q) /\ i \in Picked(p, q)}

\* At the end of the text this is what it means.
LEMMA WholeText ==
  ASSUME text \in Texts, text # <<>>, ListTo(Len(text))
  PROVE  WellFormed /\ Meant = ChosenBy(Len(text))
<1>1. DOMAIN text = 1 .. Len(text) /\ Len(text) \in Nat /\ Len(text) > 0
  BY TextSeq, EmptySeq
<1>2. WellFormed
  BY <1>1 DEF WellFormed, ListTo, Proper
<1>3. Meant = ChosenBy(Len(text))
  BY <1>1 DEF Meant, ChosenBy, Picked
<1>4. QED BY <1>2, <1>3

\* An item that is not as it should be spoils the text.
LEMMA Spoiled ==
  ASSUME text \in Texts, NEW p \in 1 .. Len(text)
  PROVE  /\ (Start(p) /\ ~\E q \in p .. Len(text) : Proper(p, q)) => ~WellFormed
         /\ text[p] \notin TextBunch \cup {Colon} => ~WellFormed
BY TextSeq DEF WellFormed, Proper

LEMMA OneMore ==
  ASSUME text \in Texts, NEW n \in 0 .. Len(text), ListTo(n),
         n > 0 => text[n] # Colon,
         NEW q \in n + 1 .. Len(text), Proper(n + 1, q)
  PROVE  /\ ListTo(q) /\ text[q] # Colon
         /\ ChosenBy(q) = ChosenBy(n) \cup Picked(n + 1, q)
<1> DEFINE p == n + 1
<1>1. Len(text) \in Nat /\ n \in Nat /\ q \in Nat /\ p \in 1 .. Len(text)
  BY TextSeq
<1>2. Items(p, q) /\ Span(p, q)
  BY <1>1, SpanIs DEF Proper
<1>3. Start(p)
  <2>1. p - 1 = n /\ (p = 1 \/ n > 0)
    BY <1>1
  <2>2. QED BY <1>2, <2>1 DEF Start, Items
<1>4. \A r \in p + 1 .. q : ~Start(r) /\ text[r] \in TextBunch \cup {Colon}
  BY <1>1, <1>2, NoStartInside
<1>5. text[p] \in TextBunch /\ text[q] \in TextBunch
  BY <1>2 DEF Items
<1>6. \A r \in 1 .. q : r \in 1 .. n \/ r = p \/ r \in p + 1 .. q
  BY <1>1
<1>7. \A r \in 1 .. n : Start(r) => \E k \in r .. n : Proper(r, k)
  BY DEF ListTo
<1>8. ListTo(q)
  <2>1. text[1] # Colon
    <3>1. CASE n = 0
      BY <1>5, <3>1, TokenSorts
    <3>2. CASE n > 0
      BY <3>2 DEF ListTo
    <3>3. QED BY <1>1, <3>1, <3>2
  <2>2. \A r \in 1 .. q : text[r] \in TextBunch \cup {Colon}
    BY <1>4, <1>5, <1>6 DEF ListTo
  <2>3. ASSUME NEW r \in 1 .. q, Start(r) PROVE \E k \in r .. q : Proper(r, k)
    <3>1. CASE r \in 1 .. n
      <4>1. PICK k \in r .. n : Proper(r, k)
        BY <1>7, <2>3, <3>1
      <4>2. k \in r .. q
        BY <1>1, <3>1
      <4>3. QED BY <4>1, <4>2
    <3>2. CASE r = p
      <4>1. q \in r .. q
        BY <1>1, <3>2
      <4>2. QED BY <3>2, <4>1
    <3>3. QED BY <1>4, <1>6, <2>3, <3>1, <3>2
  <2>4. QED BY <2>1, <2>2, <2>3 DEF ListTo
<1>9. ASSUME NEW r \in 1 .. n, NEW k \in r .. q, Start(r), Span(r, k)
      PROVE  k \in r .. n
  <2>1. PICK m \in r .. n : Proper(r, m)
    BY <1>7, <1>9
  <2>2. m = k
    <3>1. m \in r .. Len(text) /\ k \in r .. Len(text) /\ r \in 1 .. Len(text)
      BY <1>1
    <3>2. QED BY <1>9, <2>1, <3>1, SpanUnique DEF Proper
  <2>3. QED BY <2>2
<1>10. ASSUME NEW k \in p .. q, Span(p, k) PROVE k = q
  <2>1. k \in p .. Len(text)
    BY <1>1
  <2>2. QED BY <1>1, <1>2, <1>10, <2>1, SpanUnique
<1>11. ASSUME NEW i \in TextBunch
       PROVE  i \in ChosenBy(q) <=> i \in ChosenBy(n) \/ i \in Picked(p, q)
  <2>1. ASSUME i \in ChosenBy(q) PROVE i \in ChosenBy(n) \/ i \in Picked(p, q)
    <3>a. PICK r \in 1 .. q :
             Start(r) /\ \E k \in r .. q : Span(r, k) /\ i \in Picked(r, k)
      BY <2>1 DEF ChosenBy
    <3>1. PICK k \in r .. q : Start(r) /\ Span(r, k) /\ i \in Picked(r, k)
      BY <3>a
    <3>2. CASE r \in 1 .. n
      BY <1>9, <3>1, <3>2 DEF ChosenBy
    <3>3. CASE r = p
      BY <1>10, <3>1, <3>3
    <3>4. QED BY <1>4, <1>6, <3>1, <3>2, <3>3
  <2>2. ASSUME i \in ChosenBy(n) PROVE i \in ChosenBy(q)
    <3>a. PICK r \in 1 .. n :
             Start(r) /\ \E k \in r .. n : Span(r, k) /\ i \in Picked(r, k)
      BY <2>2 DEF ChosenBy
    <3>1. PICK k \in r .. n : Start(r) /\ Span(r, k) /\ i \in Picked(r, k)
      BY <3>a
    <3>2. r \in 1 .. q /\ k \in r .. q
      BY <1>1
    <3>3. QED BY <3>1, <3>2 DEF ChosenBy
  <2>3. ASSUME i \in Picked(p, q) PROVE i \in ChosenBy(q)
    <3>1. p \in 1 .. q /\ q \in p .. q
      BY <1>1
    <3>2. QED BY <1>2, <1>3, <2>3, <3>1 DEF ChosenBy
  <2>4. QED BY <2>1, <2>2, <2>3
<1>12. ChosenBy(q) \subseteq TextBunch /\ ChosenBy(n) \subseteq TextBunch
       /\ Picked(p, q) \subseteq TextBunch
  BY DEF ChosenBy, Picked
<1>13. ChosenBy(q) = ChosenBy(n) \cup Picked(p, q)
  BY <1>11, <1>12
<1>14. QED BY <1>5, <1>8, <1>13, TokenSorts

-----------------------------------------------------------------------------
(***************************************************************************)
(* What the parser takes from the front of the text that is left.          *)
(***************************************************************************)
LEMMA FrontIs ==
  ASSUME text \in Texts, NEW m \in 0 .. Len(text)
  PROVE  /\ Num(Suffix(m)) <=> m < Len(text) /\ text[m + 1] \in TextBunch
         /\ ColonNext(Suffix(m)) <=> m < Len(text) /\ text[m + 1] = Colon
         /\ m < Len(text) => Head(Suffix(m)) = text[m + 1]
         /\ m < Len(text) => Tail(Suffix(m)) = Suffix(m + 1)
         /\ m + 2 <= Len(text) => Drop(Suffix(m), 2) = Suffix(m + 2)
         /\ m < Len(text) => Suffix(m)[1] = text[m + 1]
<1>1. Len(text) \in Nat
  BY TextSeq
<1>2. m < Len(text) => /\ Head(Suffix(m)) = text[m + 1]
                       /\ Tail(Suffix(m)) = Suffix(m + 1)
  BY <1>1, DropSuffix
<1>3. m + 2 <= Len(text) => Drop(Suffix(m), 2) = Suffix(m + 2)
  BY DropSuffix
<1>4. Suffix(m) = <<>> <=> m = Len(text)
  BY SuffixIs
<1>5. m < Len(text) => Suffix(m)[1] = text[m + 1]
  <2>1. m < Len(text) => 1 \in 1 .. Len(text) - m
    BY <1>1
  <2>2. QED BY <2>1, SuffixIs
<1>6. QED BY <1>1, <1>2, <1>3, <1>4, <1>5 DEF Num, ColonNext

\* An item taken ends at q.
Taken(item, n, q) ==
  /\ item.ok /\ item.length = q - n /\ item.set = Picked(n + 1, q)
  /\ Items(n + 1, q) /\ text[n + 1] <= text[q] /\ Skip(n + 1, q) > 0
  /\ q = n + 5 \/ Ends(q)

LEMMA RangeItem ==
  ASSUME NEW p \in Nat, NEW q \in Nat, q \in {p + 2, p + 4}, Items(p, q)
  PROVE  /\ Skip(p, q) \in Nat /\ text[p] \in Nat /\ text[q] \in Nat
         /\ Skip(p, q) = IF q = p + 4 THEN text[p + 2] ELSE 1
         /\ Skip(p, q) > 0 => Picked(p, q) = SetRange(text[p], Skip(p, q), text[q])
<1>1. text[p] \in TextBunch /\ text[q] \in TextBunch
  BY DEF Items
<1>2. Skip(p, q) = IF q = p + 4 THEN text[p + 2] ELSE 1
  BY DEF Skip
<1>3. q = p + 4 => text[p + 2] \in TextBunch
  BY DEF Items
<1>4. Skip(p, q) \in Nat /\ text[p] \in Nat /\ text[q] \in Nat
  <2>1. q = p + 4 => Skip(p, q) \in Nat
    BY <1>2, <1>3, TokenSorts
  <2>2. q # p + 4 => Skip(p, q) \in Nat
    BY <1>2
  <2>3. QED BY <1>1, <2>1, <2>2, TokenSorts
<1>5. QED BY <1>1, <1>2, <1>4, PickedRange

LEMMA ItemIs ==
  ASSUME text \in Texts, NEW n \in 0 .. Len(text)
  PROVE  \/ \E q \in n + 1 .. Len(text) : Taken(Item(Suffix(n)), n, q)
         \/ /\ ~Item(Suffix(n)).ok
            /\ \/ n = Len(text)
               \/ text[n + 1] \notin TextBunch
               \/ ~\E q \in n + 1 .. Len(text) : Proper(n + 1, q)
<1> DEFINE p == n + 1
           L == Len(text)
           good(set, k) == [ok |-> TRUE, set |-> set, length |-> k]
           bad == [ok |-> FALSE, set |-> {}, length |-> 0]
           range(start, skip, end, k) ==
             IF start <= end /\ skip > 0
             THEN good(SetRange(start, skip, end), k) ELSE bad
<1>1. L \in Nat /\ n \in Nat
  BY TextSeq
<1>2. ASSUME NEW q \in p .. L, Proper(p, q) PROVE Items(p, q) /\ Ends(q)
  BY <1>1, <1>2, SpanIs DEF Proper
<1>3. CASE ~(n < L /\ text[p] \in TextBunch)
  <2>1. ~Num(Suffix(n))
    BY <1>3, FrontIs
  <2>2. Item(Suffix(n)) = bad
    BY <2>1 DEF Item
  <2>3. QED BY <1>1, <1>3, <2>2
<1>4. CASE n < L /\ text[p] \in TextBunch
  <2>1. /\ Num(Suffix(n)) /\ Head(Suffix(n)) = text[p]
        /\ Tail(Suffix(n)) = Suffix(p)
    BY <1>4, FrontIs
  <2>2. p \in 0 .. L
    BY <1>1, <1>4
  <2>3. ColonNext(Suffix(p)) <=> p < L /\ text[p + 1] = Colon
    BY <2>2, FrontIs
  <2>4. CASE ~(p < L /\ text[p + 1] = Colon)
    <3>1. Item(Suffix(n)) = good({text[p]}, 1)
      BY <2>1, <2>3, <2>4 DEF Item
    <3>2. Picked(p, p) = {text[p]}
      BY <1>1, <1>4, PickedOne
    <3>3. Items(p, p) /\ Ends(p) /\ Skip(p, p) = 1 /\ text[p] <= text[p]
      <4>1. Items(p, p)
        BY <1>4 DEF Items
      <4>2. Ends(p)
        BY <1>1, <1>4, <2>2, <2>4 DEF Ends
      <4>3. Skip(p, p) = 1
        BY <1>1 DEF Skip
      <4>4. text[p] \in Nat
        BY <1>4, TokenSorts
      <4>5. QED BY <4>1, <4>2, <4>3, <4>4
    <3>4. p \in p .. L /\ p - n = 1
      BY <1>1, <1>4
    <3>5. Taken(Item(Suffix(n)), n, p)
      BY <3>1, <3>2, <3>3, <3>4 DEF Taken
    <3>6. QED BY <3>4, <3>5
  <2>5. CASE p < L /\ text[p + 1] = Colon
    <3>1. ColonNext(Suffix(p)) /\ n + 2 \in 0 .. L /\ p + 1 = n + 2
      BY <1>1, <2>3, <2>5
    <3>2. Drop(Suffix(n), 2) = Suffix(n + 2)
      BY <3>1, FrontIs
    <3>3. Num(Suffix(n + 2)) <=> n + 2 < L /\ text[n + 2 + 1] \in TextBunch
      BY <3>1, FrontIs
    <3>4. CASE ~Num(Suffix(n + 2))
      <4>1. Item(Suffix(n)) = bad
        BY <2>1, <3>1, <3>2, <3>4 DEF Item
      <4>2. ASSUME NEW q \in p .. L, Proper(p, q) PROVE FALSE
        <5>1. Items(p, q) /\ Ends(q)
          BY <1>2, <4>2
        <5>2. q # p
          BY <1>1, <2>5, <5>1 DEF Ends
        <5>3. text[p + 2] \in TextBunch /\ p + 2 = n + 2 + 1 /\ p + 2 <= L
          BY <1>1, <5>1, <5>2 DEF Items
        <5>4. QED BY <1>1, <3>3, <3>4, <5>3
      <4>3. QED BY <4>1, <4>2
    <3>5. CASE Num(Suffix(n + 2))
      <4> DEFINE r == p + 2
      <4>1. r \in p .. L /\ n + 3 \in 0 .. L /\ r = n + 3 /\ n + 2 < L
            /\ text[r] \in TextBunch /\ n + 2 + 1 = r
        BY <1>1, <3>1, <3>3, <3>5
      <4>2. /\ Head(Suffix(n + 2)) = text[r]
            /\ Tail(Suffix(n + 2)) = Suffix(r)
        BY <3>1, <4>1, FrontIs
      <4>3. ColonNext(Suffix(r)) <=> r < L /\ text[r + 1] = Colon
        BY <4>1, FrontIs
      <4>4. CASE ~ColonNext(Suffix(r))
        <5>1. Item(Suffix(n)) = range(text[p], 1, text[r], 3)
          BY <2>1, <3>1, <3>2, <3>5, <4>2, <4>4 DEF Item
        <5>2. Items(p, r) /\ Ends(r)
          BY <1>1, <1>4, <2>5, <4>1, <4>3, <4>4 DEF Items, Ends
        <5>3. /\ Skip(p, r) = 1 /\ text[p] \in Nat /\ text[r] \in Nat
              /\ Picked(p, r) = SetRange(text[p], 1, text[r])
          <6>1. p \in Nat /\ r \in Nat /\ r \in {p + 2, p + 4} /\ r # p + 4
            BY <1>1
          <6>2. QED BY <5>2, <6>1, RangeItem
        <5>4. CASE text[p] <= text[r]
          <6>1. Item(Suffix(n)) = good(Picked(p, r), 3)
            <7>1. range(text[p], 1, text[r], 3)
                  = good(SetRange(text[p], 1, text[r]), 3)
              BY <5>4
            <7>2. QED BY <5>1, <5>3, <7>1
          <6>2. r - n = 3 /\ Skip(p, r) > 0
            BY <1>1, <5>3
          <6>3. Taken(Item(Suffix(n)), n, r)
            BY <5>2, <5>4, <6>1, <6>2 DEF Taken
          <6>4. QED BY <4>1, <6>3
        <5>5. CASE ~(text[p] <= text[r])
          <6>1. Item(Suffix(n)) = bad
            BY <5>1, <5>5
          <6>2. ASSUME NEW q \in p .. L, Proper(p, q) PROVE FALSE
            <7>1. Span(p, r) /\ Span(p, q)
              BY <1>1, <4>1, <5>2, <6>2, SpanIs DEF Proper
            <7>2. q = r
              BY <1>1, <4>1, <7>1, SpanUnique
            <7>3. QED BY <5>5, <6>2, <7>2 DEF Proper
          <6>3. QED BY <6>1, <6>2
        <5>6. QED BY <5>4, <5>5
      <4>5. CASE ColonNext(Suffix(r))
        <5>1. r < L /\ text[r + 1] = Colon /\ n + 2 + 2 <= L /\ n + 4 \in 0 .. L
          BY <1>1, <4>1, <4>3, <4>5
        <5>2. Drop(Suffix(n + 2), 2) = Suffix(n + 4)
          <6>1. n + 2 + 2 = n + 4
            BY <1>1
          <6>2. QED BY <3>1, <5>1, <6>1, FrontIs
        <5>3. /\ Num(Suffix(n + 4)) <=> n + 4 < L /\ text[n + 4 + 1] \in TextBunch
              /\ n + 4 < L => Suffix(n + 4)[1] = text[n + 4 + 1]
          BY <5>1, FrontIs
        <5>4. CASE ~Num(Suffix(n + 4))
          <6>1. Item(Suffix(n)) = bad
            BY <2>1, <3>1, <3>2, <3>5, <4>2, <4>5, <5>2, <5>4 DEF Item
          <6>2. ASSUME NEW q \in p .. L, Proper(p, q) PROVE FALSE
            <7>1. Items(p, q) /\ Ends(q)
              BY <1>2, <6>2
            <7>2. q # p
              BY <1>1, <2>5, <7>1 DEF Ends
            <7>3. q # r
              BY <1>1, <5>1, <7>1 DEF Ends
            <7>4. text[p + 4] \in TextBunch /\ p + 4 = n + 4 + 1 /\ p + 4 <= L
              BY <1>1, <7>1, <7>2, <7>3 DEF Items
            <7>5. QED BY <1>1, <5>3, <5>4, <7>4
          <6>3. QED BY <6>1, <6>2
        <5>5. CASE Num(Suffix(n + 4))
          <6> DEFINE t == p + 4
          <6>1. /\ t \in p .. L /\ t = n + 5 /\ t - n = 5 /\ n + 4 + 1 = t
                /\ text[t] \in TextBunch /\ Suffix(n + 4)[1] = text[t]
            BY <1>1, <5>1, <5>3, <5>5
          <6>2. Item(Suffix(n)) = range(text[p], text[r], text[t], 5)
            BY <2>1, <3>1, <3>2, <3>5, <4>2, <4>5, <5>2, <5>5, <6>1 DEF Item
          <6>3. Items(p, t)
            <7>1. p + 3 = r + 1
              BY <1>1
            <7>2. QED BY <1>1, <1>4, <2>5, <4>1, <5>1, <6>1, <7>1 DEF Items
          <6>4. /\ Skip(p, t) = text[r] /\ Skip(p, t) \in Nat
                /\ text[p] \in Nat /\ text[t] \in Nat
                /\ text[r] > 0 => Picked(p, t) = SetRange(text[p], text[r], text[t])
            <7>1. p \in Nat /\ t \in Nat /\ t \in {p + 2, p + 4}
              BY <1>1
            <7>2. QED BY <6>3, <7>1, RangeItem
          <6>5. CASE text[p] <= text[t] /\ text[r] > 0
            <7>1. Item(Suffix(n)) = good(Picked(p, t), 5)
              BY <6>2, <6>4, <6>5
            <7>2. Taken(Item(Suffix(n)), n, t)
              BY <6>1, <6>3, <6>4, <6>5, <7>1 DEF Taken
            <7>3. QED BY <6>1, <7>2
          <6>6. CASE ~(text[p] <= text[t] /\ text[r] > 0)
            <7>1. Item(Suffix(n)) = bad
              BY <6>2, <6>6
            <7>2. ASSUME NEW q \in p .. L, Proper(p, q) PROVE FALSE
              <8>1. Items(p, q) /\ Ends(q)
                BY <1>2, <7>2
              <8>2. q # p
                BY <1>1, <2>5, <8>1 DEF Ends
              <8>3. q # r
                BY <1>1, <5>1, <8>1 DEF Ends
              <8>4. q = t
                BY <8>1, <8>2, <8>3 DEF Items
              <8>5. QED BY <6>4, <6>6, <7>2, <8>4 DEF Proper
            <7>3. QED BY <7>1, <7>2
          <6>7. QED BY <6>5, <6>6
        <5>6. QED BY <5>4, <5>5
      <4>6. QED BY <4>4, <4>5
    <3>6. QED BY <3>4, <3>5
  <2>6. QED BY <2>4, <2>5
<1>5. QED BY <1>3, <1>4

-----------------------------------------------------------------------------
(***************************************************************************)
(* The invariant.  The first n tokens have been taken; a colon that        *)
(* follows them is an error that nothing can put right.                    *)
(***************************************************************************)
ListInv ==
  result = "parsing" =>
    /\ selection = TextBunch /\ parsed \subseteq TextBunch
    /\ \E n \in 0 .. Len(text) :
         /\ rest = Suffix(n)
         /\ n = Len(text) => n = 0
         /\ n > 0 /\ text[n + 1] = Colon => ~WellFormed
         /\ ~(n > 0 /\ text[n + 1] = Colon) =>
              /\ ListTo(n) /\ parsed = ChosenBy(n)
              /\ n > 0 => text[n] # Colon

SummaryInv == result = "summed" => summary = Complexity

TextInv ==
  TextTypeOK /\ text \in Texts /\ ListInv /\ SummaryInv /\ SelectionExact

LEMMA TextInitInv == TextInit => TextInv
<1> SUFFICES ASSUME TextInit PROVE TextInv
  OBVIOUS
<1>1. 0 \in TextBunch
  BY TokenSorts
<1>2. <<>> \in Texts
  <2>1. <<>> \in [1 .. 0 -> Token] /\ 0 \in 0 .. MaxTokens
    BY TextAssumption
  <2>2. QED BY <2>1 DEF Texts
<1>3. text \in Texts /\ rest = text /\ selection = TextBunch /\ parsed = {}
      /\ summary = NoSummary /\ result \in {"summing", "parsing"}
  BY <1>2 DEF TextInit
<1>4. Len(text) \in Nat
  BY <1>3, TextSeq
<1>5. TextTypeOK
  <2>1. wf \in [TextBunch -> TextValues] /\ enables \in (SUBSET TextBunch) \cup {None}
    BY TextAssumption DEF TextInit
  <2>2. summary.kind \in Kinds /\ summary.at \in TextBunch
    BY <1>1, <1>3 DEF NoSummary, Kinds
  <2>3. QED BY <1>3, <1>4, <2>1, <2>2 DEF TextTypeOK
<1>6. rest = Suffix(0) /\ ListTo(0) /\ ChosenBy(0) = {}
  <2>1. text \in Seq(Token)
    BY <1>3, TextSeq
  <2>2. Suffix(0) = text
    BY <2>1, SubSeqFull DEF Suffix
  <2>3. QED BY <1>3, <2>2 DEF ListTo, ChosenBy
<1>7. ListInv
  BY <1>3, <1>4, <1>6 DEF ListInv
<1>8. QED BY <1>3, <1>5, <1>7 DEF TextInv, SummaryInv, SelectionExact

\* The text does not change, nor what is said of it.
LEMMA TextSame ==
  ASSUME text' = text
  PROVE  /\ WellFormed' = WellFormed /\ Meant' = Meant
         /\ \A n : Suffix(n)' = Suffix(n) /\ ListTo(n)' = ListTo(n)
                   /\ ChosenBy(n)' = ChosenBy(n)
BY DEF WellFormed, Meant, Suffix, ListTo, ChosenBy, Start, Span, Skip, Proper,
       Picked

LEMMA RejectRight ==
  ASSUME TextInv, Reject, UNCHANGED <<wf, enables, summary, text>>,
         result = "parsing", ~WellFormed, text # <<Colon>>
  PROVE  TextInv'
<1>1. selection' = TextBunch /\ result' = "error" /\ ~WellFormed' /\ text' # <<Colon>>
  BY TextSame DEF TextInv, ListInv, Reject
<1>2. SelectionExact'
  BY <1>1 DEF SelectionExact
<1>3. TextTypeOK'
  BY <1>1 DEF TextInv, TextTypeOK, Reject
<1>4. QED BY <1>1, <1>2, <1>3 DEF TextInv, ListInv, SummaryInv

LEMMA AcceptRight ==
  ASSUME TextInv, NEW set \in SUBSET TextBunch, Accept(set),
         UNCHANGED <<wf, enables, summary, text>>,
         \/ WellFormed /\ set = Meant
         \/ ~WellFormed /\ text = <<Colon>> /\ set = TextBunch
  PROVE  TextInv'
<1>1. selection' = set /\ result' = "ok" /\ parsed' = set /\ rest' = <<>>
  BY DEF Accept
<1>2. SelectionExact'
  BY <1>1, TextSame DEF SelectionExact
<1>3. Len(<<>>) <= Len(text)
  BY TextSeq DEF TextInv
<1>4. TextTypeOK'
  BY <1>1, <1>3 DEF TextInv, TextTypeOK
<1>5. QED BY <1>1, <1>2, <1>4 DEF TextInv, ListInv, SummaryInv

LEMMA ParseStep ==
  ASSUME TextInv, Parse
  PROVE  TextInv'
<1>1. /\ text \in Texts /\ result = "parsing"
      /\ selection = TextBunch /\ parsed \subseteq TextBunch
      /\ UNCHANGED <<wf, enables, summary, text>>
  BY DEF TextInv, ListInv, Parse
<1>2. PICK n \in 0 .. Len(text) :
        /\ rest = Suffix(n)
        /\ n = Len(text) => n = 0
        /\ n > 0 /\ text[n + 1] = Colon => ~WellFormed
        /\ ~(n > 0 /\ text[n + 1] = Colon) =>
             /\ ListTo(n) /\ parsed = ChosenBy(n)
             /\ n > 0 => text[n] # Colon
  BY <1>1 DEF TextInv, ListInv
<1>3. Len(text) \in Nat /\ text \in Seq(Token) /\ Suffix(0) = text
  BY <1>1, TextSeq, SubSeqFull DEF Suffix
<1>4. CASE rest = text /\ ColonNext(text)
  <2>1. 0 \in 0 .. Len(text)
    BY <1>3
  <2>2. 0 < Len(text) /\ text[1] = Colon
    <3>1. ColonNext(Suffix(0)) <=> 0 < Len(text) /\ text[0 + 1] = Colon
      BY <1>1, <2>1, FrontIs
    <3>2. 0 + 1 = 1
      OBVIOUS
    <3>3. QED BY <1>3, <1>4, <3>1, <3>2
  <2>3. ~WellFormed
    BY <2>2 DEF WellFormed
  <2>4. CASE Len(text) = 1
    <3>1. text = <<Colon>>
      <4>1. <<Colon>> \in Seq(Token) /\ Len(<<Colon>>) = 1 /\ <<Colon>>[1] = Colon
        BY DEF Token
      <4>2. \A i \in 1 .. Len(text) : text[i] = <<Colon>>[i]
        BY <2>2, <2>4, <4>1
      <4>3. QED BY ONLY <1>3, <2>4, <4>1, <4>2, SeqEqual
    <3>2. Accept(TextBunch)
      BY <1>4, <2>4 DEF Parse
    <3>3. QED BY <1>1, <2>3, <3>1, <3>2, AcceptRight
  <2>5. CASE Len(text) # 1
    <3>1. Reject
      BY <1>4, <2>5 DEF Parse
    <3>2. text # <<Colon>>
      BY <2>5
    <3>3. QED BY <1>1, <2>3, <3>1, <3>2, RejectRight
  <2>6. QED BY <2>4, <2>5
<1>5. CASE ~(rest = text /\ ColonNext(text))
  <2> DEFINE item == Item(rest)
             left == Drop(rest, item.length)
  <2>1. /\ ~item.ok => Reject
        /\ item.ok /\ left = <<>> => Accept(parsed \cup item.set)
        /\ item.ok /\ left # <<>> =>
             /\ rest' = left /\ parsed' = parsed \cup item.set
             /\ UNCHANGED <<selection, result>>
    BY <1>5 DEF Parse
  <2>2. text # <<Colon>>
    <3> SUFFICES ASSUME text = <<Colon>> PROVE FALSE
      OBVIOUS
    <3>1. Len(text) = 1 /\ ColonNext(text)
      BY DEF ColonNext
    <3>2. n = 0
      BY <1>2, <3>1
    <3>3. QED BY <1>2, <1>3, <1>5, <3>1, <3>2
  <2>3. CASE n > 0 /\ text[n + 1] = Colon
    <3>1. ~item.ok
      <4>1. text[n + 1] \notin TextBunch
        BY <2>3, TokenSorts
      <4>2. ASSUME NEW q, Taken(Item(Suffix(n)), n, q) PROVE FALSE
        BY <4>1, <4>2 DEF Taken, Items
      <4>3. QED BY <1>1, <1>2, <4>2, ItemIs
    <3>2. QED BY <1>1, <1>2, <2>1, <2>2, <2>3, <3>1, RejectRight
  <2>4. CASE ~(n > 0 /\ text[n + 1] = Colon) /\ ~item.ok
    <3>1. ~\E q \in n + 1 .. Len(text) : Taken(Item(Suffix(n)), n, q)
      BY <1>2, <2>4 DEF Taken
    <3>2. \/ n = Len(text)
          \/ text[n + 1] \notin TextBunch
          \/ ~\E q \in n + 1 .. Len(text) : Proper(n + 1, q)
      BY <1>1, <3>1, ItemIs
    <3>3. CASE n = Len(text)
      <4>1. text = <<>>
        BY <1>2, <1>3, <3>3, EmptySeq
      <4>2. ~WellFormed
        BY <4>1 DEF WellFormed
      <4>3. QED BY <1>1, <2>1, <2>2, <2>4, <4>2, RejectRight
    <3>4. CASE n # Len(text)
      <4>1. n + 1 \in 1 .. Len(text) /\ n < Len(text)
        BY <1>3, <3>4
      <4>2. text[n + 1] # Colon
        <5>1. CASE n = 0
          <6>1. ColonNext(Suffix(0)) <=> 0 < Len(text) /\ text[0 + 1] = Colon
            BY <1>1, <5>1, FrontIs
          <6>2. QED BY <1>2, <1>3, <1>5, <4>1, <5>1, <6>1
        <5>2. CASE n > 0
          BY <2>4, <5>2
        <5>3. QED BY <5>1, <5>2
      <4>3. text[n + 1] \in TextBunch => Start(n + 1)
        <5>1. n + 1 = 1 \/ (n > 0 /\ n + 1 - 1 = n)
          BY <1>3
        <5>2. QED BY <1>2, <2>4, <5>1 DEF Start
      <4>4. ~WellFormed
        BY <1>1, <3>2, <3>4, <4>1, <4>2, <4>3, Spoiled
      <4>5. QED BY <1>1, <2>1, <2>2, <2>4, <4>4, RejectRight
    <3>5. QED BY <3>3, <3>4
  <2>5. CASE ~(n > 0 /\ text[n + 1] = Colon) /\ item.ok
    <3>1. PICK q \in n + 1 .. Len(text) : Taken(item, n, q)
      BY <1>1, <1>2, <2>5, ItemIs
    <3>2. /\ item.length = q - n /\ item.set = Picked(n + 1, q)
          /\ Items(n + 1, q) /\ text[n + 1] <= text[q] /\ Skip(n + 1, q) > 0
      BY <3>1 DEF Taken
    <3>3. q \in 1 .. Len(text) /\ n + 1 \in 1 .. Len(text) /\ q \in 0 .. Len(text)
          /\ q > 0
      BY <1>3
    <3>4. left = Suffix(q)
      <4>1. q - n \in Nat /\ n + (q - n) = q /\ n + (q - n) <= Len(text)
        BY <1>3
      <4>2. Drop(Suffix(n), q - n) = Suffix(n + (q - n))
        BY <1>1, <4>1, DropSuffix
      <4>3. QED BY <1>2, <3>2, <4>1, <4>2
    <3>5. left = <<>> <=> q = Len(text)
      BY <1>1, <3>3, <3>4, SuffixIs
    <3>6. item.set \subseteq TextBunch
      BY <3>2 DEF Picked
    <3>7. CASE Ends(q)
      <4>1. Proper(n + 1, q)
        BY <1>1, <3>2, <3>3, <3>7, SpanIs DEF Proper
      <4>2. /\ ListTo(q) /\ text[q] # Colon
            /\ ChosenBy(q) = parsed \cup item.set
        BY <1>1, <1>2, <2>5, <3>2, <4>1, OneMore
      <4>3. CASE q = Len(text)
        <5>1. text # <<>>
          BY <3>3, <4>3
        <5>2. WellFormed /\ Meant = parsed \cup item.set
          BY <1>1, <4>2, <4>3, <5>1, WholeText
        <5>3. parsed \cup item.set \in SUBSET TextBunch
          BY <1>1, <3>6
        <5>4. QED BY <1>1, <2>1, <2>5, <3>5, <4>3, <5>2, <5>3, AcceptRight
      <4>4. CASE q # Len(text)
        <5>1. /\ rest' = Suffix(q) /\ parsed' = ChosenBy(q)
              /\ selection' = TextBunch /\ result' = "parsing" /\ text' = text
          BY <1>1, <2>1, <2>5, <3>4, <3>5, <4>2, <4>4
        <5>2. text[q + 1] # Colon
          BY <3>7, <4>4 DEF Ends
        <5>3. ListInv'
          BY <1>1, <3>3, <3>6, <4>2, <4>4, <5>1, <5>2, TextSame DEF ListInv
        <5>4. TextTypeOK'
          <6>1. Len(rest') <= Len(text)
            BY <1>1, <1>3, <3>3, <5>1, SuffixIs
          <6>2. parsed' \subseteq TextBunch
            BY <5>1 DEF ChosenBy
          <6>3. QED BY <1>1, <5>1, <6>1, <6>2 DEF TextInv, TextTypeOK
        <5>5. QED BY <1>1, <5>1, <5>3, <5>4
                  DEF TextInv, SummaryInv, SelectionExact
      <4>5. QED BY <4>3, <4>4
    <3>8. CASE ~Ends(q)
      <4>1. q < Len(text) /\ text[q + 1] = Colon
        BY <1>3, <3>8 DEF Ends
      <4>2. q = n + 5 /\ q = (n + 1) + 4
        BY <1>3, <3>1, <3>8 DEF Taken
      <4>3. ASSUME NEW r \in n + 1 .. Len(text), Proper(n + 1, r) PROVE FALSE
        <5>1. Items(n + 1, r) /\ Ends(r)
          BY <1>1, <3>3, <4>3, SpanIs DEF Proper
        <5>2. /\ text[n + 2] = Colon /\ text[n + 4] = Colon /\ n + 5 <= Len(text)
              /\ n + 2 = (n + 1) + 1 /\ n + 4 = (n + 1) + 3
              /\ n + 1 < Len(text) /\ n + 3 < Len(text)
          BY <1>3, <3>2, <4>1, <4>2 DEF Items
        <5>3. r = n + 1 \/ r = n + 3 \/ r = n + 5
          BY <1>3, <5>1 DEF Items
        <5>4. r # n + 1
          BY <1>3, <5>1, <5>2 DEF Ends
        <5>5. r # n + 3
          BY <1>3, <5>1, <5>2 DEF Ends
        <5>6. QED BY <3>8, <4>2, <5>1, <5>3, <5>4, <5>5
      <4>4. Start(n + 1)
        <5>1. n + 1 = 1 \/ (n > 0 /\ n + 1 - 1 = n)
          BY <1>3
        <5>2. QED BY <1>2, <2>5, <3>2, <5>1 DEF Start, Items
      <4>5. ~WellFormed
        BY <1>1, <3>3, <4>3, <4>4, Spoiled
      <4>6. /\ rest' = Suffix(q) /\ parsed' = parsed \cup item.set
            /\ selection' = TextBunch /\ result' = "parsing" /\ text' = text
        BY <1>1, <2>1, <2>5, <3>4, <3>5, <4>1
      <4>7. ListInv'
        BY <1>1, <3>3, <3>6, <4>1, <4>5, <4>6, TextSame DEF ListInv
      <4>8. TextTypeOK'
        <5>1. Len(rest') <= Len(text)
          BY <1>1, <1>3, <3>3, <4>6, SuffixIs
        <5>2. parsed' \subseteq TextBunch
          BY <1>1, <3>6, <4>6
        <5>3. QED BY <1>1, <4>6, <5>1, <5>2 DEF TextInv, TextTypeOK
      <4>9. QED BY <1>1, <4>6, <4>7, <4>8
                DEF TextInv, SummaryInv, SelectionExact
    <3>9. QED BY <3>7, <3>8
  <2>6. QED BY <2>3, <2>4, <2>5
<1>6. QED BY <1>4, <1>5

LEMMA TextStep == TextInv /\ [TextNext]_textVars => TextInv'
<1> SUFFICES ASSUME TextInv, [TextNext]_textVars PROVE TextInv'
  OBVIOUS
<1>1. CASE Parse
  BY <1>1, ParseStep
<1>2. CASE UpdateStatus
  <2>1. /\ result' = "summed" /\ summary' = Complexity /\ Complexity' = Complexity
        /\ UNCHANGED <<wf, enables, text, rest, parsed, selection>>
    <3>1. /\ result' = "summed" /\ summary' = Complexity
          /\ UNCHANGED <<wf, enables, text, rest, parsed, selection>>
      BY <1>2 DEF UpdateStatus
    <3>2. Complexity' = Complexity
      BY <3>1 DEF Complexity, Enabled, NextEnabled, Counted, LastOther, OneDiffers,
                  Summary
    <3>3. QED BY <3>1, <3>2
  <2>2. Complexity.kind \in Kinds /\ Complexity.at \in TextBunch
    BY ComplexityTyped DEF TextInv, TextTypeOK
  <2>3. TextTypeOK'
    BY <2>1, <2>2 DEF TextInv, TextTypeOK
  <2>4. QED BY <2>1, <2>3 DEF TextInv, ListInv, SummaryInv, SelectionExact
<1>3. CASE UNCHANGED textVars
  <2>1. UNCHANGED <<wf, enables, summary, text, rest, parsed, selection, result>>
    BY <1>3 DEF textVars
  <2>2. ListInv' /\ SelectionExact'
    BY <2>1, TextSame DEF TextInv, ListInv, SelectionExact
  <2>3. SummaryInv'
    <3>1. Complexity' = Complexity
      BY <2>1 DEF Complexity, Enabled, NextEnabled, Counted, LastOther, OneDiffers,
                  Summary
    <3>2. QED BY <2>1, <3>1 DEF TextInv, SummaryInv
  <2>4. QED BY <2>1, <2>2, <2>3 DEF TextInv, TextTypeOK
<1>4. QED BY <1>1, <1>2, <1>3 DEF TextNext

(***************************************************************************)
(* The types of the summary and of the parser of bunches are kept          *)
(* (update_status_core, parse_bunch_select).                               *)
(***************************************************************************)
THEOREM TextTypeCorrect == TextSpec => []TextTypeOK
<1>1. TextInv => TextTypeOK
  BY DEF TextInv
<1>2. QED BY <1>1, TextInitInv, TextStep, PTL DEF TextSpec

(***************************************************************************)
(* For any waveform and enables the status of a bunch record says what the *)
(* enabled bunches have, and any text is accepted exactly if it is a list  *)
(* of bunches and ranges, and then selects those (assess_complexity,       *)
(* parse_bunch_select).                                                    *)
(***************************************************************************)
THEOREM TextsHold == TextSpec => []TextExact
<1>1. TextInv => TextExact
  <2> SUFFICES ASSUME TextInv PROVE TextExact
    OBVIOUS
  <2>1. ASSUME result = "summed", enables # None PROVE SummaryTrue
    <3>1. wf \in [TextBunch -> TextValues] /\ enables \in SUBSET TextBunch
      BY <2>1 DEF TextInv, TextTypeOK
    <3>2. QED BY <2>1, <3>1, ComplexityTrue DEF TextInv, SummaryInv
  <2>2. QED BY <2>1 DEF TextExact, StatusExact, TextInv
<1>2. QED BY <1>1, TextInitInv, TextStep, PTL DEF TextSpec

(***************************************************************************)
(* Waveforms and the records of a bank.                                    *)
(***************************************************************************)
LEMMA Turned ==
  ASSUME NEW x \in Bunch, NEW y \in Bunch
  PROVE  (x + y) % BankBunches \in Bunch
<1>1. x + y \in Int /\ BankBunches \in Nat \ {0}
  BY BankAssumption DEF Bunch
<1>2. QED BY <1>1 DEF Bunch

LEMMA OffsetTyped ==
  ASSUME NEW S, NEW f \in [Bunch -> S], NEW o \in Bunch
  PROVE  Offset(f, o) \in [Bunch -> S]
BY Turned DEF Offset

\* A waveform turned back is the waveform.
LEMMA OffsetAt ==
  ASSUME NEW f, NEW o \in Bunch, NEW j \in Bunch
  PROVE  /\ (j + BankBunches - o) % BankBunches \in Bunch
         /\ Offset(f, o)[(j + BankBunches - o) % BankBunches] = f[j]
<1> DEFINE n == BankBunches
           k == (j + n - o) % n
<1>1. n \in Nat \ {0} /\ o \in 0 .. n - 1 /\ j \in 0 .. n - 1
  BY BankAssumption DEF Bunch
<1>2. k = IF j < o THEN j + n - o ELSE j - o
  <2>1. CASE j < o
    <3>1. j + n - o \in 0 .. n - 1
      BY <1>1, <2>1
    <3>2. QED BY <1>1, <2>1, <3>1
  <2>2. CASE j >= o
    <3>1. PICK x \in 0 .. n - 1 : x = j - o
      BY <1>1, <2>2
    <3>2. (x + n) % n = x
      BY <1>1
    <3>3. QED BY <1>1, <2>2, <3>1, <3>2
  <2>3. QED BY <1>1, <2>1, <2>2
<1>3. k \in 0 .. n - 1
  BY <1>1, <1>2
<1>4. (k + o) % n = j
  <2>1. CASE j < o
    <3>1. k + o = j + n
      BY <1>1, <1>2, <2>1
    <3>2. (j + n) % n = j
      BY <1>1
    <3>3. QED BY <3>1, <3>2
  <2>2. CASE j >= o
    <3>1. k + o = j
      BY <1>1, <1>2, <2>2
    <3>2. j % n = j
      BY <1>1
    <3>3. QED BY <3>1, <3>2
  <2>3. QED BY <1>1, <2>1, <2>2
<1>5. QED BY <1>3, <1>4 DEF Offset, Bunch

\* The fields of the records of a bank.
SameField(f, s, g, t) == f = g /\ (f = "fir" \/ s = t)

LEMMA FieldTyped ==
  ASSUME NEW rec \in Records, NEW f \in FieldName, NEW s \in Source
  PROVE  Field(rec, f, s) \in Waveform(f)
BY DEF Records, FieldName, Field, Waveform

LEMMA PutTyped ==
  ASSUME NEW rec \in Records, NEW f \in FieldName, NEW s \in Source,
         NEW x \in Waveform(f)
  PROVE  Put(rec, f, s, x) \in Records /\ Put(rec, f, s, x).outwf = rec.outwf
BY DEF Records, FieldName, Put, Waveform

LEMMA FieldAfterPut ==
  ASSUME NEW rec \in Records, NEW f \in FieldName, NEW s \in Source,
         NEW x \in Waveform(f), NEW g \in FieldName, NEW t \in Source
  PROVE  Field(Put(rec, f, s, x), g, t) =
           IF SameField(f, s, g, t) THEN x ELSE Field(rec, g, t)
BY DEF Records, FieldName, Put, Field, Waveform, SameField

LEMMA OutWfTyped ==
  ASSUME NEW rec PROVE OutWf(rec) \in Outputs
BY DEF OutWf, Outputs

LEMMA ShownTyped ==
  ASSUME NEW rec \in Records, NEW x \in Outputs
  PROVE  /\ [rec EXCEPT !.outwf = x] \in Records
         /\ [rec EXCEPT !.outwf = x].outwf = x
         /\ \A f, s : Field([rec EXCEPT !.outwf = x], f, s) = Field(rec, f, s)
BY DEF Records, Field

\* What is computed from the records only depends on some of them.
LEMMA OutWfOf ==
  ASSUME NEW r \in Records, NEW q \in Records,
         \A s \in Source : Field(r, "enable", s) = Field(q, "enable", s)
  PROVE  OutWf(r) = OutWf(q)
BY DEF OutWf, Field

LEMMA MixedOf ==
  ASSUME NEW r \in Records, NEW q \in Records, NEW s \in Source,
         Field(r, "enable", s) = Field(q, "enable", s),
         Field(r, "gain", s) = Field(q, "gain", s)
  PROVE  Mixed(r, s) = Mixed(q, s)
BY DEF Mixed, Field

LEMMA MixedTyped ==
  ASSUME NEW rec \in Records, NEW s \in Source
  PROVE  Mixed(rec, s) \in [gain : Gains, enable : Enables]
<1> DEFINE used == [i \in Bunch |-> IF s = "fir" \/ rec.enable[s][i]
                                   THEN rec.gain[s][i] ELSE 0]
<1>1. used \in [Bunch -> Gain] /\ rec.enable[s] \in [Bunch -> BOOLEAN]
  BY BankAssumption DEF Records, Gains, Enables
<1> HIDE DEF used
<1>2. Offset(used, GainOffset) \in Gains /\ Offset(rec.enable[s], GainOffset) \in Enables
  BY <1>1, OffsetTyped, BankAssumption DEF Gains, Enables
<1>3. Mixed(rec, s) = [gain |-> Offset(used, GainOffset),
                       enable |-> Offset(rec.enable[s], GainOffset)]
  BY DEF Mixed, used
<1>4. QED BY <1>2, <1>3

LEMMA ConfigTyped ==
  ASSUME NEW rec \in Records
  PROVE  ConfigOf(rec) \in Config
<1>1. Offset(rec.fir, FirOffset) \in Firs
  BY OffsetTyped, BankAssumption DEF Records, Firs
<1>2. "fir" \in Source
  BY DEF Source
<1>3. QED BY <1>1, <1>2, MixedTyped DEF ConfigOf, Config

LEMMA EditedTyped ==
  ASSUME NEW f \in FieldName, NEW x \in Waveform(f), NEW b,
         NEW v \in Value(f)
  PROVE  Edited(x, b, v) \in Waveform(f)
BY DEF FieldName, Waveform, Value, Edited, Enables, Gains, Firs

(***************************************************************************)
(* Types.                                                                  *)
(***************************************************************************)
Arg == Enables \cup Gains \cup Firs \cup BOOLEAN \cup Gain \cup Fir \cup Bank
Entry ==
  [how : How, bank : Bank, field : FieldName, source : Source, arg : Arg]
Held == {<<>>} \cup Enables \cup Gains \cup Firs
          \cup [gain : Gains, enable : Enables] \cup Outputs

Legal(steps) ==
  /\ steps \in Seq(Entry) /\ Len(steps) <= 5
  /\ \A i \in 1 .. Len(steps) : EntryOK(steps[i])

\* Which stages go with which records.
StageInv(c) ==
  /\ stage[c] = "idle" <=> work[c] = <<>>
  /\ stage[c] \in {"read", "edit"} => Head(work[c]).how # "given"
  /\ stage[c] = "edit" => Head(work[c]).how = "edited"
  /\ stage[c] \in {"mix", "set"} => Head(work[c]).field # "fir"
  /\ stage[c] \in {"gather", "show"} => Head(work[c]).field = "enable"
  /\ stage[c] # "hw" => word[c] = [axis |-> 0, at |-> 0]
  /\ word[c].axis \in Axes

StageTypes ==
  /\ stage \in [BankClients -> Stage]
  /\ word \in [BankClients -> [axis : {0, 1}, at : 0 .. BankBunches]]
  /\ held \in [BankClients -> Held]
  /\ work \in [BankClients -> Seq(Entry)]
  /\ \A c \in BankClients : Legal(work[c]) /\ HeldOK(c) /\ StageInv(c)

DataTypes ==
  /\ record \in [Bank -> Records] /\ config \in [Bank -> Config]
  /\ bunchSet \in [Bank -> SUBSET Bunch]
  /\ bankHw \in [Axes -> [Bank -> Config]]
  /\ dspLock \in [Axes -> BankClients \cup {Free}]
  /\ port \in [Axes -> [bank : Bank, bunch : Bunch]]
  /\ intended \in [Bank -> Records]
  /\ crossed \in BOOLEAN /\ overtaken \in BOOLEAN /\ ops \in 0 .. BankMaxOps
  /\ banks \in [BankClients -> SUBSET Bank]

Types == StageTypes /\ DataTypes

LEMMA TypesImply ==
  ASSUME Types PROVE BankTypeOK
<1>1. \A c \in BankClients : DOMAIN work[c] = 1 .. Len(work[c])
  BY LenProperties DEF Types, StageTypes
<1>2. QED BY <1>1 DEF Types, StageTypes, DataTypes, BankTypeOK, Legal

\* The first record to write of a client at work.
LEMMA HeadOK ==
  ASSUME Types, NEW c \in BankClients, stage[c] # "idle"
  PROVE  /\ work[c] \in Seq(Entry) /\ work[c] # <<>>
         /\ Head(work[c]) = work[c][1] /\ Len(work[c]) \in Nat \ {0}
         /\ EntryOK(Head(work[c])) /\ Head(work[c]) \in Entry
<1>1. work[c] \in Seq(Entry) /\ work[c] # <<>>
  BY DEF Types, StageTypes, StageInv
<1>2. Len(work[c]) \in Nat \ {0} /\ Head(work[c]) = work[c][1]
  BY <1>1
<1>3. EntryOK(work[c][1])
  BY <1>2 DEF Types, StageTypes, Legal
<1>4. work[c][1] \in Entry
  BY <1>1, <1>2
<1>5. QED BY <1>1, <1>2, <1>3, <1>4

LEMMA EntryTyped ==
  ASSUME NEW w, EntryOK(w), NEW h, NEW b, NEW f, NEW s, NEW a,
         w = [how |-> h, bank |-> b, field |-> f, source |-> s, arg |-> a]
  PROVE  w \in Entry
<1>1. a \in Arg
  BY DEF EntryOK, How, FieldName, Waveform, Value, Arg
<1>2. QED BY <1>1 DEF EntryOK, Entry

LEMMA GivenOK ==
  ASSUME NEW b \in Bank, NEW f \in FieldName, NEW s \in Source,
         NEW x \in Waveform(f)
  PROVE  EntryOK(Given(b, f, s, x)) /\ Given(b, f, s, x) \in Entry
<1>1. EntryOK(Given(b, f, s, x))
  BY DEF EntryOK, Given, How
<1>2. QED BY <1>1, EntryTyped DEF Given

LEMMA CopiedOK ==
  ASSUME NEW b \in Bank, NEW d \in Bank, NEW f \in FieldName, NEW s \in Source
  PROVE  EntryOK(Copied(d, b, f, s)) /\ Copied(d, b, f, s) \in Entry
<1>1. EntryOK(Copied(d, b, f, s))
  BY DEF EntryOK, Copied, How
<1>2. QED BY <1>1, EntryTyped DEF Copied

LEMMA ChangedOK ==
  ASSUME NEW b \in Bank, NEW f \in FieldName, NEW s \in Source,
         NEW v \in Value(f)
  PROVE  EntryOK(Changed(b, f, s, v)) /\ Changed(b, f, s, v) \in Entry
<1>1. EntryOK(Changed(b, f, s, v))
  BY DEF EntryOK, Changed, How
<1>2. QED BY <1>1, EntryTyped DEF Changed

LEMMA OneLegal ==
  ASSUME NEW w \in Entry, EntryOK(w)
  PROVE  Legal(<<w>>)
BY DEF Legal

LEMMA TwoLegal ==
  ASSUME NEW v \in Entry, NEW w \in Entry, EntryOK(v), EntryOK(w)
  PROVE  Legal(<<v, w>>)
BY DEF Legal

LEMMA CopyLegal ==
  ASSUME NEW from \in Bank, NEW to \in Bank
  PROVE  Legal(CopySteps(from, to))
<1> DEFINE C(f, s) == Copied(from, to, f, s)
<1>1. \A f \in FieldName, s \in Source : EntryOK(C(f, s)) /\ C(f, s) \in Entry
  BY CopiedOK
<1> HIDE DEF C
<1>2. /\ {"fir", "nco"} = Source /\ {"enable", "gain", "fir"} = FieldName
  BY DEF Source, FieldName
<1>3. CopySteps(from, to) = <<C("fir", "fir"), C("enable", "fir"),
        C("gain", "fir"), C("enable", "nco"), C("gain", "nco")>>
  BY DEF CopySteps, C
<1>4. QED BY <1>1, <1>2, <1>3 DEF Legal

LEMMA EmptyLegal == Legal(<<>>)
BY DEF Legal

LEMMA OutWfEnableTyped ==
  ASSUME NEW x, NEW s PROVE OutWfEnable(x, s) \in Enables
BY DEF OutWfEnable, Enables

LEMMA ConstTyped ==
  ASSUME NEW S, NEW x \in S PROVE Const(x) \in [Bunch -> S]
BY DEF Const

\* What an operation does to the stages.
LEMMA BeginTypes ==
  ASSUME Types, NEW c \in BankClients, NEW on \in SUBSET Bank, NEW steps,
         Legal(steps), Begin(c, on, steps)
  PROVE  /\ StageTypes'
         /\ crossed' \in BOOLEAN /\ overtaken' \in BOOLEAN
         /\ ops' \in 0 .. BankMaxOps
         /\ banks' \in [BankClients -> SUBSET Bank]
         /\ config' = config /\ bankHw' = bankHw
         /\ port' = port /\ dspLock' = dspLock
<1>1. FirstStage(steps) \in {"idle", "put", "read"}
      /\ (FirstStage(steps) = "idle" <=> steps = <<>>)
      /\ (FirstStage(steps) = "put" => Head(steps).how = "given")
      /\ (FirstStage(steps) = "read" => Head(steps).how # "given")
  BY DEF FirstStage
<1>2. /\ stage' = [stage EXCEPT ![c] = FirstStage(steps)]
      /\ work' = [work EXCEPT ![c] = steps]
      /\ word' = word /\ held' = held
  BY DEF Begin
<1>3. stage[c] = "idle" /\ word[c] = [axis |-> 0, at |-> 0] /\ word[c].axis \in Axes
  BY DEF Begin, Types, StageTypes, StageInv
<1>4. stage' \in [BankClients -> Stage] /\ work' \in [BankClients -> Seq(Entry)]
  BY <1>1, <1>2 DEF Types, StageTypes, Stage, Legal
<1>5. ASSUME NEW d \in BankClients
      PROVE  Legal(work'[d]) /\ HeldOK(d)' /\ StageInv(d)'
  <2>1. CASE d = c
    <3>1. stage'[d] = FirstStage(steps) /\ work'[d] = steps /\ word'[d] = word[c]
      BY <1>2, <2>1 DEF Types, StageTypes
    <3>2. HeldOK(d)'
      BY <1>1, <3>1 DEF HeldOK
    <3>3. StageInv(d)'
      BY <1>1, <1>3, <3>1 DEF StageInv
    <3>4. QED BY <3>1, <3>2, <3>3
  <2>2. CASE d # c
    <3>1. /\ stage'[d] = stage[d] /\ work'[d] = work[d]
          /\ word'[d] = word[d] /\ held'[d] = held[d]
      BY <1>2, <2>2 DEF Types, StageTypes
    <3>2. Legal(work[d]) /\ HeldOK(d) /\ StageInv(d)
      BY DEF Types, StageTypes
    <3>3. QED BY <3>1, <3>2 DEF HeldOK, StageInv
  <2>3. QED BY <2>1, <2>2
<1>6. StageTypes'
  BY <1>2, <1>4, <1>5 DEF Types, StageTypes
<1>7. /\ crossed' \in BOOLEAN /\ overtaken' \in BOOLEAN
      /\ config' = config /\ bankHw' = bankHw
      /\ port' = port /\ dspLock' = dspLock
  BY DEF Begin, Types, DataTypes
<1>8. banks' \in [BankClients -> SUBSET Bank]
  BY DEF Begin, Types, DataTypes
<1>9. ops' \in 0 .. BankMaxOps
  BY BankAssumption DEF Begin, Types, DataTypes
<1>10. QED BY <1>6, <1>7, <1>8, <1>9

LEMMA IntendTyped ==
  ASSUME intended \in [Bank -> Records], NEW b \in Bank, NEW f \in FieldName,
         NEW s \in Source, NEW x \in Waveform(f), Intend(b, f, s, x)
  PROVE  intended' \in [Bank -> Records]
<1> DEFINE rec == Put(intended[b], f, s, x)
<1>1. rec \in Records
  BY PutTyped
<1> HIDE DEF rec
<1>2. [rec EXCEPT !.outwf = OutWf(rec)] \in Records
  BY <1>1, ShownTyped, OutWfTyped
<1>3. intended' = [intended EXCEPT ![b] = [rec EXCEPT !.outwf = OutWf(rec)]]
  BY DEF Intend, rec
<1>4. QED BY <1>2, <1>3

\* Every operation writes a legal list of records.
LEMMA OneTypes ==
  ASSUME Types, NEW c \in BankClients, NEW b \in Bank, NEW f \in FieldName,
         NEW s \in Source, NEW x \in Waveform(f), WriteOne(c, b, f, s, x),
         UNCHANGED <<record, bunchSet>>
  PROVE  Types'
<1>1. Legal(<<Given(b, f, s, x)>>) /\ Begin(c, {b}, <<Given(b, f, s, x)>>)
  BY GivenOK, OneLegal DEF WriteOne
<1>2. {b} \in SUBSET Bank
  OBVIOUS
<1>3. intended' \in [Bank -> Records]
  BY IntendTyped DEF WriteOne, Types, DataTypes
<1> HIDE DEF StageTypes
<1>4. QED BY <1>1, <1>2, <1>3, BeginTypes DEF Types, DataTypes

LEMMA EditTypes ==
  ASSUME Types, NEW c \in BankClients, NEW b \in Bank, NEW f \in FieldName,
         NEW s \in Source, NEW v \in Value(f), EditOne(c, b, f, s, v),
         UNCHANGED <<record, bunchSet>>
  PROVE  Types'
<1>1. Legal(<<Changed(b, f, s, v)>>) /\ Begin(c, {b}, <<Changed(b, f, s, v)>>)
  BY ChangedOK, OneLegal DEF EditOne
<1>2. {b} \in SUBSET Bank
  OBVIOUS
<1>3. record[b] \in Records /\ intended \in [Bank -> Records]
  BY DEF Types, DataTypes
<1>4. Edited(Field(record[b], f, s), b, v) \in Waveform(f)
  BY <1>3, FieldTyped, EditedTyped
<1>5. intended' \in [Bank -> Records]
  BY <1>3, <1>4, IntendTyped DEF EditOne
<1>6. QED BY <1>1, <1>2, <1>5, BeginTypes DEF Types, DataTypes

\* The operations that write one record given, or one edited.
LEMMA WritesOne ==
  ASSUME NEW c, WriteSource(c) \/ WriteFir(c)
  PROVE  \E b \in Bank, f \in FieldName, s \in Source : \E x \in Waveform(f) :
           WriteOne(c, b, f, s, x) /\ (f = "fir" => s = "fir")
<1>1. CASE WriteSource(c)
  <2>1. PICK b \in Bank, s \in Source :
          \/ \E wave \in EnableInput : WriteOne(c, b, "enable", s, wave)
          \/ \E wave \in GainInput : WriteOne(c, b, "gain", s, wave)
    BY <1>1 DEF WriteSource
  <2>2. CASE \E wave \in EnableInput : WriteOne(c, b, "enable", s, wave)
    <3>1. PICK wave \in EnableInput : WriteOne(c, b, "enable", s, wave)
      BY <2>2
    <3>2. wave \in Waveform("enable") /\ "enable" \in FieldName
      BY BankAssumption DEF Waveform, FieldName
    <3>3. QED BY <3>1, <3>2
  <2>3. CASE \E wave \in GainInput : WriteOne(c, b, "gain", s, wave)
    <3>1. PICK wave \in GainInput : WriteOne(c, b, "gain", s, wave)
      BY <2>3
    <3>2. wave \in Waveform("gain") /\ "gain" \in FieldName
      BY BankAssumption DEF Waveform, FieldName
    <3>3. QED BY <3>1, <3>2
  <2>4. QED BY <2>1, <2>2, <2>3
<1>2. CASE WriteFir(c)
  <2>1. PICK b \in Bank, wave \in FirInput :
          WriteOne(c, b, "fir", "fir", [i \in Bunch |-> wave[i] % 4])
    BY <1>2 DEF WriteFir
  <2>2. [i \in Bunch |-> wave[i] % 4] \in Waveform("fir")
    <3>1. ASSUME NEW i \in Bunch PROVE wave[i] % 4 \in Fir
      <4>1. wave[i] \in Nat
        BY BankAssumption
      <4>2. QED BY <4>1 DEF Fir
    <3>2. QED BY <3>1 DEF Waveform, Firs
  <2>3. "fir" \in FieldName /\ "fir" \in Source
    BY DEF FieldName, Source
  <2>4. QED BY <2>1, <2>2, <2>3
<1>3. QED BY <1>1, <1>2

LEMMA EditsOne ==
  ASSUME NEW c, EditSource(c) \/ EditFir(c)
  PROVE  \E b \in Bank, f \in FieldName, s \in Source : \E v \in Value(f) :
           EditOne(c, b, f, s, v) /\ (f = "fir" => s = "fir")
<1>1. /\ TRUE \in Value("enable") /\ 0 \in Value("gain") /\ 3 \in Value("fir")
      /\ "enable" \in FieldName /\ "gain" \in FieldName /\ "fir" \in FieldName
      /\ "fir" \in Source
  BY BankAssumption DEF Value, FieldName, Source, Fir
<1>2. CASE EditSource(c)
  <2>1. PICK b \in Bank, s \in Source :
          EditOne(c, b, "enable", s, TRUE) \/ EditOne(c, b, "gain", s, 0)
    BY <1>2 DEF EditSource
  <2>2. QED BY <1>1, <2>1
<1>3. CASE EditFir(c)
  BY <1>1, <1>3 DEF EditFir
<1>4. QED BY <1>2, <1>3

LEMMA OperateTypes ==
  ASSUME Types, NEW c \in BankClients, Operate(c)
  PROVE  Types'
<1> DEFINE Same2 == UNCHANGED <<record, bunchSet>>
<1>1. CASE (WriteSource(c) \/ WriteFir(c)) /\ Same2
  BY <1>1, WritesOne, OneTypes
<1>2. CASE (EditSource(c) \/ EditFir(c)) /\ Same2
  BY <1>2, EditsOne, EditTypes
<1>3. CASE ResetGains(c) /\ Same2
  <2>1. PICK b \in Bank :
          /\ Begin(c, {b}, <<Given(b, "gain", "fir", Const(1)),
                             Given(b, "gain", "nco", Const(1))>>)
          /\ intended' = [intended EXCEPT ![b].gain = [s \in Source |-> Const(1)]]
    BY <1>3 DEF ResetGains
  <2>2. Const(1) \in Gains
    BY BankAssumption, ConstTyped DEF Gains
  <2>3. Legal(<<Given(b, "gain", "fir", Const(1)), Given(b, "gain", "nco", Const(1))>>)
    <3>1. /\ "gain" \in FieldName /\ "fir" \in Source /\ "nco" \in Source
          /\ Const(1) \in Waveform("gain")
      BY <2>2 DEF FieldName, Source, Waveform
    <3>2. QED BY <3>1, GivenOK, TwoLegal
  <2>4. intended' \in [Bank -> Records]
    BY <2>1, <2>2 DEF Types, DataTypes, Records
  <2>5. {b} \in SUBSET Bank
    OBVIOUS
  <2>6. QED BY <1>3, <2>1, <2>3, <2>4, <2>5, BeginTypes DEF Types, DataTypes
<1>4. CASE CopyBank(c) /\ Same2
  <2>1. PICK from \in Bank, to \in Bank :
          /\ Begin(c, {from, to}, CopySteps(from, to))
          /\ intended' = [intended EXCEPT
               ![to] = [record[from] EXCEPT !.outwf = OutWf(record[from])]]
    BY <1>4 DEF CopyBank
  <2>2. [record[from] EXCEPT !.outwf = OutWf(record[from])] \in Records
    BY ShownTyped, OutWfTyped DEF Types, DataTypes
  <2>3. intended' \in [Bank -> Records]
    BY <2>1, <2>2 DEF Types, DataTypes
  <2>4. {from, to} \in SUBSET Bank /\ Legal(CopySteps(from, to))
    BY CopyLegal
  <2>5. QED BY <1>4, <2>1, <2>3, <2>4, BeginTypes DEF Types, DataTypes
<1>5. CASE WriteOutWf(c) /\ UNCHANGED bunchSet
  <2>1. PICK b \in Bank, wave \in OutInput :
          /\ Begin(c, {b}, OutWfSteps(b, wave))
          /\ record' = [record EXCEPT ![b].outwf = wave]
          /\ intended' = [intended EXCEPT
               ![b].enable = [s \in Source |-> OutWfEnable(wave, s)], ![b].outwf = wave]
    BY <1>5 DEF WriteOutWf
  <2>2. Legal(OutWfSteps(b, wave))
    <3>1. /\ "enable" \in FieldName /\ "fir" \in Source /\ "nco" \in Source
          /\ \A s : OutWfEnable(wave, s) \in Waveform("enable")
      BY OutWfEnableTyped DEF FieldName, Source, Waveform
    <3>2. QED BY <3>1, GivenOK, TwoLegal DEF OutWfSteps
  <2>3. wave \in Outputs /\ [s \in Source |-> OutWfEnable(wave, s)] \in [Source -> Enables]
    BY BankAssumption, OutWfEnableTyped
  <2>4. record' \in [Bank -> Records]
    BY <2>1, <2>3, ShownTyped DEF Types, DataTypes
  <2>5. intended' \in [Bank -> Records]
    <3> DEFINE e == [s \in Source |-> OutWfEnable(wave, s)]
               q == [intended[b] EXCEPT !.enable = e, !.outwf = wave]
    <3>1. intended' = [intended EXCEPT ![b] = q]
      BY <2>1
    <3>2. e \in [Source -> Enables]
      BY <2>3
    <3> HIDE DEF e
    <3>3. q \in Records
      <4>1. PICK r \in Records : r = intended[b]
        BY DEF Types, DataTypes
      <4>2. [r EXCEPT !.enable = e, !.outwf = wave] \in Records
        BY <2>3, <3>2 DEF Records
      <4>3. QED BY <4>1, <4>2
    <3> HIDE DEF q
    <3>4. QED BY <3>1, <3>3 DEF Types, DataTypes
  <2>6. {b} \in SUBSET Bank
    OBVIOUS
  <2>7. QED BY <1>5, <2>1, <2>2, <2>4, <2>5, <2>6, BeginTypes DEF Types, DataTypes
<1>6. CASE SelectBunches(c)
  <2>1. PICK b \in Bank, set \in BunchInput :
          /\ Begin(c, {b}, <<>>)
          /\ bunchSet' = [bunchSet EXCEPT ![b] = set]
          /\ UNCHANGED <<record, intended>>
    BY <1>6 DEF SelectBunches
  <2>2. bunchSet' \in [Bank -> SUBSET Bunch] /\ {b} \in SUBSET Bank
    BY <2>1, BankAssumption DEF Types, DataTypes
  <2>3. QED BY <2>1, <2>2, EmptyLegal, BeginTypes DEF Types, DataTypes
<1>7. QED BY <1>1, <1>2, <1>3, <1>4, <1>5, <1>6 DEF Operate

\* A client moves on with its first record, and the others stay.
LEMMA StepTypes ==
  ASSUME Types, NEW c \in BankClients, NEW g \in Stage, NEW x \in Held,
         NEW z \in [axis : {0, 1}, at : 0 .. BankBunches],
         stage[c] # "idle", g # "idle", UNCHANGED work,
         stage' = [stage EXCEPT ![c] = g], held' = [held EXCEPT ![c] = x],
         word' = [word EXCEPT ![c] = z],
         HeldOK(c)', StageInv(c)'
  PROVE  StageTypes'
<1>1. ASSUME NEW d \in BankClients, d # c
      PROVE  HeldOK(d)' /\ StageInv(d)'
  <2>1. stage'[d] = stage[d] /\ held'[d] = held[d] /\ word'[d] = word[d] /\ work' = work
    BY <1>1 DEF Types, StageTypes
  <2>2. HeldOK(d) /\ StageInv(d)
    BY DEF Types, StageTypes
  <2>3. QED BY <2>1, <2>2 DEF HeldOK, StageInv
<1>2. /\ stage' \in [BankClients -> Stage] /\ held' \in [BankClients -> Held]
      /\ word' \in [BankClients -> [axis : {0, 1}, at : 0 .. BankBunches]]
      /\ work' \in [BankClients -> Seq(Entry)]
      /\ \A d \in BankClients : Legal(work[d])'
  BY DEF Types, StageTypes, Legal
<1>3. QED BY <1>1, <1>2 DEF StageTypes

\* A client goes on to its next record.
LEMMA FinishTypes ==
  ASSUME Types, NEW c \in BankClients, stage[c] # "idle", Finish(c),
         NEW x \in Held, held' = [held EXCEPT ![c] = x],
         word' = [word EXCEPT ![c] = [axis |-> 0, at |-> 0]]
  PROVE  StageTypes'
<1> DEFINE later == Tail(work[c])
           g == FirstStage(later)
<1>1. work[c] \in Seq(Entry) /\ work[c] # <<>> /\ Legal(work[c])
  BY HeadOK DEF Types, StageTypes
<1>2. later \in Seq(Entry) /\ Len(later) = Len(work[c]) - 1
      /\ \A i \in 1 .. Len(later) : later[i] = work[c][i + 1]
  BY <1>1
<1>3. Legal(later)
  BY <1>1, <1>2 DEF Legal
<1>4. /\ g \in {"idle", "put", "read"}
      /\ (g = "idle" <=> later = <<>>)
      /\ (g = "put" => Head(later).how = "given")
      /\ (g = "read" => Head(later).how # "given")
  BY DEF FirstStage
<1>5. stage' = [stage EXCEPT ![c] = g] /\ work' = [work EXCEPT ![c] = later]
  BY DEF Finish
<1> HIDE DEF g, later
<1>6. 0 \in {0, 1} /\ 0 \in 0 .. BankBunches /\ 0 \in Axes
  BY BankAssumption
<1>7. /\ stage' \in [BankClients -> Stage] /\ held' \in [BankClients -> Held]
      /\ word' \in [BankClients -> [axis : {0, 1}, at : 0 .. BankBunches]]
      /\ work' \in [BankClients -> Seq(Entry)]
  BY <1>2, <1>4, <1>5, <1>6 DEF Types, StageTypes, Stage
<1>8. ASSUME NEW d \in BankClients
      PROVE  Legal(work'[d]) /\ HeldOK(d)' /\ StageInv(d)'
  <2>1. CASE d = c
    <3>1. /\ stage'[d] = g /\ work'[d] = later
          /\ word'[d] = [axis |-> 0, at |-> 0]
      BY <1>5, <2>1 DEF Types, StageTypes
    <3>2. HeldOK(d)'
      BY <1>4, <3>1 DEF HeldOK
    <3>3. StageInv(d)'
      BY <1>4, <1>6, <3>1 DEF StageInv
    <3>4. QED BY <1>3, <3>1, <3>2, <3>3
  <2>2. CASE d # c
    <3>1. /\ stage'[d] = stage[d] /\ work'[d] = work[d]
          /\ word'[d] = word[d] /\ held'[d] = held[d]
      BY <1>5, <2>2 DEF Types, StageTypes
    <3>2. Legal(work[d]) /\ HeldOK(d) /\ StageInv(d)
      BY DEF Types, StageTypes
    <3>3. QED BY <3>1, <3>2 DEF HeldOK, StageInv
  <2>3. QED BY <2>1, <2>2
<1>9. QED BY <1>7, <1>8 DEF StageTypes

\* The values in hand.
LEMMA WaveformHeld ==
  ASSUME NEW f \in FieldName, NEW x \in Waveform(f)
  PROVE  x \in Held
BY DEF FieldName, Waveform, Held

LEMMA ReadTypes ==
  ASSUME Types, NEW c \in BankClients, ReadRecord(c)
  PROVE  Types'
<1> DEFINE w == Head(work[c])
           from == IF w.how = "copied" THEN w.arg ELSE w.bank
           x == Field(record[from], w.field, w.source)
           g == IF w.how = "copied" THEN "put" ELSE "edit"
<1>1. EntryOK(w) /\ stage[c] = "read" /\ w.how # "given" /\ work[c] # <<>>
      /\ word[c] = [axis |-> 0, at |-> 0] /\ word[c].axis \in Axes
  BY HeadOK DEF ReadRecord, Types, StageTypes, StageInv
<1>2. w.how \in {"edited", "copied"} /\ w.field \in FieldName
      /\ from \in Bank /\ w.source \in Source
  BY <1>1 DEF EntryOK, How
<1>3. x \in Waveform(w.field)
  BY <1>2, FieldTyped DEF Types, DataTypes
<1>4. /\ held' = [held EXCEPT ![c] = x] /\ stage' = [stage EXCEPT ![c] = g]
      /\ UNCHANGED <<record, bunchSet, config, bankHw, port, dspLock, work, word,
                     banks, intended, crossed, overtaken, ops>>
  BY DEF ReadRecord
<1>5. x \in Held
  BY <1>2, <1>3, WaveformHeld
<1> HIDE DEF x
<1>6. word' = [word EXCEPT ![c] = word[c]]
      /\ word[c] \in [axis : {0, 1}, at : 0 .. BankBunches]
  BY <1>4 DEF Types, StageTypes
<1>7. held'[c] = x /\ stage'[c] = g /\ g \in {"put", "edit"} /\ g \in Stage
      /\ word'[c] = word[c] /\ work'[c] = work[c]
  BY <1>4 DEF Types, StageTypes, Stage
<1>8. HeldOK(c)'
  BY <1>3, <1>7 DEF HeldOK
<1>9. StageInv(c)'
  BY <1>1, <1>2, <1>7 DEF StageInv
<1>10. stage[c] # "idle" /\ g # "idle" /\ UNCHANGED work
  BY <1>1, <1>4
<1> HIDE DEF g
<1>11. StageTypes'
  BY ONLY <1>4, <1>5, <1>6, <1>7, <1>8, <1>9, <1>10, StepTypes, Types, c \in BankClients
<1>12. QED BY <1>4, <1>11 DEF Types, DataTypes

LEMMA EditStepTypes ==
  ASSUME Types, NEW c \in BankClients, EditWaveform(c)
  PROVE  Types'
<1> DEFINE w == Head(work[c])
           x == Edited(held[c], w.bank, w.arg)
<1>1. /\ EntryOK(w) /\ stage[c] = "edit" /\ w.how = "edited" /\ work[c] # <<>>
      /\ word[c] = [axis |-> 0, at |-> 0] /\ word[c].axis \in Axes
      /\ held[c] \in Waveform(w.field)
  BY HeadOK DEF EditWaveform, Types, StageTypes, StageInv, HeldOK
<1>2. w.field \in FieldName /\ w.arg \in Value(w.field)
  BY <1>1 DEF EntryOK
<1>3. x \in Waveform(w.field)
  BY <1>1, <1>2, EditedTyped
<1>4. /\ held' = [held EXCEPT ![c] = x] /\ stage' = [stage EXCEPT ![c] = "put"]
      /\ UNCHANGED <<record, bunchSet, config, bankHw, port, dspLock, work, word,
                     banks, intended, crossed, overtaken, ops>>
  BY DEF EditWaveform
<1>5. x \in Held
  BY <1>2, <1>3, WaveformHeld
<1> HIDE DEF x
<1>6. word' = [word EXCEPT ![c] = word[c]]
      /\ word[c] \in [axis : {0, 1}, at : 0 .. BankBunches]
  BY <1>4 DEF Types, StageTypes
<1>7. held'[c] = x /\ stage'[c] = "put" /\ "put" \in Stage
      /\ word'[c] = word[c] /\ work'[c] = work[c]
  BY <1>4 DEF Types, StageTypes, Stage
<1>8. HeldOK(c)'
  BY <1>3, <1>7 DEF HeldOK
<1>9. StageInv(c)'
  BY <1>1, <1>7 DEF StageInv
<1>10. stage[c] # "idle" /\ "put" # "idle" /\ UNCHANGED work
  BY <1>1, <1>4
<1>11. StageTypes'
  BY ONLY <1>4, <1>5, <1>6, <1>7, <1>8, <1>9, <1>10, StepTypes, Types, c \in BankClients
<1>12. QED BY <1>4, <1>11 DEF Types, DataTypes

\* What PutRecord stores.
Stored(c) == IF Head(work[c]).how = "given" THEN Head(work[c]).arg ELSE held[c]

LEMMA PutStepTypes ==
  ASSUME Types, NEW c \in BankClients, PutRecord(c)
  PROVE  Types' /\ Stored(c) \in Waveform(Head(work[c]).field)
<1> DEFINE w == Head(work[c])
           x == Stored(c)
           g == IF w.field = "fir" THEN "hw" ELSE "mix"
<1>1. /\ EntryOK(w) /\ stage[c] = "put" /\ work[c] # <<>>
      /\ word[c] = [axis |-> 0, at |-> 0] /\ word[c].axis \in Axes
      /\ w.how # "given" => held[c] \in Waveform(w.field)
  BY HeadOK DEF PutRecord, Types, StageTypes, StageInv, HeldOK
<1>2. w.field \in FieldName /\ w.source \in Source /\ w.bank \in Bank
      /\ x \in Waveform(w.field)
  BY <1>1 DEF EntryOK, Stored
<1>3. /\ record' = [record EXCEPT ![w.bank] = Put(record[w.bank], w.field, w.source, x)]
      /\ config' = IF w.field = "fir"
           THEN [config EXCEPT ![w.bank].fir = Offset(x, FirOffset)] ELSE config
      /\ stage' = [stage EXCEPT ![c] = g] /\ held' = [held EXCEPT ![c] = <<>>]
      /\ UNCHANGED <<bunchSet, bankHw, port, dspLock, work, word, banks, intended,
                     crossed, overtaken, ops>>
  BY DEF PutRecord, Stored
<1> HIDE DEF x
<1>4. record' \in [Bank -> Records]
  <2>1. record[w.bank] \in Records
    BY <1>2 DEF Types, DataTypes
  <2>2. Put(record[w.bank], w.field, w.source, x) \in Records
    BY <1>2, <2>1, PutTyped
  <2>3. QED BY <1>3, <2>2 DEF Types, DataTypes
<1>5. config' \in [Bank -> Config]
  <2>1. CASE w.field = "fir"
    <3>1. Offset(x, FirOffset) \in Firs
      BY <1>2, <2>1, OffsetTyped, BankAssumption DEF Waveform, Firs
    <3>2. QED BY <1>2, <1>3, <2>1, <3>1, ZenonT(60) DEF Types, DataTypes, Config
  <2>2. CASE w.field # "fir"
    BY <1>3, <2>2 DEF Types, DataTypes
  <2>3. QED BY <2>1, <2>2
<1>6. word' = [word EXCEPT ![c] = word[c]]
      /\ word[c] \in [axis : {0, 1}, at : 0 .. BankBunches]
  BY <1>3 DEF Types, StageTypes
<1>7. held'[c] = <<>> /\ stage'[c] = g /\ g \in {"hw", "mix"} /\ g \in Stage
      /\ word'[c] = word[c] /\ work'[c] = work[c] /\ <<>> \in Held
  BY <1>3 DEF Types, StageTypes, Stage, Held
<1>8. HeldOK(c)'
  BY <1>7 DEF HeldOK
<1>9. StageInv(c)'
  BY <1>1, <1>7 DEF StageInv
<1>10. stage[c] # "idle" /\ g # "idle" /\ UNCHANGED work
  BY <1>1, <1>3
<1> HIDE DEF g
<1>11. StageTypes'
  BY ONLY <1>3, <1>6, <1>7, <1>8, <1>9, <1>10, StepTypes, Types, c \in BankClients
<1>12. QED BY <1>2, <1>3, <1>4, <1>5, <1>11 DEF Types, DataTypes, x

LEMMA MixTypes ==
  ASSUME Types, NEW c \in BankClients, MixSource(c)
  PROVE  Types'
<1> DEFINE w == Head(work[c])
           x == Mixed(record[w.bank], w.source)
<1>1. /\ EntryOK(w) /\ stage[c] = "mix" /\ work[c] # <<>> /\ w.field # "fir"
      /\ word[c] = [axis |-> 0, at |-> 0] /\ word[c].axis \in Axes
  BY HeadOK DEF MixSource, Types, StageTypes, StageInv
<1>2. x \in [gain : Gains, enable : Enables]
  BY <1>1, MixedTyped DEF EntryOK, Types, DataTypes
<1>3. /\ held' = [held EXCEPT ![c] = x] /\ stage' = [stage EXCEPT ![c] = "set"]
      /\ UNCHANGED <<record, bunchSet, config, bankHw, port, dspLock, work, word,
                     banks, intended, crossed, overtaken, ops>>
  BY DEF MixSource
<1>4. x \in Held
  BY <1>2 DEF Held
<1> HIDE DEF x
<1>5. word' = [word EXCEPT ![c] = word[c]]
      /\ word[c] \in [axis : {0, 1}, at : 0 .. BankBunches]
  BY <1>3 DEF Types, StageTypes
<1>6. held'[c] = x /\ stage'[c] = "set" /\ "set" \in Stage
      /\ word'[c] = word[c] /\ work'[c] = work[c]
  BY <1>3 DEF Types, StageTypes, Stage
<1>7. HeldOK(c)'
  BY <1>2, <1>6 DEF HeldOK
<1>8. StageInv(c)'
  BY <1>1, <1>6 DEF StageInv
<1>9. stage[c] # "idle" /\ "set" # "idle" /\ UNCHANGED work
  BY <1>1, <1>3
<1>10. StageTypes'
  BY ONLY <1>3, <1>4, <1>5, <1>6, <1>7, <1>8, <1>9, StepTypes, Types, c \in BankClients
<1>11. QED BY <1>3, <1>10 DEF Types, DataTypes

LEMMA SetTypes ==
  ASSUME Types, NEW c \in BankClients, SetConfig(c)
  PROVE  Types'
<1> DEFINE w == Head(work[c])
           cfg == [config[w.bank] EXCEPT !.gain[w.source] = held[c].gain,
                     !.enable = IF w.source = "fir" THEN held[c].enable ELSE @]
<1>1. /\ EntryOK(w) /\ stage[c] = "set" /\ work[c] # <<>>
      /\ word[c] = [axis |-> 0, at |-> 0] /\ word[c].axis \in Axes
      /\ held[c] \in [gain : Gains, enable : Enables]
  BY HeadOK DEF SetConfig, Types, StageTypes, StageInv, HeldOK
<1>2. w.bank \in Bank /\ w.source \in Source
  BY <1>1 DEF EntryOK
<1>3. /\ config' = [config EXCEPT ![w.bank] = cfg]
      /\ stage' = [stage EXCEPT ![c] = "hw"] /\ held' = [held EXCEPT ![c] = <<>>]
      /\ UNCHANGED <<record, bunchSet, bankHw, port, dspLock, work, word, banks,
                     intended, crossed, ops>>
      /\ overtaken' \in BOOLEAN
  BY DEF SetConfig, Types, DataTypes
<1>4. cfg \in Config
  <2>1. config[w.bank] \in Config /\ held[c].gain \in Gains /\ held[c].enable \in Enables
    BY <1>1, <1>2 DEF Types, DataTypes
  <2>2. QED BY <1>2, <2>1 DEF Config
<1> HIDE DEF cfg
<1>5. config' \in [Bank -> Config]
  BY <1>3, <1>4 DEF Types, DataTypes
<1>6. word' = [word EXCEPT ![c] = word[c]]
      /\ word[c] \in [axis : {0, 1}, at : 0 .. BankBunches]
  BY <1>3 DEF Types, StageTypes
<1>7. held'[c] = <<>> /\ stage'[c] = "hw" /\ "hw" \in Stage
      /\ word'[c] = word[c] /\ work'[c] = work[c] /\ <<>> \in Held
  BY <1>3 DEF Types, StageTypes, Stage, Held
<1>8. HeldOK(c)'
  BY <1>7 DEF HeldOK
<1>9. StageInv(c)'
  BY <1>1, <1>7 DEF StageInv
<1>10. stage[c] # "idle" /\ "hw" # "idle" /\ UNCHANGED work
  BY <1>1, <1>3
<1>11. StageTypes'
  BY ONLY <1>3, <1>6, <1>7, <1>8, <1>9, <1>10, StepTypes, Types, c \in BankClients
<1>12. QED BY <1>3, <1>5, <1>11 DEF Types, DataTypes

LEMMA GatherTypes ==
  ASSUME Types, NEW c \in BankClients, GatherOutWf(c)
  PROVE  Types'
<1> DEFINE x == OutWf(record[Head(work[c]).bank])
<1>1. /\ stage[c] = "gather" /\ work[c] # <<>> /\ Head(work[c]).field = "enable"
      /\ word[c] = [axis |-> 0, at |-> 0] /\ word[c].axis \in Axes
  BY HeadOK DEF GatherOutWf, Types, StageTypes, StageInv
<1>2. x \in Outputs
  BY OutWfTyped
<1>3. /\ held' = [held EXCEPT ![c] = x] /\ stage' = [stage EXCEPT ![c] = "show"]
      /\ UNCHANGED <<record, bunchSet, config, bankHw, port, dspLock, work, word,
                     banks, intended, crossed, overtaken, ops>>
  BY DEF GatherOutWf
<1>4. x \in Held
  BY <1>2 DEF Held
<1> HIDE DEF x
<1>5. word' = [word EXCEPT ![c] = word[c]]
      /\ word[c] \in [axis : {0, 1}, at : 0 .. BankBunches]
  BY <1>3 DEF Types, StageTypes
<1>6. held'[c] = x /\ stage'[c] = "show" /\ "show" \in Stage
      /\ word'[c] = word[c] /\ work'[c] = work[c]
  BY <1>3 DEF Types, StageTypes, Stage
<1>7. HeldOK(c)'
  BY <1>2, <1>6 DEF HeldOK
<1>8. StageInv(c)'
  BY <1>1, <1>6 DEF StageInv
<1>9. stage[c] # "idle" /\ "show" # "idle" /\ UNCHANGED work
  BY <1>1, <1>3
<1>10. StageTypes'
  BY ONLY <1>3, <1>4, <1>5, <1>6, <1>7, <1>8, <1>9, StepTypes, Types, c \in BankClients
<1>11. QED BY <1>3, <1>10 DEF Types, DataTypes

LEMMA ShowTypes ==
  ASSUME Types, NEW c \in BankClients, ShowOutWf(c)
  PROVE  Types'
<1> DEFINE b == Head(work[c]).bank
<1>1. /\ stage[c] = "show" /\ b \in Bank /\ held[c] \in Outputs
      /\ word[c] = [axis |-> 0, at |-> 0]
  BY HeadOK DEF ShowOutWf, Types, StageTypes, StageInv, HeldOK, EntryOK
<1>2. /\ record' = [record EXCEPT ![b].outwf = held[c]]
      /\ held' = [held EXCEPT ![c] = <<>>] /\ Finish(c)
      /\ UNCHANGED <<bunchSet, config, bankHw, port, dspLock, word, banks,
                     intended, crossed, overtaken, ops>>
  BY DEF ShowOutWf
<1>3. record' \in [Bank -> Records]
  BY <1>1, <1>2, ShownTyped DEF Types, DataTypes
<1>4. word' = [word EXCEPT ![c] = [axis |-> 0, at |-> 0]]
  BY <1>1, <1>2 DEF Types, StageTypes
<1>5. StageTypes'
  <2>1. <<>> \in Held /\ stage[c] # "idle"
    BY <1>1 DEF Held
  <2>2. QED BY ONLY <1>2, <1>4, <2>1, FinishTypes, Types, c \in BankClients
<1>6. QED BY <1>2, <1>3, <1>5 DEF Types, DataTypes

\* The stages while the hardware is written.
LEMMA NextWordTypes ==
  ASSUME Types, NEW c \in BankClients, stage[c] = "hw", UNCHANGED held,
         NextWord(c, Head(work[c]), word[c].axis, word[c].at)
  PROVE  StageTypes'
<1> DEFINE axis == word[c].axis
           at == word[c].at
           w == Head(work[c])
<1>1. /\ work[c] # <<>> /\ axis \in Axes /\ axis \in {0, 1} /\ at \in 0 .. BankBunches
      /\ Axes \in {{0}, {0, 1}} /\ BankBunches \in Nat \ {0}
  BY HeadOK, BankAssumption DEF Types, StageTypes, StageInv
<1>2. held' = [held EXCEPT ![c] = held[c]] /\ held[c] \in Held
  BY DEF Types, StageTypes
<1>3. CASE at < BankBunches \/ axis + 1 \in Axes
  <2> DEFINE z == IF at < BankBunches THEN [axis |-> axis, at |-> at + 1]
                  ELSE [axis |-> axis + 1, at |-> 0]
  <2>1. word' = [word EXCEPT ![c] = z] /\ UNCHANGED <<work, stage>>
    BY <1>3 DEF NextWord
  <2>2. z \in [axis : {0, 1}, at : 0 .. BankBunches] /\ z.axis \in Axes
    <3>1. CASE at < BankBunches
      BY <1>1, <3>1
    <3>2. CASE ~(at < BankBunches)
      BY <1>1, <1>3, <3>2
    <3>3. QED BY <3>1, <3>2
  <2> HIDE DEF z
  <2>3. stage' = [stage EXCEPT ![c] = "hw"] /\ "hw" \in Stage
    BY <2>1 DEF Types, StageTypes, Stage
  <2>4. stage'[c] = "hw" /\ work'[c] = work[c] /\ word'[c] = z
    BY <2>1 DEF Types, StageTypes
  <2>5. HeldOK(c)'
    BY <2>4 DEF HeldOK
  <2>6. StageInv(c)'
    BY <1>1, <2>2, <2>4 DEF StageInv
  <2>7. UNCHANGED work /\ stage[c] # "idle" /\ "hw" # "idle"
    BY <2>1
  <2>8. QED BY ONLY <1>2, <2>1, <2>2, <2>3, <2>5, <2>6, <2>7, StepTypes, Types, c \in BankClients
<1>4. CASE ~(at < BankBunches \/ axis + 1 \in Axes) /\ w.field = "enable"
  <2> DEFINE z == [axis |-> 0, at |-> 0]
  <2>1. word' = [word EXCEPT ![c] = z] /\ UNCHANGED work
        /\ stage' = [stage EXCEPT ![c] = "gather"]
    BY <1>4 DEF NextWord
  <2>2. z \in [axis : {0, 1}, at : 0 .. BankBunches] /\ z.axis \in Axes
    BY <1>1
  <2>3. stage'[c] = "gather" /\ work'[c] = work[c] /\ word'[c] = z /\ "gather" \in Stage
    BY <2>1 DEF Types, StageTypes, Stage
  <2>4. HeldOK(c)'
    BY <2>3 DEF HeldOK
  <2>5. StageInv(c)'
    BY <1>1, <1>4, <2>2, <2>3 DEF StageInv
  <2>6. stage[c] # "idle" /\ "gather" # "idle"
    OBVIOUS
  <2> HIDE DEF z
  <2>7. QED BY ONLY <1>2, <2>1, <2>2, <2>3, <2>4, <2>5, <2>6, StepTypes, Types, c \in BankClients
<1>5. CASE ~(at < BankBunches \/ axis + 1 \in Axes) /\ w.field # "enable"
  <2>1. word' = [word EXCEPT ![c] = [axis |-> 0, at |-> 0]] /\ Finish(c)
    BY <1>5 DEF NextWord
  <2>2. stage[c] # "idle"
    OBVIOUS
  <2>3. QED BY ONLY <1>2, <2>1, <2>2, FinishTypes, Types, c \in BankClients
<1>6. QED BY <1>3, <1>4, <1>5

\* A word of the hardware is replaced.
WordSet(cfg, k, v, i) ==
  [gain |-> [s \in Source |-> [cfg.gain[s] EXCEPT ![k] = v.gain[s][i]]],
   enable |-> [cfg.enable EXCEPT ![k] = v.enable[i]],
   fir |-> [cfg.fir EXCEPT ![k] = v.fir[i]]]

LEMMA WordSetTyped ==
  ASSUME NEW cfg \in Config, NEW v \in Config, NEW k \in Bunch, NEW i \in Bunch
  PROVE  WordSet(cfg, k, v, i) \in Config
<1>1. /\ cfg.gain \in [Source -> Gains] /\ v.gain \in [Source -> Gains]
      /\ cfg.enable \in Enables /\ v.enable \in Enables
      /\ cfg.fir \in Firs /\ v.fir \in Firs
  BY DEF Config
<1>2. \A s \in Source : [cfg.gain[s] EXCEPT ![k] = v.gain[s][i]] \in Gains
  BY <1>1 DEF Gains
<1>3. [cfg.enable EXCEPT ![k] = v.enable[i]] \in Enables
      /\ [cfg.fir EXCEPT ![k] = v.fir[i]] \in Firs
  BY <1>1 DEF Enables, Firs
<1>4. QED BY <1>2, <1>3 DEF WordSet, Config

LEMMA WordSetGain ==
  ASSUME NEW cfg \in Config, NEW v, NEW k \in Bunch, NEW i
  PROVE  \A s \in Source, j \in Bunch : WordSet(cfg, k, v, i).gain[s][j] =
           IF j = k THEN v.gain[s][i] ELSE cfg.gain[s][j]
BY DEF Config, WordSet, Gains

LEMMA WordSetEnable ==
  ASSUME NEW cfg \in Config, NEW v, NEW k \in Bunch, NEW i
  PROVE  \A j \in Bunch : WordSet(cfg, k, v, i).enable[j] =
           IF j = k THEN v.enable[i] ELSE cfg.enable[j]
BY DEF Config, WordSet, Enables

LEMMA HwWordIs ==
  ASSUME Types, NEW w, NEW axis \in Axes, NEW at \in 0 .. BankBunches,
         w.bank \in Bank, HwWord(w, axis, at)
  PROVE  /\ at = 0 => /\ bankHw' = bankHw
                      /\ port' = [port EXCEPT ![axis] =
                                   [bank |-> w.bank, bunch |-> 0]]
         /\ at # 0 => /\ bankHw' = [bankHw EXCEPT ![axis] =
                            [bankHw[axis] EXCEPT ![port[axis].bank] =
                               WordSet(bankHw[axis][port[axis].bank],
                                 port[axis].bunch, config[w.bank], at - 1)]]
                      /\ port' = [port EXCEPT ![axis] =
                           [bank |-> port[axis].bank,
                            bunch |-> (port[axis].bunch + 1) % BankBunches]]
         /\ port' \in [Axes -> [bank : Bank, bunch : Bunch]]
         /\ bankHw' \in [Axes -> [Bank -> Config]]
<1>1. CASE at = 0
  <2>1. 0 \in Bunch
    BY BankAssumption DEF Bunch
  <2>2. QED BY <1>1, <2>1 DEF HwWord, Types, DataTypes
<1>2. CASE at # 0
  <2> DEFINE p == port[axis]
             n == WordSet(bankHw[axis][p.bank], p.bunch, config[w.bank], at - 1)
             q == [bank |-> p.bank, bunch |-> (p.bunch + 1) % BankBunches]
  <2>1. /\ p \in [bank : Bank, bunch : Bunch] /\ bankHw[axis][p.bank] \in Config
        /\ config[w.bank] \in Config /\ at - 1 \in Bunch
    BY <1>2, BankAssumption DEF Types, DataTypes, Bunch
  <2>2. (p.bunch + 1) % BankBunches \in Bunch
    BY <2>1, BankAssumption DEF Bunch
  <2>3. port' = [port EXCEPT ![axis] = q] /\ q \in [bank : Bank, bunch : Bunch]
    <3>1. port' = [port EXCEPT ![axis].bunch = (port[axis].bunch + 1) % BankBunches]
      BY <1>2 DEF HwWord
    <3>2. [p EXCEPT !.bunch = (p.bunch + 1) % BankBunches] = q
      BY <2>1
    <3>3. QED BY <2>1, <2>2, <3>1, <3>2
  <2>4. bankHw' = [bankHw EXCEPT ![axis] = [bankHw[axis] EXCEPT ![p.bank] = n]]
    BY <1>2 DEF HwWord, WordSet
  <2>5. n \in Config
    BY <2>1, WordSetTyped
  <2> HIDE DEF n, q
  <2>6. bankHw' \in [Axes -> [Bank -> Config]]
    BY <2>1, <2>4, <2>5 DEF Types, DataTypes
  <2>7. port' \in [Axes -> [bank : Bank, bunch : Bunch]]
    BY <2>3 DEF Types, DataTypes
  <2>8. QED BY <1>2, <2>3, <2>4, <2>6, <2>7 DEF n, q
<1>3. QED BY <1>1, <1>2

LEMMA HwTypes ==
  ASSUME Types, NEW c \in BankClients, WriteHw(c)
  PROVE  Types'
<1> DEFINE w == Head(work[c])
           axis == word[c].axis
           at == word[c].at
<1>1. /\ stage[c] = "hw" /\ w.bank \in Bank /\ axis \in Axes /\ at \in 0 .. BankBunches
  BY HeadOK DEF WriteHw, Types, StageTypes, StageInv, EntryOK
<1>2. /\ HwWord(w, axis, at) /\ NextWord(c, w, axis, at)
      /\ dspLock' = [dspLock EXCEPT ![axis] = IF at = BankBunches THEN Free ELSE c]
      /\ UNCHANGED <<record, bunchSet, config, held, banks, intended, crossed,
                     overtaken, ops>>
  BY DEF WriteHw
<1>3. StageTypes'
  BY <1>1, <1>2, NextWordTypes
<1>4. /\ port' \in [Axes -> [bank : Bank, bunch : Bunch]]
      /\ bankHw' \in [Axes -> [Bank -> Config]]
  BY <1>1, <1>2, HwWordIs
<1>5. dspLock' \in [Axes -> BankClients \cup {Free}]
  BY <1>2 DEF Types, DataTypes
<1>6. QED BY <1>2, <1>3, <1>4, <1>5 DEF Types, DataTypes

LEMMA TypesInit ==
  ASSUME BankInit
  PROVE  Types
<1> DEFINE rec == [enable |-> [s \in Source |-> [i \in Bunch |-> i = 0]],
              gain |-> [s \in Source |-> [i \in Bunch |-> 1]],
              fir |-> [i \in Bunch |-> i % 4],
              outwf |-> [i \in Bunch |-> IF i = 0 THEN Source ELSE {}]]
<1>1. rec \in Records
  <2>1. [i \in Bunch |-> i % 4] \in Firs
    <3>1. ASSUME NEW i \in Bunch PROVE i % 4 \in Fir
      BY BankAssumption DEF Bunch, Fir
    <3>2. QED BY <3>1 DEF Firs
  <2>2. [i \in Bunch |-> 1] \in Gains /\ [i \in Bunch |-> i = 0] \in Enables
    BY BankAssumption DEF Gains, Enables
  <2>3. [i \in Bunch |-> IF i = 0 THEN Source ELSE {}] \in Outputs
    BY DEF Outputs
  <2>4. QED BY <2>1, <2>2, <2>3 DEF Records
<1>2. ConfigOf(rec) \in Config
  BY <1>1, ConfigTyped
<1>3. /\ record = [b \in Bank |-> rec] /\ intended = record
      /\ config = [b \in Bank |-> ConfigOf(rec)]
      /\ bankHw = [a \in Axes |-> config]
      /\ bunchSet = [b \in Bank |-> Bunch]
      /\ port = [a \in Axes |-> [bank |-> 0, bunch |-> 0]]
      /\ dspLock = [a \in Axes |-> Free]
      /\ work = [c \in BankClients |-> <<>>]
      /\ stage = [c \in BankClients |-> "idle"]
      /\ held = [c \in BankClients |-> <<>>]
      /\ word = [c \in BankClients |-> [axis |-> 0, at |-> 0]]
      /\ banks = [c \in BankClients |-> {}]
      /\ crossed = FALSE /\ overtaken = FALSE /\ ops = 0
  BY DEF BankInit
<1> HIDE DEF rec
<1>4. 0 \in Bunch /\ 0 \in Axes /\ 0 \in Bank /\ 0 \in 0 .. BankMaxOps
      /\ 0 \in 0 .. BankBunches
  BY BankAssumption DEF Bunch, Bank
<1>5. DataTypes
  BY <1>1, <1>2, <1>3, <1>4 DEF DataTypes
<1>6. StageTypes
  <2>1. \A c \in BankClients : Legal(work[c])
    BY <1>3, EmptyLegal
  <2>2. \A c \in BankClients : HeldOK(c) /\ StageInv(c)
    BY <1>3, <1>4 DEF HeldOK, StageInv
  <2>3. /\ stage \in [BankClients -> Stage] /\ held \in [BankClients -> Held]
        /\ word \in [BankClients -> [axis : {0, 1}, at : 0 .. BankBunches]]
        /\ work \in [BankClients -> Seq(Entry)]
    BY <1>3, <1>4 DEF Stage, Held
  <2>4. QED BY <2>1, <2>2, <2>3 DEF StageTypes
<1>7. QED BY <1>5, <1>6 DEF Types

LEMMA TypesNext ==
  ASSUME Types, [BankNext]_bankVars
  PROVE  Types'
<1>1. CASE UNCHANGED bankVars
  BY <1>1 DEF bankVars, Types, StageTypes, DataTypes, Legal, HeldOK, StageInv
<1>2. ASSUME NEW c \in BankClients,
             \/ Operate(c) \/ ReadRecord(c) \/ EditWaveform(c)
             \/ PutRecord(c) \/ MixSource(c) \/ SetConfig(c) \/ WriteHw(c)
             \/ GatherOutWf(c) \/ ShowOutWf(c)
      PROVE  Types'
  BY <1>2, OperateTypes, ReadTypes, EditStepTypes, PutStepTypes, MixTypes, SetTypes,
     HwTypes, GatherTypes, ShowTypes
<1>3. QED BY <1>1, <1>2 DEF BankNext

\* Every variable of the bunch banks keeps its type, for any number of clients.
THEOREM BankTypeCorrect == BankSpec => []BankTypeOK
<1>1. BankSpec => []Types
  BY TypesInit, TypesNext, PTL DEF BankSpec
<1>2. Types => BankTypeOK
  BY TypesImply
<1>3. QED BY <1>1, <1>2, PTL

(***************************************************************************)
(* The steps, as seen by the others.                                       *)
(***************************************************************************)
Only(c) == \A d \in BankClients \ {c} :
  /\ stage'[d] = stage[d] /\ word'[d] = word[d]
  /\ work'[d] = work[d] /\ held'[d] = held[d] /\ banks'[d] = banks[d]

\* The waveforms of the records stay.
FieldsKept == \A b \in Bank : \A f, s :
  Field(record'[b], f, s) = Field(record[b], f, s)

Calm(c) ==
  /\ Only(c) /\ stage[c] # "hw" /\ stage'[c] # "hw"
  /\ UNCHANGED <<config, bankHw, port, dspLock>>

\* An operation begins.
LEMMA BeginStep ==
  ASSUME Types, NEW c \in BankClients, NEW on, NEW steps, Begin(c, on, steps)
  PROVE  /\ Calm(c) /\ stage[c] = "idle" /\ stage'[c] = FirstStage(steps)
         /\ stage'[c] \in {"idle", "put", "read"}
         /\ work[c] = <<>> /\ work'[c] = steps /\ banks'[c] = on
         /\ UNCHANGED overtaken
<1>1. /\ work' = [work EXCEPT ![c] = steps]
      /\ stage' = [stage EXCEPT ![c] = FirstStage(steps)]
      /\ banks' = [banks EXCEPT ![c] = on]
      /\ UNCHANGED <<config, bankHw, port, dspLock, held, word, overtaken>>
      /\ work[c] = <<>>
  BY DEF Begin
<1>2. FirstStage(steps) \in {"idle", "put", "read"}
  BY DEF FirstStage
<1>3. stage[c] = "idle"
  BY <1>1 DEF Types, StageTypes, StageInv
<1>4. stage'[c] = FirstStage(steps) /\ work'[c] = steps /\ banks'[c] = on
  BY <1>1 DEF Types, StageTypes, DataTypes
<1>5. Only(c)
  BY <1>1 DEF Only, Types, StageTypes, DataTypes
<1>6. QED BY <1>1, <1>2, <1>3, <1>4, <1>5 DEF Calm

LEMMA OperateStep ==
  ASSUME Types, NEW c \in BankClients, Operate(c)
  PROVE  /\ Calm(c) /\ stage[c] = "idle"
         /\ stage'[c] \in {"idle", "put", "read"}
         /\ FieldsKept /\ UNCHANGED overtaken
<1>1. \E on, steps : Begin(c, on, steps)
  BY DEF Operate, WriteSource, WriteFir, WriteOne, EditSource, EditFir, EditOne,
     ResetGains, CopyBank, WriteOutWf, SelectBunches
<1>2. FieldsKept
  <2>1. CASE UNCHANGED record
    BY <2>1 DEF FieldsKept
  <2>2. CASE WriteOutWf(c)
    <3>1. PICK b \in Bank, wave \in OutInput : record' = [record EXCEPT ![b].outwf = wave]
      BY <2>2 DEF WriteOutWf
    <3>2. wave \in Outputs /\ record \in [Bank -> Records]
      BY BankAssumption DEF Types, DataTypes
    <3>3. QED BY <3>1, <3>2, ShownTyped DEF FieldsKept
  <2>3. QED BY <2>1, <2>2 DEF Operate, SelectBunches
<1>3. QED BY <1>1, <1>2, BeginStep

LEMMA ReadStep ==
  ASSUME Types, NEW c \in BankClients,
         ReadRecord(c) \/ EditWaveform(c) \/ GatherOutWf(c)
  PROVE  /\ Calm(c) /\ UNCHANGED <<record, work, banks, overtaken>>
         /\ stage[c] \in {"read", "edit", "gather"}
         /\ stage'[c] \in {"edit", "put", "show"}
BY DEF ReadRecord, EditWaveform, GatherOutWf, Calm, Only, Types, StageTypes

LEMMA MixStep ==
  ASSUME Types, NEW c \in BankClients, MixSource(c)
  PROVE  /\ Calm(c) /\ UNCHANGED <<record, work, banks, overtaken>>
         /\ stage[c] = "mix" /\ stage'[c] = "set"
         /\ held'[c] = Mixed(record[Head(work[c]).bank], Head(work[c]).source)
BY DEF MixSource, Calm, Only, Types, StageTypes

\* A record is finished.
LEMMA FinishStep ==
  ASSUME Types, NEW c \in BankClients, Finish(c)
  PROVE  /\ stage'[c] \in {"idle", "put", "read"}
         /\ work'[c] = Tail(work[c])
         /\ stage'[c] = FirstStage(Tail(work[c]))
         /\ \A d \in BankClients \ {c} :
              stage'[d] = stage[d] /\ work'[d] = work[d]
<1>1. /\ work' = [work EXCEPT ![c] = Tail(work[c])]
      /\ stage' = [stage EXCEPT ![c] = FirstStage(Tail(work[c]))]
  BY DEF Finish, Types, StageTypes
<1>2. FirstStage(Tail(work[c])) \in {"idle", "put", "read"}
  BY DEF FirstStage
<1>3. QED BY <1>1, <1>2 DEF Types, StageTypes

LEMMA ShowStep ==
  ASSUME Types, NEW c \in BankClients, ShowOutWf(c)
  PROVE  /\ Calm(c) /\ FieldsKept /\ UNCHANGED <<banks, overtaken>>
         /\ stage[c] = "show" /\ stage'[c] \in {"idle", "put", "read"}
         /\ work'[c] = Tail(work[c]) /\ Finish(c)
<1>1. /\ stage[c] = "show" /\ Finish(c)
      /\ record' = [record EXCEPT ![Head(work[c]).bank].outwf = held[c]]
      /\ held' = [held EXCEPT ![c] = <<>>]
      /\ UNCHANGED <<bunchSet, config, bankHw, port, dspLock, word, banks,
                     intended, crossed, overtaken, ops>>
  BY DEF ShowOutWf
<1>2. Head(work[c]).bank \in Bank /\ held[c] \in Outputs /\ record \in [Bank -> Records]
  BY <1>1, HeadOK DEF Types, StageTypes, DataTypes, HeldOK, EntryOK
<1>3. FieldsKept
  BY <1>1, <1>2, ShownTyped DEF FieldsKept
<1>4. Only(c)
  BY <1>1, FinishStep DEF Only, Types, StageTypes
<1>5. QED BY <1>1, <1>3, <1>4, FinishStep DEF Calm

LEMMA PutStep ==
  ASSUME Types, NEW c \in BankClients, PutRecord(c)
  PROVE  LET w == Head(work[c]) IN
         /\ Only(c) /\ UNCHANGED <<work, banks, overtaken, bankHw, port, dspLock>>
         /\ stage[c] = "put" /\ word'[c] = [axis |-> 0, at |-> 0]
         /\ stage'[c] = IF w.field = "fir" THEN "hw" ELSE "mix"
         /\ EntryOK(w) /\ Stored(c) \in Waveform(w.field)
         /\ \A b \in Bank, f \in FieldName, s \in Source :
              Field(record'[b], f, s) =
                IF b = w.bank /\ SameField(w.field, w.source, f, s)
                THEN Stored(c) ELSE Field(record[b], f, s)
         /\ \A b \in Bank : record'[b].outwf = record[b].outwf
         /\ config' = IF w.field = "fir"
              THEN [config EXCEPT ![w.bank].fir = Offset(Stored(c), FirOffset)]
              ELSE config
<1> DEFINE w == Head(work[c])
           x == Stored(c)
<1>1. /\ stage[c] = "put"
      /\ record' = [record EXCEPT ![w.bank] = Put(record[w.bank], w.field, w.source, x)]
      /\ config' = IF w.field = "fir"
           THEN [config EXCEPT ![w.bank].fir = Offset(x, FirOffset)] ELSE config
      /\ stage' = [stage EXCEPT ![c] = IF w.field = "fir" THEN "hw" ELSE "mix"]
      /\ held' = [held EXCEPT ![c] = <<>>]
      /\ UNCHANGED <<bunchSet, bankHw, port, dspLock, work, word, banks, intended,
                     crossed, overtaken, ops>>
  BY DEF PutRecord, Stored
<1>2. EntryOK(w) /\ x \in Waveform(w.field)
  BY <1>1, HeadOK, PutStepTypes
<1>3. /\ w.bank \in Bank /\ w.field \in FieldName /\ w.source \in Source
      /\ record \in [Bank -> Records]
  BY <1>2 DEF EntryOK, Types, DataTypes
<1>4. word'[c] = [axis |-> 0, at |-> 0]
  BY <1>1 DEF Types, StageTypes, StageInv
<1>5. Only(c) /\ stage'[c] = IF w.field = "fir" THEN "hw" ELSE "mix"
  BY <1>1 DEF Only, Types, StageTypes
<1> HIDE DEF w, x
<1>6. ASSUME NEW b \in Bank, NEW f \in FieldName, NEW s \in Source
      PROVE  Field(record'[b], f, s) =
               IF b = w.bank /\ SameField(w.field, w.source, f, s)
               THEN x ELSE Field(record[b], f, s)
  <2>1. CASE b = w.bank
    <3>1. record'[b] = Put(record[b], w.field, w.source, x) /\ record[b] \in Records
      BY <1>1, <1>3, <2>1
    <3>2. QED BY <1>2, <1>3, <2>1, <3>1, FieldAfterPut
  <2>2. CASE b # w.bank
    <3>1. record'[b] = record[b]
      BY <1>1, <1>3, <2>2
    <3>2. QED BY <2>2, <3>1
  <2>3. QED BY <2>1, <2>2
<1>7. ASSUME NEW b \in Bank PROVE record'[b].outwf = record[b].outwf
  BY <1>1, <1>2, <1>3, PutTyped
<1>8. QED BY <1>1, <1>2, <1>4, <1>5, <1>6, <1>7 DEF w, x

LEMMA SetStep ==
  ASSUME Types, NEW c \in BankClients, SetConfig(c)
  PROVE  LET w == Head(work[c]) IN
         /\ Only(c) /\ UNCHANGED <<record, work, banks, bankHw, port, dspLock>>
         /\ stage[c] = "set" /\ word'[c] = [axis |-> 0, at |-> 0]
         /\ stage'[c] = "hw" /\ EntryOK(w)
         /\ \A b \in Bank : b # w.bank => config'[b] = config[b]
         /\ config'[w.bank].fir = config[w.bank].fir
         /\ \A s \in Source : config'[w.bank].gain[s] =
              IF s = w.source THEN held[c].gain ELSE config[w.bank].gain[s]
         /\ config'[w.bank].enable = IF w.source = "fir" THEN held[c].enable
                                     ELSE config[w.bank].enable
         /\ overtaken' = (overtaken \/ ~\E d \in BankClients :
                                  WillSet(d, w.bank, w.source))
<1> DEFINE w == Head(work[c])
           b == w.bank
           cfg == [config[b] EXCEPT !.gain[w.source] = held[c].gain,
                     !.enable = IF w.source = "fir" THEN held[c].enable ELSE @]
<1>1. /\ stage[c] = "set" /\ config' = [config EXCEPT ![b] = cfg]
      /\ overtaken' = (overtaken \/ ~\E d \in BankClients : WillSet(d, w.bank, w.source))
      /\ stage' = [stage EXCEPT ![c] = "hw"] /\ held' = [held EXCEPT ![c] = <<>>]
      /\ UNCHANGED <<record, bunchSet, bankHw, port, dspLock, work, word, banks,
                     intended, crossed, ops>>
  BY DEF SetConfig
<1>2. EntryOK(w) /\ held[c] \in [gain : Gains, enable : Enables]
  BY <1>1, HeadOK DEF Types, StageTypes, HeldOK
<1>3. w.bank \in Bank /\ w.source \in Source /\ config[b] \in Config
      /\ config \in [Bank -> Config]
  BY <1>2 DEF EntryOK, Types, DataTypes
<1>4. /\ cfg.fir = config[b].fir
      /\ \A s \in Source : cfg.gain[s] =
           IF s = w.source THEN held[c].gain ELSE config[b].gain[s]
      /\ cfg.enable = IF w.source = "fir" THEN held[c].enable ELSE config[b].enable
  BY <1>3 DEF Config
<1> HIDE DEF cfg
<1>5. config'[b] = cfg /\ \A d \in Bank : d # b => config'[d] = config[d]
  BY <1>1, <1>3
<1>6. word'[c] = [axis |-> 0, at |-> 0]
  BY <1>1 DEF Types, StageTypes, StageInv
<1>7. Only(c) /\ stage'[c] = "hw"
  BY <1>1 DEF Only, Types, StageTypes
<1>8. QED BY <1>1, <1>2, <1>4, <1>5, <1>6, <1>7

\* A word is written: the next one is for the same axis or for the other, or
\* the client has done with the hardware.
LEMMA HwStep ==
  ASSUME Types, NEW c \in BankClients, WriteHw(c)
  PROVE  LET w == Head(work[c])
             axis == word[c].axis
             at == word[c].at
         IN
         /\ Only(c) /\ UNCHANGED <<record, config, banks, overtaken>>
         /\ stage[c] = "hw" /\ EntryOK(w)
         /\ axis \in Axes /\ at \in 0 .. BankBunches
         /\ dspLock[axis] = IF at = 0 THEN Free ELSE c
         /\ dspLock' = [dspLock EXCEPT ![axis] =
                          IF at = BankBunches THEN Free ELSE c]
         /\ HwWord(w, axis, at)
         /\ at < BankBunches => /\ stage'[c] = "hw" /\ work'[c] = work[c]
                                /\ word'[c] = [axis |-> axis, at |-> at + 1]
         /\ at = BankBunches /\ axis + 1 \in Axes =>
              /\ stage'[c] = "hw" /\ work'[c] = work[c]
              /\ word'[c] = [axis |-> axis + 1, at |-> 0]
         /\ at = BankBunches /\ axis + 1 \notin Axes =>
              /\ stage'[c] \in {"gather", "idle", "put", "read"}
              /\ stage'[c] = "gather" => work'[c] = work[c] /\ w.field = "enable"
              /\ stage'[c] # "gather" => Finish(c) /\ w.field # "enable"
<1> DEFINE w == Head(work[c])
           axis == word[c].axis
           at == word[c].at
<1>1. /\ stage[c] = "hw" /\ HwWord(w, axis, at) /\ NextWord(c, w, axis, at)
      /\ dspLock[axis] = IF at = 0 THEN Free ELSE c
      /\ dspLock' = [dspLock EXCEPT ![axis] = IF at = BankBunches THEN Free ELSE c]
      /\ UNCHANGED <<record, bunchSet, config, held, banks, intended, crossed,
                     overtaken, ops>>
  BY DEF WriteHw
<1>2. EntryOK(w) /\ axis \in Axes /\ at \in 0 .. BankBunches /\ BankBunches \in Nat
  BY <1>1, HeadOK, BankAssumption DEF Types, StageTypes, StageInv
<1>3. CASE at < BankBunches
  <2>1. word' = [word EXCEPT ![c] = [axis |-> axis, at |-> at + 1]]
        /\ UNCHANGED <<work, stage>>
    BY <1>1, <1>3 DEF NextWord
  <2>2. Only(c) /\ word'[c] = [axis |-> axis, at |-> at + 1]
    BY <1>1, <2>1 DEF Only, Types, StageTypes
  <2>3. QED BY <1>1, <1>2, <1>3, <2>1, <2>2
<1>4. CASE at = BankBunches /\ axis + 1 \in Axes
  <2>1. word' = [word EXCEPT ![c] = [axis |-> axis + 1, at |-> 0]]
        /\ UNCHANGED <<work, stage>>
    BY <1>1, <1>2, <1>4 DEF NextWord
  <2>2. Only(c) /\ word'[c] = [axis |-> axis + 1, at |-> 0]
    BY <1>1, <2>1 DEF Only, Types, StageTypes
  <2>3. QED BY <1>1, <1>2, <1>4, <2>1, <2>2
<1>5. CASE at = BankBunches /\ axis + 1 \notin Axes
  <2>1. word' = [word EXCEPT ![c] = [axis |-> 0, at |-> 0]]
        /\ IF w.field = "enable"
           THEN stage' = [stage EXCEPT ![c] = "gather"] /\ UNCHANGED work
           ELSE Finish(c)
    BY <1>1, <1>2, <1>5 DEF NextWord
  <2>2. CASE w.field = "enable"
    <3>1. Only(c) /\ stage'[c] = "gather" /\ work' = work
      BY <1>1, <2>1, <2>2 DEF Only, Types, StageTypes
    <3>2. QED BY <1>1, <1>2, <1>5, <2>2, <3>1
  <2>3. CASE w.field # "enable"
    <3>1. Finish(c) /\ stage'[c] \in {"idle", "put", "read"}
      BY <2>1, <2>3, FinishStep
    <3>2. Only(c)
      BY <1>1, <2>1, <3>1, FinishStep DEF Only, Types, StageTypes
    <3>3. QED BY <1>1, <1>2, <1>5, <2>3, <3>1, <3>2
  <2>4. QED BY <2>2, <2>3
<1>6. QED BY <1>2, <1>3, <1>4, <1>5

LEMMA CalmSteps ==
  ASSUME Types, NEW c \in BankClients,
         \/ Operate(c) \/ ReadRecord(c) \/ EditWaveform(c)
         \/ MixSource(c) \/ GatherOutWf(c) \/ ShowOutWf(c)
         \/ (PutRecord(c) /\ Head(work[c]).field # "fir")
  PROVE  Calm(c)
<1>1. CASE PutRecord(c) /\ Head(work[c]).field # "fir"
  BY <1>1, PutStep DEF Calm
<1>2. QED BY <1>1, OperateStep, ReadStep, MixStep, ShowStep

(***************************************************************************)
(* The lock of an axis, and its port, belong to the client that writes.    *)
(***************************************************************************)
LockInv ==
  /\ \A a \in Axes, c \in BankClients :
       dspLock[a] = c <=>
         stage[c] = "hw" /\ word[c].axis = a /\ word[c].at > 0
  /\ \A c \in BankClients : stage[c] = "hw" /\ word[c].at > 0 =>
       port[word[c].axis] =
         [bank |-> Head(work[c]).bank, bunch |-> word[c].at - 1]

LEMMA LockNext ==
  ASSUME Types, LockInv, [BankNext]_bankVars
  PROVE  LockInv'
<1>1. CASE UNCHANGED bankVars
  BY <1>1 DEF bankVars, LockInv
<1>2. ASSUME NEW c \in BankClients, Calm(c)
      PROVE  LockInv'
  <2>1. \A d \in BankClients : stage'[d] = "hw" <=> stage[d] = "hw"
    BY <1>2 DEF Calm, Only
  <2>2. \A d \in BankClients : stage[d] = "hw" =>
          word'[d] = word[d] /\ work'[d] = work[d]
    BY <1>2 DEF Calm, Only
  <2>3. dspLock' = dspLock /\ port' = port
    BY <1>2 DEF Calm
  <2>4. QED BY <2>1, <2>2, <2>3 DEF LockInv
<1>3. ASSUME NEW c \in BankClients,
             \/ (PutRecord(c) /\ Head(work[c]).field = "fir")
             \/ SetConfig(c)
      PROVE  LockInv'
  <2>1. /\ Only(c) /\ stage[c] # "hw" /\ word'[c].at = 0
        /\ dspLock' = dspLock /\ port' = port
    <3>1. CASE PutRecord(c)
      <4>1. Only(c) /\ stage[c] = "put" /\ word'[c] = [axis |-> 0, at |-> 0]
            /\ dspLock' = dspLock /\ port' = port
        BY <3>1, PutStep
      <4>2. QED BY <4>1
    <3>2. CASE SetConfig(c)
      <4>1. Only(c) /\ stage[c] = "set" /\ word'[c] = [axis |-> 0, at |-> 0]
            /\ dspLock' = dspLock /\ port' = port
        BY <3>2, SetStep
      <4>2. QED BY <4>1
    <3>3. QED BY <1>3, <3>1, <3>2
  <2>2. \A d \in BankClients : d # c =>
          stage'[d] = stage[d] /\ word'[d] = word[d] /\ work'[d] = work[d]
    BY <2>1 DEF Only
  <2>3. QED BY <2>1, <2>2 DEF LockInv
<1>4. ASSUME NEW c \in BankClients, WriteHw(c)
      PROVE  LockInv'
  <2> DEFINE w == Head(work[c])
             axis == word[c].axis
             at == word[c].at
  <2>1. /\ Only(c) /\ stage[c] = "hw" /\ w.bank \in Bank
        /\ axis \in Axes /\ at \in 0 .. BankBunches
        /\ dspLock[axis] = IF at = 0 THEN Free ELSE c
        /\ dspLock' = [dspLock EXCEPT ![axis] =
                         IF at = BankBunches THEN Free ELSE c]
        /\ HwWord(w, axis, at)
    BY <1>4, HwStep DEF EntryOK
  <2>2. /\ at < BankBunches => /\ stage'[c] = "hw" /\ work'[c] = work[c]
                               /\ word'[c] = [axis |-> axis, at |-> at + 1]
        /\ at = BankBunches => stage'[c] # "hw" \/ word'[c].at = 0
    <3>1. at < BankBunches => /\ stage'[c] = "hw" /\ work'[c] = work[c]
                              /\ word'[c] = [axis |-> axis, at |-> at + 1]
      BY <1>4, HwStep
    <3>2. at = BankBunches /\ axis + 1 \in Axes =>
            word'[c] = [axis |-> axis + 1, at |-> 0]
      BY <1>4, HwStep
    <3>3. at = BankBunches /\ axis + 1 \notin Axes =>
            stage'[c] \in {"gather", "idle", "put", "read"}
      BY <1>4, HwStep
    <3>4. QED BY <3>1, <3>2, <3>3
  <2>3. /\ at = 0 => port' = [port EXCEPT ![axis] = [bank |-> w.bank, bunch |-> 0]]
        /\ at # 0 => port' = [port EXCEPT ![axis] =
                        [bank |-> port[axis].bank,
                         bunch |-> (port[axis].bunch + 1) % BankBunches]]
    BY <2>1, HwWordIs
  <2>4. /\ Free \notin BankClients /\ BankBunches \in Nat \ {0}
        /\ port \in [Axes -> [bank : Bank, bunch : Bunch]]
        /\ dspLock \in [Axes -> BankClients \cup {Free}]
    BY BankAssumption DEF Types, DataTypes
  <2>5. \A d \in BankClients \ {c} :
          stage'[d] = stage[d] /\ word'[d] = word[d] /\ work'[d] = work[d]
    BY <2>1 DEF Only
  <2> DEFINE writing(d) == stage[d] = "hw" /\ word[d].at > 0
  <2>6. \A d \in BankClients : word[d].axis \in Axes
    BY DEF Types, StageTypes, StageInv
  <2>7. \A d \in BankClients \ {c} : ~(writing(d) /\ word[d].axis = axis)
    BY <2>1, <2>4 DEF LockInv
  <2>8. ASSUME NEW a \in Axes, NEW d \in BankClients
        PROVE  dspLock'[a] = d <=>
                 stage'[d] = "hw" /\ word'[d].axis = a /\ word'[d].at > 0
    <3>1. dspLock'[a] = IF a = axis THEN IF at = BankBunches THEN Free ELSE c
                        ELSE dspLock[a]
      BY <2>1, <2>4
    <3>2. dspLock[a] = d <=>
            stage[d] = "hw" /\ word[d].axis = a /\ word[d].at > 0
      BY DEF LockInv
    <3>3. CASE d # c
      BY <2>4, <2>5, <2>7, <3>1, <3>2, <3>3
    <3>4. CASE d = c /\ at < BankBunches
      <4>1. at + 1 > 0 /\ at # BankBunches
        BY <2>1, <3>4
      <4>2. stage'[d] = "hw" /\ word'[d].axis = axis /\ word'[d].at > 0
        BY <2>2, <3>4, <4>1
      <4>3. CASE a = axis
        BY <3>1, <3>4, <4>1, <4>2, <4>3
      <4>4. CASE a # axis
        BY <3>1, <3>2, <3>4, <4>2, <4>4
      <4>5. QED BY <4>3, <4>4
    <3>5. CASE d = c /\ at = BankBunches
      <4>1. ~(stage'[d] = "hw" /\ word'[d].at > 0)
        BY <2>2, <3>5
      <4>2. dspLock'[a] # d
        <5>1. CASE a = axis
          BY <2>4, <3>1, <3>5, <5>1
        <5>2. CASE a # axis
          BY <3>1, <3>2, <3>5, <5>2
        <5>3. QED BY <5>1, <5>2
      <4>3. QED BY <4>1, <4>2
    <3>6. QED BY <2>1, <2>4, <3>3, <3>4, <3>5, SMTT(30)
  <2>9. ASSUME NEW d \in BankClients, stage'[d] = "hw", word'[d].at > 0
        PROVE  port'[word'[d].axis] =
                 [bank |-> Head(work'[d]).bank, bunch |-> word'[d].at - 1]
    <3>1. CASE d # c
      <4>1. /\ stage[d] = "hw" /\ word[d].at > 0 /\ word'[d] = word[d]
            /\ work'[d] = work[d] /\ word[d].axis # axis /\ word[d].axis \in Axes
        BY <2>5, <2>6, <2>7, <2>9, <3>1
      <4>2. port[word[d].axis] =
              [bank |-> Head(work[d]).bank, bunch |-> word[d].at - 1]
        BY <4>1 DEF LockInv
      <4>3. port'[word[d].axis] = port[word[d].axis]
        BY <2>1, <2>3, <2>4, <4>1
      <4>4. QED BY <4>1, <4>2, <4>3
    <3>2. CASE d = c
      <4>1. at < BankBunches /\ work'[c] = work[c]
            /\ word'[c] = [axis |-> axis, at |-> at + 1]
        <5>1. stage'[c] = "hw" /\ word'[c].at > 0
          BY <2>9, <3>2
        <5>2. word'[c].at # 0
          BY <5>1
        <5>3. at # BankBunches
          BY <2>2, <5>1, <5>2
        <5>4. at < BankBunches
          <6>1. \A n \in 0 .. BankBunches : n # BankBunches => n < BankBunches
            BY <2>4
          <6>2. QED BY <2>1, <5>3, <6>1
        <5>5. QED BY <2>2, <5>4
      <4>2. CASE at = 0
        <5>1. port'[axis] = [bank |-> w.bank, bunch |-> 0]
          BY <2>1, <2>3, <2>4, <4>2
        <5>2. word'[c].at - 1 = 0 /\ word'[c].axis = axis
          BY <4>1, <4>2
        <5>3. QED BY <3>2, <4>1, <5>1, <5>2
      <4>3. CASE at # 0
        <5>1. port[axis] = [bank |-> w.bank, bunch |-> at - 1]
          BY <2>1, <4>3 DEF LockInv
        <5>2. (at - 1 + 1) % BankBunches = at
          <6>1. at - 1 + 1 = at /\ at \in 0 .. BankBunches - 1
            BY <2>1, <2>4, <4>1
          <6>2. \A n \in Nat \ {0} : \A k \in 0 .. n - 1 : k % n = k
            OBVIOUS
          <6>3. BankBunches \in Nat \ {0}
            BY <2>4
          <6>4. QED BY <6>1, <6>2, <6>3
        <5>3. port'[axis] = [bank |-> w.bank, bunch |-> at]
          BY <2>1, <2>3, <2>4, <4>3, <5>1, <5>2
        <5>4. word'[c].at - 1 = at /\ word'[c].axis = axis
          BY <2>1, <2>4, <4>1
        <5>5. Head(work'[c]).bank = w.bank
          BY <4>1
        <5> HIDE DEF w, axis, at
        <5>6. QED BY <3>2, <5>3, <5>4, <5>5
      <4>4. QED BY <4>2, <4>3
    <3>3. QED BY <3>1, <3>2
  <2>10. QED BY <2>8, <2>9 DEF LockInv
<1>5. QED BY <1>1, <1>2, <1>3, <1>4, CalmSteps DEF BankNext

(***************************************************************************)
(* The configuration of a bank is what its records give, or a client has   *)
(* still to set it.                                                        *)
(***************************************************************************)
SourceFits(b, s) ==
  /\ config[b].gain[s] = Mixed(record[b], s).gain
  /\ s = "fir" => config[b].enable = Mixed(record[b], s).enable

ConfigInv == \A b \in Bank :
  /\ config[b].fir = Offset(Field(record[b], "fir", "fir"), FirOffset)
  /\ ~overtaken => \A s \in Source :
       SourceFits(b, s) \/ \E c \in BankClients : WillSet(c, b, s)

\* What is computed from a source stays if its waveforms do.
LEMMA MixedKept ==
  ASSUME Types, Types', NEW b \in Bank, NEW s \in Source,
         Field(record'[b], "enable", s) = Field(record[b], "enable", s),
         Field(record'[b], "gain", s) = Field(record[b], "gain", s)
  PROVE  Mixed(record'[b], s) = Mixed(record[b], s)
<1>1. record[b] \in Records /\ record'[b] \in Records
  BY DEF Types, DataTypes
<1>2. QED BY <1>1, MixedOf

\* A step that neither changes a waveform nor sets a configuration.
LEMMA ConfigKept ==
  ASSUME Types, Types', ConfigInv, NEW c \in BankClients, Only(c), FieldsKept,
         stage[c] \notin {"mix", "set"}, config' = config, overtaken' = overtaken
  PROVE  ConfigInv'
<1>1. ASSUME NEW b \in Bank, NEW s \in Source
      PROVE  Mixed(record'[b], s) = Mixed(record[b], s)
  BY MixedKept DEF FieldsKept
<1>2. ASSUME NEW b \in Bank, NEW s \in Source, NEW d \in BankClients, WillSet(d, b, s)
      PROVE  WillSet(d, b, s)'
  BY <1>1, <1>2 DEF WillSet, Only
<1>3. ASSUME NEW b \in Bank, NEW s \in Source, SourceFits(b, s)
      PROVE  SourceFits(b, s)'
  BY <1>1, <1>3 DEF SourceFits
<1>4. \A b \in Bank : Field(record'[b], "fir", "fir") = Field(record[b], "fir", "fir")
  BY DEF FieldsKept
<1>5. QED BY <1>2, <1>3, <1>4 DEF ConfigInv

LEMMA ConfigPut ==
  ASSUME Types, Types', ConfigInv, NEW c \in BankClients, PutRecord(c)
  PROVE  ConfigInv'
<1> DEFINE w == Head(work[c])
           x == Stored(c)
<1>1. /\ Only(c) /\ work' = work /\ overtaken' = overtaken /\ stage[c] = "put"
      /\ stage'[c] = IF w.field = "fir" THEN "hw" ELSE "mix"
      /\ EntryOK(w) /\ x \in Waveform(w.field)
      /\ config' = IF w.field = "fir"
              THEN [config EXCEPT ![w.bank].fir = Offset(x, FirOffset)] ELSE config
  BY PutStep
<1>2. \A b \in Bank, f \in FieldName, s \in Source :
        Field(record'[b], f, s) =
          IF b = w.bank /\ SameField(w.field, w.source, f, s) THEN x ELSE Field(record[b], f, s)
  BY PutStep
<1>3. /\ w.bank \in Bank /\ w.field \in FieldName /\ w.source \in Source
      /\ config \in [Bank -> Config] /\ "fir" \in Source
      /\ "fir" \in FieldName /\ "enable" \in FieldName /\ "gain" \in FieldName
  BY <1>1 DEF EntryOK, Types, DataTypes, Source, FieldName
<1> HIDE DEF x
<1>4. ASSUME NEW b \in Bank, NEW s \in Source, ~(b = w.bank /\ w.source = s) \/ w.field = "fir"
      PROVE  Mixed(record'[b], s) = Mixed(record[b], s)
  <2>1. /\ ~(b = w.bank /\ SameField(w.field, w.source, "enable", s))
        /\ ~(b = w.bank /\ SameField(w.field, w.source, "gain", s))
    BY <1>4 DEF SameField
  <2>2. /\ Field(record'[b], "enable", s) = Field(record[b], "enable", s)
        /\ Field(record'[b], "gain", s) = Field(record[b], "gain", s)
    BY <1>2, <1>3, <2>1
  <2>3. QED BY <2>2, MixedKept
<1>5. ASSUME NEW b \in Bank
      PROVE  config'[b].fir = Offset(Field(record'[b], "fir", "fir"), FirOffset)
  <2>1. CASE b = w.bank /\ w.field = "fir"
    <3>1. Field(record'[b], "fir", "fir") = x
      BY <1>2, <1>3, <2>1 DEF SameField
    <3>2. config'[b].fir = Offset(x, FirOffset)
      BY <1>1, <1>3, <2>1 DEF Config
    <3>3. QED BY <3>1, <3>2
  <2>2. CASE ~(b = w.bank /\ w.field = "fir")
    <3>1. Field(record'[b], "fir", "fir") = Field(record[b], "fir", "fir")
      BY <1>2, <1>3, <2>2 DEF SameField
    <3>2. config'[b].fir = config[b].fir
      BY <1>1, <1>3, <2>2
    <3>3. QED BY <3>1, <3>2 DEF ConfigInv
  <2>3. QED BY <2>1, <2>2
<1>6. ASSUME NEW b \in Bank, NEW s \in Source, ~overtaken
      PROVE  SourceFits(b, s)' \/ \E d \in BankClients : WillSet(d, b, s)'
  <2>1. CASE b = w.bank /\ w.source = s /\ w.field # "fir"
    <3>1. WillSet(c, b, s)'
      BY <1>1, <2>1 DEF WillSet
    <3>2. QED BY <3>1
  <2>2. CASE ~(b = w.bank /\ w.source = s) \/ w.field = "fir"
    <3>1. Mixed(record'[b], s) = Mixed(record[b], s)
      BY <1>4, <2>2
    <3>2. config'[b].gain = config[b].gain /\ config'[b].enable = config[b].enable
      BY <1>1, <1>3 DEF Config
    <3>3. CASE SourceFits(b, s)
      BY <3>1, <3>2, <3>3 DEF SourceFits
    <3>4. ASSUME NEW d \in BankClients, WillSet(d, b, s)
          PROVE  WillSet(d, b, s)'
      <4>1. d # c
        BY <1>1, <3>4 DEF WillSet
      <4>2. QED BY <1>1, <3>1, <3>4, <4>1 DEF WillSet, Only
    <3>5. QED BY <1>6, <3>3, <3>4 DEF ConfigInv
  <2>3. QED BY <2>1, <2>2
<1>7. QED BY <1>1, <1>5, <1>6 DEF ConfigInv

LEMMA ConfigMix ==
  ASSUME Types, ConfigInv, NEW c \in BankClients, MixSource(c)
  PROVE  ConfigInv'
<1>1. /\ Only(c) /\ record' = record /\ config' = config /\ overtaken' = overtaken
      /\ work' = work /\ stage'[c] = "set"
      /\ held'[c] = Mixed(record[Head(work[c]).bank], Head(work[c]).source)
  BY MixStep DEF Calm
<1>2. ASSUME NEW b \in Bank, NEW s \in Source, NEW d \in BankClients, WillSet(d, b, s)
      PROVE  WillSet(d, b, s)'
  BY <1>1, <1>2 DEF WillSet, Only
<1>3. ASSUME NEW b \in Bank, NEW s \in Source, SourceFits(b, s)
      PROVE  SourceFits(b, s)'
  BY <1>1, <1>3 DEF SourceFits
<1>4. QED BY <1>1, <1>2, <1>3 DEF ConfigInv

LEMMA ConfigSet ==
  ASSUME Types, ConfigInv, NEW c \in BankClients, SetConfig(c)
  PROVE  ConfigInv'
<1> DEFINE w == Head(work[c])
<1>1. /\ Only(c) /\ record' = record /\ work' = work
      /\ stage[c] = "set" /\ stage'[c] = "hw" /\ EntryOK(w)
      /\ \A b \in Bank : b # w.bank => config'[b] = config[b]
      /\ config'[w.bank].fir = config[w.bank].fir
      /\ \A s \in Source : config'[w.bank].gain[s] =
           IF s = w.source THEN held[c].gain ELSE config[w.bank].gain[s]
      /\ config'[w.bank].enable = IF w.source = "fir" THEN held[c].enable
                                  ELSE config[w.bank].enable
      /\ overtaken' = (overtaken \/ ~\E d \in BankClients :
                               WillSet(d, w.bank, w.source))
  BY SetStep
<1>2. w.bank \in Bank /\ w.source \in Source
  BY <1>1 DEF EntryOK
<1>3. ASSUME NEW b \in Bank, NEW s \in Source, NEW d \in BankClients \ {c}, WillSet(d, b, s)
      PROVE  WillSet(d, b, s)'
  BY <1>1, <1>3 DEF WillSet, Only
<1>4. ASSUME NEW b \in Bank
      PROVE  config'[b].fir = Offset(Field(record'[b], "fir", "fir"), FirOffset)
  <2>1. config'[b].fir = config[b].fir
    BY <1>1
  <2>2. QED BY <1>1, <2>1 DEF ConfigInv
<1>5. ASSUME NEW b \in Bank, NEW s \in Source, ~overtaken'
      PROVE  SourceFits(b, s)' \/ \E d \in BankClients : WillSet(d, b, s)'
  <2>1. ~overtaken /\ \E d \in BankClients : WillSet(d, w.bank, w.source)
    BY <1>1, <1>5
  <2>2. CASE b = w.bank /\ s = w.source
    <3>1. CASE \E d \in BankClients \ {c} : WillSet(d, w.bank, w.source)
      BY <1>3, <2>2, <3>1
    <3>2. CASE WillSet(c, w.bank, w.source)
      <4>1. held[c] = Mixed(record[b], s)
        BY <1>1, <2>2, <3>2 DEF WillSet
      <4>2. QED BY <1>1, <1>2, <2>2, <4>1 DEF SourceFits
    <3>3. QED BY <2>1, <3>1, <3>2
  <2>3. CASE ~(b = w.bank /\ s = w.source)
    <3>1. /\ config'[b].gain[s] = config[b].gain[s]
          /\ s = "fir" => config'[b].enable = config[b].enable
      BY <1>1, <1>2, <2>3
    <3>2. CASE SourceFits(b, s)
      BY <1>1, <3>1, <3>2 DEF SourceFits
    <3>3. ASSUME NEW d \in BankClients, WillSet(d, b, s)
          PROVE  WillSet(d, b, s)'
      <4>1. d # c
        BY <2>3, <3>3 DEF WillSet
      <4>2. QED BY <1>3, <3>3, <4>1
    <3>4. QED BY <2>1, <3>2, <3>3 DEF ConfigInv
  <2>4. QED BY <2>2, <2>3
<1>6. QED BY <1>4, <1>5 DEF ConfigInv

LEMMA ConfigNext ==
  ASSUME Types, Types', ConfigInv, [BankNext]_bankVars
  PROVE  ConfigInv'
<1>1. CASE UNCHANGED bankVars
  BY <1>1 DEF bankVars, ConfigInv, SourceFits, WillSet
<1>2. ASSUME NEW c \in BankClients,
             \/ Operate(c) \/ ReadRecord(c) \/ EditWaveform(c)
             \/ WriteHw(c) \/ GatherOutWf(c) \/ ShowOutWf(c)
      PROVE  ConfigInv'
  <2>1. CASE Operate(c)
    <3>1. Only(c) /\ FieldsKept /\ stage[c] = "idle" /\ config' = config /\ overtaken' = overtaken
      BY <2>1, OperateStep DEF Calm
    <3>2. QED BY <3>1, ConfigKept
  <2>2. CASE ReadRecord(c) \/ EditWaveform(c) \/ GatherOutWf(c)
    <3>1. Only(c) /\ record' = record /\ config' = config /\ overtaken' = overtaken
          /\ stage[c] \in {"read", "edit", "gather"}
      BY <2>2, ReadStep DEF Calm
    <3>2. FieldsKept
      BY <3>1 DEF FieldsKept
    <3>3. QED BY <3>1, <3>2, ConfigKept
  <2>3. CASE ShowOutWf(c)
    <3>1. Only(c) /\ FieldsKept /\ stage[c] = "show" /\ config' = config /\ overtaken' = overtaken
      BY <2>3, ShowStep DEF Calm
    <3>2. QED BY <3>1, ConfigKept
  <2>4. CASE WriteHw(c)
    <3>1. Only(c) /\ record' = record /\ config' = config /\ overtaken' = overtaken
          /\ stage[c] = "hw"
      BY <2>4, HwStep
    <3>2. FieldsKept
      BY <3>1 DEF FieldsKept
    <3>3. QED BY <3>1, <3>2, ConfigKept
  <2>5. QED BY <1>2, <2>1, <2>2, <2>3, <2>4
<1>3. QED BY <1>1, <1>2, ConfigPut, ConfigMix, ConfigSet DEF BankNext

(***************************************************************************)
(* Each word in the hardware is that of the configuration, or a client has *)
(* still to write it.                                                      *)
(***************************************************************************)
Written(a, b, j) ==
  /\ \A s \in Source : bankHw[a][b].gain[s][j] = config[b].gain[s][j]
  /\ bankHw[a][b].enable[j] = config[b].enable[j]
  /\ bankHw[a][b].fir[j] = config[b].fir[j]

WillWrite(c, a, b, j) ==
  /\ stage[c] = "hw" /\ Head(work[c]).bank = b
  /\ word[c].axis < a \/ (word[c].axis = a /\ word[c].at <= j + 1)

HwInv == \A a \in Axes, b \in Bank, j \in Bunch :
  Written(a, b, j) \/ \E c \in BankClients : WillWrite(c, a, b, j)

\* A step that neither sets a configuration nor writes a word.
LEMMA HwCalm ==
  ASSUME HwInv, NEW c \in BankClients, Calm(c)
  PROVE  HwInv'
<1>1. ASSUME NEW a \in Axes, NEW b \in Bank, NEW j \in Bunch, NEW d \in BankClients,
             WillWrite(d, a, b, j)
      PROVE  WillWrite(d, a, b, j)'
  <2>1. d # c
    BY <1>1 DEF WillWrite, Calm
  <2>2. stage'[d] = stage[d] /\ word'[d] = word[d] /\ work'[d] = work[d]
    BY <2>1 DEF Calm, Only
  <2>3. QED BY <1>1, <2>2 DEF WillWrite
<1>2. \A a, b, j : Written(a, b, j) => Written(a, b, j)'
  BY DEF Written, Calm
<1>3. QED BY <1>1, <1>2 DEF HwInv

\* A client that has set a configuration is about to write all of it.
LEMMA HwEnter ==
  ASSUME HwInv, NEW c \in BankClients, Only(c), stage[c] # "hw",
         stage'[c] = "hw", word'[c] = [axis |-> 0, at |-> 0],
         UNCHANGED <<work, bankHw>>,
         \A b \in Bank : b # Head(work[c]).bank => config'[b] = config[b]
  PROVE  HwInv'
<1>1. SUFFICES ASSUME NEW a \in Axes, NEW b \in Bank, NEW j \in Bunch
               PROVE  Written(a, b, j)' \/ \E d \in BankClients : WillWrite(d, a, b, j)'
  BY DEF HwInv
<1>2. CASE b = Head(work[c]).bank
  <2>1. a = 0 \/ a = 1
    BY BankAssumption
  <2>2. 0 < a \/ (0 = a /\ 0 <= j + 1)
    BY <2>1, BankAssumption DEF Bunch
  <2>3. WillWrite(c, a, b, j)'
    BY <1>2, <2>2 DEF WillWrite
  <2>4. QED BY <2>3
<1>3. CASE b # Head(work[c]).bank
  <2>1. CASE Written(a, b, j)
    BY <1>3, <2>1 DEF Written
  <2>2. ASSUME NEW d \in BankClients, WillWrite(d, a, b, j)
        PROVE  WillWrite(d, a, b, j)'
    <3>1. d # c
      BY <2>2 DEF WillWrite
    <3>2. stage'[d] = stage[d] /\ word'[d] = word[d] /\ work'[d] = work[d]
      BY <3>1 DEF Only
    <3>3. QED BY <2>2, <3>2 DEF WillWrite
  <2>3. QED BY <2>1, <2>2 DEF HwInv
<1>4. QED BY <1>2, <1>3

LEMMA HwWrite ==
  ASSUME Types, LockInv, HwInv, NEW c \in BankClients, WriteHw(c)
  PROVE  HwInv'
<1>a. /\ EntryOK(Head(work[c])) /\ word[c].axis \in Axes
      /\ word[c].at \in 0 .. BankBunches
  BY HwStep
<1>b. PICK axis \in Axes : axis = word[c].axis
  BY <1>a
<1>c. PICK at \in 0 .. BankBunches : at = word[c].at
  BY <1>a
<1>d. PICK w : w = Head(work[c])
  OBVIOUS
<1>e. PICK b0 \in Bank : b0 = w.bank
  BY <1>a, <1>d DEF EntryOK
<1>w. /\ axis = word[c].axis /\ at = word[c].at
      /\ w = Head(work[c]) /\ b0 = w.bank
  BY <1>b, <1>c, <1>d, <1>e
<1>1. /\ Only(c) /\ config' = config /\ stage[c] = "hw" /\ w.bank = b0
      /\ HwWord(w, axis, at)
  BY <1>w, HwStep
<1>2. /\ at < BankBunches => /\ stage'[c] = "hw" /\ work'[c] = work[c]
                             /\ word'[c] = [axis |-> axis, at |-> at + 1]
      /\ at = BankBunches /\ axis + 1 \in Axes =>
           /\ stage'[c] = "hw" /\ work'[c] = work[c]
           /\ word'[c] = [axis |-> axis + 1, at |-> 0]
  BY <1>w, HwStep
<1>3. BankBunches \in Nat \ {0} /\ Axes \subseteq {0, 1} /\ (1 \in Axes => 0 \in Axes)
  BY BankAssumption
<1>4. \A d \in BankClients \ {c} :
        stage'[d] = stage[d] /\ word'[d] = word[d] /\ work'[d] = work[d]
  BY <1>1 DEF Only
<1>5. /\ config \in [Bank -> Config] /\ bankHw \in [Axes -> [Bank -> Config]]
  BY DEF Types, DataTypes
\* The word that is written, and the others.
<1>6. /\ at # 0 => \A j \in Bunch : j = at - 1 => Written(axis, b0, j)'
      /\ \A a \in Axes, b \in Bank, j \in Bunch :
           Written(a, b, j) => Written(a, b, j)'
  <2>1. CASE at = 0
    <3>1. bankHw' = bankHw
      BY <1>1, <2>1, HwWordIs
    <3>2. QED BY <1>1, <2>1, <3>1 DEF Written
  <2>2. CASE at # 0
    <3>3. PICK k \in Bunch : k = at - 1
      BY <1>3, <2>2 DEF Bunch
    <3> DEFINE n == WordSet(bankHw[axis][b0], k, config[b0], k)
    <3>1. port[axis] = [bank |-> b0, bunch |-> k]
      <4>1. at > 0
        BY <1>3, <2>2
      <4>2. QED BY <1>1, <1>w, <3>3, <4>1 DEF LockInv
    <3>2. bankHw' = [bankHw EXCEPT ![axis] = [bankHw[axis] EXCEPT ![b0] = n]]
      <4>1. port[axis].bank = b0 /\ port[axis].bunch = k
        BY <3>1
      <4>2. bankHw' = [bankHw EXCEPT ![axis] =
              [bankHw[axis] EXCEPT ![port[axis].bank] =
                 WordSet(bankHw[axis][port[axis].bank],
                   port[axis].bunch, config[w.bank], at - 1)]]
        BY <1>1, <2>2, HwWordIs
      <4>3. QED BY <1>1, <3>3, <4>1, <4>2
    <3>a. PICK cfg \in Config, v \in Config : cfg = bankHw[axis][b0] /\ v = config[b0]
      <4>1. bankHw[axis][b0] \in Config /\ config[b0] \in Config
        BY <1>5
      <4>2. QED BY <4>1
    <3>b. n = WordSet(cfg, k, v, k)
      BY <3>a
    <3> HIDE DEF n
    <3>4. /\ \A s \in Source, j \in Bunch : n.gain[s][j] =
                IF j = k THEN v.gain[s][k] ELSE cfg.gain[s][j]
          /\ \A j \in Bunch : n.enable[j] =
                IF j = k THEN v.enable[k] ELSE cfg.enable[j]
          /\ \A j \in Bunch : n.fir[j] = IF j = k THEN v.fir[k] ELSE cfg.fir[j]
      <4>1. \A s \in Source, j \in Bunch : n.gain[s][j] =
              IF j = k THEN v.gain[s][k] ELSE cfg.gain[s][j]
        BY ONLY <3>b, WordSetGain, k \in Bunch, cfg \in Config, v \in Config
      <4>2. \A j \in Bunch : n.enable[j] =
              IF j = k THEN v.enable[k] ELSE cfg.enable[j]
        BY ONLY <3>b, WordSetEnable, k \in Bunch, cfg \in Config, v \in Config
      <4>3. \A j \in Bunch : n.fir[j] = IF j = k THEN v.fir[k] ELSE cfg.fir[j]
        <5>1. n.fir = [cfg.fir EXCEPT ![k] = v.fir[k]]
          BY <3>b DEF WordSet
        <5>2. cfg.fir \in [Bunch -> Fir]
          BY DEF Config, Firs
        <5>3. QED BY ONLY <5>1, <5>2, k \in Bunch
      <4>4. QED BY <4>1, <4>2, <4>3
    <3>5. bankHw'[axis][b0] = n
      BY <1>1, <1>5, <3>2
    <3>6. \A a \in Axes, b \in Bank : ~(a = axis /\ b = b0) =>
            bankHw'[a][b] = bankHw[a][b]
      BY <1>1, <1>5, <3>2
    <3>7. \A j \in Bunch : j = at - 1 => Written(axis, b0, j)'
      BY <1>1, <3>a, <3>3, <3>4, <3>5 DEF Written
    <3>8. ASSUME NEW a \in Axes, NEW b \in Bank, NEW j \in Bunch, Written(a, b, j)
          PROVE  Written(a, b, j)'
      <4>1. CASE a = axis /\ b = b0
        BY <1>1, <3>a, <3>4, <3>5, <3>8, <4>1 DEF Written
      <4>2. CASE ~(a = axis /\ b = b0)
        BY <1>1, <3>6, <3>8, <4>2 DEF Written
      <4>3. QED BY <4>1, <4>2
    <3>9. QED BY <3>7, <3>8
  <2>3. QED BY <2>1, <2>2
<1>7. ASSUME NEW a \in Axes, NEW b \in Bank, NEW j \in Bunch, WillWrite(c, a, b, j)
      PROVE  Written(a, b, j)' \/ WillWrite(c, a, b, j)'
  <2>1. b = b0 /\ (axis < a \/ (axis = a /\ at <= j + 1)) /\ j \in 0 .. BankBunches - 1
    BY <1>1, <1>w, <1>7 DEF WillWrite, Bunch
  <2>2. CASE at < BankBunches
    <3>1. CASE axis = a /\ at # 0 /\ j = at - 1
      BY <1>6, <2>1, <3>1
    <3>2. CASE ~(axis = a /\ at # 0 /\ j = at - 1)
      <4>1. axis < a \/ (axis = a /\ at + 1 <= j + 1)
        <5>1. \A n \in 0 .. BankBunches, i \in 0 .. BankBunches - 1 :
                n <= i + 1 /\ ~(n # 0 /\ i = n - 1) => n + 1 <= i + 1
          BY <1>3
        <5>2. QED BY <1>1, <2>1, <3>2, <5>1
      <4>2. word'[c].axis = axis /\ word'[c].at = at + 1
            /\ stage'[c] = "hw" /\ Head(work'[c]).bank = b
        BY <1>1, <1>2, <1>w, <2>1, <2>2
      <4>3. QED BY <4>1, <4>2 DEF WillWrite
    <3>3. QED BY <3>1, <3>2
  <2>3. CASE at = BankBunches
    <3>1. CASE axis = a
      <4>1. j = at - 1 /\ at # 0
        BY <1>3, <2>1, <2>3, <3>1
      <4>2. QED BY <1>6, <2>1, <3>1, <4>1
    <3>2. CASE axis < a
      <4>1. axis = 0 /\ a = 1 /\ axis + 1 = a
        BY <1>1, <1>3, <3>2
      <4>2. /\ stage'[c] = "hw" /\ work'[c] = work[c]
            /\ word'[c].axis = a /\ word'[c].at = 0
        BY <1>2, <2>3, <4>1
      <4>3. 0 <= j + 1
        BY <1>3, <2>1
      <4>4. QED BY <1>1, <1>w, <2>1, <4>2, <4>3 DEF WillWrite
    <3>3. QED BY <2>1, <3>1, <3>2
  <2>4. at < BankBunches \/ at = BankBunches
    <3>1. \A n \in 0 .. BankBunches : n < BankBunches \/ n = BankBunches
      BY <1>3
    <3>2. QED BY <1>1, <3>1
  <2>5. QED BY <2>2, <2>3, <2>4
<1>8. ASSUME NEW a, NEW b, NEW j, NEW d \in BankClients \ {c}, WillWrite(d, a, b, j)
      PROVE  WillWrite(d, a, b, j)'
  BY <1>4, <1>8 DEF WillWrite
<1>9. QED BY <1>6, <1>7, <1>8 DEF HwInv

LEMMA HwNext ==
  ASSUME Types, LockInv, HwInv, [BankNext]_bankVars
  PROVE  HwInv'
<1>1. CASE UNCHANGED bankVars
  BY <1>1 DEF bankVars, HwInv, Written, WillWrite
<1>2. ASSUME NEW c \in BankClients, PutRecord(c), Head(work[c]).field = "fir"
      PROVE  HwInv'
  <2>1. /\ Only(c) /\ stage[c] # "hw" /\ UNCHANGED <<work, bankHw>>
        /\ stage'[c] = "hw" /\ word'[c] = [axis |-> 0, at |-> 0]
        /\ config' = [config EXCEPT ![Head(work[c]).bank].fir = Offset(Stored(c), FirOffset)]
    BY <1>2, PutStep
  <2>2. \A b \in Bank : b # Head(work[c]).bank => config'[b] = config[b]
    BY <2>1 DEF Types, DataTypes
  <2>3. QED BY <2>1, <2>2, HwEnter
<1>3. ASSUME NEW c \in BankClients, SetConfig(c)
      PROVE  HwInv'
  <2>1. /\ Only(c) /\ stage[c] # "hw" /\ UNCHANGED <<work, bankHw>>
        /\ stage'[c] = "hw" /\ word'[c] = [axis |-> 0, at |-> 0]
        /\ \A b \in Bank : b # Head(work[c]).bank => config'[b] = config[b]
    BY <1>3, SetStep
  <2>2. QED BY <2>1, HwEnter
<1>4. QED BY <1>1, <1>2, <1>3, HwWrite, HwCalm, CalmSteps DEF BankNext

\* With nothing under way, the hardware is what the records say.
LEMMA HwIsRight ==
  ASSUME Types, ConfigInv, HwInv
  PROVE  HwMatchesRecords
<1>1. SUFFICES ASSUME BankQuiet, ~overtaken, NEW a \in Axes, NEW b \in Bank, NEW j \in Bunch
      PROVE  LET g == (j + BankBunches - GainOffset) % BankBunches
                 f == (j + BankBunches - FirOffset) % BankBunches
                 rec == record[b]
                 hw == bankHw[a][b]
             IN  /\ hw.enable[g] = rec.enable["fir"][j]
                 /\ hw.gain["fir"][g] = rec.gain["fir"][j]
                 /\ hw.gain["nco"][g] = IF rec.enable["nco"][j]
                                        THEN rec.gain["nco"][j] ELSE 0
                 /\ hw.fir[f] = rec.fir[j]
  BY DEF HwMatchesRecords
<1> DEFINE g == (j + BankBunches - GainOffset) % BankBunches
           f == (j + BankBunches - FirOffset) % BankBunches
           rec == record[b]
           used(s) == [i \in Bunch |-> IF s = "fir" \/ rec.enable[s][i]
                                      THEN rec.gain[s][i] ELSE 0]
<1>2. \A c \in BankClients : stage[c] = "idle"
  BY <1>1 DEF BankQuiet, Types, StageTypes, StageInv
<1>3. \A i \in Bunch : Written(a, b, i)
  BY <1>2 DEF HwInv, WillWrite
<1>4. /\ config[b].fir = Offset(rec.fir, FirOffset)
      /\ \A s \in Source : SourceFits(b, s)
  BY <1>1, <1>2 DEF ConfigInv, WillSet, Field
<1>5. GainOffset \in Bunch /\ FirOffset \in Bunch /\ "fir" \in Source /\ "nco" \in Source
  BY BankAssumption DEF Source
<1>6. /\ g \in Bunch /\ f \in Bunch
      /\ \A x : Offset(x, GainOffset)[g] = x[j]
      /\ \A x : Offset(x, FirOffset)[f] = x[j]
  BY <1>5, OffsetAt
<1> HIDE DEF g, f
<1>7. /\ config[b].gain["fir"] = Offset(used("fir"), GainOffset)
      /\ config[b].gain["nco"] = Offset(used("nco"), GainOffset)
      /\ config[b].enable = Offset(rec.enable["fir"], GainOffset)
  BY <1>4, <1>5 DEF SourceFits, Mixed
<1>8. used("fir")[j] = rec.gain["fir"][j]
      /\ used("nco")[j] = IF rec.enable["nco"][j] THEN rec.gain["nco"][j] ELSE 0
  OBVIOUS
<1> HIDE DEF used, rec
<1>9. /\ bankHw[a][b].enable[g] = rec.enable["fir"][j]
      /\ bankHw[a][b].fir[f] = rec.fir[j]
  BY <1>3, <1>4, <1>6, <1>7 DEF Written
<1>10. /\ bankHw[a][b].gain["fir"][g] = used("fir")[j]
       /\ bankHw[a][b].gain["nco"][g] = used("nco")[j]
  <2>1. /\ bankHw[a][b].gain["fir"][g] = config[b].gain["fir"][g]
        /\ bankHw[a][b].gain["nco"][g] = config[b].gain["nco"][g]
    BY <1>3, <1>5, <1>6 DEF Written
  <2>2. /\ Offset(used("fir"), GainOffset)[g] = used("fir")[j]
        /\ Offset(used("nco"), GainOffset)[g] = used("nco")[j]
    BY <1>6
  <2>3. QED BY <1>7, <2>1, <2>2
<1>11. QED BY <1>8, <1>9, <1>10 DEF rec, g, f

(***************************************************************************)
(* The clients' operations.                                                *)
(***************************************************************************)
\* What a record to write, not begun yet, will be given.
Later(w) ==
  IF w.how = "given" THEN w.arg
  ELSE IF w.how = "copied" THEN Field(record[w.arg], w.field, w.source)
  ELSE Edited(Field(record[w.bank], w.field, w.source), w.bank, w.arg)

Pending(c, i) == i > 1 \/ stage[c] \in {"read", "edit", "put"}
Result(c, i) ==
  IF i = 1 /\ stage[c] = "put" /\ work[c][i].how # "given" THEN held[c]
  ELSE IF i = 1 /\ stage[c] = "edit"
       THEN Edited(held[c], work[c][i].bank, work[c][i].arg)
  ELSE Later(work[c][i])
Wanted(w) == Field(intended[w.bank], w.field, w.source)

\* The records to write are all of the banks on; what is copied or edited is
\* not written by the same operation.
Confined(steps, on) == \A i \in 1 .. Len(steps) :
  /\ steps[i].bank \in on
  /\ steps[i].how = "copied" =>
       steps[i].arg \in on /\ \A k \in 1 .. Len(steps) : steps[k].bank # steps[i].arg
  /\ steps[i].how = "edited" => Len(steps) = 1

Good(c) ==
  /\ Confined(work[c], banks[c])
  /\ \A i \in 1 .. Len(work[c]) : Pending(c, i) => Result(c, i) = Wanted(work[c][i])
  /\ stage[c] = "show" => held[c] = OutWf(record[Head(work[c]).bank])

Owed(c, b, f, s) == \E i \in 1 .. Len(work[c]) :
  /\ Pending(c, i) /\ work[c][i].bank = b
  /\ SameField(work[c][i].field, work[c][i].source, f, s)
OutOwed(c, b) == \E i \in 1 .. Len(work[c]) :
  work[c][i].bank = b /\ work[c][i].field = "enable"
Fine(b) ==
  /\ \A f \in FieldName, s \in Source :
       \/ Field(record[b], f, s) = Field(intended[b], f, s)
       \/ \E c \in BankClients : Owed(c, b, f, s)
  /\ record[b].outwf = OutWf(record[b]) \/ \E c \in BankClients : OutOwed(c, b)
  /\ intended[b].outwf = OutWf(intended[b])

Apart == \A c, d \in BankClients :
  c # d /\ work[c] # <<>> /\ work[d] # <<>> => banks[c] \cap banks[d] = {}

CrossInv ==
  ~crossed => /\ Apart /\ \A c \in BankClients : Good(c)
              /\ \A b \in Bank : Fine(b)

\* The records of a bank are their waveforms and OUTWF.
LEMMA RecordsEqual ==
  ASSUME NEW r \in Records, NEW q \in Records, r.outwf = q.outwf,
         \A f \in FieldName, s \in Source : Field(r, f, s) = Field(q, f, s)
  PROVE  r = q
<1>1. r.fir = q.fir
  BY DEF Field, FieldName, Source
<1>2. \A s \in Source : r.enable[s] = q.enable[s] /\ r.gain[s] = q.gain[s]
  BY DEF Field, FieldName
<1>3. /\ r.enable \in [Source -> Enables] /\ q.enable \in [Source -> Enables]
      /\ r.gain \in [Source -> Gains] /\ q.gain \in [Source -> Gains]
  BY DEF Records
<1>4. r.enable = q.enable /\ r.gain = q.gain
  BY <1>2, <1>3
<1>5. QED BY <1>1, <1>4 DEF Records

\* With nothing under way, the records are what was intended.
LEMMA AtomicNow ==
  ASSUME Types, CrossInv
  PROVE  OperationsAtomic
<1>1. SUFFICES ASSUME BankQuiet, ~crossed PROVE record = intended
  BY DEF OperationsAtomic
<1>2. record \in [Bank -> Records] /\ intended \in [Bank -> Records]
  BY DEF Types, DataTypes
<1>3. ASSUME NEW b \in Bank PROVE record[b] = intended[b]
  <2>1. \A c \in BankClients : 1 .. Len(work[c]) = {}
    BY <1>1 DEF BankQuiet
  <2>2. /\ \A f \in FieldName, s \in Source :
             Field(record[b], f, s) = Field(intended[b], f, s)
        /\ record[b].outwf = OutWf(record[b])
        /\ intended[b].outwf = OutWf(intended[b])
    BY <1>1, <2>1 DEF CrossInv, Fine, Owed, OutOwed
  <2>3. OutWf(record[b]) = OutWf(intended[b])
    BY <1>2, <2>2, OutWfOf DEF FieldName
  <2>4. QED BY <1>2, <2>2, <2>3, RecordsEqual
<1>4. QED BY <1>2, <1>3

\* A client at work is not disturbed by changes of other banks.
LEMMA GoodStays ==
  ASSUME Types, NEW d \in BankClients, Good(d),
         stage'[d] = stage[d], work'[d] = work[d], held'[d] = held[d],
         banks'[d] = banks[d],
         work[d] # <<>> => \A b \in banks[d] :
           /\ record'[b] = record[b] /\ intended'[b] = intended[b]
           /\ bunchSet'[b] = bunchSet[b]
  PROVE  Good(d)'
<1>1. CASE work[d] = <<>>
  <2>1. stage[d] = "idle" /\ Len(work[d]) = 0
    BY <1>1 DEF Types, StageTypes, StageInv
  <2>2. QED BY <2>1 DEF Good, Confined
<1>2. CASE work[d] # <<>>
  <2>1. Confined(work'[d], banks'[d])
    BY DEF Good
  <2>2. stage'[d] = "show" => held'[d] = OutWf(record'[Head(work'[d]).bank])
    <3>1. ASSUME stage[d] = "show"
          PROVE  /\ held[d] = OutWf(record[Head(work[d]).bank])
                 /\ Head(work[d]).bank \in banks[d]
      <4>1. Head(work[d]) = work[d][1] /\ 1 \in 1 .. Len(work[d])
        BY <3>1, HeadOK
      <4>2. QED BY <3>1, <4>1 DEF Good, Confined
    <3>2. QED BY <1>2, <3>1
  <2>3. ASSUME NEW i \in 1 .. Len(work[d]), Pending(d, i)
        PROVE  Result(d, i)' = Wanted(work[d][i])'
    <3>1. PICK w : w = work[d][i]
      OBVIOUS
    <3>2. w.bank \in banks[d] /\ (w.how = "copied" => w.arg \in banks[d])
          /\ EntryOK(w)
      BY <3>1 DEF Good, Confined, Types, StageTypes, Legal
    <3>3. Result(d, i) = Wanted(w)
      BY <2>3, <3>1 DEF Good
    <3>4. Wanted(w)' = Wanted(w) /\ \A x : Edited(x, w.bank, w.arg)' = Edited(x, w.bank, w.arg)
      BY <1>2, <3>2 DEF Wanted, Edited
    <3>5. Later(w)' = Later(w)
      BY <1>2, <3>2 DEF Later, Edited
    <3>6. Result(d, i)' = Result(d, i)
      BY <3>1, <3>4, <3>5 DEF Result
    <3>7. QED BY <3>1, <3>3, <3>4, <3>6
  <2>4. QED BY <2>1, <2>2, <2>3 DEF Good, Pending
<1>3. QED BY <1>1, <1>2

LEMMA FineStays ==
  ASSUME Types, NEW c \in BankClients, Only(c), NEW b \in Bank, Fine(b),
         record'[b] = record[b], intended' = intended,
         \A f, s : Owed(c, b, f, s) => Owed(c, b, f, s)',
         OutOwed(c, b) => OutOwed(c, b)'
  PROVE  Fine(b)'
<1>1. ASSUME NEW d \in BankClients, NEW f, NEW s, Owed(d, b, f, s)
      PROVE  Owed(d, b, f, s)'
  <2>1. CASE d = c
    BY <1>1, <2>1
  <2>2. CASE d # c
    <3>1. stage'[d] = stage[d] /\ work'[d] = work[d]
      BY <2>2 DEF Only
    <3>2. QED BY <1>1, <3>1 DEF Owed, Pending
  <2>3. QED BY <2>1, <2>2
<1>2. ASSUME NEW d \in BankClients, OutOwed(d, b)
      PROVE  OutOwed(d, b)'
  <2>1. CASE d = c
    BY <1>2, <2>1
  <2>2. CASE d # c
    BY <1>2, <2>2 DEF Only, OutOwed
  <2>3. QED BY <2>1, <2>2
<1> HIDE DEF Owed, OutOwed
<1>3. ASSUME NEW f \in FieldName, NEW s \in Source
      PROVE  Field(record'[b], f, s) = Field(intended'[b], f, s)
             \/ \E d \in BankClients : Owed(d, b, f, s)'
  BY <1>1 DEF Fine
<1>4. record'[b].outwf = OutWf(record'[b]) \/ \E d \in BankClients : OutOwed(d, b)'
  BY <1>2 DEF Fine
<1>5. intended'[b].outwf = OutWf(intended'[b])
  BY DEF Fine
<1>6. QED BY <1>3, <1>4, <1>5 DEF Fine

\* A step of a client at work.
LEMMA CrossStep ==
  ASSUME Types, CrossInv, NEW c \in BankClients, Only(c), work[c] # <<>>,
         UNCHANGED <<banks, intended, bunchSet, crossed>>,
         \A b \in Bank : b \notin banks[c] => record'[b] = record[b],
         ~crossed => Good(c)', ~crossed => \A b \in Bank : Fine(b)'
  PROVE  CrossInv'
<1>1. SUFFICES ASSUME ~crossed
      PROVE  Apart' /\ (\A d \in BankClients : Good(d)') /\ \A b \in Bank : Fine(b)'
  BY DEF CrossInv
<1>2. Apart /\ \A d \in BankClients : Good(d)
  BY <1>1 DEF CrossInv
<1>3. Apart'
  BY <1>2 DEF Apart, Only
<1>4. ASSUME NEW d \in BankClients PROVE Good(d)'
  <2>1. CASE d = c
    BY <1>1, <2>1
  <2>2. CASE d # c
    <3>1. work[d] # <<>> => banks[d] \cap banks[c] = {} /\ banks[d] \subseteq Bank
      BY <1>2, <2>2 DEF Apart, Types, DataTypes
    <3>2. QED BY <1>2, <2>2, <3>1, GoodStays DEF Only
  <2>3. QED BY <2>1, <2>2
<1>5. QED BY <1>1, <1>3, <1>4

\* A step that writes no record and finishes none.
LEMMA CrossQuiet ==
  ASSUME Types, CrossInv, NEW c \in BankClients, Only(c), stage[c] # "idle",
         UNCHANGED <<record, work, banks, intended, bunchSet, crossed>>,
         stage[c] \in {"read", "edit", "put"} <=> stage'[c] \in {"read", "edit", "put"},
         Pending(c, 1) => Result(c, 1)' = Result(c, 1),
         stage'[c] = "show" => held'[c] = OutWf(record[Head(work[c]).bank])
  PROVE  CrossInv'
<1>1. work[c] # <<>> /\ Len(work[c]) \in Nat
  BY HeadOK
<1>2. \A i : Pending(c, i)' <=> Pending(c, i)
  BY DEF Pending
<1>3. ASSUME ~crossed, NEW b \in Bank PROVE Fine(b)'
  <2>1. \A f, s : Owed(c, b, f, s) => Owed(c, b, f, s)'
    BY <1>2 DEF Owed
  <2>2. OutOwed(c, b) => OutOwed(c, b)'
    BY DEF OutOwed
  <2>3. Fine(b)
    BY <1>3 DEF CrossInv
  <2>4. QED BY <2>1, <2>2, <2>3, FineStays
<1>4. ASSUME ~crossed PROVE Good(c)'
  <2>1. Good(c)
    BY <1>4 DEF CrossInv
  <2>2. ASSUME NEW i \in 1 .. Len(work[c]), Pending(c, i)
        PROVE  Result(c, i)' = Wanted(work[c][i])'
    <3>1. PICK w : w = work[c][i]
      OBVIOUS
    <3>2. Result(c, i) = Wanted(w)
      BY <2>1, <2>2, <3>1 DEF Good
    <3>3. Wanted(w)' = Wanted(w) /\ Later(w)' = Later(w)
      BY DEF Wanted, Later, Edited
    <3>4. Result(c, i)' = Result(c, i)
      <4>1. CASE i = 1
        BY <2>2, <4>1
      <4>2. CASE i # 1
        BY <3>1, <3>3, <4>2 DEF Result
      <4>3. QED BY <4>1, <4>2
    <3>5. QED BY <3>1, <3>2, <3>3, <3>4
  <2>3. Confined(work'[c], banks'[c])
    BY <2>1 DEF Good
  <2>4. QED BY <1>2, <2>2, <2>3 DEF Good
<1>5. QED BY <1>1, <1>3, <1>4, CrossStep

LEMMA CrossRead ==
  ASSUME Types, CrossInv, NEW c \in BankClients, ReadRecord(c)
  PROVE  CrossInv'
<1>1. PICK w : w = Head(work[c])
  OBVIOUS
<1>2. PICK from : from = IF w.how = "copied" THEN w.arg ELSE w.bank
  OBVIOUS
<1>3. /\ stage[c] = "read" /\ Only(c)
      /\ stage'[c] = IF w.how = "copied" THEN "put" ELSE "edit"
      /\ held'[c] = Field(record[from], w.field, w.source)
      /\ UNCHANGED <<record, work, banks, intended, bunchSet, crossed>>
  BY <1>1, <1>2 DEF ReadRecord, Only, Types, StageTypes
<1>4. w = work[c][1] /\ w.how # "given"
  BY <1>1, <1>3, HeadOK DEF Types, StageTypes, StageInv
<1>5. Result(c, 1)' = Result(c, 1)
  <2>1. Result(c, 1) = Later(w)
    BY <1>3, <1>4 DEF Result
  <2>2. CASE w.how = "copied"
    <3>1. Result(c, 1)' = held'[c]
      BY <1>3, <1>4, <2>2 DEF Result
    <3>2. QED BY <1>2, <1>3, <2>1, <2>2, <3>1 DEF Later
  <2>3. CASE w.how # "copied"
    <3>1. PICK x : x = held'[c]
      OBVIOUS
    <3>2. Result(c, 1)' = Edited(x, w.bank, w.arg)'
      BY <1>3, <1>4, <2>3, <3>1 DEF Result
    <3>3. QED BY <1>2, <1>3, <1>4, <2>1, <2>3, <3>1, <3>2 DEF Later, Edited
  <2>4. QED BY <2>2, <2>3
<1>6. QED BY <1>3, <1>5, CrossQuiet

LEMMA CrossEdit ==
  ASSUME Types, CrossInv, NEW c \in BankClients, EditWaveform(c)
  PROVE  CrossInv'
<1>1. PICK w : w = Head(work[c])
  OBVIOUS
<1>2. /\ stage[c] = "edit" /\ Only(c) /\ stage'[c] = "put"
      /\ held'[c] = Edited(held[c], w.bank, w.arg)
      /\ UNCHANGED <<record, work, banks, intended, bunchSet, crossed>>
  BY <1>1 DEF EditWaveform, Only, Types, StageTypes
<1>3. w = work[c][1] /\ w.how = "edited"
  BY <1>1, <1>2, HeadOK DEF Types, StageTypes, StageInv
<1>4. Result(c, 1)' = Result(c, 1)
  BY <1>2, <1>3 DEF Result
<1>5. QED BY <1>2, <1>4, CrossQuiet

LEMMA CrossGather ==
  ASSUME Types, CrossInv, NEW c \in BankClients,
         MixSource(c) \/ SetConfig(c) \/ GatherOutWf(c)
  PROVE  CrossInv'
<1>1. /\ Only(c) /\ stage[c] \in {"mix", "set", "gather"}
      /\ stage'[c] \in {"set", "hw", "show"}
      /\ stage'[c] = "show" => held'[c] = OutWf(record[Head(work[c]).bank])
      /\ UNCHANGED <<record, work, banks, intended, bunchSet, crossed>>
  BY DEF MixSource, SetConfig, GatherOutWf, Only, Types, StageTypes
<1>2. ~Pending(c, 1)
  BY <1>1 DEF Pending
<1>3. QED BY <1>1, <1>2, CrossQuiet

\* A record is finished: the promises of the others remain.
LEMMA GoodTail ==
  ASSUME Types, NEW c \in BankClients, Good(c), stage[c] # "idle", Finish(c),
         FieldsKept, UNCHANGED <<banks, intended, bunchSet>>
  PROVE  /\ Good(c)'
         /\ \A b, f, s : Owed(c, b, f, s) /\ stage[c] \notin {"read", "edit", "put"} =>
                           Owed(c, b, f, s)'
         /\ \A b : OutOwed(c, b)
                   /\ ~(Head(work[c]).bank = b /\ Head(work[c]).field = "enable") =>
                        OutOwed(c, b)'
<1>1. PICK v : v = work[c]
  OBVIOUS
<1>2. PICK later : later = Tail(v)
  OBVIOUS
<1>3. /\ v \in Seq(Entry) /\ v # <<>> /\ Len(v) \in Nat \ {0} /\ Head(v) = v[1]
  BY <1>1, HeadOK
<1>4. /\ Len(later) = Len(v) - 1 /\ Len(later) \in Nat
      /\ \A i \in 1 .. Len(later) : later[i] = v[i + 1] /\ i + 1 \in 1 .. Len(v) /\ i + 1 > 1
      /\ \A i \in 1 .. Len(v) : i # 1 => i - 1 \in 1 .. Len(later) /\ later[i - 1] = v[i]
  BY <1>2, <1>3
<1>5. work'[c] = later /\ stage'[c] = FirstStage(later)
  BY <1>1, <1>2, FinishStep
<1>6. /\ stage'[c] \in {"idle", "put", "read"}
      /\ (stage'[c] = "idle" => later = <<>>)
      /\ (stage'[c] = "put" => Head(later).how = "given")
  BY <1>5 DEF FirstStage
<1>7. \A i \in 1 .. Len(later) : stage'[c] \in {"put", "read"} /\ Pending(c, i)'
  BY <1>4, <1>6 DEF Pending
<1>8. Confined(later, banks'[c])
  <2>1. Confined(v, banks[c])
    BY <1>1 DEF Good
  <2>2. QED BY <1>3, <1>4, <2>1 DEF Confined
<1>9. ASSUME NEW i \in 1 .. Len(later) PROVE Result(c, i)' = Wanted(later[i])'
  <2>1. PICK w : w = later[i]
    OBVIOUS
  <2>2. w = v[i + 1] /\ i + 1 \in 1 .. Len(v) /\ i + 1 > 1 /\ i + 1 # 1
    BY <1>4, <2>1
  <2>3. PICK k \in 1 .. Len(v) : k = i + 1
    BY <2>2
  <2>4. Later(w) = Wanted(w)
    <3>1. Result(c, k) = Wanted(w)
      BY <1>1, <2>2, <2>3 DEF Good, Pending
    <3>2. Result(c, k) = Later(w)
      BY <1>1, <2>2, <2>3 DEF Result
    <3>3. QED BY <3>1, <3>2
  <2>5. EntryOK(w)
    BY <1>1, <2>2 DEF Types, StageTypes, Legal
  <2>6. Later(w)' = Later(w) /\ Wanted(w)' = Wanted(w)
    BY <2>5 DEF FieldsKept, Later, Wanted, Edited, EntryOK
  <2>7. Result(c, i)' = Later(w)'
    <3>1. CASE i = 1
      <4>1. Head(later) = w
        BY <1>2, <1>3, <1>4, <2>1, <3>1
      <4>2. QED BY <1>5, <1>6, <2>1, <4>1 DEF Result
    <3>2. CASE i # 1
      BY <1>5, <2>1, <3>2 DEF Result
    <3>3. QED BY <3>1, <3>2
  <2>8. QED BY <2>1, <2>4, <2>6, <2>7
<1>10. Good(c)'
  BY <1>5, <1>6, <1>8, <1>9 DEF Good
<1>11. ASSUME NEW b, NEW f, NEW s, Owed(c, b, f, s),
              stage[c] \notin {"read", "edit", "put"}
       PROVE  Owed(c, b, f, s)'
  <2>1. PICK i \in 1 .. Len(v) : /\ Pending(c, i) /\ v[i].bank = b
                                 /\ SameField(v[i].field, v[i].source, f, s)
    BY <1>1, <1>11 DEF Owed
  <2>2. i # 1
    BY <1>11, <2>1 DEF Pending
  <2>3. PICK k \in 1 .. Len(later) : later[k] = v[i]
    BY <1>4, <2>2
  <2>4. QED BY <1>5, <1>7, <2>1, <2>3 DEF Owed
<1>12. ASSUME NEW b, OutOwed(c, b),
              ~(Head(work[c]).bank = b /\ Head(work[c]).field = "enable")
       PROVE  OutOwed(c, b)'
  <2>1. PICK i \in 1 .. Len(v) : v[i].bank = b /\ v[i].field = "enable"
    BY <1>1, <1>12 DEF OutOwed
  <2>2. i # 1
    BY <1>1, <1>3, <1>12, <2>1
  <2>3. PICK k \in 1 .. Len(later) : later[k] = v[i]
    BY <1>4, <2>2
  <2>4. QED BY <1>5, <2>1, <2>3 DEF OutOwed
<1>13. QED BY <1>10, <1>11, <1>12

LEMMA CrossHw ==
  ASSUME Types, CrossInv, NEW c \in BankClients, WriteHw(c)
  PROVE  CrossInv'
<1>1. /\ Only(c) /\ stage[c] = "hw"
      /\ \/ stage'[c] \in {"hw", "gather"} /\ work'[c] = work[c]
         \/ Finish(c) /\ Head(work[c]).field # "enable"
  <2>1. PICK at : at = word[c].at
    OBVIOUS
  <2>2. at < BankBunches \/ at = BankBunches
    <3>1. at \in 0 .. BankBunches
      BY <2>1, HwStep
    <3>2. QED BY <3>1, BankAssumption
  <2>3. /\ Only(c) /\ stage[c] = "hw"
        /\ at < BankBunches => stage'[c] = "hw" /\ work'[c] = work[c]
        /\ at = BankBunches /\ word[c].axis + 1 \in Axes =>
             stage'[c] = "hw" /\ work'[c] = work[c]
        /\ at = BankBunches /\ word[c].axis + 1 \notin Axes =>
             /\ stage'[c] = "gather" => work'[c] = work[c]
             /\ stage'[c] # "gather" => Finish(c) /\ Head(work[c]).field # "enable"
    BY <2>1, HwStep
  <2>4. QED BY <2>2, <2>3
<1>2. UNCHANGED <<record, banks, intended, bunchSet, crossed>>
  BY DEF WriteHw
<1>3. CASE stage'[c] \in {"hw", "gather"} /\ work'[c] = work[c]
  <2>1. work' = work
    <3>1. DOMAIN work = BankClients /\ \A d \in BankClients : work'[d] = work[d]
      BY <1>1, <1>3 DEF Only, Types, StageTypes
    <3>2. \/ UNCHANGED work
          \/ work' = [work EXCEPT ![c] = Tail(work[c])]
      BY DEF WriteHw, NextWord, Finish
    <3>3. QED BY <3>1, <3>2 DEF Types, StageTypes
  <2>2. ~Pending(c, 1)
    BY <1>1 DEF Pending
  <2>3. QED BY <1>1, <1>2, <1>3, <2>1, <2>2, CrossQuiet
<1>4. CASE Finish(c) /\ Head(work[c]).field # "enable"
  <2>1. work[c] # <<>>
    BY <1>1, HeadOK
  <2>2. FieldsKept
    BY <1>2 DEF FieldsKept
  <2>3. ASSUME ~crossed PROVE Good(c)' /\ \A b \in Bank : Fine(b)'
    <3>1. Good(c) /\ \A b \in Bank : Fine(b)
      BY <2>3 DEF CrossInv
    <3>2. /\ Good(c)'
          /\ \A b, f, s : Owed(c, b, f, s) => Owed(c, b, f, s)'
          /\ \A b : OutOwed(c, b) => OutOwed(c, b)'
      BY <1>1, <1>2, <1>4, <2>2, <3>1, GoodTail
    <3>3. ASSUME NEW b \in Bank PROVE Fine(b)'
      BY <1>1, <1>2, <3>1, <3>2, FineStays
    <3>4. QED BY <3>2, <3>3
  <2>4. QED BY <1>1, <1>2, <2>1, <2>3, CrossStep
<1>5. QED BY <1>1, <1>3, <1>4

LEMMA CrossShow ==
  ASSUME Types, Types', CrossInv, NEW c \in BankClients, ShowOutWf(c)
  PROVE  CrossInv'
<1>1. PICK b0 : b0 = Head(work[c]).bank
  OBVIOUS
<1>2. /\ Only(c) /\ stage[c] = "show" /\ Finish(c) /\ FieldsKept
      /\ UNCHANGED <<banks, intended, bunchSet, crossed>>
      /\ record' = [record EXCEPT ![b0].outwf = held[c]]
  <2>1. record' = [record EXCEPT ![b0].outwf = held[c]]
    BY <1>1 DEF ShowOutWf
  <2>2. UNCHANGED <<banks, intended, bunchSet, crossed>>
    BY DEF ShowOutWf
  <2>3. QED BY <2>1, <2>2, ShowStep DEF Calm
<1>3. /\ work[c] # <<>> /\ Head(work[c]) = work[c][1] /\ 1 \in 1 .. Len(work[c])
      /\ b0 \in Bank
  BY <1>1, <1>2, HeadOK DEF EntryOK
<1>4. /\ record \in [Bank -> Records] /\ record' \in [Bank -> Records]
      /\ held[c] \in Outputs
  BY <1>2 DEF Types, StageTypes, DataTypes, HeldOK
<1>5. /\ record'[b0].outwf = held[c]
      /\ \A b \in Bank : b # b0 => record'[b] = record[b]
  BY <1>2, <1>3, <1>4, ShownTyped
<1>6. ASSUME ~crossed
      PROVE  Good(c)' /\ (\A b \in Bank : Fine(b)') /\ b0 \in banks[c]
  <2>1. Good(c) /\ \A b \in Bank : Fine(b)
    BY <1>6 DEF CrossInv
  <2>2. b0 \in banks[c] /\ held[c] = OutWf(record[b0])
    BY <1>1, <1>2, <1>3, <2>1 DEF Good, Confined
  <2>3. /\ Good(c)'
        /\ \A b, f, s : Owed(c, b, f, s) => Owed(c, b, f, s)'
        /\ \A b : b # b0 => (OutOwed(c, b) => OutOwed(c, b)')
    BY <1>1, <1>2, <2>1, GoodTail
  <2>4. ASSUME NEW b \in Bank PROVE Fine(b)'
    <3>1. CASE b # b0
      BY <1>2, <1>5, <2>1, <2>3, <3>1, FineStays
    <3>2. CASE b = b0
      <4>1. OutWf(record'[b]) = OutWf(record[b])
        BY <1>2, <1>4, OutWfOf DEF FieldsKept
      <4>2. ASSUME NEW f \in FieldName, NEW s \in Source, NEW d \in BankClients,
                   Owed(d, b, f, s)
            PROVE  Owed(d, b, f, s)'
        <5>1. CASE d = c
          BY <2>3, <4>2, <5>1
        <5>2. CASE d # c
          BY <1>2, <4>2, <5>2 DEF Only, Owed, Pending
        <5>3. QED BY <5>1, <5>2
      <4>3. ASSUME NEW f \in FieldName, NEW s \in Source
            PROVE  Field(record'[b], f, s) = Field(intended'[b], f, s)
                   \/ \E d \in BankClients : Owed(d, b, f, s)'
        <5>1. Field(record[b], f, s) = Field(intended[b], f, s)
              \/ \E d \in BankClients : Owed(d, b, f, s)
          BY <2>1 DEF Fine
        <5> HIDE DEF Owed
        <5>2. QED BY <1>2, <4>2, <5>1 DEF FieldsKept
      <4>4. record'[b].outwf = OutWf(record'[b])
        BY <1>5, <2>2, <3>2, <4>1
      <4>5. intended'[b].outwf = OutWf(intended'[b])
        BY <1>2, <2>1 DEF Fine
      <4>6. QED BY <4>3, <4>4, <4>5 DEF Fine
    <3>3. QED BY <3>1, <3>2
  <2>5. QED BY <2>2, <2>3, <2>4
<1>7. CASE crossed
  BY <1>2, <1>7 DEF CrossInv
<1>8. CASE ~crossed
  <2>1. \A b \in Bank : b \notin banks[c] => record'[b] = record[b]
    BY <1>5, <1>6, <1>8
  <2>2. QED BY <1>2, <1>3, <1>6, <1>8, <2>1, CrossStep
<1>9. QED BY <1>7, <1>8

\* The waveform stored is the one that was wanted.
LEMMA CrossPut ==
  ASSUME Types, Types', CrossInv, NEW c \in BankClients, PutRecord(c)
  PROVE  CrossInv'
<1>1. PICK v : v = work[c]
  OBVIOUS
<1>2. PICK w : w = Head(v)
  OBVIOUS
<1>3. PICK x : x = Stored(c)
  OBVIOUS
<1>4. /\ v # <<>> /\ w = v[1] /\ Len(v) \in Nat /\ 1 \in 1 .. Len(v)
  BY <1>1, <1>2, HeadOK DEF PutRecord
<1>5. /\ Only(c) /\ work' = work /\ banks' = banks
      /\ stage[c] = "put" /\ stage'[c] \in {"hw", "mix"}
      /\ EntryOK(w) /\ x \in Waveform(w.field)
  BY <1>1, <1>2, <1>3, PutStep
<1>6. /\ \A b \in Bank, f \in FieldName, s \in Source :
           Field(record'[b], f, s) =
             IF b = w.bank /\ SameField(w.field, w.source, f, s)
             THEN x ELSE Field(record[b], f, s)
      /\ \A b \in Bank : record'[b].outwf = record[b].outwf
  BY <1>1, <1>2, <1>3, PutStep
<1>7. UNCHANGED <<intended, bunchSet, crossed>>
  BY DEF PutRecord
<1>8. /\ w.bank \in Bank /\ w.field \in FieldName /\ w.source \in Source
      /\ record \in [Bank -> Records] /\ record' \in [Bank -> Records]
  BY <1>5 DEF EntryOK, Types, DataTypes
<1>9. \A b \in Bank : b # w.bank => record'[b] = record[b]
  <2>1. record' = [record EXCEPT ![w.bank] = Put(record[w.bank], w.field, w.source, x)]
    BY <1>1, <1>2, <1>3 DEF PutRecord, Stored
  <2>2. QED BY <1>8, <2>1
<1>10. ASSUME ~crossed PROVE Good(c)' /\ (\A b \in Bank : Fine(b)') /\ w.bank \in banks[c]
  <2>1. Good(c) /\ \A b \in Bank : Fine(b)
    BY <1>10 DEF CrossInv
  <2>2. Confined(v, banks[c]) /\ w.bank \in banks[c]
    BY <1>1, <1>4, <2>1 DEF Good, Confined
  <2>3. x = Field(intended[w.bank], w.field, w.source)
    <3>1. Result(c, 1) = Wanted(w)
      BY <1>1, <1>4, <1>5, <2>1 DEF Good, Pending
    <3>2. Result(c, 1) = x
      BY <1>1, <1>2, <1>3, <1>4, <1>5 DEF Result, Later, Stored
    <3>3. QED BY <3>1, <3>2 DEF Wanted
  <2>4. ASSUME NEW i \in 1 .. Len(v), i # 1 PROVE Result(c, i)' = Wanted(v[i])'
    <3>1. PICK u : u = v[i]
      OBVIOUS
    <3>2. i > 1 /\ Len(v) # 1
      <4>1. \A n \in Nat : \A k \in 1 .. n : k # 1 => k > 1 /\ n # 1
        OBVIOUS
      <4>2. QED BY <1>4, <2>4, <4>1
    <3>3. /\ u.how # "edited" /\ EntryOK(u)
          /\ u.how = "copied" => u.arg # w.bank
      BY <1>1, <1>4, <2>2, <3>1, <3>2 DEF Confined, Types, StageTypes, Legal
    <3>4. Later(u) = Wanted(u)
      <4>1. Result(c, i) = Wanted(u)
        BY <1>1, <2>1, <3>1, <3>2 DEF Good, Pending
      <4>2. Result(c, i) = Later(u)
        BY <1>1, <2>4, <3>1 DEF Result
      <4>3. QED BY <4>1, <4>2
    <3>5. u.how = "given" \/ (u.how = "copied" /\ u.arg \in Bank)
      BY <3>3 DEF EntryOK, How
    <3>6. Later(u)' = Later(u) /\ Wanted(u)' = Wanted(u)
      BY <1>7, <1>9, <3>3, <3>5 DEF Later, Wanted
    <3>7. Result(c, i)' = Later(u)'
      BY <1>1, <1>5, <2>4, <3>1 DEF Result
    <3>8. QED BY <3>1, <3>4, <3>6, <3>7
  <2>5. Good(c)'
    <3>1. \A i \in 1 .. Len(v) : Pending(c, i)' => i # 1
      BY <1>5 DEF Pending
    <3>2. QED BY <1>1, <1>5, <2>2, <2>4, <3>1 DEF Good
  <2>6. ASSUME NEW b \in Bank PROVE Fine(b)'
    <3>1. ASSUME NEW f \in FieldName, NEW s \in Source
          PROVE  Field(record'[b], f, s) = Field(intended'[b], f, s)
                 \/ \E d \in BankClients : Owed(d, b, f, s)'
      <4>1. CASE b = w.bank /\ SameField(w.field, w.source, f, s)
        <5>1. Field(record'[b], f, s) = x
          BY <1>6, <4>1
        <5>2. Field(intended[b], f, s) = Field(intended[w.bank], w.field, w.source)
          BY <4>1 DEF SameField, Field
        <5>3. QED BY <1>7, <2>3, <5>1, <5>2
      <4>2. CASE ~(b = w.bank /\ SameField(w.field, w.source, f, s))
        <5>1. Field(record'[b], f, s) = Field(record[b], f, s)
          BY <1>6, <4>2
        <5>2. ASSUME NEW d \in BankClients, Owed(d, b, f, s)
              PROVE  Owed(d, b, f, s)'
          <6>1. CASE d = c
            <7>1. PICK i \in 1 .. Len(v) : /\ Pending(c, i) /\ v[i].bank = b
                                           /\ SameField(v[i].field, v[i].source, f, s)
              BY <1>1, <5>2, <6>1 DEF Owed
            <7>2. i > 1
              BY <1>4, <4>2, <7>1
            <7>3. QED BY <1>1, <1>5, <6>1, <7>1, <7>2 DEF Owed, Pending
          <6>2. CASE d # c
            BY <1>5, <5>2, <6>2 DEF Only, Owed, Pending
          <6>3. QED BY <6>1, <6>2
        <5>3. Field(record[b], f, s) = Field(intended[b], f, s)
              \/ \E d \in BankClients : Owed(d, b, f, s)
          BY <2>1 DEF Fine
        <5> HIDE DEF Owed
        <5>4. QED BY <1>7, <5>1, <5>2, <5>3
      <4>3. QED BY <4>1, <4>2
    <3>2. record'[b].outwf = OutWf(record'[b]) \/ \E d \in BankClients : OutOwed(d, b)'
      <4>1. \A d \in BankClients : OutOwed(d, b) => OutOwed(d, b)'
        BY <1>5 DEF OutOwed
      <4>2. CASE b = w.bank /\ w.field = "enable"
        <5>1. OutOwed(c, b)'
          BY <1>1, <1>4, <1>5, <4>2 DEF OutOwed
        <5>2. QED BY <5>1
      <4>3. CASE ~(b = w.bank /\ w.field = "enable")
        <5>1. \A s \in Source : Field(record'[b], "enable", s) = Field(record[b], "enable", s)
          BY <1>6, <4>3 DEF SameField, FieldName
        <5>2. OutWf(record'[b]) = OutWf(record[b])
          BY <1>8, <5>1, OutWfOf
        <5>3. record[b].outwf = OutWf(record[b]) \/ \E d \in BankClients : OutOwed(d, b)
          BY <2>1 DEF Fine
        <5> HIDE DEF OutOwed
        <5>4. QED BY <1>6, <4>1, <5>2, <5>3
      <4>4. QED BY <4>2, <4>3
    <3>3. intended'[b].outwf = OutWf(intended'[b])
      BY <1>7, <2>1 DEF Fine
    <3>4. QED BY <3>1, <3>2, <3>3 DEF Fine
  <2>7. QED BY <2>2, <2>5, <2>6
<1>11. CASE crossed
  BY <1>7, <1>11 DEF CrossInv
<1>12. CASE ~crossed
  <2>1. \A b \in Bank : b \notin banks[c] => record'[b] = record[b]
    BY <1>9, <1>10, <1>12
  <2>2. work[c] # <<>>
    BY <1>1, <1>4
  <2>3. QED BY <1>5, <1>7, <1>10, <1>12, <2>1, <2>2, CrossStep
<1>13. QED BY <1>11, <1>12

\* A client starts on banks that nobody else is at work on.
LEMMA Alone ==
  ASSUME Types, CrossInv, NEW c \in BankClients, NEW on \in SUBSET Bank,
         NEW steps, Begin(c, on, steps), ~crossed'
  PROVE  /\ ~crossed
         /\ \A d \in BankClients \ {c} : work[d] # <<>> => banks[d] \cap on = {}
         /\ \A b \in on : /\ record[b] = intended[b]
                          /\ record[b].outwf = OutWf(record[b])
<1>1. /\ ~crossed /\ work[c] = <<>>
      /\ \A d \in BankClients \ {c} : work[d] # <<>> => banks[d] \cap on = {}
  BY DEF Begin
<1>2. ASSUME NEW b \in on
      PROVE  record[b] = intended[b] /\ record[b].outwf = OutWf(record[b])
  <2>1. \A d \in BankClients : Good(d)
    BY <1>1 DEF CrossInv
  <2>2. ASSUME NEW d \in BankClients, NEW i \in 1 .. Len(work[d])
        PROVE  work[d][i].bank # b
    <3>1. work[d] # <<>>
      <4>1. CASE work[d] = <<>>
        <5>1. 1 .. Len(work[d]) = {}
          BY <4>1
        <5>2. QED BY <5>1
      <4>2. QED BY <4>1
    <3>2. work[d][i].bank \in banks[d] /\ d # c
      BY <1>1, <2>1, <3>1 DEF Good, Confined
    <3>3. QED BY <1>1, <3>1, <3>2
  <2>3. /\ \A f \in FieldName, s \in Source :
             Field(record[b], f, s) = Field(intended[b], f, s)
        /\ record[b].outwf = OutWf(record[b])
        /\ intended[b].outwf = OutWf(intended[b])
    BY <1>1, <2>2 DEF CrossInv, Fine, Owed, OutOwed
  <2>4. record[b] \in Records /\ intended[b] \in Records
    BY DEF Types, DataTypes
  <2>5. OutWf(record[b]) = OutWf(intended[b])
    BY <2>3, <2>4, OutWfOf DEF FieldName
  <2>6. QED BY <2>3, <2>4, <2>5, RecordsEqual
<1>3. QED BY <1>1, <1>2

\* What an operation on the banks on does, that is to write steps.
Effect(on, steps) ==
  /\ \A b \in Bank \ on : /\ record'[b] = record[b] /\ intended'[b] = intended[b]
                          /\ bunchSet'[b] = bunchSet[b]
  /\ Confined(steps, on)
  /\ \A i \in 1 .. Len(steps) : Later(steps[i])' = Wanted(steps[i])'
  /\ \A b \in on :
       /\ \A f \in FieldName, s \in Source :
            \/ Field(record'[b], f, s) = Field(intended'[b], f, s)
            \/ \E i \in 1 .. Len(steps) : /\ steps[i].bank = b
                                          /\ SameField(steps[i].field, steps[i].source, f, s)
       /\ \/ record'[b].outwf = OutWf(record'[b])
          \/ \E i \in 1 .. Len(steps) : steps[i].bank = b /\ steps[i].field = "enable"
       /\ intended'[b].outwf = OutWf(intended'[b])

LEMMA CrossBegin ==
  ASSUME Types, CrossInv, NEW c \in BankClients, NEW on \in SUBSET Bank,
         NEW steps, Legal(steps), Begin(c, on, steps), ~crossed',
         Effect(on, steps)
  PROVE  CrossInv'
<1>1. /\ ~crossed
      /\ \A d \in BankClients \ {c} : work[d] # <<>> => banks[d] \cap on = {}
  BY Alone
<1>2. /\ Only(c) /\ stage[c] = "idle" /\ stage'[c] = FirstStage(steps)
      /\ work[c] = <<>> /\ work'[c] = steps /\ banks'[c] = on
  BY BeginStep DEF Calm
<1>3. Apart /\ (\A d \in BankClients : Good(d)) /\ \A b \in Bank : Fine(b)
  BY <1>1 DEF CrossInv
<1>4. Apart'
  BY <1>1, <1>2, <1>3 DEF Apart, Only
<1>5. Len(steps) \in Nat
  BY DEF Legal
<1>6. /\ stage'[c] \in {"idle", "put", "read"}
      /\ (stage'[c] = "idle" => steps = <<>>)
      /\ (stage'[c] = "put" => Head(steps).how = "given")
  BY <1>2 DEF FirstStage
<1>7. \A i \in 1 .. Len(steps) : Pending(c, i)'
  BY <1>5, <1>6 DEF Pending
<1>8. Good(c)'
  <2>1. ASSUME NEW i \in 1 .. Len(steps) PROVE Result(c, i)' = Wanted(steps[i])'
    <3>1. Result(c, i)' = Later(steps[i])'
      <4>1. CASE i = 1
        <5>1. Head(steps) = steps[1]
          BY <1>5, <4>1 DEF Legal
        <5>2. QED BY <1>2, <1>6, <4>1, <5>1 DEF Result
      <4>2. CASE i # 1
        BY <1>2, <4>2 DEF Result
      <4>3. QED BY <4>1, <4>2
    <3>2. QED BY <3>1 DEF Effect
  <2>2. Confined(steps, on)
    BY DEF Effect
  <2>3. QED BY <1>2, <1>6, <2>1, <2>2 DEF Good
<1>9. ASSUME NEW d \in BankClients PROVE Good(d)'
  <2>1. CASE d = c
    BY <1>8, <2>1
  <2>2. CASE d # c
    <3>1. ASSUME work[d] # <<>>, NEW b \in banks[d]
          PROVE  /\ record'[b] = record[b] /\ intended'[b] = intended[b]
                 /\ bunchSet'[b] = bunchSet[b]
      <4>1. b \in Bank \ on
        BY <1>1, <2>2, <3>1 DEF Types, DataTypes
      <4>2. QED BY <4>1 DEF Effect
    <3>2. QED BY <1>2, <1>3, <2>2, <3>1, GoodStays DEF Only
  <2>3. QED BY <2>1, <2>2
<1>10. ASSUME NEW b \in Bank PROVE Fine(b)'
  <2>1. CASE b \in on
    <3>1. ASSUME NEW f \in FieldName, NEW s \in Source, NEW i \in 1 .. Len(steps),
                 steps[i].bank = b, SameField(steps[i].field, steps[i].source, f, s)
          PROVE  Owed(c, b, f, s)'
      BY <1>2, <1>7, <3>1 DEF Owed
    <3>2. ASSUME NEW i \in 1 .. Len(steps), steps[i].bank = b, steps[i].field = "enable"
          PROVE  OutOwed(c, b)'
      BY <1>2, <3>2 DEF OutOwed
    <3> HIDE DEF Owed, OutOwed
    <3>3. QED BY <2>1, <3>1, <3>2 DEF Fine, Effect
  <2>2. CASE b \notin on
    <3>1. Fine(b)
      BY <1>3
    <3>2. record'[b] = record[b] /\ intended'[b] = intended[b]
      BY <2>2 DEF Effect
    <3>3. ASSUME NEW d \in BankClients, NEW f, NEW s, Owed(d, b, f, s)
          PROVE  Owed(d, b, f, s)'
      <4>1. d # c
        BY <1>2, <3>3 DEF Owed
      <4>2. QED BY <1>2, <3>3, <4>1 DEF Only, Owed, Pending
    <3>4. ASSUME NEW d \in BankClients, OutOwed(d, b)
          PROVE  OutOwed(d, b)'
      <4>1. d # c
        BY <1>2, <3>4 DEF OutOwed
      <4>2. QED BY <1>2, <3>4, <4>1 DEF Only, OutOwed
    <3> HIDE DEF Owed, OutOwed
    <3>5. ASSUME NEW f \in FieldName, NEW s \in Source
          PROVE  Field(record'[b], f, s) = Field(intended'[b], f, s)
                 \/ \E d \in BankClients : Owed(d, b, f, s)'
      BY <3>1, <3>2, <3>3 DEF Fine
    <3>6. record'[b].outwf = OutWf(record'[b]) \/ \E d \in BankClients : OutOwed(d, b)'
      BY <3>1, <3>2, <3>4 DEF Fine
    <3>7. intended'[b].outwf = OutWf(intended'[b])
      BY <3>1, <3>2 DEF Fine
    <3>8. QED BY <3>5, <3>6, <3>7 DEF Fine
  <2>3. QED BY <2>1, <2>2
<1>11. QED BY <1>4, <1>9, <1>10 DEF CrossInv

\* One record is written, given or edited.
LEMMA EffectOne ==
  ASSUME Types, NEW b \in Bank, NEW f \in FieldName, NEW s \in Source,
         NEW x \in Waveform(f), NEW w, EntryOK(w), w.bank = b, w.field = f,
         w.source = s, w.how # "copied", Later(w)' = x,
         record[b] = intended[b], record[b].outwf = OutWf(record[b]),
         Intend(b, f, s, x), UNCHANGED <<record, bunchSet>>
  PROVE  Effect({b}, <<w>>)
<1>1. record[b] \in Records /\ intended \in [Bank -> Records]
  BY DEF Types, DataTypes
<1>2. PICK r : r = Put(record[b], f, s, x)
  OBVIOUS
<1>3. r \in Records /\ \A g \in FieldName, t \in Source :
        Field(r, g, t) = IF SameField(f, s, g, t) THEN x ELSE Field(record[b], g, t)
  BY <1>1, <1>2, PutTyped, FieldAfterPut
<1>4. PICK q : q = [r EXCEPT !.outwf = OutWf(r)]
  OBVIOUS
<1>5. /\ q \in Records /\ q.outwf = OutWf(r)
      /\ \A g, t : Field(q, g, t) = Field(r, g, t)
  BY <1>3, <1>4, OutWfTyped, ShownTyped
<1>6. OutWf(q) = OutWf(r)
  BY <1>3, <1>5, OutWfOf
<1>7. intended' = [intended EXCEPT ![b] = q]
  BY <1>2, <1>4 DEF Intend
<1>8. intended'[b] = q /\ \A a \in Bank \ {b} : intended'[a] = intended[a]
  BY <1>1, <1>7
<1>9. Wanted(w)' = x
  <2>1. Wanted(w)' = Field(q, f, s)
    BY <1>8 DEF Wanted
  <2>2. QED BY <1>3, <1>5, <2>1 DEF SameField
<1>10. Len(<<w>>) = 1 /\ <<w>>[1] = w /\ 1 .. Len(<<w>>) = {1}
  OBVIOUS
<1>11. Confined(<<w>>, {b})
  BY <1>10 DEF Confined
<1>12. ASSUME NEW g \in FieldName, NEW t \in Source
       PROVE  Field(record'[b], g, t) = Field(intended'[b], g, t)
              \/ SameField(w.field, w.source, g, t)
  BY <1>3, <1>5, <1>8
<1>13. record'[b].outwf = OutWf(record'[b]) /\ intended'[b].outwf = OutWf(intended'[b])
  BY <1>5, <1>6, <1>8
<1>14. \A i \in 1 .. Len(<<w>>) : Later(<<w>>[i])' = Wanted(<<w>>[i])'
  BY <1>9, <1>10
<1>15. \E i \in 1 .. Len(<<w>>) : i = 1
  BY <1>10
<1>16. QED BY <1>8, <1>10, <1>11, <1>12, <1>13, <1>14, <1>15 DEF Effect

LEMMA CrossOne ==
  ASSUME Types, CrossInv, NEW c \in BankClients, ~crossed',
         UNCHANGED <<record, bunchSet>>,
         (WriteSource(c) \/ WriteFir(c)) \/ (EditSource(c) \/ EditFir(c))
  PROVE  CrossInv'
<1>1. CASE WriteSource(c) \/ WriteFir(c)
  <2>1. PICK b \in Bank, f \in FieldName, s \in Source :
          \E x \in Waveform(f) : WriteOne(c, b, f, s, x)
    BY <1>1, WritesOne
  <2>2. PICK x \in Waveform(f) : WriteOne(c, b, f, s, x)
    BY <2>1
  <2>3. PICK w : w = Given(b, f, s, x)
    OBVIOUS
  <2>4. /\ EntryOK(w) /\ w \in Entry /\ w.bank = b /\ w.field = f /\ w.source = s
        /\ w.how = "given" /\ w.arg = x
    BY <2>3, GivenOK DEF Given
  <2>5. Begin(c, {b}, <<w>>) /\ Intend(b, f, s, x) /\ Legal(<<w>>)
    BY <2>2, <2>3, <2>4, OneLegal DEF WriteOne
  <2>6. {b} \in SUBSET Bank
    OBVIOUS
  <2>7. record[b] = intended[b] /\ record[b].outwf = OutWf(record[b])
    BY <2>5, <2>6, Alone
  <2>8. Later(w)' = x
    BY <2>4 DEF Later
  <2>9. Effect({b}, <<w>>)
    BY <2>4, <2>5, <2>7, <2>8, EffectOne
  <2>10. QED BY <2>5, <2>6, <2>9, CrossBegin
<1>2. CASE EditSource(c) \/ EditFir(c)
  <2>1. PICK b \in Bank, f \in FieldName, s \in Source :
          \E v \in Value(f) : EditOne(c, b, f, s, v)
    BY <1>2, EditsOne
  <2>2. PICK v \in Value(f) : EditOne(c, b, f, s, v)
    BY <2>1
  <2>3. PICK w : w = Changed(b, f, s, v)
    OBVIOUS
  <2>x. PICK x : x = Edited(Field(record[b], f, s), b, v)
    OBVIOUS
  <2>4. /\ EntryOK(w) /\ w \in Entry /\ w.bank = b /\ w.field = f /\ w.source = s
        /\ w.how = "edited" /\ w.arg = v
    BY <2>3, ChangedOK DEF Changed
  <2>5. Begin(c, {b}, <<w>>) /\ Intend(b, f, s, x) /\ Legal(<<w>>)
    BY <2>2, <2>3, <2>4, <2>x, OneLegal DEF EditOne
  <2>6. {b} \in SUBSET Bank
    OBVIOUS
  <2>7. record[b] = intended[b] /\ record[b].outwf = OutWf(record[b])
    BY <2>5, <2>6, Alone
  <2>8. Later(w)' = x
    BY <2>4, <2>x DEF Later, Edited
  <2>9. x \in Waveform(f)
    BY <2>x, FieldTyped, EditedTyped DEF Types, DataTypes
  <2>10. Effect({b}, <<w>>)
    BY <2>4, <2>5, <2>7, <2>8, <2>9, EffectOne
  <2>11. QED BY <2>5, <2>6, <2>10, CrossBegin
<1>3. QED BY <1>1, <1>2

\* Both sources are given: gains reset, or the enables in OUTWF.
LEMMA EffectTwo ==
  ASSUME Types, NEW b \in Bank, NEW f \in {"enable", "gain"}, NEW x, NEW y,
         x \in Waveform(f), y \in Waveform(f), Types',
         \A a \in Bank \ {b} : record'[a] = record[a] /\ intended'[a] = intended[a],
         UNCHANGED bunchSet,
         Field(intended'[b], f, "fir") = x, Field(intended'[b], f, "nco") = y,
         \A g \in FieldName \ {f}, s \in Source :
           Field(record'[b], g, s) = Field(intended'[b], g, s),
         f # "enable" => record'[b].outwf = OutWf(record'[b]),
         intended'[b].outwf = OutWf(intended'[b])
  PROVE  Effect({b}, <<Given(b, f, "fir", x), Given(b, f, "nco", y)>>)
<1>1. PICK v, w : v = Given(b, f, "fir", x) /\ w = Given(b, f, "nco", y)
  OBVIOUS
<1>2. /\ v.how = "given" /\ v.bank = b /\ v.field = f /\ v.source = "fir" /\ v.arg = x
      /\ w.how = "given" /\ w.bank = b /\ w.field = f /\ w.source = "nco" /\ w.arg = y
  BY <1>1 DEF Given
<1>3. PICK steps : steps = <<v, w>>
  OBVIOUS
<1>4. Len(steps) = 2 /\ steps[1] = v /\ steps[2] = w /\ 1 .. Len(steps) = {1, 2}
  BY <1>3
<1>5. Confined(steps, {b})
  BY <1>2, <1>4 DEF Confined
<1>6. \A i \in 1 .. Len(steps) : Later(steps[i])' = Wanted(steps[i])'
  <2>1. Later(v)' = Wanted(v)' /\ Later(w)' = Wanted(w)'
    BY <1>2 DEF Later, Wanted
  <2>2. QED BY <1>4, <2>1
<1>7. ASSUME NEW g \in FieldName, NEW s \in Source
      PROVE  \/ Field(record'[b], g, s) = Field(intended'[b], g, s)
             \/ \E i \in 1 .. Len(steps) : /\ steps[i].bank = b
                                           /\ SameField(steps[i].field, steps[i].source, g, s)
  <2>1. CASE g # f
    BY <2>1
  <2>2. CASE g = f
    <3>1. s = "fir" \/ s = "nco"
      BY DEF Source
    <3>2. QED BY <1>2, <1>4, <2>2, <3>1 DEF SameField
  <2>3. QED BY <2>1, <2>2
<1>8. \/ record'[b].outwf = OutWf(record'[b])
      \/ \E i \in 1 .. Len(steps) : steps[i].bank = b /\ steps[i].field = "enable"
  BY <1>2, <1>4
<1>9. Effect({b}, steps)
  BY <1>5, <1>6, <1>7, <1>8 DEF Effect
<1>10. QED BY <1>1, <1>3, <1>9

LEMMA CrossReset ==
  ASSUME Types, Types', CrossInv, NEW c \in BankClients, ~crossed',
         UNCHANGED <<record, bunchSet>>, ResetGains(c)
  PROVE  CrossInv'
<1>1. PICK b \in Bank :
        /\ Begin(c, {b}, <<Given(b, "gain", "fir", Const(1)),
                           Given(b, "gain", "nco", Const(1))>>)
        /\ intended' = [intended EXCEPT ![b].gain = [s \in Source |-> Const(1)]]
  BY DEF ResetGains
<1>2. PICK x : x = Const(1)
  OBVIOUS
<1>3. PICK steps : steps = <<Given(b, "gain", "fir", x), Given(b, "gain", "nco", x)>>
  OBVIOUS
<1>4. x \in Gains /\ x \in Waveform("gain") /\ "gain" \in FieldName
  BY <1>2, BankAssumption, ConstTyped DEF Gains, Waveform, FieldName
<1>5. Legal(steps) /\ Begin(c, {b}, steps) /\ {b} \in SUBSET Bank
  <2>1. "fir" \in Source /\ "nco" \in Source
    BY DEF Source
  <2>2. QED BY <1>1, <1>2, <1>3, <1>4, <2>1, GivenOK, TwoLegal
<1>6. record[b] = intended[b] /\ record[b].outwf = OutWf(record[b])
  BY <1>5, Alone
<1>7. PICK q : q = [intended[b] EXCEPT !.gain = [s \in Source |-> x]]
  OBVIOUS
<1>8. record[b] \in Records /\ intended \in [Bank -> Records]
  BY DEF Types, DataTypes
<1>9. intended'[b] = q /\ \A a \in Bank \ {b} : intended'[a] = intended[a]
  BY <1>1, <1>2, <1>7, <1>8
<1>10. /\ q \in Records /\ q.outwf = record[b].outwf
       /\ \A g \in FieldName, s \in Source :
            Field(q, g, s) = IF g = "gain" THEN x ELSE Field(record[b], g, s)
  BY <1>4, <1>6, <1>7, <1>8 DEF Records, Field, FieldName
<1>11. OutWf(q) = OutWf(record[b])
  BY <1>8, <1>10, OutWfOf DEF FieldName
<1>12. Effect({b}, steps)
  <2>1. Field(q, "gain", "fir") = x /\ Field(q, "gain", "nco") = x
    BY <1>10 DEF FieldName, Source
  <2>2. \A g \in FieldName \ {"gain"}, s \in Source : Field(record[b], g, s) = Field(q, g, s)
    BY <1>10
  <2>3. QED BY <1>3, <1>4, <1>6, <1>9, <1>10, <1>11, <2>1, <2>2, EffectTwo
<1>13. QED BY <1>5, <1>12, CrossBegin

LEMMA CrossOut ==
  ASSUME Types, Types', CrossInv, NEW c \in BankClients, ~crossed',
         UNCHANGED bunchSet, WriteOutWf(c)
  PROVE  CrossInv'
<1>1. PICK b \in Bank, wave \in OutInput :
        /\ Begin(c, {b}, OutWfSteps(b, wave))
        /\ record' = [record EXCEPT ![b].outwf = wave]
        /\ intended' = [intended EXCEPT
             ![b].enable = [s \in Source |-> OutWfEnable(wave, s)], ![b].outwf = wave]
  BY DEF WriteOutWf
<1>2. PICK x, y : x = OutWfEnable(wave, "fir") /\ y = OutWfEnable(wave, "nco")
  OBVIOUS
<1>3. PICK steps : steps = <<Given(b, "enable", "fir", x), Given(b, "enable", "nco", y)>>
  OBVIOUS
<1>4. /\ x \in Enables /\ y \in Enables /\ wave \in Outputs
      /\ x \in Waveform("enable") /\ y \in Waveform("enable")
      /\ "enable" \in FieldName /\ "fir" \in Source /\ "nco" \in Source
  BY <1>2, BankAssumption, OutWfEnableTyped DEF Waveform, FieldName, Source
<1>5. Legal(steps) /\ Begin(c, {b}, steps) /\ {b} \in SUBSET Bank
  <2>1. steps = OutWfSteps(b, wave)
    BY <1>2, <1>3 DEF OutWfSteps
  <2>2. QED BY <1>1, <1>3, <1>4, <2>1, GivenOK, TwoLegal
<1>6. record[b] = intended[b] /\ record[b].outwf = OutWf(record[b])
  BY <1>5, Alone
<1>7. PICK e : e = [s \in Source |-> OutWfEnable(wave, s)]
  OBVIOUS
<1>8. e \in [Source -> Enables] /\ e["fir"] = x /\ e["nco"] = y
      /\ \A s \in Source : e[s] = OutWfEnable(wave, s)
  BY <1>2, <1>4, <1>7, OutWfEnableTyped
<1>9. PICK q : q = [intended[b] EXCEPT !.enable = e, !.outwf = wave]
  OBVIOUS
<1>10. record \in [Bank -> Records] /\ intended \in [Bank -> Records]
  BY DEF Types, DataTypes
<1>11. intended'[b] = q /\ \A a \in Bank \ {b} : intended'[a] = intended[a]
  BY <1>1, <1>7, <1>9, <1>10
<1>12. /\ q \in Records /\ q.outwf = wave /\ q.enable = e
       /\ \A g \in FieldName \ {"enable"}, s \in Source :
            Field(q, g, s) = Field(record[b], g, s)
       /\ \A s \in Source : Field(q, "enable", s) = e[s]
  BY <1>4, <1>6, <1>8, <1>9, <1>10 DEF Records, Field, FieldName
<1>13. OutWf(q) = wave
  <2>1. ASSUME NEW i \in Bunch PROVE {s \in Source : e[s][i]} = wave[i]
    <3>1. \A s \in Source : e[s][i] <=> s \in wave[i]
      BY <1>8 DEF OutWfEnable
    <3>2. wave[i] \subseteq Source
      BY <1>4 DEF Outputs
    <3>3. QED BY <3>1, <3>2, Zenon
  <2>2. OutWf(q) = [i \in Bunch |-> wave[i]]
    BY <1>12, <2>1 DEF OutWf
  <2>3. QED BY <1>4, <2>2 DEF Outputs
<1>14. PICK r : r = [record[b] EXCEPT !.outwf = wave]
  OBVIOUS
<1>15. record'[b] = r /\ \A a \in Bank \ {b} : record'[a] = record[a]
  BY <1>1, <1>10, <1>14
<1>16. \A f, s : Field(r, f, s) = Field(record[b], f, s)
  BY <1>4, <1>10, <1>14, ShownTyped
<1>17. Effect({b}, steps)
  <2>1. Field(q, "enable", "fir") = x /\ Field(q, "enable", "nco") = y
    BY <1>4, <1>8, <1>12
  <2>2. \A g \in FieldName \ {"enable"}, s \in Source : Field(r, g, s) = Field(q, g, s)
    BY <1>12, <1>16
  <2>3. QED BY <1>3, <1>4, <1>11, <1>12, <1>13, <1>15, <2>1, <2>2, EffectTwo
<1>18. QED BY <1>5, <1>17, CrossBegin

LEMMA CrossCopy ==
  ASSUME Types, Types', CrossInv, NEW c \in BankClients, ~crossed',
         UNCHANGED <<record, bunchSet>>, CopyBank(c)
  PROVE  CrossInv'
<1>1. PICK from \in Bank : \E to \in Bank \ {from} :
        /\ Begin(c, {from, to}, CopySteps(from, to))
        /\ intended' = [intended EXCEPT
             ![to] = [record[from] EXCEPT !.outwf = OutWf(record[from])]]
  BY DEF CopyBank
<1>2. PICK to \in Bank \ {from} :
        /\ Begin(c, {from, to}, CopySteps(from, to))
        /\ intended' = [intended EXCEPT
             ![to] = [record[from] EXCEPT !.outwf = OutWf(record[from])]]
  BY <1>1
<1>3. PICK steps : steps = CopySteps(from, to)
  OBVIOUS
<1>4. PICK on : on = {from, to}
  OBVIOUS
<1>5. Legal(steps) /\ Begin(c, on, steps) /\ on \in SUBSET Bank /\ from \in on /\ to \in on
  BY <1>2, <1>3, <1>4, CopyLegal
<1>6. \A b \in on : record[b] = intended[b] /\ record[b].outwf = OutWf(record[b])
  BY <1>5, Alone
<1>7. record \in [Bank -> Records] /\ intended \in [Bank -> Records]
  BY DEF Types, DataTypes
<1>8. PICK q : q = [record[from] EXCEPT !.outwf = OutWf(record[from])]
  OBVIOUS
<1>9. /\ q \in Records /\ q.outwf = OutWf(record[from])
      /\ \A f, s : Field(q, f, s) = Field(record[from], f, s)
  BY <1>7, <1>8, OutWfTyped, ShownTyped, SMTT(30)
<1>10. OutWf(q) = OutWf(record[from])
  BY <1>7, <1>9, OutWfOf
<1>11. intended'[to] = q /\ \A a \in Bank \ {to} : intended'[a] = intended[a]
  BY <1>2, <1>7, <1>8
<1>12. Len(steps) = 5 /\ 1 .. Len(steps) = {1, 2, 3, 4, 5}
  BY <1>3 DEF CopySteps
<1>13. \A i \in 1 .. Len(steps) : steps[i].how = "copied" /\ steps[i].bank = to
                                  /\ steps[i].arg = from
  BY <1>3, <1>12 DEF CopySteps, Copied
<1>14. /\ steps[1].field = "fir" /\ steps[1].source = "fir"
       /\ steps[2].field = "enable" /\ steps[2].source = "fir"
       /\ steps[3].field = "gain" /\ steps[3].source = "fir"
       /\ steps[4].field = "enable" /\ steps[4].source = "nco"
       /\ steps[5].field = "gain" /\ steps[5].source = "nco"
  BY <1>3 DEF CopySteps, Copied
<1>15. Confined(steps, on)
  BY <1>4, <1>13 DEF Confined
<1>16. ASSUME NEW i \in 1 .. Len(steps) PROVE Later(steps[i])' = Wanted(steps[i])'
  <2>1. PICK w : w = steps[i]
    OBVIOUS
  <2>2. w.how = "copied" /\ w.bank = to /\ w.arg = from
    BY <1>13, <2>1
  <2>3. Later(w)' = Field(record[from], w.field, w.source)
    BY <2>2 DEF Later
  <2>4. Wanted(w)' = Field(q, w.field, w.source)
    BY <1>11, <2>2 DEF Wanted
  <2>5. QED BY <1>9, <2>1, <2>3, <2>4
<1>17. ASSUME NEW f \in FieldName, NEW s \in Source
       PROVE  \E i \in 1 .. Len(steps) : /\ steps[i].bank = to
                                         /\ SameField(steps[i].field, steps[i].source, f, s)
  <2>1. f \in {"fir", "enable", "gain"} /\ s \in {"fir", "nco"}
    BY DEF FieldName, Source
  <2>2. \E i \in {1, 2, 3, 4, 5} : SameField(steps[i].field, steps[i].source, f, s)
    BY <1>14, <2>1 DEF SameField
  <2>3. QED BY <1>12, <1>13, <2>2
<1>18. ASSUME NEW b \in on
       PROVE  /\ \A f \in FieldName, s \in Source :
                   \/ Field(record'[b], f, s) = Field(intended'[b], f, s)
                   \/ \E i \in 1 .. Len(steps) :
                        /\ steps[i].bank = b
                        /\ SameField(steps[i].field, steps[i].source, f, s)
              /\ record'[b].outwf = OutWf(record'[b])
              /\ intended'[b].outwf = OutWf(intended'[b])
  <2>1. CASE b = to
    BY <1>6, <1>9, <1>10, <1>11, <1>17, <2>1
  <2>2. CASE b # to
    BY <1>6, <1>11, <2>2, <1>5
  <2>3. QED BY <2>1, <2>2
<1>19. Effect(on, steps)
  <2>1. \A b \in Bank \ on : record'[b] = record[b] /\ intended'[b] = intended[b]
                             /\ bunchSet'[b] = bunchSet[b]
    BY <1>5, <1>11
  <2>2. QED BY <1>15, <1>16, <1>18, <2>1 DEF Effect
<1>20. QED BY <1>5, <1>19, CrossBegin

LEMMA CrossSelect ==
  ASSUME Types, CrossInv, NEW c \in BankClients, ~crossed', SelectBunches(c)
  PROVE  CrossInv'
<1>1. PICK b \in Bank, set \in BunchInput :
        /\ Begin(c, {b}, <<>>)
        /\ bunchSet' = [bunchSet EXCEPT ![b] = set]
        /\ UNCHANGED <<record, intended>>
  BY DEF SelectBunches
<1>2. {b} \in SUBSET Bank
  OBVIOUS
<1>3. record[b] = intended[b] /\ record[b].outwf = OutWf(record[b])
  BY <1>1, <1>2, Alone
<1>4. \A a \in Bank \ {b} : bunchSet'[a] = bunchSet[a]
  BY <1>1 DEF Types, DataTypes
<1>5. 1 .. Len(<<>>) = {}
  OBVIOUS
<1>6. Effect({b}, <<>>)
  BY <1>1, <1>3, <1>4, <1>5 DEF Effect, Confined
<1>7. QED BY <1>1, <1>2, <1>6, EmptyLegal, CrossBegin

LEMMA CrossNext ==
  ASSUME Types, Types', CrossInv, [BankNext]_bankVars
  PROVE  CrossInv'
<1>1. CASE UNCHANGED bankVars
  <2>1. UNCHANGED <<record, intended, bunchSet, stage, work, held, banks, crossed>>
    BY <1>1 DEF bankVars
  <2>2. \A d \in BankClients : Good(d) => Good(d)'
    BY <2>1, GoodStays
  <2>3. \A b \in Bank : Fine(b) => Fine(b)'
    BY <2>1 DEF Fine, Owed, OutOwed, Pending
  <2>4. Apart => Apart'
    BY <2>1 DEF Apart
  <2>5. QED BY <2>1, <2>2, <2>3, <2>4 DEF CrossInv
<1>2. ASSUME NEW c \in BankClients, Operate(c) PROVE CrossInv'
  <2>1. CASE crossed'
    BY <2>1 DEF CrossInv
  <2>2. CASE ~crossed'
    BY <1>2, <2>2, CrossOne, CrossReset, CrossCopy, CrossOut, CrossSelect DEF Operate
  <2>3. QED BY <2>1, <2>2
<1>3. QED BY <1>1, <1>2, CrossRead, CrossEdit, CrossPut, CrossGather, CrossHw,
     CrossShow DEF BankNext

\* At first every record has been processed.
LEMMA BankStart ==
  ASSUME BankInit
  PROVE  LockInv /\ ConfigInv /\ HwInv /\ CrossInv
<1> DEFINE rec0 == [enable |-> [s \in Source |-> [i \in Bunch |-> i = 0]],
              gain |-> [s \in Source |-> [i \in Bunch |-> 1]],
              fir |-> [i \in Bunch |-> i % 4],
              outwf |-> [i \in Bunch |-> IF i = 0 THEN Source ELSE {}]]
<1>1. /\ record = [b \in Bank |-> rec0] /\ intended = record
      /\ config = [b \in Bank |-> ConfigOf(rec0)]
      /\ bankHw = [a \in Axes |-> config]
      /\ dspLock = [a \in Axes |-> Free]
      /\ work = [c \in BankClients |-> <<>>]
      /\ stage = [c \in BankClients |-> "idle"]
      /\ word = [c \in BankClients |-> [axis |-> 0, at |-> 0]]
      /\ overtaken = FALSE
  BY DEF BankInit
<1>2. rec0.outwf = OutWf(rec0)
  <2>1. ASSUME NEW i \in Bunch
        PROVE  {s \in Source : rec0.enable[s][i]} = IF i = 0 THEN Source ELSE {}
    OBVIOUS
  <2>2. OutWf(rec0) = [i \in Bunch |-> IF i = 0 THEN Source ELSE {}]
    BY <2>1 DEF OutWf
  <2>3. QED BY <2>2
<1> HIDE DEF rec0
<1>3. Types
  BY TypesInit
<1>4. LockInv
  BY <1>1, BankAssumption DEF LockInv
<1>5. ConfigInv
  <2>1. /\ ConfigOf(rec0).fir = Offset(rec0.fir, FirOffset)
        /\ ConfigOf(rec0).enable = Mixed(rec0, "fir").enable
        /\ \A s \in Source : ConfigOf(rec0).gain[s] = Mixed(rec0, s).gain
    BY DEF ConfigOf
  <2>2. QED BY <1>1, <2>1 DEF ConfigInv, SourceFits, Field
<1>6. HwInv
  BY <1>1 DEF HwInv, Written
<1>7. Apart /\ \A c \in BankClients : Good(c)
  <2>1. \A c \in BankClients : work[c] = <<>> /\ stage[c] = "idle" /\ 1 .. Len(work[c]) = {}
    BY <1>1
  <2>2. QED BY <2>1 DEF Apart, Good, Confined
<1>8. \A b \in Bank : Fine(b)
  BY <1>1, <1>2 DEF Fine
<1>9. QED BY <1>4, <1>5, <1>6, <1>7, <1>8 DEF CrossInv

\* The bank in the hardware is that of the records, unless gains computed
\* before a change of their source were stored last, and the records are what
\* the operations on them were meant to give, unless two have met on the bank:
\* each axis is written under its lock after the configuration
\* (hw_write_bunch_config), and an operation that writes several records does
\* all of them (copy_bank_from_to, write_out_wf).
THEOREM BanksHold == BankSpec => []BanksCorrect
<1> DEFINE I == Types /\ LockInv /\ ConfigInv /\ HwInv /\ CrossInv
<1>1. BankInit => I
  BY TypesInit, BankStart
<1>2. I /\ [BankNext]_bankVars => I'
  BY TypesNext, LockNext, ConfigNext, HwNext, CrossNext
<1>3. I => BanksCorrect
  BY HwIsRight, AtomicNow DEF BanksCorrect
<1> HIDE DEF I
<1>4. QED BY <1>1, <1>2, <1>3, PTL DEF BankSpec

=============================================================================
