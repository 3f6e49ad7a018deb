-------------------------- MODULE ValidationProofs --------------------------
(* Proofs about Validation, for any catalog, any lengths and any items.    *)
EXTENDS Validation, FiniteSetTheorems, FunctionTheorems, TLAPS

USE DEF LOW, MEDIUM, HIGH, NoSeverity, Ranks

Sentences == [index : Indices, start : 1..TotalLines, end : 1..TotalLines,
              effort : Ranks, clamped : BOOLEAN, advisory : BOOLEAN]

\* What the judge's first loop leaves behind.
NoneMissing == Judged => Missing = {}

Inv ==
  /\ TypeOK
  /\ ChargesAreSound
  /\ DefenseSpeaks
  /\ NoneMissing
  /\ SentencesFit

-----------------------------------------------------------------------------
(* The operators *)

\* A charge that is added has the fields of a charge and stays within one step
\* of its rule's severity, whether its adjustment is kept or undone.
LEMMA AsChargedSound ==
  ASSUME NEW item \in RawCharges, Admissible(item)
  PROVE  /\ AsCharged(item) \in Charges
         /\ AsCharged(item).rule = item.rule /\ AsCharged(item).start = item.start
         /\ AsCharged(item).start <= AsCharged(item).end
         /\ WithinOneStep(AsCharged(item).severity, Default[item.rule])
  <1>1. /\ item.start \in Int /\ item.end \in Int /\ item.severity \in Ranks
        /\ item.adjusted \in BOOLEAN /\ item.reasoned \in BOOLEAN
    BY ItemsAssumption
  <1>2. item.rule \in Rules /\ Default[item.rule] \in Ranks
    BY CatalogAssumption DEF Admissible
  <1>3. /\ item.start \in 1..TotalLines /\ item.end \in 1..TotalLines
        /\ item.start <= item.end
    BY <1>1, LengthsAssumption DEF Admissible, InRange
  <1>4. AsCharged(item).severity \in {item.severity, Default[item.rule]}
    BY DEF AsCharged
  <1>5. WithinOneStep(AsCharged(item).severity, Default[item.rule])
    BY <1>1, <1>2, <1>4 DEF Admissible, WithinOneStep
  <1>6. AsCharged(item).adjusted \in BOOLEAN
    BY <1>1 DEF AsCharged
  <1>7. AsCharged(item) \in Charges
    BY <1>1, <1>2, <1>3, <1>4, <1>6 DEF AsCharged, Charges
  <1> QED
    BY <1>3, <1>5, <1>7 DEF AsCharged

\* A truncated indictment takes each of its charges from a place of its own.
LEMMA IndictmentSelects ==
  ASSUME NEW s \in Seq(Charges), NEW t \in Indictments(s)
  PROVE  /\ t \in Seq(Charges) /\ Len(t) <= MAX_CHARGES
         /\ Len(t) = 0 <=> Len(s) = 0
         /\ \E f \in [DOMAIN t -> DOMAIN s] :
              \A j, k \in DOMAIN t : t[k] = s[f[k]] /\ (f[j] = f[k] => j = k)
  <1>0. MAX_CHARGES \in Nat \ {0}
    BY LengthsAssumption
  <1>1. CASE Len(s) > MAX_CHARGES
    <2>1. PICK f \in GravestFirst(s) : t = [k \in 1..MAX_CHARGES |-> s[f[k]]]
      BY <1>1 DEF Indictments
    <2>2. f \in [DOMAIN s -> DOMAIN s] /\ DOMAIN s = 1..Len(s) /\ Len(s) \in Nat
      BY DEF GravestFirst
    <2>3. \A k \in 1..MAX_CHARGES : k \in DOMAIN s /\ f[k] \in DOMAIN s /\ s[f[k]] \in Charges
      BY <1>0, <1>1, <2>2
    <2>4. t \in [1..MAX_CHARGES -> Charges]
      BY <2>1, <2>3
    <2>5. t \in Seq(Charges) /\ Len(t) = MAX_CHARGES /\ DOMAIN t = 1..MAX_CHARGES
      BY <1>0, <2>4
    <2>6. \A j, k \in DOMAIN s : j < k => f[j] # f[k]
      <3> SUFFICES ASSUME NEW j \in DOMAIN s, NEW k \in DOMAIN s, j < k, f[j] = f[k]
                   PROVE  FALSE
        OBVIOUS
      <3>1. s[f[k]] \in Charges /\ f[k] \in Nat
        BY <2>2
      <3>2. s[f[k]].severity \in Ranks
        BY <3>1 DEF Charges
      <3> QED
        BY <3>1, <3>2 DEF GravestFirst
    <2>7. \A j, k \in 1..MAX_CHARGES : f[j] = f[k] => j = k
      BY <1>0, <2>2, <2>3, <2>6
    <2>8. [k \in 1..MAX_CHARGES |-> f[k]] \in [DOMAIN t -> DOMAIN s]
      BY <2>3, <2>5
    <2> QED
      <3> DEFINE g == [k \in 1..MAX_CHARGES |-> f[k]]
      <3>1. \A j, k \in DOMAIN t : t[k] = s[g[k]] /\ (g[j] = g[k] => j = k)
        BY <2>1, <2>5, <2>7
      <3> HIDE DEF g
      <3>2. \E h \in [DOMAIN t -> DOMAIN s] :
              \A j, k \in DOMAIN t : t[k] = s[h[k]] /\ (h[j] = h[k] => j = k)
        BY <2>8, <3>1, Zenon DEF g
      <3>3. Len(t) <= MAX_CHARGES /\ (Len(t) = 0 <=> Len(s) = 0)
        BY <1>0, <1>1, <2>2, <2>5
      <3> QED
        BY <2>5, <3>2, <3>3
  <1>2. CASE ~(Len(s) > MAX_CHARGES)
    <2>1. t = s
      BY <1>2 DEF Indictments
    <2>2. Len(s) \in Nat /\ Len(t) <= MAX_CHARGES
      BY <1>0, <1>2, <2>1
    <2> DEFINE g == [k \in DOMAIN s |-> k]
    <2>3. g \in [DOMAIN t -> DOMAIN s]
      BY <2>1
    <2>4. \A j, k \in DOMAIN t : t[k] = s[g[k]] /\ (g[j] = g[k] => j = k)
      BY <2>1
    <2> QED
      BY <2>1, <2>2, <2>3, <2>4
  <1> QED
    BY <1>1, <1>2

\* Of two charges one goes before the other, and three are in line.
LEMMA ChargesAreOrdered ==
  ASSUME NEW s \in Seq(Charges)
  PROVE  \A i, j, k \in DOMAIN s :
           /\ ~ GoesBefore(s, i, i)
           /\ ~ (GoesBefore(s, i, j) /\ GoesBefore(s, j, i))
           /\ i # j => GoesBefore(s, i, j) \/ GoesBefore(s, j, i)
           /\ GoesBefore(s, i, j) /\ GoesBefore(s, j, k) => GoesBefore(s, i, k)
  <1> SUFFICES ASSUME NEW i \in DOMAIN s, NEW j \in DOMAIN s, NEW k \in DOMAIN s
               PROVE  /\ ~ GoesBefore(s, i, i)
                      /\ ~ (GoesBefore(s, i, j) /\ GoesBefore(s, j, i))
                      /\ i # j => GoesBefore(s, i, j) \/ GoesBefore(s, j, i)
                      /\ GoesBefore(s, i, j) /\ GoesBefore(s, j, k) => GoesBefore(s, i, k)
    OBVIOUS
  <1>1. i \in Int /\ j \in Int /\ k \in Int /\ s[i] \in Charges /\ s[j] \in Charges /\ s[k] \in Charges
    OBVIOUS
  <1>2. s[i].severity \in Int /\ s[j].severity \in Int /\ s[k].severity \in Int
    BY <1>1 DEF Charges
  <1> QED
    BY <1>1, <1>2 DEF GoesBefore

\* Places are counted by finite sets.
LEMMA PlacesAreCounted ==
  ASSUME NEW s \in Seq(Charges), NEW k \in DOMAIN s
  PROVE  /\ DOMAIN s = 1 .. Len(s) /\ Len(s) \in Nat
         /\ IsFiniteSet(DOMAIN s) /\ Cardinality(DOMAIN s) = Len(s)
         /\ IsFiniteSet({j \in DOMAIN s : GoesBefore(s, j, k)})
         /\ Place(s, k) \in DOMAIN s
  <1> DEFINE ahead == {j \in DOMAIN s : GoesBefore(s, j, k)}
  <1>1. DOMAIN s = 1 .. Len(s) /\ Len(s) \in Nat
    OBVIOUS
  <1>2. IsFiniteSet(DOMAIN s) /\ Cardinality(DOMAIN s) = Len(s)
    <2>1. \A n \in Nat : IsFiniteSet(1 .. n) /\ Cardinality(1 .. n) = n
      BY FS_Interval
    <2> QED
      BY <1>1, <2>1
  <1>3. ahead \in SUBSET DOMAIN s /\ ahead # DOMAIN s
    BY ChargesAreOrdered
  <1>4. IsFiniteSet(ahead) /\ Cardinality(ahead) \in Nat /\ Cardinality(ahead) <= Len(s)
    <2> HIDE DEF ahead
    <2> QED
      BY <1>2, <1>3, FS_Subset, FS_CardinalityType
  <1>5. Cardinality(ahead) # Len(s)
    <2> HIDE DEF ahead
    <2> QED
      BY <1>2, <1>3, FS_Subset
  <1> QED
    BY <1>1, <1>2, <1>4, <1>5 DEF Place

\* In a list sorted as GravestFirst says, every charge stands at its place.
LEMMA SortedByPlace ==
  ASSUME NEW s \in Seq(Charges), NEW f \in GravestFirst(s)
  PROVE  /\ f \in [DOMAIN s -> DOMAIN s]
         /\ \A k \in DOMAIN s : \E m \in DOMAIN s : f[m] = k
         /\ \A m \in DOMAIN s : Place(s, f[m]) = m
  <1> DEFINE D == DOMAIN s
  <1>1. f \in [D -> D] /\ \A i, j \in D : i < j => GoesBefore(s, f[i], f[j])
    BY DEF GravestFirst, GoesBefore
  <1>2. D = 1 .. Len(s) /\ Len(s) \in Nat /\ IsFiniteSet(D)
    BY FS_Interval
  <1> HIDE DEF D
  <1>3. \A i, j \in D : f[i] = f[j] => i = j
    <2> SUFFICES ASSUME NEW i \in D, NEW j \in D, f[i] = f[j], i # j PROVE FALSE
      OBVIOUS
    <2>1. i < j \/ j < i
      BY <1>2
    <2> QED
      BY <1>1, <2>1, ChargesAreOrdered DEF D
  <1>4. \A k \in D : \E m \in D : f[m] = k
    <2>1. f \in Injection(D, D)
      BY <1>1, <1>3 DEF Injection, IsInjective
    <2>2. f \in Surjection(D, D)
      BY <1>2, <2>1, FS_Injection
    <2> QED
      BY <2>2 DEF Surjection
  <1>5. ASSUME NEW m \in D PROVE Place(s, f[m]) = m
    <2> DEFINE ahead == {j \in D : GoesBefore(s, j, f[m])}
               g == [i \in 1 .. m - 1 |-> f[i]]
    <2>1. m \in Nat \ {0} /\ 1 .. m - 1 \subseteq D /\ f[m] \in D
      BY <1>1, <1>2
    <2>2. \A i \in 1 .. m - 1 : g[i] = f[i] /\ f[i] \in ahead
      BY <1>1, <1>2, <2>1
    <2>3. \A j \in ahead : \E i \in 1 .. m - 1 : g[i] = j
      <3> SUFFICES ASSUME NEW j \in D, GoesBefore(s, j, f[m])
                   PROVE  \E i \in 1 .. m - 1 : g[i] = j
        OBVIOUS
      <3>1. PICK i \in D : f[i] = j
        BY <1>4
      <3>2. i # m /\ ~ (m < i)
        BY <1>1, <2>1, <3>1, ChargesAreOrdered DEF D
      <3>3. i \in 1 .. m - 1
        BY <1>2, <2>1, <3>2
      <3> QED
        BY <3>1, <3>3
    <2>4. \A i, j \in 1 .. m - 1 : g[i] = g[j] => i = j
      BY <1>3, <2>1, <2>2
    <2>5. ExistsBijection(1 .. m - 1, ahead)
      <3>1. g \in [1 .. m - 1 -> ahead]
        BY <2>2
      <3> HIDE DEF g, ahead
      <3> QED
        BY <2>3, <2>4, <3>1 DEF ExistsBijection, Bijection, Injection, Surjection, IsInjective
    <2>6. IsFiniteSet(1 .. m - 1) /\ Cardinality(1 .. m - 1) = m - 1
      BY <2>1, FS_Interval
    <2>7. Cardinality(ahead) = m - 1
      <3> HIDE DEF ahead
      <3> QED
        BY <2>5, <2>6, FS_Bijection
    <2> QED
      BY <2>1, <2>7 DEF Place, D
  <1> QED
    BY <1>1, <1>4, <1>5 DEF D

\* Graver charges have smaller places, so no two have the same.
LEMMA PlacesDiffer ==
  ASSUME NEW s \in Seq(Charges), NEW j \in DOMAIN s, NEW k \in DOMAIN s
  PROVE  /\ GoesBefore(s, j, k) => Place(s, j) < Place(s, k)
         /\ Place(s, j) = Place(s, k) => j = k
  <1> DEFINE ahead(i) == {m \in DOMAIN s : GoesBefore(s, m, i)}
  <1>1. ASSUME NEW x \in DOMAIN s, NEW y \in DOMAIN s, GoesBefore(s, x, y)
        PROVE  Place(s, x) < Place(s, y)
    <2>1. ahead(x) \in SUBSET ahead(y) /\ x \in ahead(y) /\ x \notin ahead(x)
      BY <1>1, ChargesAreOrdered
    <2>2. IsFiniteSet(ahead(x)) /\ IsFiniteSet(ahead(y))
      BY PlacesAreCounted
    <2>3. Place(s, x) = 1 + Cardinality(ahead(x)) /\ Place(s, y) = 1 + Cardinality(ahead(y))
      BY DEF Place
    <2> HIDE DEF ahead
    <2>4. /\ Cardinality(ahead(x)) \in Nat /\ Cardinality(ahead(y)) \in Nat
          /\ Cardinality(ahead(x)) <= Cardinality(ahead(y))
          /\ Cardinality(ahead(x)) # Cardinality(ahead(y))
      BY <2>1, <2>2, FS_Subset, FS_CardinalityType
    <2> QED
      BY <2>3, <2>4
  <1>2. Place(s, j) \in Nat /\ Place(s, k) \in Nat
    <2>1. \A i \in DOMAIN s : Place(s, i) \in 1 .. Len(s) /\ Len(s) \in Nat
      BY PlacesAreCounted
    <2> QED
      BY <2>1
  <1> QED
    BY <1>1, <1>2, ChargesAreOrdered

\* Every list has an order by severity.
LEMMA SortExists ==
  ASSUME NEW s \in Seq(Charges)
  PROVE  GravestFirst(s) # {}
  <1> DEFINE D == DOMAIN s
             place == [k \in D |-> Place(s, k)]
             f == [m \in D |-> CHOOSE k \in D : Place(s, k) = m]
  <1>1. D = 1 .. Len(s) /\ Len(s) \in Nat /\ IsFiniteSet(D) /\ \A k \in D : Place(s, k) \in D
    <2>1. DOMAIN s = 1 .. Len(s) /\ Len(s) \in Nat
      OBVIOUS
    <2>2. IsFiniteSet(1 .. Len(s))
      BY <2>1, FS_Interval
    <2> QED
      BY <2>1, <2>2, PlacesAreCounted
  <1>2. \A m \in D : \E k \in D : Place(s, k) = m
    <2>1. place \in [D -> D] /\ \A j, k \in D : place[j] = place[k] => j = k
      BY <1>1, PlacesDiffer
    <2>2. \A m \in D : \E k \in D : place[k] = m
      <3> HIDE DEF place, D
      <3>1. place \in Injection(D, D)
        BY <2>1 DEF Injection, IsInjective
      <3>2. place \in Surjection(D, D)
        BY <1>1, <3>1, FS_Injection
      <3> QED
        BY <3>2 DEF Surjection
    <2> QED
      BY <2>2
  <1>3. \A m \in D : f[m] \in D /\ Place(s, f[m]) = m
    BY <1>2
  <1>4. f \in [D -> D]
    BY <1>3
  <1> HIDE DEF f
  <1>5. \A j, k \in D : j < k => GoesBefore(s, f[j], f[k])
    <2> SUFFICES ASSUME NEW j \in D, NEW k \in D, j < k
                 PROVE  GoesBefore(s, f[j], f[k])
      OBVIOUS
    <2>1. f[j] \in D /\ f[k] \in D /\ Place(s, f[j]) = j /\ Place(s, f[k]) = k /\ j \in Int /\ k \in Int
      BY <1>1, <1>3
    <2>2. f[j] # f[k] /\ ~ GoesBefore(s, f[k], f[j])
      BY <2>1, PlacesDiffer
    <2> QED
      BY <2>1, <2>2, ChargesAreOrdered
  <1> QED
    BY <1>4, <1>5 DEF GravestFirst, GoesBefore

\* What validate_prosecution makes of its charges is one list: the stable sort
\* exists, and there is no other.
LEMMA IndictmentIsOne ==
  ASSUME NEW s \in Seq(Charges)
  PROVE  \E t : Indictments(s) = {t}
  <1>1. CASE Len(s) > MAX_CHARGES
    <2>1. PICK f : f \in GravestFirst(s)
      BY SortExists
    <2>2. \A g \in GravestFirst(s) : g = f
      <3> SUFFICES ASSUME NEW g \in GravestFirst(s) PROVE g = f
        OBVIOUS
      <3>1. \A m \in DOMAIN s : Place(s, g[m]) = Place(s, f[m]) /\ g[m] \in DOMAIN s /\ f[m] \in DOMAIN s
        BY <2>1, SortedByPlace
      <3>2. \A m \in DOMAIN s : g[m] = f[m]
        BY <3>1, PlacesDiffer
      <3>3. f \in [DOMAIN s -> DOMAIN s] /\ g \in [DOMAIN s -> DOMAIN s]
        BY <2>1, SortedByPlace
      <3> QED
        BY <3>2, <3>3
    <2> DEFINE t == [k \in 1..MAX_CHARGES |-> s[f[k]]]
    <2>3. Indictments(s) = {t}
      BY <1>1, <2>1, <2>2 DEF Indictments
    <2> QED
      BY <2>3, Zenon
  <1>2. CASE ~ (Len(s) > MAX_CHARGES)
    BY <1>2 DEF Indictments
  <1> QED
    BY <1>1, <1>2

\* A truncated indictment is the first part of the sorted charges.
LEMMA IndictmentByPlace ==
  ASSUME NEW s \in Seq(Charges), NEW t \in Indictments(s)
  PROVE  /\ Len(t) = AtMost(Len(s), MAX_CHARGES)
         /\ Len(s) > MAX_CHARGES =>
              \A k \in DOMAIN s : Place(s, k) <= MAX_CHARGES => t[Place(s, k)] = s[k]
         /\ Len(s) <= MAX_CHARGES => t = s
  <1>1. MAX_CHARGES \in Nat \ {0} /\ Len(s) \in Nat
    BY LengthsAssumption
  <1>2. CASE Len(s) > MAX_CHARGES
    <2>1. PICK f \in GravestFirst(s) : t = [k \in 1..MAX_CHARGES |-> s[f[k]]]
      BY <1>2 DEF Indictments
    <2>2. t \in Seq(Charges) /\ Len(t) = MAX_CHARGES
      <3>1. \A k \in 1..MAX_CHARGES : k \in DOMAIN s /\ f[k] \in DOMAIN s /\ s[f[k]] \in Charges
        BY <1>1, <1>2, SortedByPlace
      <3>2. t \in [1..MAX_CHARGES -> Charges]
        BY <2>1, <3>1
      <3> QED
        BY <1>1, <3>2
    <2>3. ASSUME NEW k \in DOMAIN s, Place(s, k) <= MAX_CHARGES
          PROVE  t[Place(s, k)] = s[k]
      <3>1. PICK m \in DOMAIN s : f[m] = k
        BY SortedByPlace
      <3>2. Place(s, k) = m
        BY <3>1, SortedByPlace
      <3>3. m \in 1..MAX_CHARGES
        BY <1>1, <2>3, <3>2
      <3> QED
        BY <2>1, <3>1, <3>2, <3>3
    <2> QED
      BY <1>1, <1>2, <2>2, <2>3 DEF AtMost
  <1>3. CASE ~ (Len(s) > MAX_CHARGES)
    <2>1. t = s
      BY <1>3 DEF Indictments
    <2> QED
      BY <1>1, <1>3, <2>1 DEF AtMost
  <1> QED
    BY <1>2, <1>3

\* A sentence that is added is well-formed, within one step of the rule's
\* effort, and advisory only if the reduction left the severity as it was.
LEMMA AsSentencedSound ==
  ASSUME TypeOK, NoneMissing, phase = "sentences",
         NEW item \in RawSentences, item.index \in Sentenceable, InRange(item)
  PROVE  LET s == AsSentenced(item)
             i == item.index
         IN  /\ s \in Sentences /\ s.index = i
             /\ verdicts[i].verdict # "DISMISSED"
             /\ WithinOneStep(s.effort, Typical[charges[i + 1].rule])
             /\ s.advisory <=>
                  verdicts[i].verdict = "REDUCED" /\ verdicts[i].severity = charges[i + 1].severity
  <1> DEFINE i == item.index
             charge == charges[i + 1]
             typical == Typical[charge.rule]
  <1>1. /\ item.start \in Int /\ item.end \in Int /\ item.effort \in Ranks
        /\ item.adjusted \in BOOLEAN /\ item.reasoned \in BOOLEAN
    BY ItemsAssumption
  <1>2. i \in Indices /\ charge \in Charges
    BY DEF Sentenceable, Indices, TypeOK
  <1>3. typical \in Ranks /\ charge.severity \in Ranks
    BY <1>2, CatalogAssumption DEF Charges
  <1>4. verdicts[i] \in RawVerdicts /\ Valid(verdicts[i], charge.severity)
    BY <1>2 DEF TypeOK, NoneMissing, Judged, Missing
  <1>5. verdicts[i].verdict \in {"SUSTAINED", "REDUCED"}
    BY DEF Sentenceable
  <1>6. item.start \in 1..TotalLines /\ item.end \in 1..TotalLines
    BY <1>1, LengthsAssumption DEF InRange
  <1>7. Effort(item, typical) \in Ranks /\ WithinOneStep(Effort(item, typical), typical)
    BY <1>1, <1>3 DEF Effort, Clamp, AtMost, AtLeast, WithinOneStep
  <1>8. Advisory(i) <=> verdicts[i].verdict = "REDUCED" /\ verdicts[i].severity = charge.severity
    BY <1>3, <1>4, <1>5 DEF Advisory, Valid
  <1>9. AsSentenced(item) =
          [index |-> i, start |-> item.start, end |-> item.end,
           effort |-> Effort(item, typical),
           clamped |-> ~Baseless(item) /\ Effort(item, typical) # item.effort,
           advisory |-> Advisory(i)]
    BY DEF AsSentenced
  <1>10. Advisory(i) \in BOOLEAN
    BY DEF Advisory
  <1>11. AsSentenced(item) \in Sentences
    BY <1>2, <1>6, <1>7, <1>9, <1>10 DEF Sentences
  <1> QED
    BY <1>5, <1>7, <1>8, <1>9, <1>11

-----------------------------------------------------------------------------
(* The steps *)

LEMMA InitInv == Init => Inv
  <1> SUFFICES ASSUME Init PROVE Inv
    OBVIOUS
  <1>1. /\ phase = "charges" /\ read = 0 /\ truncated = FALSE
        /\ charges = <<>> /\ sentences = <<>>
    BY DEF Init
  <1>2. charges \in Seq(Charges) /\ sentences \in Seq(Sentences)
    BY <1>1
  <1>3. TypeOK
    BY <1>1, <1>2 DEF TypeOK, Judged, Phases, Loops, Sentences
  <1>4. DOMAIN charges = {} /\ DOMAIN sentences = {}
    BY <1>1
  <1>5. ChargesAreSound /\ SentencesFit
    BY <1>1, <1>4 DEF ChargesAreSound, SentencesFit
  <1>6. DefenseSpeaks /\ NoneMissing
    BY <1>1 DEF DefenseSpeaks, NoneMissing, Judged
  <1> QED
    BY <1>3, <1>5, <1>6 DEF Inv

LEMMA StutterInv == Inv /\ UNCHANGED vars => Inv'
  BY DEF vars, Inv, TypeOK, ChargesAreSound, DefenseSpeaks, NoneMissing, SentencesFit,
         Judged, Missing, Indices

\* While charges are read, only the charges can go wrong.
LEMMA ReadChargeInv ==
  ASSUME Inv, NEW item \in RawCharges, ReadCharge(item)
  PROVE  Inv'
  <1>1. /\ phase = "charges" /\ phase' = "charges" /\ read' \in Nat
        /\ sentences = <<>> /\ sentences' = <<>> /\ truncated' \in BOOLEAN
    BY DEF ReadCharge, NextItem, Inv, TypeOK, Judged
  <1>2. charges \in Seq(Charges) /\ ChargesAreSound
    BY DEF Inv, TypeOK
  <1>3. /\ charges' \in Seq(Charges)
        /\ ChargesAreSound'
    <2>1. CASE charges' = charges
      BY <1>1, <1>2, <2>1 DEF ChargesAreSound
    <2>2. CASE charges' # charges
      <3> DEFINE c == AsCharged(item)
      <3>1. charges' = Append(charges, c) /\ Admissible(item) /\ ~Repeated(item)
        BY <2>2 DEF ReadCharge
      <3>2. /\ c \in Charges /\ c.rule = item.rule /\ c.start = item.start
            /\ c.start <= c.end /\ WithinOneStep(c.severity, Default[item.rule])
        BY <3>1, AsChargedSound
      <3>3. \A k \in DOMAIN charges : ~(charges[k].rule = c.rule /\ charges[k].start = c.start)
        BY <3>1, <3>2 DEF Repeated
      <3> HIDE DEF c
      <3>4. /\ charges' \in Seq(Charges)
            /\ DOMAIN charges' = DOMAIN charges \union {Len(charges) + 1}
            /\ charges'[Len(charges) + 1] = c
            /\ \A k \in DOMAIN charges : charges'[k] = charges[k]
        BY <1>2, <3>1, <3>2
      <3>5. \A k \in DOMAIN charges' :
              charges'[k].start <= charges'[k].end
                /\ WithinOneStep(charges'[k].severity, Default[charges'[k].rule])
        BY <1>2, <3>2, <3>4 DEF ChargesAreSound
      <3>6. ASSUME NEW j \in DOMAIN charges', NEW k \in DOMAIN charges',
                   charges'[j].rule = charges'[k].rule, charges'[j].start = charges'[k].start
            PROVE  j = k
        BY <1>2, <3>3, <3>4, <3>6 DEF ChargesAreSound
      <3> QED
        BY <1>1, <3>4, <3>5, <3>6 DEF ChargesAreSound
    <2> QED
      BY <2>1, <2>2
  <1>4. TypeOK'
    BY <1>1, <1>3 DEF TypeOK, Judged, Phases, Loops
  <1>5. DefenseSpeaks' /\ NoneMissing' /\ SentencesFit'
    BY <1>1 DEF DefenseSpeaks, NoneMissing, SentencesFit, Judged
  <1> QED
    BY <1>3, <1>4, <1>5 DEF Inv

LEMMA EndProsecutionInv ==
  ASSUME Inv, EndProsecution
  PROVE  Inv'
  <1>1. /\ phase = "charges" /\ phase' \in {"pleas", "DISMISSED"} /\ read' = 0
        /\ sentences = <<>> /\ sentences' = <<>> /\ truncated' \in BOOLEAN
    BY DEF EndProsecution, Inv, TypeOK, Judged
  <1>2. charges \in Seq(Charges) /\ ChargesAreSound /\ charges' \in Indictments(charges)
    BY DEF EndProsecution, Inv, TypeOK
  <1>3. charges' \in Seq(Charges) /\ Len(charges') <= MAX_CHARGES
    BY <1>2, IndictmentSelects
  <1>4. PICK f \in [DOMAIN charges' -> DOMAIN charges] :
          \A j, k \in DOMAIN charges' :
            charges'[k] = charges[f[k]] /\ (f[j] = f[k] => j = k)
    BY <1>2, IndictmentSelects
  <1>5. ChargesAreSound'
    <2>1. \A k \in DOMAIN charges' :
            charges'[k].start <= charges'[k].end
              /\ WithinOneStep(charges'[k].severity, Default[charges'[k].rule])
      BY <1>2, <1>4 DEF ChargesAreSound
    <2>2. \A j, k \in DOMAIN charges' :
            charges'[j].rule = charges'[k].rule /\ charges'[j].start = charges'[k].start => j = k
      BY <1>2, <1>4 DEF ChargesAreSound
    <2> QED
      BY <1>3, <2>1, <2>2 DEF ChargesAreSound
  <1>6. phase' = "pleas" => pleas' \in [Indices' -> PleaValues \union {Unanswered}]
    BY DEF EndProsecution, Indices
  <1> QED
    BY <1>1, <1>3, <1>5, <1>6
    DEF Inv, TypeOK, DefenseSpeaks, NoneMissing, SentencesFit, Judged, Phases, Loops

LEMMA RetryProsecutionInv ==
  ASSUME Inv, RetryProsecution
  PROVE  Inv'
  BY DEF RetryProsecution, Inv, TypeOK, ChargesAreSound, DefenseSpeaks, NoneMissing,
         SentencesFit, Judged

\* From the defense on the charges stay as they are.
LEMMA ChargesKept ==
  ASSUME Inv, UNCHANGED charges, phase # "charges", phase' # "charges"
  PROVE  Indices' = Indices /\ ChargesAreSound' /\ charges' \in Seq(Charges)
  BY DEF Inv, TypeOK, ChargesAreSound, Indices

LEMMA DefenseInv ==
  ASSUME Inv, (\E item \in RawPleas : ReadPlea(item)) \/ EndDefense \/ RetryDefense
  PROVE  Inv'
  <1>1. /\ phase = "pleas" /\ phase' \in {"pleas", "verdicts"} /\ read' \in Nat
        /\ UNCHANGED charges /\ sentences = <<>> /\ sentences' = <<>> /\ truncated' \in BOOLEAN
        /\ pleas \in [Indices -> PleaValues \union {Unanswered}]
    BY DEF ReadPlea, EndDefense, RetryDefense, NextItem, Inv, TypeOK, Judged
  <1>2. Indices' = Indices /\ ChargesAreSound' /\ charges' \in Seq(Charges)
    BY <1>1, ChargesKept
  <1>3. phase' = "pleas" => pleas' \in [Indices -> PleaValues \union {Unanswered}]
    BY <1>1, ItemsAssumption DEF ReadPlea, EndDefense, RetryDefense, Counts
  <1>4. phase' = "verdicts" =>
          /\ pleas' \in [Indices -> PleaValues]
          /\ verdicts' \in [Indices -> RawVerdicts \union {Unanswered}]
          /\ \E i \in Indices : pleas'[i] \in {"ADMIT", "DENY"}
    <2> SUFFICES ASSUME phase' = "verdicts"
                 PROVE  /\ pleas' \in [Indices -> PleaValues]
                        /\ verdicts' \in [Indices -> RawVerdicts \union {Unanswered}]
                        /\ \E i \in Indices : pleas'[i] \in {"ADMIT", "DENY"}
      OBVIOUS
    <2>1. /\ ~Silent(pleas) /\ pleas' = Filled(pleas)
          /\ verdicts' = [i \in Indices |-> Unanswered]
      BY <1>1 DEF ReadPlea, EndDefense, RetryDefense
    <2>2. pleas' \in [Indices -> PleaValues]
      BY <1>1, <2>1 DEF Filled, PleaValues
    <2>3. PICK i \in Indices : pleas'[i] # "NO_RESPONSE"
      BY <2>1 DEF Silent
    <2> QED
      BY <2>1, <2>2, <2>3 DEF PleaValues
  <1> QED
    BY <1>1, <1>2, <1>3, <1>4
    DEF Inv, TypeOK, DefenseSpeaks, NoneMissing, SentencesFit, Judged, Phases, Loops

LEMMA VerdictsInv ==
  ASSUME Inv, (\E item \in RawVerdicts : ReadVerdict(item)) \/ EndVerdicts \/ RetryJudgment
  PROVE  Inv'
  <1>1. /\ phase \in {"verdicts", "sentences"} /\ phase' \in {"verdicts", "sentences"}
        /\ phase' = "sentences" => EndVerdicts
        /\ read' \in Nat /\ UNCHANGED <<charges, pleas>> /\ truncated' \in BOOLEAN
        /\ sentences' = <<>>
    BY DEF ReadVerdict, EndVerdicts, RetryJudgment, NextItem, Inv, TypeOK, Judged
  <1>2. Indices' = Indices /\ ChargesAreSound' /\ charges' \in Seq(Charges)
    BY <1>1, ChargesKept
  <1>3. /\ pleas' \in [Indices -> PleaValues]
        /\ \E i \in Indices : pleas'[i] \in {"ADMIT", "DENY"}
    BY <1>1 DEF Inv, TypeOK, DefenseSpeaks, Judged
  <1>4. phase' = "verdicts" => verdicts' \in [Indices -> RawVerdicts \union {Unanswered}]
    BY <1>1 DEF ReadVerdict, EndVerdicts, RetryJudgment, NextItem, Inv, TypeOK
  <1>5. phase' = "sentences" => verdicts' \in [Indices -> RawVerdicts] /\ Missing' = {}
    <2> SUFFICES ASSUME EndVerdicts
                 PROVE  verdicts' \in [Indices -> RawVerdicts] /\ Missing' = {}
      BY <1>1
    <2>1. /\ verdicts \in [Indices -> RawVerdicts \union {Unanswered}]
          /\ Missing = {} /\ UNCHANGED <<charges, verdicts>>
      BY DEF EndVerdicts, Inv, TypeOK
    <2>2. \A i \in Indices : verdicts[i] \in RawVerdicts
      BY <2>1 DEF Missing
    <2>3. Missing' = Missing
      BY <1>2, <2>1 DEF Missing
    <2> QED
      BY <2>1, <2>2, <2>3
  <1> QED
    BY <1>1, <1>2, <1>3, <1>4, <1>5
    DEF Inv, TypeOK, DefenseSpeaks, NoneMissing, SentencesFit, Judged, Phases, Loops

LEMMA SentencesInv ==
  ASSUME Inv, (\E item \in RawSentences : ReadSentence(item)) \/ EndJudgment
  PROVE  Inv'
  <1>1. /\ phase = "sentences" /\ phase' \in {"sentences", "SENTENCED"} /\ read' \in Nat
        /\ UNCHANGED <<charges, pleas, verdicts>> /\ truncated' \in BOOLEAN
    BY DEF ReadSentence, EndJudgment, NextItem, Inv, TypeOK
  <1>2. Indices' = Indices /\ ChargesAreSound' /\ charges' \in Seq(Charges)
    BY <1>1, ChargesKept
  <1>3. /\ pleas' \in [Indices -> PleaValues]
        /\ \E i \in Indices : pleas'[i] \in {"ADMIT", "DENY"}
        /\ verdicts' \in [Indices -> RawVerdicts]
    BY <1>1 DEF Inv, TypeOK, DefenseSpeaks, Judged
  <1>4. Missing' = {}
    BY <1>1, <1>2 DEF Inv, NoneMissing, Judged, Missing
  <1>5. sentences \in Seq(Sentences) /\ SentencesFit
    BY DEF Inv, TypeOK, Sentences
  <1>6. sentences' \in Seq(Sentences) /\ SentencesFit'
    <2>1. CASE sentences' = sentences
      BY <1>1, <1>5, <2>1 DEF SentencesFit
    <2>2. CASE sentences' # sentences
      <3>1. PICK item \in RawSentences : ReadSentence(item)
        BY <2>2 DEF EndJudgment
      <3> DEFINE s == AsSentenced(item)
                 i == item.index
      <3>2. item.index \in Sentenceable /\ InRange(item) /\ sentences' = Append(sentences, s)
        BY <2>2, <3>1 DEF ReadSentence
      <3>3. /\ s \in Sentences /\ s.index = i
            /\ verdicts[i].verdict # "DISMISSED"
            /\ WithinOneStep(s.effort, Typical[charges[i + 1].rule])
            /\ s.advisory <=>
                 verdicts[i].verdict = "REDUCED" /\ verdicts[i].severity = charges[i + 1].severity
        BY <1>1, <3>2, AsSentencedSound DEF Inv
      <3> HIDE DEF s
      <3>4. /\ sentences' \in Seq(Sentences)
            /\ DOMAIN sentences' = DOMAIN sentences \union {Len(sentences) + 1}
            /\ sentences'[Len(sentences) + 1] = s
            /\ \A k \in DOMAIN sentences : sentences'[k] = sentences[k]
        BY <1>5, <3>2, <3>3
      <3> QED
        BY <1>1, <1>5, <3>3, <3>4 DEF SentencesFit
    <2> QED
      BY <2>1, <2>2
  <1>7. Sentences' = Sentences
    BY <1>2 DEF Sentences
  <1>8. TypeOK'
    BY <1>1, <1>2, <1>3, <1>6, <1>7 DEF TypeOK, Judged, Phases, Loops, Sentences
  <1>9. DefenseSpeaks' /\ NoneMissing'
    BY <1>2, <1>3, <1>4 DEF DefenseSpeaks, NoneMissing
  <1> QED
    BY <1>2, <1>6, <1>8, <1>9 DEF Inv

LEMMA InvInvariant == Spec => []Inv
  <1>1. Inv /\ [Next]_vars => Inv'
    <2> SUFFICES ASSUME Inv, [Next]_vars
                 PROVE  Inv'
      OBVIOUS
    <2>1. CASE \E item \in RawCharges : ReadCharge(item)
      BY <2>1, ReadChargeInv
    <2>2. CASE EndProsecution
      BY <2>2, EndProsecutionInv
    <2>3. CASE RetryProsecution
      BY <2>3, RetryProsecutionInv
    <2>4. CASE (\E item \in RawPleas : ReadPlea(item)) \/ EndDefense \/ RetryDefense
      BY <2>4, DefenseInv
    <2>5. CASE (\E item \in RawVerdicts : ReadVerdict(item)) \/ EndVerdicts \/ RetryJudgment
      BY <2>5, VerdictsInv
    <2>6. CASE (\E item \in RawSentences : ReadSentence(item)) \/ EndJudgment
      BY <2>6, SentencesInv
    <2>7. CASE UNCHANGED vars
      BY <2>7, StutterInv
    <2> QED
      BY <2>1, <2>2, <2>3, <2>4, <2>5, <2>6, <2>7 DEF Next
  <1> QED
    BY <1>1, InitInv, PTL DEF Spec

-----------------------------------------------------------------------------
(* The theorems *)

\* Every variable keeps its type; in particular pleas and verdicts are
\* functions on the indices of the charges, 0 .. n-1, with none left out.
THEOREM ValidationTyped == Spec => []TypeOK
  BY InvInvariant, PTL DEF Inv

\* For any number of charges and any cap: no duplicate, never more than
\* MAX_CHARGES, and every severity within a step (validate_prosecution).
THEOREM IndictmentsSound == Spec => []ChargesAreSound
  BY InvInvariant, PTL DEF Inv

\* The judge never sees a defense that is silent on all charges.
THEOREM DefenseHeard == Spec => []DefenseSpeaks
  BY InvInvariant, PTL DEF Inv

\* A judgment that is passed on has a legal verdict for every charge
\* (validate_judgment): no partial judgment, no severity that rises.
THEOREM JudgmentsComplete == Spec => []JudgmentIsComplete
  <1>1. Inv => JudgmentIsComplete
    <2> SUFFICES ASSUME Inv, Judged, NEW i \in Indices
                 PROVE  verdicts[i].severity =
                          CASE verdicts[i].verdict = "SUSTAINED" -> charges[i + 1].severity
                            [] verdicts[i].verdict = "REDUCED" -> AtLeast(LOW, charges[i + 1].severity - 1)
                            [] verdicts[i].verdict = "DISMISSED" -> NoSeverity
      BY DEF JudgmentIsComplete
    <2>1. charges[i + 1] \in Charges
      BY DEF Inv, TypeOK, Indices
    <2>2. charges[i + 1].severity \in Ranks
      BY <2>1 DEF Charges
    <2>3. verdicts[i] \in RawVerdicts /\ Valid(verdicts[i], charges[i + 1].severity)
      BY DEF Inv, TypeOK, NoneMissing, Missing
    <2>4. verdicts[i].verdict \in VerdictValues
      BY <2>3, ItemsAssumption
    <2> QED
      BY <2>2, <2>3, <2>4 DEF Valid, AtLeast, VerdictValues
  <1> QED
    BY <1>1, InvInvariant, PTL

\* Sentences belong to charges that stand, fit the catalog's effort, and are
\* advisory exactly when the reduction had no severity to lower.
THEOREM SentencesAreFit == Spec => []SentencesFit
  BY InvInvariant, PTL DEF Inv

\* Whatever survived, the indictment is what a stable sort by severity and a cut
\* leave of it, for any cap: the sort exists, is the only one, and each charge
\* that is kept stands at its place (validate_prosecution).
THEOREM GravestAreKept == Spec => GravestKept
  <1>1. ASSUME Inv, [Next]_vars, phase = "charges", phase' = "pleas"
        PROVE  /\ Len(charges') = AtMost(Len(charges), MAX_CHARGES)
               /\ truncated' <=> Len(charges) > Len(charges')
               /\ \A k \in DOMAIN charges :
                    LET place == IF truncated' THEN Place(charges, k) ELSE k
                    IN  place <= MAX_CHARGES => charges'[place] = charges[k]
    <2>1. EndProsecution
      BY <1>1 DEF Next, vars, ReadCharge, RetryProsecution, ReadPlea, EndDefense,
            RetryDefense, ReadVerdict, EndVerdicts, ReadSentence, EndJudgment, RetryJudgment,
            NextItem
    <2>2. /\ charges \in Seq(Charges) /\ charges' \in Indictments(charges)
          /\ truncated' = (Len(charges) > MAX_CHARGES)
      BY <1>1, <2>1 DEF EndProsecution, Inv, TypeOK
    <2>3. Len(charges) \in Nat /\ MAX_CHARGES \in Nat
      BY <2>2, LengthsAssumption
    <2>4. /\ Len(charges') = AtMost(Len(charges), MAX_CHARGES)
          /\ Len(charges) > MAX_CHARGES =>
               \A k \in DOMAIN charges :
                 Place(charges, k) <= MAX_CHARGES => charges'[Place(charges, k)] = charges[k]
          /\ Len(charges) <= MAX_CHARGES => charges' = charges
      BY <2>2, IndictmentByPlace
    <2>5. CASE Len(charges) > MAX_CHARGES
      <3>1. truncated' = TRUE
        BY <2>2, <2>5, Zenon
      <3>2. Len(charges') = MAX_CHARGES
        BY <2>3, <2>4, <2>5 DEF AtMost
      <3> QED
        BY <2>4, <2>5, <3>1, <3>2
    <2>6. CASE ~ (Len(charges) > MAX_CHARGES)
      <3>1. ~ truncated'
        BY <2>2, <2>6, Zenon
      <3>2. charges' = charges
        BY <2>3, <2>4, <2>6
      <3> QED
        BY <2>3, <2>4, <3>1, <3>2
    <2> QED
      BY <2>5, <2>6
  <1>2. Inv /\ [Next]_vars => [phase = "charges" /\ phase' = "pleas" =>
               /\ Len(charges') = AtMost(Len(charges), MAX_CHARGES)
               /\ truncated' <=> Len(charges) > Len(charges')
               /\ \A k \in DOMAIN charges :
                    LET place == IF truncated' THEN Place(charges, k) ELSE k
                    IN  place <= MAX_CHARGES => charges'[place] = charges[k]]_vars
    BY <1>1
  <1> QED
    BY <1>2, InvInvariant, PTL DEF Spec, GravestKept
=============================================================================
