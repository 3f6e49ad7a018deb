---------------------------- MODULE IntakeProofs ----------------------------
(***************************************************************************)
(* Theorems of Intake, for any files, limits and size of the chunks.       *)
(***************************************************************************)
EXTENDS Intake, FiniteSetTheorems, WellFoundedInduction, SequenceTheorems, TLAPS

\* A set of numbers has a least one: what is proved by induction below is
\* proved of the least number of which it would be wrong.
LEMMA LeastNumber ==
  ASSUME NEW S, S \subseteq Nat, S # {}
  PROVE  \E n \in S : \A m \in S : n <= m
<1> DEFINE UpTo == {0 .. n : n \in S}
           R == StrictSubsetOrdering(Nat)
<1>1. UpTo \subseteq FiniteSubsetsOf(Nat)
  <2>1. \A n \in S : 0 .. n \in SUBSET Nat /\ IsFiniteSet(0 .. n)
    BY FS_Interval
  <2> QED
    BY <2>1 DEF FiniteSubsetsOf
<1>2. \E x \in UpTo : \A y \in UpTo : <<y, x>> \notin R
  <2>1. IsWellFoundedOn(R, FiniteSubsetsOf(Nat))
    BY FS_StrictSubsetOrderingWellFounded
  <2>2. UpTo # {}
    OBVIOUS
  <2> HIDE DEF UpTo, R
  <2> QED
    BY <1>1, <2>1, <2>2, WFMin
<1>3. PICK n \in S : \A m \in S : <<0 .. m, 0 .. n>> \notin R
  BY <1>2
<1>4. ASSUME NEW m \in S, m < n PROVE FALSE
  <2>1. 0 .. m \subseteq 0 .. n /\ n \in 0 .. n /\ n \notin 0 .. m
    BY <1>4
  <2>2. <<0 .. m, 0 .. n>> \in (SUBSET Nat) \X (SUBSET Nat) /\ 0 .. m # 0 .. n
    BY <2>1
  <2>3. <<0 .. m, 0 .. n>> \in R
    BY <2>1, <2>2 DEF StrictSubsetOrdering
  <2> QED
    BY <1>3, <2>3
<1> QED
  BY <1>3, <1>4

\* One more character is a newline or not.
LEMMA NewlineMore ==
  ASSUME NEW f \in Seq(Chars), NEW k \in 1 .. Len(f)
  PROVE  /\ Newlines(f, k) \in Nat /\ Newlines(f, k - 1) \in Nat
         /\ Newlines(f, k) = Newlines(f, k - 1) + (IF f[k] = "LF" THEN 1 ELSE 0)
<1> DEFINE N(m) == {i \in 1 .. m : f[i] = "LF"}
<1>1. k \in Nat \ {0}
  OBVIOUS
<1>2. ASSUME NEW m \in Nat PROVE IsFiniteSet(N(m)) /\ Cardinality(N(m)) \in Nat
  <2>1. IsFiniteSet(1 .. m) /\ N(m) \in SUBSET (1 .. m)
    BY FS_Interval
  <2> HIDE DEF N
  <2> QED
    BY <2>1, FS_Subset, FS_CardinalityType
<1>3. f[k] = "LF" => N(k) = N(k - 1) \union {k} /\ k \notin N(k - 1)
  BY <1>1
<1>4. f[k] # "LF" => N(k) = N(k - 1)
  BY <1>1
<1>5. Cardinality(N(k)) = Cardinality(N(k - 1)) + (IF f[k] = "LF" THEN 1 ELSE 0)
  <2>1. k \in Nat /\ k - 1 \in Nat
    BY <1>1
  <2>2. IsFiniteSet(N(k - 1)) /\ Cardinality(N(k - 1)) \in Nat
    BY <1>2, <2>1
  <2>3. Cardinality(N(k - 1) \union {k})
          = IF k \in N(k - 1) THEN Cardinality(N(k - 1)) ELSE Cardinality(N(k - 1)) + 1
    <3> HIDE DEF N
    <3> QED
      BY <2>2, FS_AddElement
  <2>4. CASE f[k] = "LF"
    <3>1. N(k) = N(k - 1) \union {k} /\ k \notin N(k - 1)
      BY <1>3, <2>4
    <3> HIDE DEF N
    <3> QED
      BY <2>2, <2>3, <2>4, <3>1
  <2>5. CASE f[k] # "LF"
    <3>1. N(k) = N(k - 1)
      BY <1>4, <2>5
    <3> HIDE DEF N
    <3> QED
      BY <2>2, <2>5, <3>1
  <2> QED
    BY <2>4, <2>5
<1>6. Cardinality(N(k)) \in Nat /\ Cardinality(N(k - 1)) \in Nat
  <2>1. k \in Nat /\ k - 1 \in Nat
    BY <1>1
  <2> HIDE DEF N
  <2> QED
    BY <1>2, <2>1
<1>7. Newlines(f, k) = Cardinality(N(k)) /\ Newlines(f, k - 1) = Cardinality(N(k - 1))
  BY DEF Newlines
<1> QED
  BY <1>5, <1>6, <1>7

LEMMA NewlineAppend ==
  ASSUME NEW s \in Seq(Chars), NEW ch \in Chars
  PROVE  /\ Newlines(s, Len(s)) \in Nat
         /\ Append(s, ch) \in Seq(Chars) /\ Len(Append(s, ch)) = Len(s) + 1
         /\ Newlines(Append(s, ch), Len(s) + 1)
              = Newlines(s, Len(s)) + (IF ch = "LF" THEN 1 ELSE 0)
<1> DEFINE t == Append(s, ch)
<1>1. /\ t \in Seq(Chars) /\ Len(t) = Len(s) + 1 /\ t[Len(s) + 1] = ch /\ Len(s) \in Nat
      /\ \A i \in 1 .. Len(s) : t[i] = s[i]
  OBVIOUS
<1>2. Newlines(t, Len(s)) = Newlines(s, Len(s))
  <2>1. {i \in 1 .. Len(s) : t[i] = "LF"} = {i \in 1 .. Len(s) : s[i] = "LF"}
    BY <1>1
  <2> QED
    BY <2>1 DEF Newlines
<1> HIDE DEF t
<1>3. /\ Newlines(t, Len(s)) \in Nat
      /\ Newlines(t, Len(s) + 1) = Newlines(t, Len(s)) + (IF ch = "LF" THEN 1 ELSE 0)
  <2>1. Len(s) + 1 \in 1 .. Len(t) /\ Len(s) + 1 - 1 = Len(s)
    BY <1>1
  <2> QED
    BY <1>1, <2>1, NewlineMore
<1> QED
  BY <1>1, <1>2, <1>3 DEF t

LEMMA NewlinesGrow ==
  ASSUME NEW f \in Seq(Chars), NEW k \in 0 .. Len(f)
  PROVE  Newlines(f, k) \in Nat /\ Newlines(f, k) <= Newlines(f, Len(f)) /\ Newlines(f, Len(f)) \in Nat
<1>1. k \in Nat /\ Len(f) \in Nat /\ k <= Len(f)
  OBVIOUS
<1>2. IsFiniteSet({i \in 1 .. Len(f) : f[i] = "LF"})
  <2>1. IsFiniteSet(1 .. Len(f)) /\ {i \in 1 .. Len(f) : f[i] = "LF"} \in SUBSET (1 .. Len(f))
    BY <1>1, FS_Interval
  <2> QED
    BY <2>1, FS_Subset
<1>3. {i \in 1 .. k : f[i] = "LF"} \in SUBSET {i \in 1 .. Len(f) : f[i] = "LF"}
  BY <1>1
<1> QED
  BY <1>2, <1>3, FS_Subset, FS_CardinalityType DEF Newlines

\* The recursion of normalize_newlines has a solution.
LEMMA NormalizedSolved ==
  ASSUME NEW f \in Seq(Chars)
  PROVE  LET u == Normalized(f)
         IN  u = [i \in 0 .. Len(f) |->
                    IF i = 0 THEN <<>>
                    ELSE IF f[i] = "CR" THEN Append(u[i - 1], "LF")
                    ELSE IF f[i] = "LF" /\ i > 1 /\ f[i - 1] = "CR" THEN u[i - 1]
                    ELSE Append(u[i - 1], f[i])]
<1> DEFINE Body(g, i) == IF i = 0 THEN <<>>
                         ELSE IF f[i] = "CR" THEN Append(g[i - 1], "LF")
                         ELSE IF f[i] = "LF" /\ i > 1 /\ f[i - 1] = "CR" THEN g[i - 1]
                         ELSE Append(g[i - 1], f[i])
           Solves(g, n) == g = [i \in 0 .. n |-> Body(g, i)]
           Unsolved == {n \in Nat : ~ \E g : Solves(g, n)}
<1>1. Unsolved = {}
  <2> SUFFICES ASSUME Unsolved # {} PROVE FALSE
    OBVIOUS
  <2>1. PICK n \in Unsolved : \A m \in Unsolved : n <= m
    <3> HIDE DEF Unsolved
    <3>1. Unsolved \subseteq Nat
      BY DEF Unsolved
    <3> QED
      BY <3>1, LeastNumber
  <2>2. n \in Nat /\ ~ \E g : Solves(g, n)
    OBVIOUS
  <2>3. n # 0
    <3>1. Solves([i \in 0 .. 0 |-> <<>>], 0)
      OBVIOUS
    <3> QED
      BY <2>2, <3>1
  <2>4. PICK g : Solves(g, n - 1)
    <3> HIDE DEF Solves
    <3>1. n - 1 \in Nat /\ ~ (n <= n - 1)
      BY <2>2, <2>3
    <3> QED
      BY <2>1, <3>1
  <2> DEFINE h == [i \in 0 .. n |-> IF i = n THEN Body(g, n) ELSE g[i]]
  <2>5. \A i \in 0 .. n : h[i] = Body(h, i)
    <3> SUFFICES ASSUME NEW i \in 0 .. n PROVE h[i] = Body(h, i)
      OBVIOUS
    <3>1. i # 0 => i - 1 \in 0 .. n - 1 /\ h[i - 1] = g[i - 1]
      BY <2>2, <2>3
    <3>2. Body(h, i) = Body(g, i)
      BY <3>1
    <3>3. i # n => i \in 0 .. n - 1 /\ g[i] = Body(g, i)
      <4>1. i # n => i \in 0 .. n - 1
        BY <2>2
      <4>2. \A j \in 0 .. n - 1 : g[j] = Body(g, j)
        <5> HIDE DEF Body
        <5> QED
          BY <2>4, Zenon
      <4> QED
        BY <4>1, <4>2
    <3> QED
      BY <3>2, <3>3
  <2>6. Solves(h, n)
    BY <2>5
  <2> QED
    BY <2>2, <2>6
<1>2. \E g : Solves(g, Len(f))
  BY <1>1
<1>3. Normalized(f) = CHOOSE g : Solves(g, Len(f))
  BY DEF Normalized
<1> QED
  BY <1>2, <1>3

\* A step of the recursion, and what it is at its start.
LEMMA NormalizedSteps ==
  ASSUME NEW f \in Seq(Chars)
  PROVE  LET u == Normalized(f)
         IN  /\ u[0] = <<>>
             /\ \A i \in 1 .. Len(f) :
                  u[i] = IF f[i] = "CR" THEN Append(u[i - 1], "LF")
                         ELSE IF f[i] = "LF" /\ i > 1 /\ f[i - 1] = "CR" THEN u[i - 1]
                         ELSE Append(u[i - 1], f[i])
<1> DEFINE u == Normalized(f)
           Body(i) == IF i = 0 THEN <<>>
                      ELSE IF f[i] = "CR" THEN Append(u[i - 1], "LF")
                      ELSE IF f[i] = "LF" /\ i > 1 /\ f[i - 1] = "CR" THEN u[i - 1]
                      ELSE Append(u[i - 1], f[i])
<1>1. u = [i \in 0 .. Len(f) |-> Body(i)]
  BY NormalizedSolved
<1>2. \A i \in 0 .. Len(f) : u[i] = Body(i)
  <2> HIDE DEF Body, u
  <2> QED
    BY <1>1, Zenon
<1>3. Len(f) \in Nat
  OBVIOUS
<1> HIDE DEF u
<1>4. u[0] = <<>>
  BY <1>2, <1>3
<1>5. \A i \in 1 .. Len(f) : i \in 0 .. Len(f) /\ i # 0
  BY <1>3
<1> QED
  BY <1>2, <1>4, <1>5 DEF u

\* No line end is lost: up to any place, the normalized code has as many
\* newlines as the code has, and one more after a lone CR.
LEMMA NormalizedLines ==
  ASSUME NEW f \in Seq(Chars), NEW k \in 0 .. Len(f)
  PROVE  LET s == Normalized(f)[k]
         IN  s \in Seq(Chars \ {"CR"}) /\ Newlines(s, Len(s)) >= Newlines(f, k)
<1> DEFINE u == Normalized(f)
           Extra(i) == IF i > 0 /\ f[i] = "CR" THEN 1 ELSE 0
           Good(i) == u[i] \in Seq(Chars \ {"CR"}) /\ Newlines(u[i], Len(u[i])) >= Newlines(f, i) + Extra(i)
           Bad == {i \in Nat : i <= Len(f) /\ ~ Good(i)}
<1>1. Bad = {}
  <2> SUFFICES ASSUME Bad # {} PROVE FALSE
    OBVIOUS
  <2>1. PICK n \in Bad : \A m \in Bad : n <= m
    <3>1. Bad \subseteq Nat
      OBVIOUS
    <3> HIDE DEF Bad
    <3> QED
      BY <3>1, LeastNumber
  <2>2. n \in Nat /\ n <= Len(f) /\ ~ Good(n)
    OBVIOUS
  <2>3. n # 0
    <3>1. u[0] = <<>>
      BY NormalizedSteps
    <3>2. Newlines(f, 0) = 0 /\ Newlines(<<>>, 0) = 0
      <4>1. {i \in 1 .. 0 : f[i] = "LF"} = {} /\ {i \in 1 .. 0 : <<>>[i] = "LF"} = {}
        OBVIOUS
      <4> QED
        BY <4>1, FS_EmptySet DEF Newlines
    <3>3. Good(0)
      BY <3>1, <3>2
    <3> QED
      BY <2>2, <3>3
  <2>4. n - 1 \in Nat /\ n \in 1 .. Len(f) /\ n - 1 \in 0 .. Len(f)
    BY <2>2, <2>3
  <2>5. Good(n - 1)
    <3>1. ~ (n <= n - 1) /\ n - 1 <= Len(f)
      BY <2>2, <2>4
    <3> HIDE DEF Good
    <3> QED
      BY <2>1, <2>4, <3>1
  <2> DEFINE s == u[n - 1]
  <2>6. /\ s \in Seq(Chars \ {"CR"}) /\ s \in Seq(Chars)
        /\ Newlines(s, Len(s)) >= Newlines(f, n - 1) + Extra(n - 1)
        /\ u[n] = IF f[n] = "CR" THEN Append(s, "LF")
                  ELSE IF f[n] = "LF" /\ n > 1 /\ f[n - 1] = "CR" THEN s
                  ELSE Append(s, f[n])
    BY <2>4, <2>5, NormalizedSteps
  <2>7. /\ Newlines(f, n) \in Nat /\ Newlines(f, n - 1) \in Nat
        /\ Newlines(f, n) = Newlines(f, n - 1) + (IF f[n] = "LF" THEN 1 ELSE 0)
        /\ Newlines(s, Len(s)) \in Nat
    BY <2>4, <2>6, NewlineMore, NewlinesGrow
  <2>8. \A ch \in Chars \ {"CR"} :
          /\ Append(s, ch) \in Seq(Chars \ {"CR"}) /\ Len(Append(s, ch)) = Len(s) + 1
          /\ Newlines(Append(s, ch), Len(s) + 1) = Newlines(s, Len(s)) + (IF ch = "LF" THEN 1 ELSE 0)
    <3> HIDE DEF s
    <3> SUFFICES ASSUME NEW ch \in Chars \ {"CR"}
                 PROVE  /\ Append(s, ch) \in Seq(Chars \ {"CR"})
                        /\ Len(Append(s, ch)) = Len(s) + 1
                        /\ Newlines(Append(s, ch), Len(s) + 1)
                             = Newlines(s, Len(s)) + (IF ch = "LF" THEN 1 ELSE 0)
      OBVIOUS
    <3>1. s \in Seq(Chars \ {"CR"}) /\ s \in Seq(Chars) /\ ch \in Chars
      BY <2>6
    <3>2. Append(s, ch) \in Seq(Chars \ {"CR"})
      BY <3>1
    <3> QED
      BY <3>1, <3>2, NewlineAppend
  <2>9. f[n] \in Chars /\ "LF" \in Chars \ {"CR"}
    <3>1. f[n] \in Chars
      BY <2>4
    <3> QED
      BY <3>1 DEF Chars
  <2> HIDE DEF u
  <2>10. Good(n)
    <3> HIDE DEF s
    <3>1. CASE f[n] = "CR"
      BY <2>4, <2>6, <2>7, <2>8, <2>9, <3>1
    <3>2. CASE f[n] = "LF" /\ n > 1 /\ f[n - 1] = "CR"
      BY <2>4, <2>6, <2>7, <3>2
    <3>3. CASE f[n] # "CR" /\ ~ (f[n] = "LF" /\ n > 1 /\ f[n - 1] = "CR")
      BY <2>4, <2>6, <2>7, <2>8, <2>9, <3>3
    <3> QED
      BY <3>1, <3>2, <3>3
  <2> QED
    BY <2>2, <2>10
<1>2. k \in Nat /\ k <= Len(f) /\ Newlines(f, k) \in Nat
  BY NewlinesGrow
<1>3. Good(k)
  <2> HIDE DEF Good
  <2> QED
    BY <1>1, <1>2
<1>4. Newlines(u[k], Len(u[k])) \in Nat
  BY <1>3, NewlinesGrow
<1> QED
  BY <1>2, <1>3, <1>4

\* The lengths that the limits look at are numbers.
LEMMA BytesAreCounted == \A f \in Seq(Chars) : Bytes(f) \in Nat
<1> SUFFICES ASSUME NEW f \in Seq(Chars) PROVE Bytes(f) \in Nat
  OBVIOUS
<1>1. Len(f) \in Nat /\ IsFiniteSet(1 .. Len(f))
  BY FS_Interval
<1>2. Cardinality({i \in 1 .. Len(f) : f[i] = "wide"}) \in Nat
  BY <1>1, FS_Subset, FS_CardinalityType
<1>3. Width("wide") = 3
  BY DEF Width
<1> QED
  BY <1>1, <1>2, <1>3 DEF Bytes, BytesUpTo

LEMMA MinIsOne == \A m, n \in Nat : Min({m, n}) \in Nat /\ Min({m, n}) <= n
<1> SUFFICES ASSUME NEW m \in Nat, NEW n \in Nat
             PROVE  Min({m, n}) \in Nat /\ Min({m, n}) <= n
  OBVIOUS
<1>1. \E x \in {m, n} : \A y \in {m, n} : x <= y
  OBVIOUS
<1> QED
  BY <1>1 DEF Min

\* Code that the stream finds too long at a newline is too long when pasted.
LEMMA TooManyLines ==
  ASSUME NEW f \in Seq(Chars), NEW k \in DOMAIN f, Newlines(f, k) > MAX_LINES
  PROVE  total_lines(f) > MAX_LINES
<1> DEFINE g == normalize_newlines(f)
<1>1. k \in 0 .. Len(f) /\ Len(f) \in 0 .. Len(f)
  OBVIOUS
<1>2. Newlines(f, k) \in Nat /\ Newlines(f, Len(f)) \in Nat /\ Newlines(f, k) <= Newlines(f, Len(f))
  BY <1>1, NewlinesGrow
<1>3. g \in Seq(Chars \ {"CR"}) /\ Newlines(g, Len(g)) >= Newlines(f, Len(f))
  BY <1>1, NormalizedLines DEF normalize_newlines
<1> HIDE DEF g
<1>4. Newlines(g, Len(g)) \in Nat
  <2>1. g \in Seq(Chars) /\ Len(g) \in 0 .. Len(g)
    BY <1>3
  <2> QED
    BY <2>1, NewlinesGrow
<1>5. total_lines(f) = 1 + Newlines(g, Len(g))
  BY DEF total_lines, g
<1> QED
  BY <1>2, <1>3, <1>4, <1>5, LimitsAssumption

\* A stream that is cut off is one of code that would be too long when pasted,
\* but for what LinkLikePaste leaves out.
LEMMA CutOffRightly ==
  ASSUME NEW f \in Seq(Chars), NEW n \in Nat, n <= Bytes(f), Beyond(f, n)
  PROVE  \/ Checked(f) = "CODE_TOO_LONG"
         \/ Blank(f) \/ (Len(f) <= MAX_CHARS /\ Bytes(f) > MAX_CHARS)
<1>1. Len(f) \in Nat /\ Bytes(f) \in Nat
  BY BytesAreCounted
<1>2. CASE n > MAX_CHARS
  BY <1>1, <1>2, LimitsAssumption DEF Checked
<1>3. CASE \E k \in DOMAIN f : BytesUpTo(f, k) <= n /\ Newlines(f, k) > MAX_LINES
  BY <1>3, TooManyLines DEF Checked
<1> QED
  BY <1>2, <1>3 DEF Beyond

\* Whatever is answered to a submission is an answer.
LEMMA ChecksAnswer == \A f : Checked(f) \in Replies \ {"none"}
BY DEF Checked, Replies

\* A link is fetched at the commit that was found, whose file does not change.
FetchFits ==
  origin = "link" /\ step \in {"stream", "submit"} =>
    /\ commit \in Commits
    /\ step = "submit" => code = contents[commit]

-----------------------------------------------------------------------------
(* Comments.                                                                *)

\* The least of a set is in it.
LEMMA MinIsLeast ==
  ASSUME NEW S, S \subseteq Nat, S # {}
  PROVE  Min(S) \in S /\ \A m \in S : Min(S) <= m
BY LeastNumber DEF Min

\* A line comment ends at the next newline, if there is one.
LEMMA LineEndIs ==
  ASSUME NEW f \in Seq(Chars), NEW i \in 1 .. Len(f)
  PROVE  LET e == LineEnd(f, i)
         IN  /\ e \in i .. Len(f) + 1
             /\ e = Len(f) + 1 \/ f[e] = "LF"
             /\ \A j \in i .. e - 1 : f[j] # "LF"
<1> DEFINE S == {j \in i .. Len(f) + 1 : j = Len(f) + 1 \/ f[j] = "LF"}
           e == LineEnd(f, i)
<1>1. i \in Nat /\ Len(f) \in Nat /\ i <= Len(f)
  OBVIOUS
<1>2. S \subseteq Nat /\ Len(f) + 1 \in S
  BY <1>1
<1>3. e = Min(S)
  BY DEF LineEnd
<1>4. e \in S /\ \A m \in S : e <= m
  <2> HIDE DEF S, e
  <2> QED
    BY <1>2, <1>3, MinIsLeast
<1> HIDE DEF e
<1>5. \A j \in i .. e - 1 : f[j] # "LF"
  <2> SUFFICES ASSUME NEW j \in i .. e - 1, f[j] = "LF" PROVE FALSE
    OBVIOUS
  <2>1. j \in S /\ j < e
    BY <1>1, <1>4
  <2> QED
    BY <1>1, <1>4, <2>1
<1> QED
  BY <1>4, <1>5 DEF e

\* A block comment ends after the next * and /, if there are any.
LEMMA BlockEndIs ==
  ASSUME NEW f \in Seq(Chars), NEW i \in Nat \ {0}, i < Len(f)
  PROVE  LET e == BlockEnd(f, i) - 2
         IN  /\ e \in i + 2 .. Len(f) + 1 /\ BlockEnd(f, i) = e + 2
             /\ e >= Len(f) \/ Pair(f, e, "*", "/")
             /\ \A j \in i + 2 .. e - 1 : j < Len(f) /\ ~ Pair(f, j, "*", "/")
<1> DEFINE S == {j \in i + 2 .. Len(f) + 1 : j >= Len(f) \/ Pair(f, j, "*", "/")}
           e == Min(S)
<1>1. Len(f) \in Nat
  OBVIOUS
<1>2. S \subseteq Nat /\ Len(f) + 1 \in S
  BY <1>1
<1>3. BlockEnd(f, i) = 2 + e
  BY DEF BlockEnd
<1>4. e \in S /\ \A m \in S : e <= m
  <2> HIDE DEF S
  <2> QED
    BY <1>2, MinIsLeast
<1> HIDE DEF e
<1>5. e \in Nat /\ BlockEnd(f, i) - 2 = e
  BY <1>2, <1>3, <1>4
<1>6. \A j \in i + 2 .. e - 1 : j < Len(f) /\ ~ Pair(f, j, "*", "/")
  <2> SUFFICES ASSUME NEW j \in i + 2 .. e - 1, j >= Len(f) \/ Pair(f, j, "*", "/") PROVE FALSE
    BY <1>1
  <2>1. j \in S /\ j < e
    BY <1>1, <1>4, <1>5
  <2> QED
    BY <1>1, <1>4, <1>5, <2>1
<1> QED
  BY <1>3, <1>4, <1>5, <1>6

Strings == Quotes \union {"none"}

\* The recursion of the scanner, for a function g of what is kept.
KeptFrom(f, quotes, lang, g, i, q) ==
  IF i > Len(f) THEN <<>>
  ELSE IF q # "none" /\ f[i] = "\\" /\ i < Len(f)
    THEN <<f[i], f[i + 1]>> \o g[i + 2][q]
  ELSE IF q = "none" /\ LineBegins(f, i, lang) THEN g[LineEnd(f, i)]["none"]
  ELSE IF q = "none" /\ BlockBegins(f, i, lang) THEN g[BlockEnd(f, i)]["none"]
  ELSE <<f[i]>> \o g[i + 1][Turn(f[i], q, quotes)]

LEMMA CommentsEndLater ==
  ASSUME NEW f \in Seq(Chars), NEW i \in 1 .. Len(f), NEW lang
  PROVE  /\ LineBegins(f, i, lang) => LineEnd(f, i) \in i + 1 .. Len(f) + 1
         /\ BlockBegins(f, i, lang) => BlockEnd(f, i) \in i + 4 .. Len(f) + 3
<1>1. i \in Nat \ {0} /\ Len(f) \in Nat
  OBVIOUS
<1>2. ASSUME LineBegins(f, i, lang) PROVE LineEnd(f, i) \in i + 1 .. Len(f) + 1
  <2>1. f[i] # "LF"
    BY <1>2 DEF LineBegins, Pair
  <2>2. /\ LineEnd(f, i) \in i .. Len(f) + 1
        /\ LineEnd(f, i) = Len(f) + 1 \/ f[LineEnd(f, i)] = "LF"
    BY LineEndIs
  <2> QED
    BY <1>1, <2>1, <2>2
<1>3. ASSUME BlockBegins(f, i, lang) PROVE BlockEnd(f, i) \in i + 4 .. Len(f) + 3
  <2>1. i < Len(f)
    BY <1>3 DEF BlockBegins, Pair
  <2>2. BlockEnd(f, i) - 2 \in i + 2 .. Len(f) + 1 /\ BlockEnd(f, i) = BlockEnd(f, i) - 2 + 2
    BY <1>1, <2>1, BlockEndIs
  <2> QED
    BY <1>1, <2>2
<1> QED
  BY <1>2, <1>3

\* What is kept from a character on depends on what is kept from later ones on.
LEMMA KeptLater ==
  ASSUME NEW f \in Seq(Chars), NEW quotes \in SUBSET Quotes, NEW lang,
         NEW i \in 1 .. Len(f) + 3, NEW q \in Strings,
         NEW g, NEW h, \A j \in i + 1 .. Len(f) + 3 : g[j] = h[j]
  PROVE  KeptFrom(f, quotes, lang, g, i, q) = KeptFrom(f, quotes, lang, h, i, q)
<1>1. CASE i > Len(f)
  BY <1>1 DEF KeptFrom
<1>2. CASE ~ (i > Len(f))
  <2>1. i \in 1 .. Len(f) /\ Len(f) \in Nat
    BY <1>2
  <2>2. /\ g[i + 1] = h[i + 1] /\ g[i + 2] = h[i + 2]
        /\ LineBegins(f, i, lang) => g[LineEnd(f, i)] = h[LineEnd(f, i)]
        /\ BlockBegins(f, i, lang) => g[BlockEnd(f, i)] = h[BlockEnd(f, i)]
    BY <2>1, CommentsEndLater
  <2> QED
    BY <2>2 DEF KeptFrom
<1> QED
  BY <1>1, <1>2

\* The recursion has a solution.
LEMMA KeptSolved ==
  ASSUME NEW f \in Seq(Chars), NEW quotes \in SUBSET Quotes, NEW lang
  PROVE  LET u == Kept(f, quotes, lang)
         IN  u = [i \in 1 .. Len(f) + 3 |->
                    [q \in Strings |-> KeptFrom(f, quotes, lang, u, i, q)]]
<1> DEFINE N == Len(f) + 3
           Body(g, i) == [q \in Strings |-> KeptFrom(f, quotes, lang, g, i, q)]
           Partly(g, n) == \A i \in 1 .. N : i > N - n => g[i] = Body(g, i)
           Unsolved == {n \in Nat : n <= N /\ ~ \E g : Partly(g, n)}
<1>1. N \in Nat
  OBVIOUS
<1>2. Unsolved = {}
  <2> SUFFICES ASSUME Unsolved # {} PROVE FALSE
    OBVIOUS
  <2>1. PICK n \in Unsolved : \A m \in Unsolved : n <= m
    <3>1. Unsolved \subseteq Nat
      OBVIOUS
    <3> HIDE DEF Unsolved
    <3> QED
      BY <3>1, LeastNumber
  <2>2. n \in Nat /\ n <= N /\ ~ \E g : Partly(g, n)
    OBVIOUS
  <2> HIDE DEF N
  <2>3. n # 0
    <3>1. Partly(<<>>, 0)
      BY <1>1
    <3> QED
      BY <2>2, <3>1
  <2>4. PICK g : Partly(g, n - 1)
    <3> HIDE DEF Partly
    <3>1. n - 1 \in Nat /\ ~ (n <= n - 1) /\ n - 1 <= N
      BY <1>1, <2>2, <2>3
    <3> QED
      BY <2>1, <3>1
  <2> DEFINE k == N - n + 1
             h == [i \in 1 .. N |-> IF i = k THEN Body(g, k) ELSE g[i]]
  <2>5. k \in 1 .. N
    BY <1>1, <2>2, <2>3
  <2>6. \A i \in 1 .. N : i >= k => h[i] = Body(h, i)
    <3> SUFFICES ASSUME NEW i \in 1 .. N, i >= k PROVE h[i] = Body(h, i)
      OBVIOUS
    <3>1. \A j \in i + 1 .. N : g[j] = h[j]
      <4> HIDE DEF Body
      <4>1. \A j \in i + 1 .. N : j \in 1 .. N /\ j # k
        BY <1>1, <2>5
      <4> QED
        BY <4>1
    <3>2. Body(h, i) = Body(g, i)
      <4> HIDE DEF h
      <4>1. \A q \in Strings : KeptFrom(f, quotes, lang, g, i, q) = KeptFrom(f, quotes, lang, h, i, q)
        <5>1. i \in 1 .. Len(f) + 3 /\ \A j \in i + 1 .. Len(f) + 3 : g[j] = h[j]
          BY <3>1 DEF N
        <5> HIDE DEF k, Body
        <5> QED
          BY <5>1, KeptLater, Zenon
      <4> QED
        BY <4>1
    <3>3. CASE i = k
      <4> HIDE DEF Body
      <4>1. h[i] = Body(g, k)
        BY <3>3
      <4> QED
        BY <3>2, <3>3, <4>1
    <3>4. CASE i # k
      <4> HIDE DEF Body
      <4>1. h[i] = g[i]
        BY <3>4
      <4>2. i > N - (n - 1)
        BY <1>1, <2>2, <3>4
      <4>3. g[i] = Body(g, i)
        BY <2>4, <4>2
      <4> QED
        BY <3>2, <4>1, <4>3
    <3> QED
      BY <3>3, <3>4
  <2>7. Partly(h, n)
    <3> HIDE DEF h, Body
    <3>1. \A i \in 1 .. N : i > N - n => i >= k
      BY <1>1, <2>2
    <3> QED
      BY <2>6, <3>1
  <2> QED
    BY <2>2, <2>7
<1>3. \E g : g = [i \in 1 .. N |-> Body(g, i)]
  <2> HIDE DEF N
  <2>1. PICK g : Partly(g, N)
    <3> HIDE DEF Partly
    <3>1. N \notin Unsolved
      <4> HIDE DEF Unsolved
      <4> QED
        BY <1>2
    <3>2. N <= N
      BY <1>1
    <3> QED
      BY <1>1, <3>1, <3>2
  <2> DEFINE h == [i \in 1 .. N |-> g[i]]
  <2>2. \A i \in 1 .. N : h[i] = Body(h, i)
    <3> SUFFICES ASSUME NEW i \in 1 .. N PROVE h[i] = Body(h, i)
      OBVIOUS
    <3>1. Body(h, i) = Body(g, i)
      <4>1. \A j \in i + 1 .. N : g[j] = h[j]
        BY <1>1
      <4> HIDE DEF h
      <4> QED
        BY <4>1, KeptLater DEF N
    <3>2. g[i] = Body(g, i)
      <4> HIDE DEF Body
      <4>1. i > N - N
        BY <1>1
      <4> QED
        BY <2>1, <4>1
    <3> QED
      BY <3>1, <3>2
  <2>3. h = [i \in 1 .. N |-> Body(h, i)]
    <3>1. h = [i \in 1 .. N |-> h[i]]
      OBVIOUS
    <3> HIDE DEF h, Body
    <3> QED
      BY <2>2, <3>1
  <2> QED
    BY <2>3
<1>4. Kept(f, quotes, lang) = CHOOSE g : g = [i \in 1 .. N |-> Body(g, i)]
  BY DEF Kept, KeptFrom, Strings
<1> HIDE DEF N, Body
<1> QED
  BY <1>3, <1>4 DEF N, Body

\* A step of the scanner, what it keeps after the end, and the type of it.
LEMMA KeptSteps ==
  ASSUME NEW f \in Seq(Chars), NEW quotes \in SUBSET Quotes, NEW lang,
         NEW i \in 1 .. Len(f) + 3, NEW q \in Strings
  PROVE  LET u == Kept(f, quotes, lang)
         IN  /\ u[i][q] = KeptFrom(f, quotes, lang, u, i, q)
             /\ i > Len(f) => u[i][q] = <<>>
<1> DEFINE u == Kept(f, quotes, lang)
<1>1. u = [j \in 1 .. Len(f) + 3 |-> [r \in Strings |-> KeptFrom(f, quotes, lang, u, j, r)]]
  BY KeptSolved
<1> HIDE DEF u
<1>2. u[i] = [r \in Strings |-> KeptFrom(f, quotes, lang, u, i, r)]
  BY <1>1, Zenon
<1>3. u[i][q] = KeptFrom(f, quotes, lang, u, i, q)
  BY <1>2
<1> QED
  BY <1>3 DEF u, KeptFrom

LEMMA TurnTyped ==
  ASSUME NEW quotes \in SUBSET Quotes, NEW ch, NEW q \in Strings
  PROVE  Turn(ch, q, quotes) \in Strings
BY DEF Turn, Strings

\* The character at i, and that and the next one.
One(f, i) == <<f[i]>>
Two(f, i) == <<f[i], f[i + 1]>>

\* The four cases of a step.
LEMMA KeptEscape ==
  ASSUME NEW f \in Seq(Chars), NEW quotes \in SUBSET Quotes, NEW lang,
         NEW i \in 1 .. Len(f) - 1, NEW q \in Strings, q # "none", f[i] = "\\"
  PROVE  Kept(f, quotes, lang)[i][q] = Two(f, i) \o Kept(f, quotes, lang)[i + 2][q]
<1> DEFINE u == Kept(f, quotes, lang)
<1>1. i \in 1 .. Len(f) + 3 /\ ~ (i > Len(f)) /\ i < Len(f)
  OBVIOUS
<1>2. u[i][q] = KeptFrom(f, quotes, lang, u, i, q)
  BY <1>1, KeptSteps
<1> HIDE DEF u
<1> QED
  BY <1>1, <1>2 DEF KeptFrom, u, One, Two

LEMMA KeptLineComment ==
  ASSUME NEW f \in Seq(Chars), NEW quotes \in SUBSET Quotes, NEW lang,
         NEW i \in 1 .. Len(f), NEW q \in Strings,
         q = "none", LineBegins(f, i, lang)
  PROVE  Kept(f, quotes, lang)[i][q] = Kept(f, quotes, lang)[LineEnd(f, i)]["none"]
<1> DEFINE u == Kept(f, quotes, lang)
<1>1. i \in 1 .. Len(f) + 3 /\ ~ (i > Len(f))
  OBVIOUS
<1>2. u[i][q] = KeptFrom(f, quotes, lang, u, i, q)
  BY <1>1, KeptSteps
<1> HIDE DEF u
<1> QED
  BY <1>1, <1>2 DEF KeptFrom, u, One, Two

LEMMA KeptBlockComment ==
  ASSUME NEW f \in Seq(Chars), NEW quotes \in SUBSET Quotes, NEW lang,
         NEW i \in 1 .. Len(f), NEW q \in Strings,
         q = "none", ~ LineBegins(f, i, lang), BlockBegins(f, i, lang)
  PROVE  Kept(f, quotes, lang)[i][q] = Kept(f, quotes, lang)[BlockEnd(f, i)]["none"]
<1> DEFINE u == Kept(f, quotes, lang)
<1>1. i \in 1 .. Len(f) + 3 /\ ~ (i > Len(f))
  OBVIOUS
<1>2. u[i][q] = KeptFrom(f, quotes, lang, u, i, q)
  BY <1>1, KeptSteps
<1> HIDE DEF u
<1> QED
  BY <1>1, <1>2 DEF KeptFrom, u, One, Two

LEMMA KeptCharacter ==
  ASSUME NEW f \in Seq(Chars), NEW quotes \in SUBSET Quotes, NEW lang,
         NEW i \in 1 .. Len(f), NEW q \in Strings,
         ~ (q # "none" /\ f[i] = "\\" /\ i < Len(f)),
         ~ (q = "none" /\ (LineBegins(f, i, lang) \/ BlockBegins(f, i, lang)))
  PROVE  Kept(f, quotes, lang)[i][q] = One(f, i) \o Kept(f, quotes, lang)[i + 1][Turn(f[i], q, quotes)]
<1> DEFINE u == Kept(f, quotes, lang)
<1>1. i \in 1 .. Len(f) + 3 /\ ~ (i > Len(f))
  OBVIOUS
<1>2. u[i][q] = KeptFrom(f, quotes, lang, u, i, q)
  BY <1>1, KeptSteps
<1> HIDE DEF u
<1> QED
  BY <1>1, <1>2 DEF KeptFrom, u, One, Two

LEMMA KeptInString ==
  ASSUME NEW f \in Seq(Chars), NEW quotes \in SUBSET Quotes, NEW lang,
         NEW i \in 1 .. Len(f), NEW q \in Strings,
         q # "none", f[i] # "\\"
  PROVE  Kept(f, quotes, lang)[i][q]
           = One(f, i) \o Kept(f, quotes, lang)[i + 1][Turn(f[i], q, quotes)]
BY KeptCharacter

LEMMA KeptInCode ==
  ASSUME NEW f \in Seq(Chars), NEW quotes \in SUBSET Quotes, NEW lang,
         NEW i \in 1 .. Len(f), ~ LineBegins(f, i, lang), ~ BlockBegins(f, i, lang)
  PROVE  Kept(f, quotes, lang)[i]["none"]
           = One(f, i) \o Kept(f, quotes, lang)[i + 1][Turn(f[i], "none", quotes)]
<1>1. "none" \in Strings
  BY DEF Strings
<1> QED
  BY <1>1, KeptCharacter

\* What is kept is a sequence of characters.
LEMMA KeptTyped ==
  ASSUME NEW f \in Seq(Chars), NEW quotes \in SUBSET Quotes, NEW lang
  PROVE  \A i \in 1 .. Len(f) + 3 : \A q \in Strings : Kept(f, quotes, lang)[i][q] \in Seq(Chars)
<1> DEFINE u == Kept(f, quotes, lang)
           N == Len(f) + 3
           Typed(i) == \A q \in Strings : u[i][q] \in Seq(Chars)
           Bad == {n \in Nat : n < N /\ ~ Typed(N - n)}
<1>1. N \in Nat /\ Len(f) \in Nat /\ N = Len(f) + 3
  OBVIOUS
<1>2. \A i \in 1 .. N : (\A j \in i + 1 .. N : Typed(j)) => Typed(i)
  <2> SUFFICES ASSUME NEW i \in 1 .. N, \A j \in i + 1 .. N : Typed(j), NEW q \in Strings
               PROVE  u[i][q] \in Seq(Chars)
    OBVIOUS
  <2>1. CASE i > Len(f)
    <3>1. u[i][q] = <<>>
      BY <2>1, KeptSteps
    <3> QED
      BY <3>1
  <2>2. CASE ~ (i > Len(f))
    <3>1. i \in 1 .. Len(f) /\ "none" \in Strings /\ i \in Nat
      BY <1>1, <2>2 DEF Strings
    <3>2. f[i] \in Chars /\ (i < Len(f) => f[i + 1] \in Chars)
      BY <1>1, <3>1, ElementOfSeq
    <3>3. Turn(f[i], q, quotes) \in Strings
      BY TurnTyped
    <3>4. /\ i + 1 \in i + 1 .. N /\ i + 2 \in i + 1 .. N
          /\ LineBegins(f, i, lang) => LineEnd(f, i) \in i + 1 .. N
          /\ BlockBegins(f, i, lang) => BlockEnd(f, i) \in i + 1 .. N
      <4>1. /\ LineBegins(f, i, lang) => LineEnd(f, i) \in i + 1 .. Len(f) + 1
            /\ BlockBegins(f, i, lang) => BlockEnd(f, i) \in i + 4 .. Len(f) + 3
        BY <3>1, CommentsEndLater
      <4> HIDE DEF N
      <4> QED
        BY <1>1, <3>1, <4>1
    <3>5. \A j \in i + 1 .. N : \A r \in Strings : u[j][r] \in Seq(Chars)
      OBVIOUS
    <3> HIDE DEF u, N, Typed
    <3>6. CASE q # "none" /\ f[i] = "\\" /\ i < Len(f)
      <4>1. u[i][q] = Two(f, i) \o u[i + 2][q]
        <5>1. i \in 1 .. Len(f) - 1
          BY <1>1, <3>1, <3>6
        <5> QED
          BY <3>6, <5>1, KeptEscape DEF u
      <4>2. Two(f, i) \in Seq(Chars) /\ u[i + 2][q] \in Seq(Chars)
        BY <3>2, <3>4, <3>5, <3>6 DEF Two
      <4> QED
        BY <4>1, <4>2, ConcatProperties
    <3>7. CASE q = "none" /\ LineBegins(f, i, lang)
      <4>1. u[i][q] = u[LineEnd(f, i)]["none"]
        BY <3>1, <3>7, KeptLineComment DEF u
      <4> QED
        BY <3>1, <3>4, <3>5, <3>7, <4>1
    <3>8. CASE q = "none" /\ ~ LineBegins(f, i, lang) /\ BlockBegins(f, i, lang)
      <4>1. u[i][q] = u[BlockEnd(f, i)]["none"]
        BY <3>1, <3>8, KeptBlockComment DEF u
      <4> QED
        BY <3>1, <3>4, <3>5, <3>8, <4>1
    <3>9. CASE /\ ~ (q # "none" /\ f[i] = "\\" /\ i < Len(f))
               /\ ~ (q = "none" /\ (LineBegins(f, i, lang) \/ BlockBegins(f, i, lang)))
      <4>1. u[i][q] = One(f, i) \o u[i + 1][Turn(f[i], q, quotes)]
        BY <3>1, <3>9, KeptCharacter DEF u
      <4>2. One(f, i) \in Seq(Chars) /\ u[i + 1][Turn(f[i], q, quotes)] \in Seq(Chars)
        BY <3>2, <3>3, <3>4, <3>5 DEF One
      <4> QED
        BY <4>1, <4>2, ConcatProperties
    <3> QED
      BY <3>6, <3>7, <3>8, <3>9
  <2> QED
    BY <2>1, <2>2
<1>3. Bad = {}
  <2> SUFFICES ASSUME Bad # {} PROVE FALSE
    OBVIOUS
  <2>1. PICK n \in Bad : \A m \in Bad : n <= m
    <3>1. Bad \subseteq Nat
      OBVIOUS
    <3> HIDE DEF Bad
    <3> QED
      BY <3>1, LeastNumber
  <2>2. n \in Nat /\ n < N /\ ~ Typed(N - n)
    OBVIOUS
  <2> HIDE DEF N, Typed
  <2>3. ASSUME NEW j \in N - n + 1 .. N PROVE Typed(j)
    <3>1. N - j \in Nat /\ N - j < n /\ N - j < N /\ N - (N - j) = j
      BY <1>1, <2>2
    <3>2. N - j \notin Bad
      <4> HIDE DEF Bad
      <4> QED
        BY <2>1, <2>2, <3>1
    <3> QED
      BY <3>1, <3>2
  <2>4. N - n \in 1 .. N
    BY <1>1, <2>2
  <2> QED
    BY <1>2, <2>2, <2>3, <2>4
<1>4. \A i \in 1 .. N : Typed(i)
  <2> SUFFICES ASSUME NEW i \in 1 .. N PROVE Typed(i)
    OBVIOUS
  <2> HIDE DEF N, Typed
  <2>1. N - i \in Nat /\ N - i < N /\ N - (N - i) = i
    BY <1>1
  <2>2. N - i \notin Bad
    <3> HIDE DEF Bad
    <3> QED
      BY <1>3
  <2> QED
    BY <2>1, <2>2
<1> QED
  BY <1>4

\* u and what is added to it.
LEMMA Joined ==
  ASSUME NEW u \in Seq(Chars), NEW v \in Seq(Chars)
  PROVE  /\ u \o v \in Seq(Chars)
         /\ Len(u) \in Nat /\ Len(v) \in Nat /\ Len(u \o v) = Len(u) + Len(v)
         /\ \A i \in 1 .. Len(u) : (u \o v)[i] = u[i]
         /\ \A i \in 1 .. Len(v) : (u \o v)[Len(u) + i] = v[i]
<1>1. Len(u) \in Nat /\ Len(v) \in Nat
  OBVIOUS
<1>2. /\ u \o v \in Seq(Chars)
      /\ Len(u \o v) = Len(u) + Len(v)
      /\ \A i \in 1 .. Len(u) + Len(v) :
           (u \o v)[i] = IF i <= Len(u) THEN u[i] ELSE v[i - Len(u)]
  BY ConcatProperties
<1>3. \A i \in 1 .. Len(u) : (u \o v)[i] = u[i]
  BY <1>1, <1>2
<1>4. ASSUME NEW i \in 1 .. Len(v) PROVE (u \o v)[Len(u) + i] = v[i]
  <2>1. Len(u) + i \in 1 .. Len(u) + Len(v) /\ ~ (Len(u) + i <= Len(u)) /\ Len(u) + i - Len(u) = i
    BY <1>1
  <2> QED
    BY <1>2, <2>1
<1> QED
  BY <1>1, <1>2, <1>3, <1>4

\* A comment that ends in u ends there whatever is added.
LEMMA LineEndStays ==
  ASSUME NEW u \in Seq(Chars), NEW v \in Seq(Chars), NEW i \in 1 .. Len(u),
         LineEnd(u, i) <= Len(u)
  PROVE  LineEnd(u \o v, i) = LineEnd(u, i)
<1> DEFINE w == u \o v
           e == LineEnd(u, i)
           d == LineEnd(w, i)
<1>1. /\ w \in Seq(Chars) /\ Len(u) \in Nat /\ Len(v) \in Nat /\ Len(w) = Len(u) + Len(v)
      /\ \A j \in 1 .. Len(u) : w[j] = u[j]
  BY Joined
<1>2. e \in i .. Len(u) /\ u[e] = "LF" /\ \A j \in i .. e - 1 : u[j] # "LF"
  BY <1>1, LineEndIs
<1>3. /\ d \in i .. Len(w) + 1
      /\ d = Len(w) + 1 \/ w[d] = "LF"
      /\ \A j \in i .. d - 1 : w[j] # "LF"
  <2>1. i \in 1 .. Len(w)
    BY <1>1
  <2> HIDE DEF w
  <2> QED
    BY <1>1, <2>1, LineEndIs
<1> HIDE DEF w, e, d
<1>4. w[e] = "LF" /\ ~ (e < d)
  BY <1>1, <1>2, <1>3
<1>5. ~ (d < e)
  BY <1>1, <1>2, <1>3
<1> QED
  BY <1>1, <1>2, <1>3, <1>4, <1>5 DEF w, e, d

LEMMA BlockEndStays ==
  ASSUME NEW u \in Seq(Chars), NEW v \in Seq(Chars), NEW i \in Nat \ {0},
         i < Len(u), BlockEnd(u, i) <= Len(u) + 1
  PROVE  BlockEnd(u \o v, i) = BlockEnd(u, i)
<1> DEFINE w == u \o v
           e == BlockEnd(u, i) - 2
           d == BlockEnd(w, i) - 2
<1>1. /\ w \in Seq(Chars) /\ Len(u) \in Nat /\ Len(v) \in Nat /\ Len(w) = Len(u) + Len(v)
      /\ \A j \in 1 .. Len(u) : w[j] = u[j]
  BY Joined
<1>2. /\ e \in i + 2 .. Len(u) + 1 /\ BlockEnd(u, i) = e + 2
      /\ e >= Len(u) \/ Pair(u, e, "*", "/")
      /\ \A j \in i + 2 .. e - 1 : j < Len(u) /\ ~ Pair(u, j, "*", "/")
  BY BlockEndIs
<1>3. /\ d \in i + 2 .. Len(w) + 1 /\ BlockEnd(w, i) = d + 2
      /\ d >= Len(w) \/ Pair(w, d, "*", "/")
      /\ \A j \in i + 2 .. d - 1 : j < Len(w) /\ ~ Pair(w, j, "*", "/")
  <2>1. i < Len(w)
    BY <1>1
  <2> HIDE DEF w
  <2> QED
    BY <1>1, <2>1, BlockEndIs
<1> HIDE DEF w, e, d
<1>4. \A j \in 1 .. Len(u) - 1 : Pair(w, j, "*", "/") <=> Pair(u, j, "*", "/")
  BY <1>1 DEF Pair
<1>5. e < Len(u)
  BY <1>1, <1>2
<1>6. Pair(w, e, "*", "/")
  BY <1>1, <1>2, <1>4, <1>5
<1>7. ~ (e < d)
  BY <1>2, <1>3, <1>6
<1>8. ~ (d < e)
  <2> SUFFICES ASSUME d < e PROVE FALSE
    OBVIOUS
  <2>1. d \in 1 .. Len(u) - 1 /\ d \in i + 2 .. e - 1 /\ d < Len(w)
    BY <1>1, <1>2, <1>3, <1>5
  <2> QED
    BY <1>2, <1>3, <1>4, <2>1
<1> QED
  BY <1>2, <1>3, <1>7, <1>8 DEF w, d, e

\* A comment of u that does not end in it goes on over a character added to it.
LEMMA LineGoesOn ==
  ASSUME NEW u \in Seq(Chars), NEW v \in Seq(Chars), NEW i \in 1 .. Len(u),
         LineEnd(u, i) > Len(u), \A j \in 1 .. Len(v) : v[j] # "LF"
  PROVE  LineEnd(u \o v, i) = Len(u \o v) + 1
<1> DEFINE w == u \o v
           e == LineEnd(u, i)
           d == LineEnd(w, i)
<1>1. /\ w \in Seq(Chars) /\ Len(u) \in Nat /\ Len(v) \in Nat /\ Len(w) = Len(u) + Len(v)
      /\ \A j \in 1 .. Len(u) : w[j] = u[j]
      /\ \A j \in 1 .. Len(v) : w[Len(u) + j] = v[j]
  BY Joined
<1>2. e = Len(u) + 1 /\ \A j \in i .. e - 1 : u[j] # "LF"
  <2>1. e \in i .. Len(u) + 1 /\ \A j \in i .. e - 1 : u[j] # "LF"
    BY LineEndIs
  <2>2. e > Len(u) /\ i \in Nat
    OBVIOUS
  <2> HIDE DEF e
  <2> QED
    BY <1>1, <2>1, <2>2
<1>3. /\ d \in i .. Len(w) + 1
      /\ d = Len(w) + 1 \/ w[d] = "LF"
  <2>1. i \in 1 .. Len(w)
    BY <1>1
  <2> HIDE DEF w
  <2> QED
    BY <1>1, <2>1, LineEndIs
<1> HIDE DEF w, e, d
<1>4. \A j \in i .. Len(u) : w[j] # "LF"
  BY <1>1, <1>2
<1>5. \A j \in Len(u) + 1 .. Len(w) : w[j] # "LF"
  <2> SUFFICES ASSUME NEW j \in Len(u) + 1 .. Len(w) PROVE w[j] # "LF"
    OBVIOUS
  <2>1. j - Len(u) \in 1 .. Len(v) /\ Len(u) + (j - Len(u)) = j
    BY <1>1
  <2> QED
    BY <1>1, <2>1
<1>6. \A j \in i .. Len(w) : w[j] # "LF"
  BY <1>1, <1>4, <1>5
<1>7. d = Len(w) + 1
  <2> SUFFICES ASSUME d # Len(w) + 1 PROVE FALSE
    OBVIOUS
  <2>1. d \in i .. Len(w)
    BY <1>1, <1>3
  <2> QED
    BY <1>3, <1>6, <2>1
<1> QED
  BY <1>7 DEF w, d

LEMMA BlockGoesOn ==
  ASSUME NEW u \in Seq(Chars), NEW i \in Nat \ {0},
         i < Len(u), BlockEnd(u, i) > Len(u) + 1
  PROVE  /\ BlockEnd(u, i) \in Len(u) + 2 .. Len(u) + 3
         /\ BlockEnd(u \o <<"a">>, i) \in Len(u) + 3 .. Len(u) + 4
<1> DEFINE w == u \o <<"a">>
           e == BlockEnd(u, i) - 2
           d == BlockEnd(w, i) - 2
<1>1. <<"a">> \in Seq(Chars) /\ Len(<<"a">>) = 1 /\ <<"a">>[1] = "a"
  <2>1. "a" \in Chars
    BY DEF Chars
  <2> QED
    BY <2>1
<1>2. /\ w \in Seq(Chars) /\ Len(u) \in Nat /\ Len(w) = Len(u) + 1
      /\ \A j \in 1 .. Len(u) : w[j] = u[j]
      /\ w[Len(u) + 1] = "a"
  <2>1. 1 \in 1 .. Len(<<"a">>)
    BY <1>1
  <2> QED
    BY <1>1, <2>1, Joined
<1>3. /\ e \in i + 2 .. Len(u) + 1 /\ BlockEnd(u, i) = e + 2
      /\ \A j \in i + 2 .. e - 1 : j < Len(u) /\ ~ Pair(u, j, "*", "/")
  BY BlockEndIs
<1>4. /\ d \in i + 2 .. Len(w) + 1 /\ BlockEnd(w, i) = d + 2
      /\ d >= Len(w) \/ Pair(w, d, "*", "/")
  <2>1. i < Len(w)
    BY <1>2
  <2> HIDE DEF w
  <2> QED
    BY <1>2, <2>1, BlockEndIs
<1> HIDE DEF w, e, d
<1>5. \A j \in 1 .. Len(u) - 1 : Pair(w, j, "*", "/") <=> Pair(u, j, "*", "/")
  BY <1>2 DEF Pair
<1>6. ~ Pair(w, Len(u), "*", "/")
  BY <1>2 DEF Pair
<1>7. e >= Len(u)
  BY <1>2, <1>3 DEF e
<1>8. d >= Len(w)
  <2> SUFFICES ASSUME d < Len(w) PROVE FALSE
    BY <1>2, <1>4
  <2>1. Pair(w, d, "*", "/") /\ d # Len(u)
    BY <1>2, <1>4, <1>6
  <2>2. d \in 1 .. Len(u) - 1 /\ d \in i + 2 .. e - 1
    BY <1>2, <1>3, <1>4, <1>7, <2>1
  <2> QED
    BY <1>3, <1>5, <2>1, <2>2
<1> QED
  BY <1>2, <1>3, <1>4, <1>7, <1>8 DEF w, d, e

LineOf(lang) == IF lang = "python" THEN <<"#">> ELSE <<"/", "/">>

\* Scanning u on from character i in string q, what is added is neither in a
\* string nor in a comment, as far as a character and a comment tell.
OpenFrom(u, quotes, lang, i, q) ==
  LET kept(f) == Kept(f, quotes, lang)[i][q] IN
    /\ kept(u \o <<"a">>) = kept(u) \o <<"a">>
    /\ kept(u \o LineOf(lang)) = kept(u)

\* The step from i in q is the same whatever is added to u, and stays in u.
StepsOn(u, quotes, lang, i, q) ==
  \E e \in Seq(Chars), j \in i + 1 .. Len(u) + 1, r \in Strings :
    \A v \in Seq(Chars) :
      Kept(u \o v, quotes, lang)[i][q] = e \o Kept(u \o v, quotes, lang)[j][r]

LEMMA LettersTyped ==
  ASSUME NEW lang
  PROVE  /\ <<"a">> \in Seq(Chars) /\ Len(<<"a">>) = 1 /\ <<"a">>[1] = "a"
         /\ LineOf(lang) \in Seq(Chars) /\ <<>> \in Seq(Chars)
         /\ lang = "python" => Len(LineOf(lang)) = 1 /\ LineOf(lang)[1] = "#"
         /\ lang # "python" => /\ Len(LineOf(lang)) = 2
                               /\ LineOf(lang)[1] = "/" /\ LineOf(lang)[2] = "/"
<1>1. "a" \in Chars /\ "#" \in Chars /\ "/" \in Chars
  BY DEF Chars
<1> QED
  BY <1>1 DEF LineOf

\* A step in a string.
LEMMA StringStepsOn ==
  ASSUME NEW u \in Seq(Chars), NEW quotes \in SUBSET Quotes, NEW lang,
         NEW i \in 1 .. Len(u), NEW q \in Strings, q # "none",
         u[i] = "\\" => i < Len(u)
  PROVE  StepsOn(u, quotes, lang, i, q)
<1>1. Len(u) \in Nat /\ i \in Nat \ {0}
  OBVIOUS
<1>2. u[i] \in Chars /\ (i < Len(u) => u[i + 1] \in Chars)
  BY <1>1, ElementOfSeq
<1>3. CASE u[i] = "\\"
  <2>1. Two(u, i) \in Seq(Chars) /\ i + 2 \in i + 1 .. Len(u) + 1
    BY <1>1, <1>2, <1>3 DEF Two
  <2>2. ASSUME NEW v \in Seq(Chars)
        PROVE  Kept(u \o v, quotes, lang)[i][q] = Two(u, i) \o Kept(u \o v, quotes, lang)[i + 2][q]
    <3> DEFINE w == u \o v
    <3>1. /\ w \in Seq(Chars) /\ Len(w) = Len(u) + Len(v) /\ Len(v) \in Nat
          /\ w[i] = u[i] /\ w[i + 1] = u[i + 1]
      BY <1>1, <1>3, Joined
    <3>2. i \in 1 .. Len(w) - 1
      BY <1>1, <1>3, <3>1
    <3>3. Two(w, i) = Two(u, i)
      BY <3>1 DEF Two
    <3> HIDE DEF w
    <3>4. Kept(w, quotes, lang)[i][q] = Two(w, i) \o Kept(w, quotes, lang)[i + 2][q]
      <4>1. w[i] = "\\"
        BY <1>3, <3>1
      <4>2. w \in Seq(Chars)
        BY <3>1
      <4> QED
        BY <3>2, <4>1, <4>2, KeptEscape, Zenon
    <3> QED
      BY <3>3, <3>4 DEF w
  <2> QED
    BY <2>1, <2>2 DEF StepsOn
<1>4. CASE u[i] # "\\"
  <2>1. One(u, i) \in Seq(Chars) /\ i + 1 \in i + 1 .. Len(u) + 1 /\ Turn(u[i], q, quotes) \in Strings
    BY <1>1, <1>2, TurnTyped DEF One
  <2>2. ASSUME NEW v \in Seq(Chars)
        PROVE  Kept(u \o v, quotes, lang)[i][q]
                 = One(u, i) \o Kept(u \o v, quotes, lang)[i + 1][Turn(u[i], q, quotes)]
    <3> DEFINE w == u \o v
    <3>1. /\ w \in Seq(Chars) /\ Len(w) = Len(u) + Len(v) /\ Len(v) \in Nat
          /\ w[i] = u[i]
      BY <1>1, Joined
    <3>2. i \in 1 .. Len(w)
      BY <1>1, <3>1
    <3>3. One(w, i) = One(u, i)
      BY <3>1 DEF One
    <3> HIDE DEF w
    <3>4. Kept(w, quotes, lang)[i][q] = One(w, i) \o Kept(w, quotes, lang)[i + 1][Turn(w[i], q, quotes)]
      <4>1. w[i] # "\\"
        BY <1>4, <3>1
      <4>2. w \in Seq(Chars)
        BY <3>1
      <4> QED
        BY <3>2, <4>1, <4>2, KeptInString, Zenon
    <3> QED
      BY <3>1, <3>3, <3>4 DEF w
  <2> QED
    BY <2>1, <2>2 DEF StepsOn
<1> QED
  BY <1>3, <1>4

\* A step over a comment that ends in u.
LEMMA CommentStepsOn ==
  ASSUME NEW u \in Seq(Chars), NEW quotes \in SUBSET Quotes, NEW lang,
         NEW i \in 1 .. Len(u),
         \/ LineBegins(u, i, lang) /\ LineEnd(u, i) <= Len(u)
         \/ ~ LineBegins(u, i, lang) /\ BlockBegins(u, i, lang) /\ BlockEnd(u, i) <= Len(u) + 1
  PROVE  StepsOn(u, quotes, lang, i, "none")
<1>1. Len(u) \in Nat /\ i \in Nat \ {0} /\ "none" \in Strings
  BY DEF Strings
<1>2. ASSUME NEW v \in Seq(Chars)
      PROVE  /\ u \o v \in Seq(Chars) /\ i \in 1 .. Len(u \o v)
             /\ LineBegins(u, i, lang) => LineBegins(u \o v, i, lang)
             /\ BlockBegins(u, i, lang) => BlockBegins(u \o v, i, lang)
             /\ ~ LineBegins(u, i, lang) /\ BlockBegins(u, i, lang) => ~ LineBegins(u \o v, i, lang)
  <2> DEFINE w == u \o v
  <2>1. /\ w \in Seq(Chars) /\ Len(w) = Len(u) + Len(v) /\ Len(v) \in Nat
        /\ w[i] = u[i] /\ (i < Len(u) => w[i + 1] = u[i + 1])
    BY <1>1, Joined
  <2> HIDE DEF w
  <2> QED
    BY <1>1, <2>1 DEF LineBegins, BlockBegins, Pair, w
<1>3. CASE LineBegins(u, i, lang) /\ LineEnd(u, i) <= Len(u)
  <2>1. LineEnd(u, i) \in i + 1 .. Len(u) + 1
    BY <1>3, CommentsEndLater
  <2>2. ASSUME NEW v \in Seq(Chars)
        PROVE  Kept(u \o v, quotes, lang)[i]["none"]
                 = <<>> \o Kept(u \o v, quotes, lang)[LineEnd(u, i)]["none"]
    <3> DEFINE w == u \o v
    <3>1. LineEnd(w, i) = LineEnd(u, i)
      BY <1>3, LineEndStays
    <3>2. w \in Seq(Chars) /\ i \in 1 .. Len(w) /\ LineBegins(w, i, lang)
      BY <1>2, <1>3
    <3> HIDE DEF w
    <3>3. Kept(w, quotes, lang)[i]["none"] = Kept(w, quotes, lang)[LineEnd(w, i)]["none"]
      BY <1>1, <3>2, KeptLineComment
    <3>4. LineEnd(w, i) \in 1 .. Len(w) + 3
      BY <1>1, <3>2, LineEndIs
    <3>5. Kept(w, quotes, lang)[LineEnd(w, i)]["none"] \in Seq(Chars)
      BY <1>1, <3>2, <3>4, KeptTyped
    <3> QED
      BY <3>1, <3>3, <3>5, ConcatEmptySeq DEF w
  <2>3. <<>> \in Seq(Chars)
    OBVIOUS
  <2> QED
    BY <1>1, <2>1, <2>2, <2>3 DEF StepsOn
<1>4. CASE ~ LineBegins(u, i, lang) /\ BlockBegins(u, i, lang) /\ BlockEnd(u, i) <= Len(u) + 1
  <2>1. BlockEnd(u, i) \in i + 1 .. Len(u) + 1 /\ i < Len(u)
    <3>1. BlockEnd(u, i) \in i + 4 .. Len(u) + 3
      BY <1>4, CommentsEndLater
    <3> QED
      BY <1>1, <1>4, <3>1 DEF BlockBegins, Pair
  <2>2. ASSUME NEW v \in Seq(Chars)
        PROVE  Kept(u \o v, quotes, lang)[i]["none"]
                 = <<>> \o Kept(u \o v, quotes, lang)[BlockEnd(u, i)]["none"]
    <3> DEFINE w == u \o v
    <3>1. BlockEnd(w, i) = BlockEnd(u, i)
      BY <1>1, <1>4, <2>1, BlockEndStays
    <3>2. w \in Seq(Chars) /\ i \in 1 .. Len(w) /\ ~ LineBegins(w, i, lang) /\ BlockBegins(w, i, lang)
      BY <1>2, <1>4
    <3> HIDE DEF w
    <3>3. Kept(w, quotes, lang)[i]["none"] = Kept(w, quotes, lang)[BlockEnd(w, i)]["none"]
      BY <1>1, <3>2, KeptBlockComment
    <3>4. BlockEnd(w, i) \in i + 4 .. Len(w) + 3 /\ i \in Nat
      BY <1>1, <3>2, CommentsEndLater
    <3>5. Kept(w, quotes, lang)[BlockEnd(w, i)]["none"] \in Seq(Chars)
      <4>1. BlockEnd(w, i) \in 1 .. Len(w) + 3
        BY <3>4
      <4> QED
        BY <1>1, <3>2, <4>1, KeptTyped
    <3> QED
      BY <3>1, <3>3, <3>5, ConcatEmptySeq DEF w
  <2>3. <<>> \in Seq(Chars)
    OBVIOUS
  <2> QED
    BY <1>1, <2>1, <2>2, <2>3 DEF StepsOn
<1> QED
  BY <1>3, <1>4

\* A step in the code, outside of strings and comments.
LEMMA CodeStepsOn ==
  ASSUME NEW u \in Seq(Chars), NEW quotes \in SUBSET Quotes, NEW lang,
         NEW i \in 1 .. Len(u), ~ LineBegins(u, i, lang), ~ BlockBegins(u, i, lang),
         lang # "python" /\ u[i] = "/" => i < Len(u)
  PROVE  StepsOn(u, quotes, lang, i, "none")
<1>1. Len(u) \in Nat /\ i \in Nat \ {0} /\ "none" \in Strings
  BY DEF Strings
<1>2. u[i] \in Chars
  BY ElementOfSeq
<1>3. One(u, i) \in Seq(Chars) /\ i + 1 \in i + 1 .. Len(u) + 1 /\ Turn(u[i], "none", quotes) \in Strings
  BY <1>1, <1>2, TurnTyped DEF One
<1>4. ASSUME NEW v \in Seq(Chars)
      PROVE  Kept(u \o v, quotes, lang)[i]["none"]
               = One(u, i) \o Kept(u \o v, quotes, lang)[i + 1][Turn(u[i], "none", quotes)]
  <2> DEFINE w == u \o v
  <2>1. /\ w \in Seq(Chars) /\ Len(w) = Len(u) + Len(v) /\ Len(v) \in Nat
        /\ w[i] = u[i] /\ (i < Len(u) => w[i + 1] = u[i + 1])
    BY <1>1, Joined
  <2> HIDE DEF w
  <2>2. ~ LineBegins(w, i, lang) /\ ~ BlockBegins(w, i, lang)
    BY <1>1, <2>1 DEF LineBegins, BlockBegins, Pair
  <2>3. i \in 1 .. Len(w)
    BY <1>1, <2>1
  <2>4. One(w, i) = One(u, i)
    BY <2>1 DEF One
  <2>5. Kept(w, quotes, lang)[i]["none"] = One(w, i) \o Kept(w, quotes, lang)[i + 1][Turn(w[i], "none", quotes)]
    <3>1. w \in Seq(Chars)
      BY <2>1
    <3> QED
      BY <2>2, <2>3, <3>1, KeptInCode
  <2> QED
    BY <2>1, <2>4, <2>5 DEF w
<1> QED
  BY <1>1, <1>3, <1>4 DEF StepsOn

\* What OpenFrom rules out: that a comment goes on after u,
LEMMA OpenHasNoComment ==
  ASSUME NEW u \in Seq(Chars), NEW quotes \in SUBSET Quotes, NEW lang,
         NEW i \in 1 .. Len(u), OpenFrom(u, quotes, lang, i, "none"),
         LineBegins(u, i, lang) \/ BlockBegins(u, i, lang)
  PROVE  /\ LineBegins(u, i, lang) => LineEnd(u, i) <= Len(u)
         /\ ~ LineBegins(u, i, lang) => BlockEnd(u, i) <= Len(u) + 1
<1> DEFINE w == u \o <<"a">>
<1>1. /\ w \in Seq(Chars) /\ Len(u) \in Nat /\ Len(w) = Len(u) + 1 /\ "none" \in Strings
      /\ i \in Nat \ {0} /\ i \in 1 .. Len(w)
      /\ w[i] = u[i] /\ (i < Len(u) => w[i + 1] = u[i + 1])
  <2>1. <<"a">> \in Seq(Chars) /\ Len(<<"a">>) = 1 /\ i \in 1 .. Len(u)
    BY LettersTyped
  <2>2. /\ w \in Seq(Chars) /\ Len(u) \in Nat /\ Len(w) = Len(u) + Len(<<"a">>)
        /\ \A j \in 1 .. Len(u) : w[j] = u[j]
    BY <2>1, Joined
  <2> HIDE DEF w
  <2>3. Len(w) = Len(u) + 1
    BY <2>1, <2>2
  <2> QED
    BY <2>1, <2>2, <2>3 DEF Strings
<1>2. ~ (Kept(w, quotes, lang)[i]["none"] = <<>> /\ Kept(u, quotes, lang)[i]["none"] = <<>>)
  <2>1. Kept(w, quotes, lang)[i]["none"] = Kept(u, quotes, lang)[i]["none"] \o <<"a">>
    BY DEF OpenFrom
  <2>2. <<>> \o <<"a">> # <<>>
    <3>1. <<"a">> \in Seq(Chars) /\ <<"a">> # <<>>
      BY LettersTyped
    <3> QED
      BY <3>1, ConcatEmptySeq
  <2> QED
    BY <2>1, <2>2
<1>3. ASSUME LineBegins(u, i, lang), ~ (LineEnd(u, i) <= Len(u))
      PROVE  FALSE
  <2>1. LineEnd(u, i) = Len(u) + 1 /\ LineEnd(w, i) = Len(w) + 1
    <3>1. LineEnd(u, i) \in i + 1 .. Len(u) + 1
      BY <1>3, CommentsEndLater
    <3>2. LineEnd(u, i) > Len(u)
      BY <1>1, <1>3, <3>1
    <3>3. \A j \in 1 .. Len(<<"a">>) : <<"a">>[j] # "LF"
      OBVIOUS
    <3>4. LineEnd(w, i) = Len(w) + 1
      <4>1. <<"a">> \in Seq(Chars)
        BY LettersTyped
      <4> QED
        BY <3>2, <3>3, <4>1, LineGoesOn
    <3> QED
      BY <1>1, <3>1, <3>2, <3>4
  <2> HIDE DEF w
  <2>2. LineBegins(w, i, lang)
    BY <1>1, <1>3 DEF LineBegins, Pair
  <2>3. /\ Kept(w, quotes, lang)[i]["none"] = Kept(w, quotes, lang)[LineEnd(w, i)]["none"]
        /\ Kept(u, quotes, lang)[i]["none"] = Kept(u, quotes, lang)[LineEnd(u, i)]["none"]
    BY <1>1, <1>3, <2>2, KeptLineComment
  <2>4. Kept(w, quotes, lang)[Len(w) + 1]["none"] = <<>> /\ Kept(u, quotes, lang)[Len(u) + 1]["none"] = <<>>
    BY <1>1, KeptSteps
  <2> QED
    BY <1>2, <2>1, <2>3, <2>4
<1>4. ASSUME ~ LineBegins(u, i, lang), BlockBegins(u, i, lang), ~ (BlockEnd(u, i) <= Len(u) + 1)
      PROVE  FALSE
  <2>1. i < Len(u)
    BY <1>4 DEF BlockBegins, Pair
  <2>2. /\ BlockEnd(u, i) \in Len(u) + 2 .. Len(u) + 3
        /\ BlockEnd(w, i) \in Len(u) + 3 .. Len(u) + 4
    <3>1. BlockEnd(u, i) \in i + 4 .. Len(u) + 3
      BY <1>4, CommentsEndLater
    <3>2. BlockEnd(u, i) > Len(u) + 1
      BY <1>1, <1>4, <3>1
    <3> QED
      BY <1>1, <2>1, <3>2, BlockGoesOn
  <2> HIDE DEF w
  <2>3. ~ LineBegins(w, i, lang) /\ BlockBegins(w, i, lang)
    BY <1>1, <1>4, <2>1 DEF LineBegins, BlockBegins, Pair
  <2>4. /\ Kept(w, quotes, lang)[i]["none"] = Kept(w, quotes, lang)[BlockEnd(w, i)]["none"]
        /\ Kept(u, quotes, lang)[i]["none"] = Kept(u, quotes, lang)[BlockEnd(u, i)]["none"]
    BY <1>1, <1>4, <2>3, KeptBlockComment
  <2>5. /\ BlockEnd(w, i) \in 1 .. Len(w) + 3 /\ BlockEnd(w, i) > Len(w)
        /\ BlockEnd(u, i) \in 1 .. Len(u) + 3 /\ BlockEnd(u, i) > Len(u)
    BY <1>1, <2>2
  <2>6. Kept(w, quotes, lang)[BlockEnd(w, i)]["none"] = <<>> /\ Kept(u, quotes, lang)[BlockEnd(u, i)]["none"] = <<>>
    BY <1>1, <2>5, KeptSteps
  <2> QED
    BY <1>2, <2>4, <2>6
<1> QED
  BY <1>3, <1>4

\* that u ends with a backslash in a string,
LEMMA OpenHasNoEscape ==
  ASSUME NEW u \in Seq(Chars), NEW quotes \in SUBSET Quotes, NEW lang,
         NEW q \in Strings, q # "none", Len(u) > 0, OpenFrom(u, quotes, lang, Len(u), q)
  PROVE  u[Len(u)] # "\\"
<1> SUFFICES ASSUME u[Len(u)] = "\\" PROVE FALSE
  OBVIOUS
<1> DEFINE w == u \o LineOf(lang)
           m == Len(u)
           x == Kept(u, quotes, lang)[m][q]
           y == Kept(w, quotes, lang)[m][q]
<1>1. /\ w \in Seq(Chars) /\ m \in Nat \ {0} /\ Len(w) \in Nat /\ Len(w) >= m + 1
      /\ w[m] = u[m]
  <2>1. LineOf(lang) \in Seq(Chars) /\ Len(LineOf(lang)) \in Nat /\ Len(LineOf(lang)) >= 1
    BY LettersTyped
  <2>2. /\ w \in Seq(Chars) /\ Len(u) \in Nat /\ Len(w) = Len(u) + Len(LineOf(lang))
        /\ \A j \in 1 .. Len(u) : w[j] = u[j]
    BY <2>1, Joined
  <2> HIDE DEF w
  <2> QED
    BY <2>1, <2>2
<1>2. x = y
  BY DEF OpenFrom
<1> HIDE DEF w, m
<1>3. x \in Seq(Chars) /\ Len(x) = 1
  <2>1. /\ m \in 1 .. Len(u) /\ m \in Nat /\ u[m] = "\\"
        /\ m + 1 \in 1 .. Len(u) + 3 /\ m + 1 > Len(u) /\ ~ (m < Len(u))
    BY <1>1 DEF m
  <2>2. Turn(u[m], q, quotes) \in Strings
    BY TurnTyped
  <2>3. x = One(u, m) \o Kept(u, quotes, lang)[m + 1][Turn(u[m], q, quotes)]
    <3>1. ~ (q # "none" /\ u[m] = "\\" /\ m < Len(u))
      BY <2>1
    <3> QED
      BY <2>1, <3>1, KeptCharacter
  <2>4. Kept(u, quotes, lang)[m + 1][Turn(u[m], q, quotes)] = <<>>
    BY <2>1, <2>2, KeptSteps
  <2>5. One(u, m) \in Seq(Chars) /\ Len(One(u, m)) = 1
    BY <2>1, ElementOfSeq DEF One
  <2> QED
    BY <2>3, <2>4, <2>5, ConcatEmptySeq
<1>4. y \in Seq(Chars) /\ Len(y) >= 2
  <2>1. /\ m \in 1 .. Len(w) - 1 /\ w[m] = "\\" /\ m + 2 \in 1 .. Len(w) + 3
        /\ m \in 1 .. Len(w) /\ m + 1 \in 1 .. Len(w)
    BY <1>1 DEF m
  <2>2. y = Two(w, m) \o Kept(w, quotes, lang)[m + 2][q]
    <3>1. w \in Seq(Chars)
      BY <1>1
    <3> QED
      BY <2>1, <3>1, KeptEscape
  <2>3. Two(w, m) \in Seq(Chars) /\ Len(Two(w, m)) = 2
    BY <1>1, <2>1, ElementOfSeq DEF Two
  <2>4. Kept(w, quotes, lang)[m + 2][q] \in Seq(Chars)
    BY <1>1, <2>1, KeptTyped
  <2>5. Len(Kept(w, quotes, lang)[m + 2][q]) \in Nat
    BY <2>4
  <2>6. y \in Seq(Chars) /\ Len(y) = Len(Two(w, m)) + Len(Kept(w, quotes, lang)[m + 2][q])
    <3>1. \A a, b \in Seq(Chars) : a \o b \in Seq(Chars) /\ Len(a \o b) = Len(a) + Len(b)
      BY ConcatProperties
    <3> QED
      BY <2>2, <2>3, <2>4, <3>1, Zenon
  <2> HIDE DEF y
  <2> QED
    BY <2>3, <2>5, <2>6
<1> QED
  BY <1>2, <1>3, <1>4

\* and that it ends with the beginning of a comment.
LEMMA OpenHasNoSlash ==
  ASSUME NEW u \in Seq(Chars), NEW quotes \in SUBSET Quotes, NEW lang, lang # "python",
         Len(u) > 0, OpenFrom(u, quotes, lang, Len(u), "none")
  PROVE  u[Len(u)] # "/"
<1> SUFFICES ASSUME u[Len(u)] = "/" PROVE FALSE
  OBVIOUS
<1> DEFINE w == u \o LineOf(lang)
           m == Len(u)
           x == Kept(u, quotes, lang)[m]["none"]
           y == Kept(w, quotes, lang)[m]["none"]
<1>1. /\ w \in Seq(Chars) /\ m \in Nat \ {0} /\ Len(w) = m + 2 /\ "none" \in Strings
      /\ w[m] = u[m] /\ w[m + 1] = "/" /\ w[m + 2] = "/"
  BY LettersTyped, Joined DEF Strings
<1>2. x = y
  BY DEF OpenFrom
<1> HIDE DEF w, m
<1>3. x # <<>>
  <2>1. m \in 1 .. Len(u) /\ u[m] = "/" /\ m + 1 \in 1 .. Len(u) + 3 /\ m + 1 > Len(u) /\ ~ (m < Len(u))
    BY <1>1 DEF m
  <2>2. Turn(u[m], "none", quotes) \in Strings
    BY <1>1, TurnTyped
  <2>3. x = One(u, m) \o Kept(u, quotes, lang)[m + 1][Turn(u[m], "none", quotes)]
    <3>1. ~ LineBegins(u, m, lang) /\ ~ BlockBegins(u, m, lang)
      BY <2>1 DEF LineBegins, BlockBegins, Pair
    <3> QED
      BY <2>1, <3>1, KeptInCode
  <2>4. Kept(u, quotes, lang)[m + 1][Turn(u[m], "none", quotes)] = <<>>
    BY <2>1, <2>2, KeptSteps
  <2>5. One(u, m) \in Seq(Chars) /\ One(u, m) # <<>>
    BY <2>1, ElementOfSeq DEF One
  <2> QED
    BY <2>3, <2>4, <2>5, ConcatEmptySeq
<1>4. y = <<>>
  <2>1. m \in 1 .. Len(w) /\ LineBegins(w, m, lang)
    BY <1>1 DEF LineBegins, Pair, m
  <2>2. LineEnd(w, m) = Len(w) + 1
    <3>1. /\ LineEnd(w, m) \in m .. Len(w) + 1
          /\ LineEnd(w, m) = Len(w) + 1 \/ w[LineEnd(w, m)] = "LF"
      BY <1>1, <2>1, LineEndIs
    <3>2. \A j \in m .. Len(w) : w[j] # "LF"
      <4>1. \A j \in m .. Len(w) : j = m \/ j = m + 1 \/ j = m + 2
        BY <1>1
      <4>2. w[m] = "/"
        BY <1>1 DEF m
      <4> QED
        BY <1>1, <4>1, <4>2
    <3> SUFFICES ASSUME LineEnd(w, m) # Len(w) + 1 PROVE FALSE
      OBVIOUS
    <3>3. LineEnd(w, m) \in m .. Len(w)
      BY <1>1, <3>1
    <3> QED
      BY <3>1, <3>2, <3>3
  <2>3. y = Kept(w, quotes, lang)[LineEnd(w, m)]["none"]
    BY <1>1, <2>1, KeptLineComment
  <2>4. Kept(w, quotes, lang)[Len(w) + 1]["none"] = <<>>
    BY <1>1, KeptSteps
  <2> QED
    BY <2>2, <2>3, <2>4
<1> QED
  BY <1>2, <1>3, <1>4

LEMMA ScanStep ==
  ASSUME NEW u \in Seq(Chars), NEW quotes \in SUBSET Quotes, NEW lang,
         NEW i \in 1 .. Len(u), NEW q \in Strings, OpenFrom(u, quotes, lang, i, q)
  PROVE  StepsOn(u, quotes, lang, i, q)
<1>1. Len(u) \in Nat /\ Len(u) > 0 /\ (i < Len(u) \/ i = Len(u))
  OBVIOUS
<1>2. CASE q # "none"
  <2>1. u[i] = "\\" => i < Len(u)
    BY <1>1, <1>2, OpenHasNoEscape
  <2> QED
    BY <1>2, <2>1, StringStepsOn
<1>3. CASE q = "none" /\ (LineBegins(u, i, lang) \/ BlockBegins(u, i, lang))
  BY <1>3, OpenHasNoComment, CommentStepsOn
<1>4. CASE q = "none" /\ ~ LineBegins(u, i, lang) /\ ~ BlockBegins(u, i, lang)
  <2>1. lang # "python" /\ u[i] = "/" => i < Len(u)
    BY <1>1, <1>4, OpenHasNoSlash
  <2> QED
    BY <1>4, <2>1, CodeStepsOn
<1> QED
  BY <1>2, <1>3, <1>4

\* Nor does it leave a string open.
LEMMA OpenHasNoString ==
  ASSUME NEW u \in Seq(Chars), NEW quotes \in SUBSET Quotes, NEW lang,
         NEW q \in Strings, OpenFrom(u, quotes, lang, Len(u) + 1, q)
  PROVE  q = "none"
<1> SUFFICES ASSUME q # "none" PROVE FALSE
  OBVIOUS
<1> DEFINE w == u \o LineOf(lang)
           m == Len(u)
           x == Kept(u, quotes, lang)[m + 1][q]
           y == Kept(w, quotes, lang)[m + 1][q]
<1>1. /\ w \in Seq(Chars) /\ m \in Nat /\ Len(w) \in Nat /\ Len(w) >= m + 1
      /\ w[m + 1] \in {"#", "/"}
  <2>1. /\ LineOf(lang) \in Seq(Chars) /\ Len(LineOf(lang)) \in Nat /\ Len(LineOf(lang)) >= 1
        /\ LineOf(lang)[1] \in {"#", "/"} /\ 1 \in 1 .. Len(LineOf(lang))
    BY LettersTyped
  <2>2. /\ w \in Seq(Chars) /\ Len(u) \in Nat /\ Len(w) = Len(u) + Len(LineOf(lang))
        /\ \A j \in 1 .. Len(LineOf(lang)) : w[Len(u) + j] = LineOf(lang)[j]
    BY <2>1, Joined
  <2> HIDE DEF w
  <2> QED
    BY <2>1, <2>2
<1>2. x = y
  BY DEF OpenFrom
<1>3. x = <<>>
  <2>1. m + 1 \in 1 .. Len(u) + 3 /\ m + 1 > Len(u)
    BY <1>1
  <2> QED
    BY <2>1, KeptSteps
<1> HIDE DEF w, m
<1>4. y # <<>>
  <2>1. m + 1 \in 1 .. Len(w) /\ m + 1 + 1 \in 1 .. Len(w) + 3 /\ w[m + 1] # "\\"
    BY <1>1
  <2>2. Turn(w[m + 1], q, quotes) \in Strings
    BY TurnTyped
  <2>3. y = One(w, m + 1) \o Kept(w, quotes, lang)[m + 1 + 1][Turn(w[m + 1], q, quotes)]
    <3>1. w \in Seq(Chars)
      BY <1>1
    <3> QED
      BY <2>1, <3>1, KeptInString
  <2>4. One(w, m + 1) \in Seq(Chars) /\ One(w, m + 1) # <<>>
    BY <1>1, <2>1, ElementOfSeq DEF One
  <2>5. Kept(w, quotes, lang)[m + 1 + 1][Turn(w[m + 1], q, quotes)] \in Seq(Chars)
    BY <1>1, <2>1, <2>2, KeptTyped
  <2>6. \A a, b \in Seq(Chars) : a \o b = <<>> => a = <<>>
    BY ConcatEqualIffEmpty
  <2> QED
    BY <2>3, <2>4, <2>5, <2>6, Zenon
<1> QED
  BY <1>2, <1>3, <1>4

\* What two sequences begin with alike can be left out.
LEMMA CancelLeft ==
  ASSUME NEW s \in Seq(Chars), NEW t \in Seq(Chars), NEW v \in Seq(Chars), s \o t = s \o v
  PROVE  t = v
<1>1. /\ Len(s \o t) = Len(s) + Len(t) /\ Len(s \o v) = Len(s) + Len(v)
      /\ Len(s) \in Nat /\ Len(t) \in Nat /\ Len(v) \in Nat
  BY Joined
<1>2. Len(t) = Len(v)
  BY <1>1
<1>3. ASSUME NEW k \in 1 .. Len(t) PROVE t[k] = v[k]
  <2>1. (s \o t)[Len(s) + k] = t[k] /\ (s \o v)[Len(s) + k] = v[k]
    BY <1>2, Joined
  <2> QED
    BY <2>1
<1> QED
  BY <1>2, <1>3, SeqEqual

LEMMA Associative ==
  ASSUME NEW s \in Seq(Chars), NEW t \in Seq(Chars), NEW v \in Seq(Chars)
  PROVE  (s \o t) \o v = s \o (t \o v)
BY ConcatAssociative

\* Whatever is added to u, one gets from i in q to j in r and keeps e of it.
GoesTo(u, quotes, lang, i, q, e, j, r) ==
  \A v \in Seq(Chars) :
    Kept(u \o v, quotes, lang)[i][q] = e \o Kept(u \o v, quotes, lang)[j][r]

\* OpenFrom is kept by a step.
LEMMA OpenSteps ==
  ASSUME NEW u \in Seq(Chars), NEW quotes \in SUBSET Quotes, NEW lang,
         NEW i, NEW q, OpenFrom(u, quotes, lang, i, q),
         NEW e \in Seq(Chars), NEW j \in 1 .. Len(u) + 1, NEW r \in Strings,
         GoesTo(u, quotes, lang, i, q, e, j, r)
  PROVE  OpenFrom(u, quotes, lang, j, r)
<1> DEFINE from(v) == Kept(u \o v, quotes, lang)[i][q]
           to(v) == Kept(u \o v, quotes, lang)[j][r]
<1>1. <<"a">> \in Seq(Chars) /\ LineOf(lang) \in Seq(Chars) /\ <<>> \in Seq(Chars) /\ u \o <<>> = u
  BY LettersTyped, ConcatEmptySeq
<1>2. /\ from(<<"a">>) = from(<<>>) \o <<"a">>
      /\ from(LineOf(lang)) = from(<<>>)
  BY <1>1 DEF OpenFrom
<1>3. ASSUME NEW v \in Seq(Chars) PROVE from(v) = e \o to(v) /\ to(v) \in Seq(Chars)
  <2>1. u \o v \in Seq(Chars) /\ Len(u) \in Nat /\ Len(v) \in Nat /\ Len(u \o v) = Len(u) + Len(v)
    BY Joined
  <2>2. j \in 1 .. Len(u \o v) + 3
    BY <2>1
  <2>3. to(v) \in Seq(Chars)
    BY <2>1, <2>2, KeptTyped
  <2> QED
    BY <2>3 DEF GoesTo
<1> HIDE DEF from, to
<1>4. to(<<"a">>) = to(<<>>) \o <<"a">>
  <2>1. e \o to(<<"a">>) = (e \o to(<<>>)) \o <<"a">>
    BY <1>1, <1>2, <1>3
  <2>2. (e \o to(<<>>)) \o <<"a">> = e \o (to(<<>>) \o <<"a">>)
    BY <1>1, <1>3, ConcatAssociative
  <2>3. to(<<>>) \o <<"a">> \in Seq(Chars) /\ to(<<"a">>) \in Seq(Chars)
    BY <1>1, <1>3, ConcatProperties
  <2> QED
    BY <1>3, <2>1, <2>2, <2>3, CancelLeft
<1>5. to(LineOf(lang)) = to(<<>>)
  <2>1. e \o to(LineOf(lang)) = e \o to(<<>>)
    BY <1>1, <1>2, <1>3
  <2> QED
    BY <1>1, <1>3, <2>1, CancelLeft
<1> QED
  BY <1>1, <1>4, <1>5 DEF OpenFrom, to

\* Whatever is added to u, it is scanned in the code.
LEMMA ScansToEnd ==
  ASSUME NEW u \in Seq(Chars), NEW quotes \in SUBSET Quotes, NEW lang,
         OpenFrom(u, quotes, lang, 1, "none")
  PROVE  \A v \in Seq(Chars) :
           Kept(u \o v, quotes, lang)[1]["none"]
             = Kept(u, quotes, lang)[1]["none"] \o Kept(u \o v, quotes, lang)[Len(u) + 1]["none"]
<1> DEFINE m == Len(u)
           kept(v, i, q) == Kept(u \o v, quotes, lang)[i][q]
           Ends(i, q) == \E p \in Seq(Chars) : \A v \in Seq(Chars) : kept(v, i, q) = p \o kept(v, m + 1, "none")
           Bad == {n \in Nat :
                     /\ n <= m
                     /\ \E q \in Strings : OpenFrom(u, quotes, lang, m + 1 - n, q) /\ ~ Ends(m + 1 - n, q)}
<1>1. m \in Nat /\ "none" \in Strings /\ <<>> \in Seq(Chars)
  BY DEF Strings
<1>2. ASSUME NEW v \in Seq(Chars) PROVE \A i \in 1 .. m + 1 : \A q \in Strings : kept(v, i, q) \in Seq(Chars)
  <2>1. u \o v \in Seq(Chars) /\ Len(u) \in Nat /\ Len(v) \in Nat /\ Len(u \o v) = Len(u) + Len(v)
    BY Joined
  <2>2. \A i \in 1 .. m + 1 : i \in 1 .. Len(u \o v) + 3
    BY <2>1
  <2> QED
    BY <2>1, <2>2, KeptTyped
<1>3. Bad = {}
  <2> SUFFICES ASSUME Bad # {} PROVE FALSE
    OBVIOUS
  <2>1. PICK n \in Bad : \A k \in Bad : n <= k
    <3>1. Bad \subseteq Nat
      OBVIOUS
    <3> HIDE DEF Bad
    <3> QED
      BY <3>1, LeastNumber
  <2>2. n \in Nat /\ n <= m
    OBVIOUS
  <2>3. PICK q \in Strings : OpenFrom(u, quotes, lang, m + 1 - n, q) /\ ~ Ends(m + 1 - n, q)
    OBVIOUS
  <2> HIDE DEF Ends, kept, m
  <2>4. n # 0
    <3> SUFFICES ASSUME n = 0 PROVE FALSE
      OBVIOUS
    <3>1. m + 1 - n = m + 1
      BY <1>1
    <3>2. q = "none"
      BY <2>3, <3>1, OpenHasNoString DEF m
    <3>3. \A v \in Seq(Chars) : kept(v, m + 1, "none") = <<>> \o kept(v, m + 1, "none")
      <4>1. \A v \in Seq(Chars) : kept(v, m + 1, "none") \in Seq(Chars)
        BY <1>1, <1>2
      <4> QED
        BY <4>1, ConcatEmptySeq
    <3>4. Ends(m + 1, "none")
      BY <1>1, <3>3, Zenon DEF Ends
    <3> QED
      BY <2>3, <3>1, <3>2, <3>4
  <2> DEFINE i == m + 1 - n
  <2>5. i \in 1 .. m
    BY <1>1, <2>2, <2>4
  <2>6. PICK e \in Seq(Chars), j \in i + 1 .. m + 1, r \in Strings :
          \A v \in Seq(Chars) : kept(v, i, q) = e \o kept(v, j, r)
    <3>1. StepsOn(u, quotes, lang, i, q)
      BY <2>3, <2>5, ScanStep DEF m
    <3> QED
      BY <3>1 DEF StepsOn, kept, m
  <2>7. j \in 1 .. m + 1 /\ m + 1 - j \in Nat /\ m + 1 - j < n /\ m + 1 - j <= m /\ m + 1 - (m + 1 - j) = j
    BY <1>1, <2>2, <2>5, <2>6
  <2> HIDE DEF i
  <2>8. OpenFrom(u, quotes, lang, j, r)
    <3>1. OpenFrom(u, quotes, lang, i, q)
      BY <2>3 DEF i
    <3>2. GoesTo(u, quotes, lang, i, q, e, j, r)
      BY <2>6 DEF kept, GoesTo
    <3>3. j \in 1 .. Len(u) + 1
      BY <2>7 DEF m
    <3> QED
      BY <3>1, <3>2, <3>3, OpenSteps, Zenon
  <2>9. Ends(j, r)
    <3>1. m + 1 - j \notin Bad
      <4> HIDE DEF Bad
      <4>1. ~ (n <= m + 1 - j)
        BY <2>2, <2>7
      <4> QED
        BY <2>1, <4>1
    <3>2. ~ (OpenFrom(u, quotes, lang, j, r) /\ ~ Ends(j, r))
      BY <2>7, <3>1
    <3> QED
      BY <2>8, <3>2
  <2>10. PICK p \in Seq(Chars) : \A v \in Seq(Chars) : kept(v, j, r) = p \o kept(v, m + 1, "none")
    BY <2>9 DEF Ends
  <2>11. ASSUME NEW v \in Seq(Chars)
         PROVE  kept(v, i, q) = (e \o p) \o kept(v, m + 1, "none")
    <3>1. kept(v, m + 1, "none") \in Seq(Chars)
      BY <1>1, <1>2
    <3>2. kept(v, i, q) = e \o (p \o kept(v, m + 1, "none"))
      BY <2>6, <2>10
    <3> QED
      BY <3>1, <3>2, Associative
  <2>12. e \o p \in Seq(Chars)
    BY ConcatProperties
  <2>13. Ends(i, q)
    BY <2>11, <2>12 DEF Ends
  <2> QED
    BY <2>3, <2>13 DEF i
<1>4. Ends(1, "none")
  <2> HIDE DEF Ends
  <2>1. m \notin Bad /\ m <= m /\ m + 1 - m = 1
    <3> HIDE DEF Bad
    <3> QED
      BY <1>1, <1>3
  <2> QED
    BY <1>1, <2>1
<1>5. PICK p \in Seq(Chars) : \A v \in Seq(Chars) : kept(v, 1, "none") = p \o kept(v, m + 1, "none")
  BY <1>4
<1>6. kept(<<>>, 1, "none") = p
  <2>1. u \o <<>> = u
    BY ConcatEmptySeq
  <2>2. kept(<<>>, m + 1, "none") = <<>>
    <3>1. m + 1 \in 1 .. Len(u) + 3 /\ m + 1 > Len(u)
      BY <1>1
    <3> QED
      BY <1>1, <2>1, <3>1, KeptSteps
  <2> HIDE DEF kept
  <2> QED
    BY <1>1, <1>5, <2>2, ConcatEmptySeq
<1>7. u \o <<>> = u
  BY ConcatEmptySeq
<1> QED
  BY <1>5, <1>6, <1>7

\* A character put before others.
LEMMA Before ==
  ASSUME NEW x \in Chars, NEW v \in Seq(Chars), NEW t \in Seq(Chars),
         Len(t) = Len(v) + 1, t[1] = x, \A k \in 1 .. Len(v) : t[k + 1] = v[k]
  PROVE  <<x>> \o v = t
<1> DEFINE s == <<x>> \o v
           h == <<x>>
<1>1. h \in Seq(Chars) /\ Len(h) = 1 /\ h[1] = x /\ Len(v) \in Nat
  OBVIOUS
<1> HIDE DEF h
<1>2. /\ s \in Seq(Chars) /\ Len(s) = 1 + Len(v)
      /\ s[1] = x /\ \A k \in 1 .. Len(v) : s[1 + k] = v[k]
  BY <1>1, Joined DEF h
<1> HIDE DEF s
<1>3. Len(s) = Len(t)
  BY <1>1, <1>2
<1>4. ASSUME NEW k \in 1 .. Len(s) PROVE s[k] = t[k]
  <2>1. CASE k = 1
    BY <1>2, <2>1
  <2>2. CASE k # 1
    <3>1. k - 1 \in 1 .. Len(v) /\ 1 + (k - 1) = k /\ (k - 1) + 1 = k
      BY <1>1, <1>2, <2>2
    <3> QED
      BY <1>2, <3>1
  <2> QED
    BY <2>1, <2>2
<1>5. s = t
  BY <1>2, <1>3, <1>4, SeqEqual
<1> QED
  BY <1>5 DEF s, h

LEMMA Before1 ==
  ASSUME NEW x \in Chars, NEW y \in Chars
  PROVE  <<x>> \o <<y>> = <<x, y>>
<1> DEFINE v == <<y>>
           t == <<x, y>>
<1>1. v \in Seq(Chars) /\ t \in Seq(Chars) /\ Len(v) = 1 /\ Len(t) = 2 /\ t[1] = x /\ t[2] = v[1]
  OBVIOUS
<1> HIDE DEF v, t
<1>2. Len(t) = Len(v) + 1 /\ \A k \in 1 .. Len(v) : t[k + 1] = v[k]
  BY <1>1
<1>3. <<x>> \o v = t
  BY <1>1, <1>2, Before
<1> QED
  BY <1>3 DEF v, t

LEMMA Before2 ==
  ASSUME NEW x \in Chars, NEW y \in Chars, NEW z \in Chars
  PROVE  <<x>> \o <<y, z>> = <<x, y, z>>
<1> DEFINE v == <<y, z>>
           t == <<x, y, z>>
<1>1. /\ v \in Seq(Chars) /\ t \in Seq(Chars) /\ Len(v) = 2 /\ Len(t) = 3
      /\ t[1] = x /\ t[2] = v[1] /\ t[3] = v[2]
  OBVIOUS
<1> HIDE DEF v, t
<1>2. Len(t) = Len(v) + 1 /\ \A k \in 1 .. Len(v) : t[k + 1] = v[k]
  BY <1>1
<1>3. <<x>> \o v = t
  BY <1>1, <1>2, Before
<1> QED
  BY <1>3 DEF v, t

LEMMA Before3 ==
  ASSUME NEW x \in Chars, NEW y \in Chars, NEW z \in Chars, NEW r \in Chars
  PROVE  <<x>> \o <<y, z, r>> = <<x, y, z, r>>
<1> DEFINE v == <<y, z, r>>
           t == <<x, y, z, r>>
<1>1. /\ v \in Seq(Chars) /\ t \in Seq(Chars) /\ Len(v) = 3 /\ Len(t) = 4
      /\ t[1] = x /\ t[2] = v[1] /\ t[3] = v[2] /\ t[4] = v[3]
  OBVIOUS
<1> HIDE DEF v, t
<1>2. Len(t) = Len(v) + 1 /\ \A k \in 1 .. Len(v) : t[k + 1] = v[k]
  BY <1>1
<1>3. <<x>> \o v = t
  BY <1>1, <1>2, Before
<1> QED
  BY <1>3 DEF v, t

LEMMA Before4 ==
  ASSUME NEW x \in Chars, NEW y \in Chars, NEW z \in Chars, NEW r \in Chars, NEW s \in Chars
  PROVE  <<x>> \o <<y, z, r, s>> = <<x, y, z, r, s>>
<1> DEFINE v == <<y, z, r, s>>
           t == <<x, y, z, r, s>>
<1>1. /\ v \in Seq(Chars) /\ t \in Seq(Chars) /\ Len(v) = 4 /\ Len(t) = 5
      /\ t[1] = x /\ t[2] = v[1] /\ t[3] = v[2] /\ t[4] = v[3] /\ t[5] = v[4]
  OBVIOUS
<1> HIDE DEF v, t
<1>2. Len(t) = Len(v) + 1 /\ \A k \in 1 .. Len(v) : t[k + 1] = v[k]
  BY <1>1
<1>3. <<x>> \o v = t
  BY <1>1, <1>2, Before
<1> QED
  BY <1>3 DEF v, t

\* A letter or a newline in the code is kept.
LEMMA KeptLetter ==
  ASSUME NEW f \in Seq(Chars), NEW quotes \in SUBSET Quotes, NEW lang,
         NEW i \in 1 .. Len(f), f[i] \in {"a", "LF"}
  PROVE  Kept(f, quotes, lang)[i]["none"] = One(f, i) \o Kept(f, quotes, lang)[i + 1]["none"]
<1>1. ~ LineBegins(f, i, lang) /\ ~ BlockBegins(f, i, lang)
  BY DEF LineBegins, BlockBegins, Pair
<1>2. Turn(f[i], "none", quotes) = "none"
  BY DEF Turn, Quotes
<1> QED
  BY <1>1, <1>2, KeptInCode

LEMMA KeptLast ==
  ASSUME NEW f \in Seq(Chars), NEW quotes \in SUBSET Quotes, NEW lang,
         NEW i \in 1 .. Len(f), i = Len(f), f[i] = "a"
  PROVE  Kept(f, quotes, lang)[i]["none"] = <<"a">>
<1>1. Kept(f, quotes, lang)[i]["none"] = <<"a">> \o Kept(f, quotes, lang)[i + 1]["none"]
  BY KeptLetter DEF One
<1>2. i + 1 \in 1 .. Len(f) + 3 /\ i + 1 > Len(f) /\ "none" \in Strings
  BY DEF Strings
<1>3. Kept(f, quotes, lang)[i + 1]["none"] = <<>>
  BY <1>2, KeptSteps
<1>4. <<"a">> \in Seq(Chars)
  BY LettersTyped
<1> QED
  BY <1>1, <1>3, <1>4, ConcatEmptySeq

LEMMA KeptLastLine ==
  ASSUME NEW f \in Seq(Chars), NEW quotes \in SUBSET Quotes, NEW lang,
         NEW i \in 1 .. Len(f), i + 1 = Len(f), f[i] = "LF", f[i + 1] = "a"
  PROVE  Kept(f, quotes, lang)[i]["none"] = <<"LF", "a">>
<1>1. Kept(f, quotes, lang)[i]["none"] = <<"LF">> \o Kept(f, quotes, lang)[i + 1]["none"]
  BY KeptLetter DEF One
<1>2. i + 1 \in 1 .. Len(f)
  OBVIOUS
<1>3. Kept(f, quotes, lang)[i + 1]["none"] = <<"a">>
  BY <1>2, KeptLast
<1>4. <<"LF">> \o <<"a">> = <<"LF", "a">>
  <2>1. "LF" \in Chars /\ "a" \in Chars
    BY DEF Chars
  <2> QED
    BY <2>1, Before1
<1> QED
  BY <1>1, <1>3, <1>4

\* A character of a comment is kept in a string, and the string goes on.
LEMMA KeptQuoted ==
  ASSUME NEW f \in Seq(Chars), NEW quotes \in SUBSET Quotes, NEW lang,
         NEW i \in 1 .. Len(f), NEW q \in Quotes, f[i] \in {"#", "/"}
  PROVE  Kept(f, quotes, lang)[i][q] = One(f, i) \o Kept(f, quotes, lang)[i + 1][q]
<1>1. q \in Strings /\ q # "none" /\ f[i] # "\\" /\ Turn(f[i], q, quotes) = q
  BY DEF Strings, Turn, Quotes
<1>2. Kept(f, quotes, lang)[i][q] = One(f, i) \o Kept(f, quotes, lang)[i + 1][Turn(f[i], q, quotes)]
  BY <1>1, KeptInString
<1> QED
  BY <1>1, <1>2, Zenon

\* A quote opens a string in the code, and closes the one it opened.
LEMMA KeptOpening ==
  ASSUME NEW f \in Seq(Chars), NEW quotes \in SUBSET Quotes, NEW lang,
         NEW i \in 1 .. Len(f), f[i] \in quotes
  PROVE  Kept(f, quotes, lang)[i]["none"] = One(f, i) \o Kept(f, quotes, lang)[i + 1][f[i]]
<1>1. Turn(f[i], "none", quotes) = f[i]
  BY DEF Turn
<1>2. ~ LineBegins(f, i, lang) /\ ~ BlockBegins(f, i, lang)
  <2>1. f[i] \notin {"#", "/"}
    BY DEF Quotes
  <2> QED
    BY <2>1 DEF LineBegins, BlockBegins, Pair
<1> QED
  BY <1>1, <1>2, KeptInCode

LEMMA KeptClosing ==
  ASSUME NEW f \in Seq(Chars), NEW quotes \in SUBSET Quotes, NEW lang,
         NEW i \in 1 .. Len(f), NEW q \in quotes, f[i] = q
  PROVE  Kept(f, quotes, lang)[i][q] = One(f, i) \o Kept(f, quotes, lang)[i + 1]["none"]
<1>1. q \in Strings /\ q # "none" /\ f[i] # "\\"
  BY DEF Strings, Quotes
<1>2. Turn(f[i], q, quotes) = "none"
  BY <1>1 DEF Turn
<1>3. Kept(f, quotes, lang)[i][q] = One(f, i) \o Kept(f, quotes, lang)[i + 1][Turn(f[i], q, quotes)]
  BY <1>1, KeptInString
<1> QED
  BY <1>2, <1>3, Zenon

\* The end of a comment is where it is seen to end.
LEMMA LineEndsThere ==
  ASSUME NEW f \in Seq(Chars), NEW i \in 1 .. Len(f), NEW e \in i .. Len(f),
         f[e] = "LF", \A j \in i .. e - 1 : f[j] # "LF"
  PROVE  LineEnd(f, i) = e
<1> DEFINE d == LineEnd(f, i)
<1>1. /\ d \in i .. Len(f) + 1
      /\ d = Len(f) + 1 \/ f[d] = "LF"
      /\ \A j \in i .. d - 1 : f[j] # "LF"
  BY LineEndIs
<1>2. i \in Nat /\ e \in Nat /\ Len(f) \in Nat /\ e <= Len(f) /\ i <= e
  OBVIOUS
<1> HIDE DEF d
<1>3. ~ (d < e)
  BY <1>1, <1>2
<1>4. ~ (e < d)
  BY <1>1, <1>2
<1>5. d = e
  BY <1>1, <1>2, <1>3, <1>4
<1> QED
  BY <1>5 DEF d

LEMMA BlockEndsThere ==
  ASSUME NEW f \in Seq(Chars), NEW i \in 1 .. Len(f), NEW e \in i + 2 .. Len(f) - 1,
         Pair(f, e, "*", "/"), \A j \in i + 2 .. e - 1 : ~ Pair(f, j, "*", "/")
  PROVE  BlockEnd(f, i) = e + 2
<1> DEFINE d == BlockEnd(f, i) - 2
<1>1. i \in Nat \ {0} /\ e \in Nat /\ Len(f) \in Nat /\ e < Len(f) /\ i + 2 <= e /\ i < Len(f)
  OBVIOUS
<1>2. /\ d \in i + 2 .. Len(f) + 1 /\ BlockEnd(f, i) = d + 2
      /\ d >= Len(f) \/ Pair(f, d, "*", "/")
      /\ \A j \in i + 2 .. d - 1 : j < Len(f) /\ ~ Pair(f, j, "*", "/")
  BY <1>1, BlockEndIs
<1> HIDE DEF d
<1>3. ~ (d < e)
  BY <1>1, <1>2
<1>4. ~ (e < d)
  BY <1>1, <1>2
<1>5. d = e
  BY <1>1, <1>2, <1>3, <1>4
<1> QED
  BY <1>2, <1>5

\* After code, of a line comment the newline is left.
LEMMA LineCommentLeaves ==
  ASSUME NEW u \in Seq(Chars), NEW quotes \in SUBSET Quotes, NEW lang, NEW q \in Quotes,
         NEW v \in Seq(Chars), v = LineOf(lang) \o <<q, "LF", "a">>
  PROVE  Kept(u \o v, quotes, lang)[Len(u) + 1]["none"] = <<"LF", "a">>
<1> DEFINE f == u \o v
           m == Len(u)
           n == Len(LineOf(lang))
<1>1. /\ f \in Seq(Chars) /\ m \in Nat /\ Len(f) = m + Len(v)
      /\ \A k \in 1 .. Len(v) : f[m + k] = v[k]
  BY Joined
<1>2. /\ n \in {1, 2} /\ Len(v) = n + 3
      /\ v[n + 1] = q /\ v[n + 2] = "LF" /\ v[n + 3] = "a"
      /\ lang = "python" => n = 1 /\ v[1] = "#"
      /\ lang # "python" => n = 2 /\ v[1] = "/" /\ v[2] = "/"
  BY DEF LineOf
<1>3. q # "LF"
  BY DEF Quotes
<1> HIDE DEF f, m, n
<1>4. /\ f[m + 1] = v[1] /\ f[m + n + 1] = q /\ f[m + n + 2] = "LF" /\ f[m + n + 3] = "a"
      /\ lang # "python" => f[m + 2] = v[2]
      /\ Len(f) = m + n + 3
  <2>1. CASE n = 1
    <3>1. 1 \in 1 .. Len(v) /\ 2 \in 1 .. Len(v) /\ 3 \in 1 .. Len(v) /\ 4 \in 1 .. Len(v)
      BY <1>2, <2>1
    <3>2. f[m + 1] = v[1] /\ f[m + 2] = v[2] /\ f[m + 3] = v[3] /\ f[m + 4] = v[4]
      BY <1>1, <3>1
    <3>3. v[2] = q /\ v[3] = "LF" /\ v[4] = "a" /\ lang = "python"
      BY <1>2, <2>1
    <3>4. m + n + 1 = m + 2 /\ m + n + 2 = m + 3 /\ m + n + 3 = m + 4 /\ Len(f) = m + 4
      BY <1>1, <1>2, <2>1
    <3> QED
      BY <3>2, <3>3, <3>4
  <2>2. CASE n = 2
    <3>1. /\ 1 \in 1 .. Len(v) /\ 2 \in 1 .. Len(v) /\ 3 \in 1 .. Len(v)
          /\ 4 \in 1 .. Len(v) /\ 5 \in 1 .. Len(v)
      BY <1>2, <2>2
    <3>2. /\ f[m + 1] = v[1] /\ f[m + 2] = v[2] /\ f[m + 3] = v[3]
          /\ f[m + 4] = v[4] /\ f[m + 5] = v[5]
      BY <1>1, <3>1
    <3>3. v[3] = q /\ v[4] = "LF" /\ v[5] = "a"
      BY <1>2, <2>2
    <3>4. m + n + 1 = m + 3 /\ m + n + 2 = m + 4 /\ m + n + 3 = m + 5 /\ Len(f) = m + 5
      BY <1>1, <1>2, <2>2
    <3> QED
      BY <3>2, <3>3, <3>4
  <2> QED
    BY <1>2, <2>1, <2>2
<1>5. m + 1 \in 1 .. Len(f) /\ LineBegins(f, m + 1, lang)
  BY <1>1, <1>2, <1>4 DEF LineBegins, Pair
<1>6. LineEnd(f, m + 1) = m + n + 2
  <2> DEFINE i == m + 1
             e == m + n + 2
  <2>1. e \in i .. Len(f) /\ f[e] = "LF"
    BY <1>1, <1>2, <1>4
  <2>2. \A j \in i .. e - 1 : j = m + 1 \/ j = m + n + 1 \/ (n = 2 /\ j = m + 2)
    BY <1>1, <1>2
  <2>3. f[m + 1] # "LF" /\ f[m + n + 1] # "LF" /\ (n = 2 => f[m + 2] # "LF")
    BY <1>2, <1>3, <1>4
  <2>4. i \in 1 .. Len(f)
    BY <1>5
  <2> HIDE DEF e, i
  <2>5. \A j \in i .. e - 1 : f[j] # "LF"
    BY <2>2, <2>3
  <2>6. LineEnd(f, i) = e
    BY <1>1, <2>1, <2>4, <2>5, LineEndsThere
  <2> QED
    BY <2>6 DEF e, i
<1>7. Kept(f, quotes, lang)[m + 1]["none"] = Kept(f, quotes, lang)[m + n + 2]["none"]
  <2> DEFINE i == m + 1
  <2>1. "none" \in Strings /\ i \in 1 .. Len(f) /\ LineBegins(f, i, lang)
    BY <1>5 DEF Strings
  <2>2. f \in Seq(Chars)
    BY <1>1
  <2> HIDE DEF i
  <2>3. Kept(f, quotes, lang)[i]["none"] = Kept(f, quotes, lang)[LineEnd(f, i)]["none"]
    BY <2>1, <2>2, KeptLineComment
  <2> QED
    BY <1>6, <2>3 DEF i
<1>8. Kept(f, quotes, lang)[m + n + 2]["none"] = <<"LF", "a">>
  <2> DEFINE e == m + n + 2
  <2>1. e \in 1 .. Len(f) /\ e + 1 = Len(f) /\ f[e] = "LF" /\ f[e + 1] = "a"
    BY <1>1, <1>2, <1>4
  <2> HIDE DEF e
  <2>2. Kept(f, quotes, lang)[e]["none"] = <<"LF", "a">>
    BY <1>1, <2>1, KeptLastLine
  <2> QED
    BY <2>2 DEF e
<1> QED
  BY <1>7, <1>8 DEF f, m

\* After code, of a block comment nothing is left.
LEMMA BlockCommentLeaves ==
  ASSUME NEW u \in Seq(Chars), NEW quotes \in SUBSET Quotes, NEW lang, lang # "python",
         NEW q \in Quotes, NEW v \in Seq(Chars), v = <<"/", "*", q, "*", "/", "a">>
  PROVE  Kept(u \o v, quotes, lang)[Len(u) + 1]["none"] = <<"a">>
<1> DEFINE f == u \o v
           m == Len(u)
<1>1. /\ f \in Seq(Chars) /\ m \in Nat /\ Len(f) = m + Len(v)
      /\ \A k \in 1 .. Len(v) : f[m + k] = v[k]
  BY Joined
<1>2. /\ Len(v) = 6
      /\ v[1] = "/" /\ v[2] = "*" /\ v[3] = q /\ v[4] = "*" /\ v[5] = "/" /\ v[6] = "a"
  OBVIOUS
<1>3. q # "*"
  BY DEF Quotes
<1> HIDE DEF f, m
<1>4. /\ f[m + 1] = "/" /\ f[m + 2] = "*" /\ f[m + 3] = q
      /\ f[m + 4] = "*" /\ f[m + 5] = "/" /\ f[m + 6] = "a"
      /\ Len(f) = m + 6
  BY <1>1, <1>2
<1>5. m + 1 \in 1 .. Len(f) /\ ~ LineBegins(f, m + 1, lang) /\ BlockBegins(f, m + 1, lang)
  BY <1>1, <1>4 DEF LineBegins, BlockBegins, Pair
<1>6. BlockEnd(f, m + 1) = m + 6
  <2>1. m + 4 \in m + 1 + 2 .. Len(f) - 1 /\ m + 4 + 2 = m + 6
    BY <1>1, <1>4
  <2>2. Pair(f, m + 4, "*", "/")
    BY <1>1, <1>4 DEF Pair
  <2>3. \A j \in m + 1 + 2 .. m + 4 - 1 : ~ Pair(f, j, "*", "/")
    <3>1. \A j \in m + 1 + 2 .. m + 4 - 1 : j = m + 3
      BY <1>1
    <3> QED
      BY <1>3, <1>4, <3>1 DEF Pair
  <2> QED
    BY <1>1, <1>5, <2>1, <2>2, <2>3, BlockEndsThere
<1>7. Kept(f, quotes, lang)[m + 1]["none"] = Kept(f, quotes, lang)[m + 6]["none"]
  <2> DEFINE i == m + 1
  <2>1. /\ "none" \in Strings /\ i \in 1 .. Len(f)
        /\ ~ LineBegins(f, i, lang) /\ BlockBegins(f, i, lang)
    BY <1>5 DEF Strings
  <2>2. f \in Seq(Chars)
    BY <1>1
  <2> HIDE DEF i
  <2>3. Kept(f, quotes, lang)[i]["none"] = Kept(f, quotes, lang)[BlockEnd(f, i)]["none"]
    BY <2>1, <2>2, KeptBlockComment
  <2> QED
    BY <1>6, <2>3 DEF i
<1>8. Kept(f, quotes, lang)[m + 6]["none"] = <<"a">>
  <2>1. m + 6 \in 1 .. Len(f) /\ m + 6 = Len(f)
    BY <1>1, <1>4
  <2> QED
    BY <1>1, <1>4, <2>1, KeptLast
<1> QED
  BY <1>7, <1>8 DEF f, m

\* A string with the characters of a line comment in it.
LEMMA PythonString ==
  ASSUME NEW f \in Seq(Chars), NEW quotes \in SUBSET Quotes, NEW lang, NEW q \in quotes,
         NEW a \in 1 .. Len(f)
  PROVE  Len(f) = a + 3 /\ f[a] = q /\ f[a + 1] = "#" /\ f[a + 2] = q /\ f[a + 3] = "a"
           => Kept(f, quotes, lang)[a]["none"] = <<q, "#", q, "a">>
<1>1. q \in Quotes
  OBVIOUS
<1>2. SUFFICES ASSUME Len(f) = a + 3 /\ f[a] = q /\ f[a + 1] = "#" /\ f[a + 2] = q /\ f[a + 3] = "a"
                PROVE  Kept(f, quotes, lang)[a]["none"] = <<q, "#", q, "a">>
  OBVIOUS
<1> DEFINE kept(i, r) == Kept(f, quotes, lang)[i][r]
           b == a + 1
           c == b + 1
           d == c + 1
<1>3. /\ a \in 1 .. Len(f) /\ b \in 1 .. Len(f) /\ c \in 1 .. Len(f) /\ d \in 1 .. Len(f)
  BY <1>2
<1>4. a + 1 = b /\ a + 2 = c /\ a + 3 = d /\ Len(f) = d
  BY <1>2
<1> HIDE DEF kept, b, c, d
<1>5. SUFFICES ASSUME f[a] = q, f[b] = "#", f[c] = q, f[d] = "a"
               PROVE  kept(a, "none") = <<q, "#", q, "a">>
  BY <1>4, <1>2 DEF kept
<1>6. kept(d, "none") = <<"a">>
  BY <1>3, <1>5, <1>4, KeptLast DEF kept
<1>7. kept(c, q) = One(f, c) \o kept(d, "none")
  <2>1. Kept(f, quotes, lang)[c][q] = One(f, c) \o Kept(f, quotes, lang)[c + 1]["none"]
    BY <1>3, <1>5, KeptClosing
  <2> QED
    BY <2>1 DEF kept, d
<1>8. kept(b, q) = One(f, b) \o kept(c, q)
  <2>1. f[b] \in {"#", "/"} /\ b \in 1 .. Len(f)
    BY <1>3, <1>5
  <2>2. Kept(f, quotes, lang)[b][q] = One(f, b) \o Kept(f, quotes, lang)[b + 1][q]
    BY <1>1, <2>1, KeptQuoted, Zenon
  <2> QED
    BY <2>2 DEF kept, c
<1>9. kept(a, "none") = One(f, a) \o kept(b, q)
  <2>1. f[a] \in quotes
    BY <1>5
  <2>2. Kept(f, quotes, lang)[a]["none"] = One(f, a) \o Kept(f, quotes, lang)[a + 1][f[a]]
    BY <2>1, KeptOpening, Zenon
  <2> QED
    BY <1>5, <2>2 DEF kept, b
<1>10. /\ <<q>> \o <<"a">> = <<q, "a">>
      /\ <<"#">> \o <<q, "a">> = <<"#", q, "a">>
      /\ <<q>> \o <<"#", q, "a">> = <<q, "#", q, "a">>
  <2>1. q \in Chars /\ "#" \in Chars /\ "a" \in Chars
    BY <1>1 DEF Chars, Quotes
  <2> QED
    BY <2>1, Before1, Before2, Before3
<1>11. One(f, a) = <<q>> /\ One(f, b) = <<"#">> /\ One(f, c) = <<q>>
  BY <1>5 DEF One
<1> QED
  BY <1>6, <1>7, <1>8, <1>9, <1>10, <1>11

LEMMA ScriptString ==
  ASSUME NEW f \in Seq(Chars), NEW quotes \in SUBSET Quotes, NEW lang, NEW q \in quotes,
         NEW a \in 1 .. Len(f)
  PROVE  Len(f) = a + 4 /\ f[a] = q /\ f[a + 1] = "/" /\ f[a + 2] = "/" /\ f[a + 3] = q /\ f[a + 4] = "a"
           => Kept(f, quotes, lang)[a]["none"] = <<q, "/", "/", q, "a">>
<1>1. q \in Quotes
  OBVIOUS
<1>2. SUFFICES ASSUME Len(f) = a + 4, f[a] = q, f[a + 1] = "/", f[a + 2] = "/",
                       f[a + 3] = q, f[a + 4] = "a"
                PROVE  Kept(f, quotes, lang)[a]["none"] = <<q, "/", "/", q, "a">>
  OBVIOUS
<1> DEFINE kept(i, r) == Kept(f, quotes, lang)[i][r]
           b == a + 1
           c == b + 1
           d == c + 1
           e == d + 1
<1>3. /\ a \in 1 .. Len(f) /\ b \in 1 .. Len(f) /\ c \in 1 .. Len(f) /\ d \in 1 .. Len(f) /\ e \in 1 .. Len(f)
  BY <1>2
<1>4. a + 1 = b /\ a + 2 = c /\ a + 3 = d /\ a + 4 = e /\ Len(f) = e
  BY <1>2
<1> HIDE DEF kept, b, c, d, e
<1>5. SUFFICES ASSUME f[a] = q, f[b] = "/", f[c] = "/", f[d] = q, f[e] = "a"
               PROVE  kept(a, "none") = <<q, "/", "/", q, "a">>
  BY <1>4, <1>2 DEF kept
<1>6. kept(e, "none") = <<"a">>
  BY <1>3, <1>5, <1>4, KeptLast DEF kept
<1>7. kept(d, q) = One(f, d) \o kept(e, "none")
  <2>1. Kept(f, quotes, lang)[d][q] = One(f, d) \o Kept(f, quotes, lang)[d + 1]["none"]
    BY <1>3, <1>5, KeptClosing
  <2> QED
    BY <2>1 DEF kept, e
<1>8. kept(c, q) = One(f, c) \o kept(d, q)
  <2>1. f[c] \in {"#", "/"} /\ c \in 1 .. Len(f)
    BY <1>3, <1>5
  <2>2. Kept(f, quotes, lang)[c][q] = One(f, c) \o Kept(f, quotes, lang)[c + 1][q]
    BY <1>1, <2>1, KeptQuoted, Zenon
  <2> QED
    BY <2>2 DEF kept, d
<1>9. kept(b, q) = One(f, b) \o kept(c, q)
  <2>1. f[b] \in {"#", "/"} /\ b \in 1 .. Len(f)
    BY <1>3, <1>5
  <2>2. Kept(f, quotes, lang)[b][q] = One(f, b) \o Kept(f, quotes, lang)[b + 1][q]
    BY <1>1, <2>1, KeptQuoted, Zenon
  <2> QED
    BY <2>2 DEF kept, c
<1>10. kept(a, "none") = One(f, a) \o kept(b, q)
  <2>1. f[a] \in quotes
    BY <1>5
  <2>2. Kept(f, quotes, lang)[a]["none"] = One(f, a) \o Kept(f, quotes, lang)[a + 1][f[a]]
    BY <2>1, KeptOpening, Zenon
  <2> QED
    BY <1>5, <2>2 DEF kept, b
<1>11. /\ <<q>> \o <<"a">> = <<q, "a">>
      /\ <<"/">> \o <<q, "a">> = <<"/", q, "a">>
      /\ <<"/">> \o <<"/", q, "a">> = <<"/", "/", q, "a">>
      /\ <<q>> \o <<"/", "/", q, "a">> = <<q, "/", "/", q, "a">>
  <2>1. q \in Chars /\ "/" \in Chars /\ "a" \in Chars
    BY <1>1 DEF Chars, Quotes
  <2> QED
    BY <2>1, Before1, Before2, Before3, Before4
<1>12. One(f, a) = <<q>> /\ One(f, b) = <<"/">> /\ One(f, c) = <<"/">> /\ One(f, d) = <<q>>
  BY <1>5 DEF One
<1> QED
  BY <1>6, <1>7, <1>8, <1>9, <1>10, <1>11, <1>12

\* After code, a string is kept with what looks like a comment in it.
StringOf(lang, q) == IF lang = "python" THEN <<q, "#", q, "a">> ELSE <<q, "/", "/", q, "a">>

LEMMA StringStays ==
  ASSUME NEW u \in Seq(Chars), NEW quotes \in SUBSET Quotes, NEW lang, NEW q \in quotes
  PROVE  Kept(u \o StringOf(lang, q), quotes, lang)[Len(u) + 1]["none"] = StringOf(lang, q)
<1> DEFINE v == StringOf(lang, q)
<1>1. v = IF lang = "python" THEN <<q, "#", q, "a">> ELSE <<q, "/", "/", q, "a">>
  BY DEF StringOf
<1>2. v \in Seq(Chars)
  <2>1. q \in Chars /\ "#" \in Chars /\ "/" \in Chars /\ "a" \in Chars
    BY DEF Chars, Quotes
  <2> QED
    BY <1>1, <2>1
<1>3. SUFFICES Kept(u \o v, quotes, lang)[Len(u) + 1]["none"] = v
  OBVIOUS
<1> HIDE DEF v
<1> DEFINE f == u \o v
           m == Len(u)
<1>4. /\ f \in Seq(Chars) /\ m \in Nat /\ Len(f) = m + Len(v)
      /\ \A k \in 1 .. Len(v) : f[m + k] = v[k]
  BY <1>2, Joined
<1>5. CASE lang = "python"
  <2>1. v = <<q, "#", q, "a">> /\ Len(v) = 4 /\ v[1] = q /\ v[2] = "#" /\ v[3] = q /\ v[4] = "a"
    BY <1>5, <1>1
  <2> HIDE DEF f, m
  <2>2. f[m + 1] = q /\ f[m + 2] = "#" /\ f[m + 3] = q /\ f[m + 4] = "a" /\ Len(f) = m + 4
    BY <1>4, <2>1
  <2> DEFINE a == m + 1
  <2>3. f \in Seq(Chars)
    BY <1>4
  <2>4. /\ a \in 1 .. Len(f) /\ Len(f) = a + 3
        /\ f[a] = q /\ f[a + 1] = "#" /\ f[a + 2] = q /\ f[a + 3] = "a"
    BY <1>4, <2>2
  <2> HIDE DEF a
  <2>5. Kept(f, quotes, lang)[a]["none"] = <<q, "#", q, "a">>
    BY <2>4, <2>3, PythonString
  <2> QED
    BY <2>1, <2>5 DEF f, m, a
<1>6. CASE lang # "python"
  <2>1. /\ v = <<q, "/", "/", q, "a">>
        /\ Len(v) = 5 /\ v[1] = q /\ v[2] = "/" /\ v[3] = "/" /\ v[4] = q /\ v[5] = "a"
    BY <1>6, <1>1
  <2> HIDE DEF f, m
  <2>2. f[m + 1] = q /\ f[m + 2] = "/" /\ f[m + 3] = "/" /\ f[m + 4] = q /\ f[m + 5] = "a" /\ Len(f) = m + 5
    BY <1>4, <2>1
  <2> DEFINE a == m + 1
  <2>3. f \in Seq(Chars)
    BY <1>4
  <2>4. /\ a \in 1 .. Len(f) /\ Len(f) = a + 4
        /\ f[a] = q /\ f[a + 1] = "/" /\ f[a + 2] = "/" /\ f[a + 3] = q /\ f[a + 4] = "a"
    BY <1>4, <2>2
  <2> HIDE DEF a
  <2>5. Kept(f, quotes, lang)[a]["none"] = <<q, "/", "/", q, "a">>
    BY <2>4, <2>3, ScriptString
  <2> QED
    BY <2>1, <2>5 DEF f, m, a
<1> QED
  BY <1>5, <1>6

LEMMA Associates == \A s, t, v \in Seq(Chars) : (s \o t) \o v = s \o (t \o v)
BY Associative

\* A comment added where OpenFrom holds, and a string, in any language.
LEMMA CommentAdded ==
  ASSUME NEW u \in Seq(Chars), NEW quotes \in SUBSET Quotes, NEW lang,
         OpenFrom(u, quotes, lang, 1, "none"), NEW q \in quotes
  PROVE  /\ Stripped(u \o LineOf(lang) \o <<q, "LF", "a">>, quotes, lang)
              = Stripped(u, quotes, lang) \o <<"LF", "a">>
         /\ lang # "python" =>
              Stripped(u \o <<"/", "*", q, "*", "/", "a">>, quotes, lang)
                = Stripped(u, quotes, lang) \o <<"a">>
         /\ Stripped(u \o (<<q>> \o LineOf(lang) \o <<q>>) \o <<"a">>, quotes, lang)
              = Stripped(u, quotes, lang) \o (<<q>> \o LineOf(lang) \o <<q>>) \o <<"a">>
<1> DEFINE strip(f) == Stripped(f, quotes, lang)
           rest(v) == Kept(u \o v, quotes, lang)[Len(u) + 1]["none"]
           line == LineOf(lang) \o <<q, "LF", "a">>
           block == <<"/", "*", q, "*", "/", "a">>
           quoted == <<q>> \o LineOf(lang) \o <<q>>
           string == StringOf(lang, q)
<1>1. q \in Quotes
  OBVIOUS
<1>2. /\ q \in Chars /\ "a" \in Chars /\ "LF" \in Chars /\ "/" \in Chars /\ "*" \in Chars /\ "#" \in Chars
  BY <1>1 DEF Chars, Quotes
<1>3. /\ LineOf(lang) \in Seq(Chars) /\ <<q, "LF", "a">> \in Seq(Chars) /\ line \in Seq(Chars)
      /\ block \in Seq(Chars) /\ quoted \in Seq(Chars) /\ string \in Seq(Chars)
      /\ <<"a">> \in Seq(Chars) /\ <<q>> \in Seq(Chars)
  BY <1>2, LettersTyped DEF StringOf
<1>4. \A v \in Seq(Chars) : strip(u \o v) = strip(u) \o rest(v)
  BY ScansToEnd DEF Stripped
<1>5. strip(u) \in Seq(Chars)
  <2>1. 1 \in 1 .. Len(u) + 3 /\ "none" \in Strings
    BY DEF Strings
  <2> QED
    BY <2>1, KeptTyped DEF Stripped
<1>6. rest(line) = <<"LF", "a">>
  BY <1>1, <1>3, LineCommentLeaves
<1>7. lang # "python" => rest(block) = <<"a">>
  BY <1>1, <1>3, BlockCommentLeaves
<1>8. rest(string) = string
  BY StringStays
<1>9. string = quoted \o <<"a">>
  <2>1. /\ Len(string) = Len(quoted \o <<"a">>)
        /\ quoted \o <<"a">> \in Seq(Chars)
        /\ \A k \in 1 .. Len(string) : string[k] = (quoted \o <<"a">>)[k]
    BY <1>2, <1>3 DEF LineOf, StringOf
  <2> HIDE DEF string, quoted
  <2> QED
    BY <1>3, <2>1, SeqEqual
<1> HIDE DEF strip, rest, line, block, quoted, string
<1>10. strip(u \o LineOf(lang) \o <<q, "LF", "a">>) = strip(u) \o <<"LF", "a">>
  <2>1. LineOf(lang) \in Seq(Chars) /\ <<q, "LF", "a">> \in Seq(Chars)
    BY <1>3
  <2>2. (u \o LineOf(lang)) \o <<q, "LF", "a">> = u \o line
    BY <2>1, Associates, Zenon DEF line
  <2>3. strip(u \o line) = strip(u) \o <<"LF", "a">>
    BY <1>3, <1>4, <1>6
  <2> QED
    BY <2>2, <2>3
<1>11. lang # "python" => strip(u \o block) = strip(u) \o <<"a">>
  BY <1>3, <1>4, <1>7
<1>12. strip(u \o quoted \o <<"a">>) = strip(u) \o quoted \o <<"a">>
  <2>1. quoted \in Seq(Chars) /\ <<"a">> \in Seq(Chars)
    BY <1>3
  <2>2. (u \o quoted) \o <<"a">> = u \o string
    <3>1. (u \o quoted) \o <<"a">> = u \o (quoted \o <<"a">>)
      BY <2>1, Associates, Zenon
    <3> QED
      BY <1>9, <3>1
  <2>3. (strip(u) \o quoted) \o <<"a">> = strip(u) \o string
    <3>1. (strip(u) \o quoted) \o <<"a">> = strip(u) \o (quoted \o <<"a">>)
      BY <1>5, <2>1, Associates, Zenon
    <3> QED
      BY <1>9, <3>1
  <2>4. strip(u \o string) = strip(u) \o string
    BY <1>3, <1>4, <1>8
  <2> QED
    BY <2>2, <2>3, <2>4
<1> QED
  BY <1>10, <1>11, <1>12 DEF strip, block, quoted

\* What is added to code in the language of the submission.
LEMMA CommentsLeave ==
  ASSUME language \in {"python", "javascript"}, NEW u \in Seq(Chars), Open(u),
         NEW q \in QuotesOf(language)
  PROVE  /\ strip_comments(u \o Line \o <<q, "LF", "a">>, language)
              = strip_comments(u, language) \o <<"LF", "a">>
         /\ language = "javascript" =>
              strip_comments(u \o <<"/", "*", q, "*", "/", "a">>, language)
                = strip_comments(u, language) \o <<"a">>
         /\ strip_comments(u \o (<<q>> \o Line \o <<q>>) \o <<"a">>, language)
              = strip_comments(u, language) \o (<<q>> \o Line \o <<q>>) \o <<"a">>
<1>1. Line = LineOf(language)
  BY DEF Line, LineOf
<1>2. QuotesOf(language) \in SUBSET Quotes
  BY DEF QuotesOf
<1>3. \A f : strip_comments(f, language) = Stripped(f, QuotesOf(language), language)
  BY DEF strip_comments
<1>4. OpenFrom(u, QuotesOf(language), language, 1, "none")
  BY <1>1, <1>3 DEF Open, OpenFrom, Stripped
<1>5. language = "javascript" => language # "python"
  OBVIOUS
<1>6. /\ Stripped(u \o LineOf(language) \o <<q, "LF", "a">>, QuotesOf(language), language)
           = Stripped(u, QuotesOf(language), language) \o <<"LF", "a">>
      /\ language # "python" =>
           Stripped(u \o <<"/", "*", q, "*", "/", "a">>, QuotesOf(language), language)
             = Stripped(u, QuotesOf(language), language) \o <<"a">>
      /\ Stripped(u \o (<<q>> \o LineOf(language) \o <<q>>) \o <<"a">>, QuotesOf(language), language)
           = Stripped(u, QuotesOf(language), language) \o (<<q>> \o LineOf(language) \o <<q>>) \o <<"a">>
  BY <1>2, <1>4, CommentAdded, Zenon
<1> QED
  BY <1>1, <1>3, <1>5, <1>6
-----------------------------------------------------------------------------
(* The invariant.                                                           *)

\* What was pasted needs no fetching, and code is there when it is submitted
\* and when it is accepted.
PasteFits ==
  /\ step \in {"resolve", "stream"} => origin = "link"
  /\ step = "submit" \/ reply = "accepted" => code \in Files \union {NewFile}

Inv == TypeOK /\ FetchFits /\ PasteFits /\ LinkLikePaste

LEMMA InvGives == Inv => CodeIsOfCommit
BY NamesAssumption DEF Inv, FetchFits, CodeIsOfCommit, Commits

LEMMA InitInv == Init => Inv
BY DEF Init, Inv, TypeOK, FetchFits, PasteFits, LinkLikePaste, Commits, Replies

LEMMA NextFits ==
  TypeOK /\ FetchFits /\ PasteFits /\ [Next]_vars => TypeOK' /\ FetchFits' /\ PasteFits'
<1> SUFFICES ASSUME TypeOK, FetchFits, PasteFits, [Next]_vars
             PROVE  TypeOK' /\ FetchFits' /\ PasteFits'
  OBVIOUS
<1> USE DEF TypeOK, FetchFits, PasteFits, Answer
<1>1. CASE Push
  BY <1>1 DEF Push, Commits
<1>2. CASE Resolve
  BY <1>2 DEF Resolve
<1>3. CASE Receive
  <2>1. FileAtCommit \in Seq(Chars)
    BY <1>3, FilesAssumption DEF Receive, FileAtCommit
  <2>2. received' \in Nat
    BY <1>3, <2>1, BytesAreCounted, MinIsOne, LimitsAssumption DEF Receive
  <2>3. /\ UNCHANGED <<origin, language, contents, head, commit, code>>
        /\ \/ step' = "answered" /\ reply' = "CODE_TOO_LONG"
           \/ UNCHANGED <<step, reply>>
    BY <1>3 DEF Receive
  <2> QED
    BY <2>2, <2>3 DEF Replies
<1>4. CASE Decode
  BY <1>4 DEF Decode, FileAtCommit
<1>5. CASE Fail
  BY <1>5 DEF Fail, Replies
<1>6. CASE Submit
  BY <1>6, ChecksAnswer DEF Submit
<1>7. CASE UNCHANGED vars
  BY <1>7 DEF vars
<1> QED
  BY <1>1, <1>2, <1>3, <1>4, <1>5, <1>6, <1>7 DEF Next

\* A link stays answered like a paste: what is answered when its stream is cut
\* off by CutOffRightly, and what is answered to the submission by FetchFits.
LEMMA NextLikePaste ==
  TypeOK /\ FetchFits /\ PasteFits /\ LinkLikePaste /\ [Next]_vars => LinkLikePaste'
<1> SUFFICES ASSUME TypeOK, FetchFits, PasteFits, LinkLikePaste, [Next]_vars
             PROVE  LinkLikePaste'
  OBVIOUS
<1>1. CASE Push
  BY <1>1 DEF Push, LinkLikePaste
<1>2. CASE Resolve
  BY <1>2 DEF Resolve, LinkLikePaste, TypeOK
<1>3. CASE Receive
  <2>1. FileAtCommit \in Seq(Chars)
    BY <1>3, FilesAssumption DEF Receive, FileAtCommit, TypeOK, FetchFits, PasteFits
  <2>2. received' \in Nat /\ received' <= Bytes(FileAtCommit)
    BY <1>3, <2>1, BytesAreCounted, MinIsOne, LimitsAssumption DEF Receive, TypeOK
  <2>3. CASE Beyond(FileAtCommit, received') /\ Answer("CODE_TOO_LONG")
    <3>1. \/ Checked(FileAtCommit) = "CODE_TOO_LONG"
          \/ Blank(FileAtCommit)
          \/ Len(FileAtCommit) <= MAX_CHARS /\ Bytes(FileAtCommit) > MAX_CHARS
      BY <2>1, <2>2, <2>3, CutOffRightly
    <3>2. FileAtCommit = (contents[commit])' /\ reply' = "CODE_TOO_LONG"
      BY <1>3, <2>3 DEF Receive, Answer, FileAtCommit
    <3> QED
      BY <3>1, <3>2 DEF LinkLikePaste
  <2>4. CASE UNCHANGED <<step, reply>>
    BY <1>3, <2>4 DEF Receive, LinkLikePaste
  <2> QED
    BY <1>3, <2>3, <2>4 DEF Receive
<1>4. CASE Decode
  BY <1>4 DEF Decode, LinkLikePaste
<1>5. CASE Fail
  BY <1>5 DEF Fail, Answer, LinkLikePaste
<1>6. CASE Submit
  BY <1>6 DEF Submit, Answer, FetchFits, LinkLikePaste
<1>7. CASE UNCHANGED vars
  BY <1>7 DEF vars, LinkLikePaste
<1> QED
  BY <1>1, <1>2, <1>3, <1>4, <1>5, <1>6, <1>7 DEF Next

LEMMA NextInv == Inv /\ [Next]_vars => Inv'
BY NextFits, NextLikePaste DEF Inv

LEMMA InvHolds == Spec => []Inv
BY InitInv, NextInv, PTL DEF Spec

LEMMA NormalizedTyped ==
  ASSUME NEW f \in Seq(Chars)
  PROVE  normalize_newlines(f) \in Seq(Chars)
<1>1. Len(f) \in 0 .. Len(f)
  OBVIOUS
<1>2. normalize_newlines(f) \in Seq(Chars \ {"CR"})
  BY <1>1, NormalizedLines DEF normalize_newlines
<1> QED
  BY <1>2

\* What is accepted is a sequence of characters, and so is it when normalized:
\* comments are added to nothing else.
LEMMA InvGivesComments == Inv => CommentsChangeNothing
<1> SUFFICES ASSUME Inv, reply = "accepted", language # "other" PROVE CommentsChangeNothing
  BY DEF CommentsChangeNothing
<1> DEFINE u == normalize_newlines(code)
<1>1. language \in {"python", "javascript"}
  BY DEF Inv, TypeOK, Languages
<1>2. u \in Seq(Chars)
  <2>1. code \in Seq(Chars)
    BY FilesAssumption DEF Inv, PasteFits
  <2> QED
    BY <2>1, NormalizedTyped
<1> HIDE DEF u
<1>3. ASSUME Open(u), NEW q \in QuotesOf(language)
      PROVE  /\ strip_comments(u \o Line \o <<q, "LF", "a">>, language)
                  = strip_comments(u, language) \o <<"LF", "a">>
             /\ language = "javascript" =>
                  strip_comments(u \o <<"/", "*", q, "*", "/", "a">>, language)
                    = strip_comments(u, language) \o <<"a">>
             /\ strip_comments(u \o (<<q>> \o Line \o <<q>>) \o <<"a">>, language)
                  = strip_comments(u, language) \o (<<q>> \o Line \o <<q>>) \o <<"a">>
  BY <1>1, <1>2, <1>3, CommentsLeave
<1> QED
  BY <1>3, Zenon DEF CommentsChangeNothing, u

\* The variables of a submission keep their types.
THEOREM IntakeTyped == Spec => []TypeOK
BY InvHolds, PTL DEF Inv

\* The code that is tried is the file of the commit that is kept with it,
\* whatever is pushed while it is resolved and fetched.
THEOREM CodeStaysOfCommit == Spec => []CodeIsOfCommit
BY InvHolds, InvGives, PTL

\* A link whose file is fetched is answered like the same code when pasted, for
\* any files, limits and size of the chunks, but for the bytes of wide
\* characters and for blank files: no chunk is counted twice or cut off early.
THEOREM LinksAreLikePastes == Spec => []LinkLikePaste
BY InvHolds, PTL DEF Inv

\* A comment that is added to accepted code changes nothing of what is kept of
\* it, even one with a quote in it, and a string is kept, even one that looks
\* like a comment, for code of any length: the scanner is where it was.
THEOREM CommentsAreNothing == Spec => []CommentsChangeNothing
BY InvHolds, InvGivesComments, PTL
=============================================================================
