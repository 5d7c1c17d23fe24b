------------------------- MODULE Algorithms_proofs -------------------------
(***************************************************************************)
(* Proofs about Algorithms, for texts, patterns, words and ints of any     *)
(* size: the matchers stay within their strings and decide the glob, the   *)
(* size of an array and a threshold below 2 GB are exact.                  *)
(***************************************************************************)
EXTENDS Algorithms, SequenceTheorems, WellFoundedInduction, TLAPS

-----------------------------------------------------------------------------
(* Arithmetic.                                                             *)

\* Division with remainder, for a divisor that is not a literal.
LEMMA Division ==
  ASSUME NEW a \in Nat, NEW b \in Nat \ {0}
  PROVE  /\ a \div b \in Nat /\ a % b \in 0..b - 1
         /\ a = b * (a \div b) + (a % b)
  OBVIOUS

\* A product of naturals grows with its factors.
LEMMA ProductGrows ==
  ASSUME NEW a \in Nat, NEW b \in Nat, NEW c \in Nat, a <= b
  PROVE  a * c <= b * c /\ c * a <= c * b /\ a * c \in Nat
  OBVIOUS

\* A remainder when the quotient is 0 or 1.
LEMMA SmallRemainder ==
  ASSUME NEW a \in Nat, NEW b \in Nat \ {0}, a < 2 * b
  PROVE  a % b = IF a < b THEN a ELSE a - b
<1> DEFINE q == a \div b
           m == a % b
<1>1. q \in Nat /\ m \in 0..b - 1 /\ a = b * q + m
  BY Division
<1> HIDE DEF q, m
<1>2. q < 2
  <2>1. SUFFICES ASSUME q >= 2 PROVE FALSE
    BY <1>1
  <2>2. b * 2 <= b * q
    BY <2>1, <1>1, ProductGrows
  <2> QED  BY <2>2, <1>1
<1>3. q = 0 \/ q = 1
  BY <1>1, <1>2
<1>4. m = IF a < b THEN a ELSE a - b
  BY <1>1, <1>3
<1> QED  BY <1>4 DEF m

\* CheckedArraySize accepts exactly the products that fit in a word, and its total is
\* the product, when the count is below half a word.
LEMMA CheckedArraySizeExact ==
  ASSUME NEW size \in 0..Word - 1, NEW count \in 0..Half - 1
  PROVE  /\ CheckedArraySize(size, count) <=> size * count < Word
         /\ CheckedArraySize(size, count) => Total(size, count) = size * count
<1> USE AlgorithmsAssumption
<1> DEFINE q == size \div Half
           m == size % Half
           l == m * count
           h == q * count
<1>1. /\ Half \in Nat \ {0} /\ Word \in Nat \ {0} /\ Word = Half * Half
      /\ size \in Nat /\ count \in Nat /\ size < Word /\ count < Half
  BY DEF Word
<1>2. q \in Nat /\ m \in 0..Half - 1 /\ size = Half * q + m
  BY <1>1, Division
<1> HIDE DEF q, m
<1>3. q < Half
  <2>1. SUFFICES ASSUME q >= Half PROVE FALSE
    BY <1>1, <1>2
  <2>2. Half * Half <= Half * q
    BY <2>1, <1>1, <1>2, ProductGrows
  <2> QED  BY <2>2, <1>1, <1>2
<1>4. l \in Nat /\ l < Word
  <2>1. m * count <= Half * count /\ m * count \in Nat
    BY <1>1, <1>2, ProductGrows
  <2>2. Half * count <= Half * (Half - 1)
    BY <1>1, ProductGrows
  <2>3. Half * (Half - 1) = Half * Half - Half
    BY <1>1
  <2> QED  BY <2>1, <2>2, <2>3, <1>1
<1>5. h \in Nat /\ h < Word
  <2>1. q * count <= Half * count /\ q * count \in Nat
    BY <1>1, <1>2, <1>3, ProductGrows
  <2>2. Half * count <= Half * (Half - 1)
    BY <1>1, ProductGrows
  <2>3. Half * (Half - 1) = Half * Half - Half
    BY <1>1
  <2> QED  BY <2>1, <2>2, <2>3, <1>1
<1>6. size * count = l + h * Half
  BY <1>1, <1>2
<1>7. Low(size, count) = l /\ High(size, count) = h
  <2>1. l % Word = l
    BY <1>1, <1>4, SmallRemainder
  <2>2. h % Word = h
    BY <1>1, <1>5, SmallRemainder
  <2> QED  BY <2>1, <2>2 DEF Low, High, q, m
<1> HIDE DEF l, h
<1>8. CASE h >= Half
  <2>1. Half * Half <= h * Half
    BY <1>8, <1>1, <1>5, ProductGrows
  <2>2. ~CheckedArraySize(size, count)
    BY <1>8, <1>1, <1>5, <1>7 DEF CheckedArraySize
  <2> QED  BY <2>1, <2>2, <1>1, <1>4, <1>5, <1>6
<1>9. CASE h < Half
  <2> DEFINE sum == l + h * Half
  <2>1. h * Half <= (Half - 1) * Half /\ h * Half \in Nat
    BY <1>9, <1>1, <1>5, ProductGrows
  <2>2. (Half - 1) * Half = Half * Half - Half
    BY <1>1
  <2>3. sum \in Nat /\ sum < 2 * Word /\ h * Half < Word
    BY <2>1, <2>2, <1>1, <1>4
  <2>4. sum % Word = IF sum < Word THEN sum ELSE sum - Word
    BY <2>3, <1>1, SmallRemainder
  <2>5. Total(size, count) = IF sum < Word THEN sum ELSE sum - Word
    BY <2>4, <1>7 DEF Total
  <2>6. Total(size, count) >= l <=> sum < Word
    BY <2>3, <2>5, <1>1, <1>4, <2>1
  <2> QED  BY <2>5, <2>6, <1>6, <1>7, <1>9 DEF CheckedArraySize
<1> QED  BY <1>8, <1>9, <1>1, <1>5

-----------------------------------------------------------------------------
(* The strings of a job.                                                   *)

\* Lowering keeps a string a string over the same symbols.
LEMMA LoweredType ==
  ASSUME NEW s \in Seq(Symbols)
  PROVE  Lowered(s) \in Seq(Symbols)
<1>1. \A i \in 1..Len(s) : (IF s[i] = Star THEN Star ELSE Lower[s[i]]) \in Symbols
  BY AlgorithmsAssumption DEF Symbols
<1> QED  BY <1>1 DEF Lowered

\* A bounded word is a string.
LEMMA WordsAreStrings ==
  ASSUME NEW n \in Nat, NEW S, NEW w \in Words(n, S)
  PROVE  w \in Seq(S)
<1>1. PICK k \in 0..n : w \in [1..k -> S]
  BY DEF Words
<1> QED  BY <1>1

\* So is what encode_exception_filter makes of a filter.
LEMMA EncodedType ==
  ASSUME NEW f \in Seq(Symbols)
  PROVE  Encoded(f) \in Seq(Symbols)
<1>1. <<Star>> \in Seq(Symbols) /\ <<>> \in Seq(Symbols)
  BY DEF Symbols
<1> DEFINE before == IF f[1] = Star THEN <<>> ELSE <<Star>>
           after == IF f[Len(f)] = Star THEN <<>> ELSE <<Star>>
<1>2. before \in Seq(Symbols) /\ after \in Seq(Symbols)
  BY <1>1
<1> HIDE DEF before, after
<1>3. before \o f \in Seq(Symbols)
  BY <1>2
<1>4. (before \o f) \o after \in Seq(Symbols)
  BY <1>2, <1>3
<1> QED  BY <1>4 DEF Encoded, before, after

\* A place where a string has a character is within it.
LEMMA AtInside ==
  ASSUME NEW s \in Seq(Symbols), NEW i \in Nat \ {0}
  PROVE  /\ At(s, i) # Nul => i <= Len(s)
         /\ At(s, i) = Nul => i > Len(s)
<1>1. i <= Len(s) => s[i] \in Symbols
  OBVIOUS
<1> QED  BY <1>1, AlgorithmsAssumption DEF At, Symbols

-----------------------------------------------------------------------------
(* The matchers.                                                           *)

\* Every job starts in the invariant.
LEMMA InitInv == Init => AlgorithmsInv
<1> SUFFICES ASSUME Init PROVE AlgorithmsInv
  OBVIOUS
<1>1. Letters \subseteq Symbols /\ Letters \cup {Star} = Symbols
  BY DEF Symbols
<1>2. text \in Seq(Symbols) /\ pattern \in Seq(Symbols)
  <2>1. CASE job = "filter"
    <3>1. PICK s \in Words(MaxText, Symbols), f \in Words(MaxFilter, Symbols) :
            text = Lowered(s) /\ pattern = Lowered(Encoded(f))
      BY <2>1, <1>1 DEF Init
    <3>2. s \in Seq(Symbols) /\ f \in Seq(Symbols)
      BY <3>1, WordsAreStrings, AlgorithmsAssumption
    <3> QED  BY <3>1, <3>2, LoweredType, EncodedType
  <2>2. CASE job = "report"
    <3>1. PICK s \in Words(MaxText, Letters), f \in Words(MaxFilter, Symbols) :
            text = Lowered(s) /\ pattern = Lowered(f)
      BY <2>2, <1>1 DEF Init
    <3>2. s \in Seq(Letters) /\ f \in Seq(Symbols)
      BY <3>1, WordsAreStrings, AlgorithmsAssumption
    <3>3. s \in Seq(Symbols)
      BY <3>2, <1>1
    <3> QED  BY <3>1, <3>2, <3>3, LoweredType
  <2>3. CASE job # "filter" /\ job # "report"
    <3>1. text = <<>> /\ pattern = <<>>
      BY <2>3, Zenon DEF Init
    <3> QED  BY <3>1
  <2> QED  BY <2>1, <2>2, <2>3
<1>3. TypeOK
  <2>1. job \in {"filter", "report", "threshold", "calloc", "reallocarray"}
    BY DEF Init
  <2>2. job = "threshold" => input \in 0..MaxMB
    BY DEF Init
  <2>3. ASSUME job \in {"calloc", "reallocarray"}
        PROVE  input \in (0..Word - 1) \X (0..Word - 1)
    <3>1. job # "filter" /\ job # "report" /\ job # "threshold"
      BY <2>3
    <3> QED  BY <3>1, Zenon DEF Init
  <2> QED  BY <1>2, <2>1, <2>2, <2>3 DEF Init, Start, TypeOK, NoSub, NoBack
<1>4. InBounds
  BY <1>2 DEF Init, Start, InBounds, NoSub, NoBack
<1> QED  BY <1>3, <1>4 DEF AlgorithmsInv

\* Every step keeps it: an index moves only past a character that is there.
LEMMA StepInv == AlgorithmsInv /\ [Next]_vars => AlgorithmsInv'
<1> SUFFICES ASSUME AlgorithmsInv, [Next]_vars PROVE AlgorithmsInv'
  OBVIOUS
<1> USE DEF AlgorithmsInv
<1>1. /\ text \in Seq(Symbols) /\ pattern \in Seq(Symbols)
      /\ v \in Nat \ {0} /\ p \in Nat \ {0} /\ sub \in [cc : Nat, ss : Nat, endpos : Nat]
      /\ back \in [wildcard : Nat, restart : Nat]
      /\ Len(text) \in Nat /\ Len(pattern) \in Nat
  BY DEF TypeOK
<1>2. CASE Wildcard
  <2>1. p <= Len(pattern) /\ job = "filter"
    BY <1>1, <1>2, AtInside DEF Wildcard, InSearch
  <2> QED  BY <1>1, <1>2, <2>1 DEF Wildcard, Strings, TypeOK, InBounds
<1>3. CASE ContinueWildcard
  <2>0. pc = "star" /\ job = "filter"
    BY <1>3 DEF ContinueWildcard, InBounds
  <2>1. CASE At(pattern, p) = Nul
    BY <1>1, <1>3, <2>0, <2>1, AlgorithmsAssumption
      DEF ContinueWildcard, Answer, Strings, TypeOK, InBounds
  <2>2. CASE At(pattern, p) = Star
    <3>1. p <= Len(pattern)
      BY <1>1, <2>2, AtInside, AlgorithmsAssumption
    <3>2. p' = p + 1 /\ UNCHANGED <<pc, answer, sub, Strings, v, back>>
      BY <1>3, <2>2, AlgorithmsAssumption DEF ContinueWildcard
    <3> QED  BY <1>1, <2>0, <3>1, <3>2 DEF Strings, TypeOK, InBounds
  <2>3. CASE At(pattern, p) \notin {Star, Nul}
    <3>1. PICK k \in 1..Len(pattern) :
            PartEnds(p, k) /\ sub' = [cc |-> 0, ss |-> 0, endpos |-> k]
      BY <1>3, <2>3 DEF ContinueWildcard
    <3>2. At(pattern, p + (k - 1)) # Nul
      <4>1. k - 1 \in 0..k - 1
        BY <3>1
      <4>2. \A j \in 0..k - 1 : At(pattern, p + j) \notin {Star, Nul}
        BY <3>1 DEF PartEnds
      <4> QED  BY <4>1, <4>2
    <3>3. p + (k - 1) <= Len(pattern)
      BY <1>1, <3>2, AtInside
    <3>4. pc' = "seek" /\ UNCHANGED <<p, answer, Strings, v, back>>
      BY <1>3, <2>3 DEF ContinueWildcard
    <3> QED  BY <1>1, <2>0, <3>1, <3>3, <3>4 DEF Strings, TypeOK, InBounds
  <2> QED  BY <2>1, <2>2, <2>3
<1>4. CASE Seek
  <2>1. CASE TextEnds(At(text, v + sub.ss + sub.cc))
    BY <1>1, <1>4, <2>1 DEF Seek, Answer, Strings, TypeOK, InBounds
  <2>2. CASE ~TextEnds(At(text, v + sub.ss + sub.cc))
    <3>1. v + sub.ss + sub.cc <= Len(text)
      BY <1>1, <2>2, AtInside DEF TextEnds
    <3>2. /\ pc = "seek" /\ sub.ss < sub.endpos /\ UNCHANGED <<pc, answer, Strings, v, p, back>>
          /\ \/ sub' = [sub EXCEPT !.ss = @ + 1]
             \/ sub' = [cc |-> sub.cc + 1, ss |-> 0, endpos |-> sub.endpos]
      BY <1>4, <2>2 DEF Seek
    <3>3. CASE sub' = [sub EXCEPT !.ss = @ + 1]
      <4>1. /\ sub' \in [cc : Nat, ss : Nat, endpos : Nat] /\ sub'.cc = sub.cc
            /\ sub'.ss = sub.ss + 1 /\ sub'.endpos = sub.endpos
        BY <1>1, <3>3
      <4>2. TypeOK'
        BY <4>1, <3>2 DEF Strings, TypeOK
      <4>3. InBounds'
        BY <1>1, <3>1, <3>2, <4>1 DEF Strings, InBounds
      <4> QED  BY <4>2, <4>3
    <3>4. CASE sub' = [cc |-> sub.cc + 1, ss |-> 0, endpos |-> sub.endpos]
      <4>1. /\ sub' \in [cc : Nat, ss : Nat, endpos : Nat] /\ sub'.cc = sub.cc + 1
            /\ sub'.ss = 0 /\ sub'.endpos = sub.endpos
        BY <1>1, <3>4
      <4>2. TypeOK'
        BY <4>1, <3>2 DEF Strings, TypeOK
      <4>3. /\ sub'.ss <= sub'.endpos /\ v + sub'.cc + sub'.ss <= Len(text) + 1
            /\ p + sub'.endpos = p + sub.endpos
        BY <1>1, <3>1, <4>1
      <4>4. InBounds'
        BY <3>2, <4>3 DEF Strings, InBounds
      <4> QED  BY <4>2, <4>4
    <3> QED  BY <3>2, <3>3, <3>4
  <2> QED  BY <2>1, <2>2
<1>5. CASE Found
  <2>1. /\ pc' = "loop" /\ sub' = [cc |-> 0, ss |-> 0, endpos |-> 0]
        /\ p' = p + sub.ss /\ v' = v + sub.ss + sub.cc /\ UNCHANGED <<job, input, text, pattern, back>>
    BY <1>5 DEF Found, NoSub, Strings
  <2>2. /\ v + sub.cc + sub.ss <= Len(text) + 1 /\ p + sub.ss <= Len(pattern) + 1
        /\ back.wildcard <= Len(pattern) /\ back.restart <= v
    BY <1>5 DEF Found, InBounds
  <2>a. sub.ss \in Nat /\ sub.cc \in Nat
    BY <1>1
  <2>b. /\ v + sub.ss + sub.cc \in Nat \ {0} /\ p + sub.ss \in Nat \ {0}
        /\ v <= v + sub.ss + sub.cc /\ v + sub.ss + sub.cc = v + sub.cc + sub.ss
    <3> HIDE DEF AlgorithmsInv
    <3> QED  BY <1>1, <2>a
  <2>3. /\ v' \in Nat \ {0} /\ p' \in Nat \ {0} /\ v <= v'
        /\ v' <= Len(text) + 1 /\ p' <= Len(pattern) + 1
    BY <2>1, <2>2, <2>b
  <2>4. TypeOK'
    BY <2>1, <2>3 DEF TypeOK
  <2>5. back.restart <= v'
    BY <1>1, <2>2, <2>3
  <2>6. InBounds'
    BY <2>1, <2>2, <2>3, <2>5 DEF InBounds
  <2> QED  BY <2>4, <2>6
<1>6. CASE Trailing
  <2>1. At(pattern, p) = Star => p <= Len(pattern)
    BY <1>1, AtInside, AlgorithmsAssumption
  <2> QED  BY <1>1, <1>6, <2>1 DEF Trailing, Answer, Strings, TypeOK, InBounds
<1>7. CASE Match
  <2>1. /\ pc = "loop" /\ job = "report" /\ v <= Len(text)
        /\ UNCHANGED <<Strings, sub>> /\ text[v] \in Symbols
    BY <1>1, <1>7 DEF Match
  <2>2. At(pattern, p) \in {text[v], Star} => p <= Len(pattern)
    BY <1>1, <2>1, AtInside, AlgorithmsAssumption DEF Symbols
  <2>3. CASE At(pattern, p) = text[v] /\ v' = v + 1 /\ p' = p + 1 /\ UNCHANGED <<pc, back, answer>>
    BY <1>1, <2>1, <2>2, <2>3 DEF Strings, TypeOK, InBounds
  <2>4. CASE /\ At(pattern, p) = Star /\ back' = [wildcard |-> p, restart |-> v]
             /\ p' = p + 1 /\ UNCHANGED <<pc, v, answer>>
    BY <1>1, <2>1, <2>2, <2>4 DEF Strings, TypeOK, InBounds
  <2>5. CASE back.wildcard # 0 /\ Restart /\ UNCHANGED <<pc, answer>>
    <3>1. /\ back' \in [wildcard : Nat, restart : Nat] /\ back'.wildcard = back.wildcard
          /\ back'.restart = back.restart + 1
          /\ p' = back.wildcard + 1 /\ v' = back.restart + 1
      BY <1>1, <2>5 DEF Restart
    <3>2. TypeOK'
      BY <1>1, <2>1, <2>5, <3>1 DEF Strings, TypeOK
    <3>3. InBounds'
      BY <1>1, <2>1, <2>5, <3>1 DEF Strings, InBounds
    <3> QED  BY <3>2, <3>3
  <2>6. CASE Answer(0) /\ UNCHANGED <<v, p, back>>
    BY <1>1, <2>1, <2>6 DEF Answer, Strings, TypeOK, InBounds
  <2> QED  BY <1>7, <2>3, <2>4, <2>5, <2>6 DEF Match
<1>8. CASE MatchEnds \/ ParseThreshold \/ ArraySize
  BY <1>1, <1>8 DEF MatchEnds, ParseThreshold, ArraySize, Answer, Strings, TypeOK, InBounds
<1>9. CASE UNCHANGED vars
  BY <1>1, <1>9 DEF vars, TypeOK, InBounds
<1> QED  BY <1>2, <1>3, <1>4, <1>5, <1>6, <1>7, <1>8, <1>9 DEF Next, Step, Finished

\* Neither WildcardSearch nor wildcard_matches ever reads outside its strings, whatever
\* they hold.
THEOREM MatchersInBounds == Spec => []AlgorithmsInv
<1>1. Init => AlgorithmsInv  BY InitInv
<1>2. AlgorithmsInv /\ [Next]_vars => AlgorithmsInv'  BY StepInv
<1> QED  BY <1>1, <1>2, PTL DEF Spec

-----------------------------------------------------------------------------
(* The answers of the arithmetic.                                          *)

\* A threshold below the range of an int (ParseClientData) is kept as asked.
LEMMA ThresholdStep == AlgorithmsInv /\ ThresholdExact /\ [Next]_vars => ThresholdExact'
<1> SUFFICES ASSUME AlgorithmsInv, ThresholdExact, [Next]_vars, ThresholdExact' = FALSE
             PROVE  FALSE
  BY DEF ThresholdExact
<1>1. pc' = "done" /\ job' = "threshold" /\ input' < IntMB
  BY DEF ThresholdExact
<1>2. job' = job /\ input' = input
  BY DEF Next, Step, vars, Strings, Wildcard, ContinueWildcard, Seek, Found, Trailing,
         Match, MatchEnds, ParseThreshold, ArraySize, Finished
<1>3. CASE pc = "done"
  BY <1>1, <1>2, <1>3 DEF ThresholdExact, Next, Step, vars, Wildcard,
     ContinueWildcard, Seek, Found, Trailing, Match, MatchEnds, ParseThreshold, ArraySize, Finished
<1>4. CASE pc # "done"
  <2>1. ParseThreshold
    BY <1>1, <1>2, <1>4 DEF Next, Step, vars, InSearch, AlgorithmsInv, InBounds,
       Wildcard, ContinueWildcard, Seek, Found, Trailing,
       Match, MatchEnds, ArraySize, Finished
  <2>2. input \in Nat /\ input < IntMB
    BY <1>1, <1>2, AlgorithmsAssumption DEF AlgorithmsInv, TypeOK
  <2>3. input % (2 * IntMB) = input
    BY <2>2, AlgorithmsAssumption, SmallRemainder
  <2>4. answer' = input
    BY <2>1, <2>2, <2>3, AlgorithmsAssumption DEF ParseThreshold, Answer, Threshold
  <2> QED  BY <1>1, <1>2, <2>4 DEF ThresholdExact
<1> QED  BY <1>3, <1>4

\* The profiler's thresholds below 2 GB are those given with -gcm.
THEOREM ThresholdsExact == Spec => []ThresholdExact
<1>1. Init => ThresholdExact
  BY DEF Init, Start, ThresholdExact
<1> QED  BY <1>1, MatchersInBounds, ThresholdStep, PTL DEF Spec

\* The size that the probes of calloc and reallocarray put into an event.
LEMMA ArraySizeStep == AlgorithmsInv /\ ArraySizeExact /\ [Next]_vars => ArraySizeExact'
<1> SUFFICES ASSUME AlgorithmsInv, ArraySizeExact, [Next]_vars, ArraySizeExact' = FALSE
             PROVE  FALSE
  BY DEF ArraySizeExact
<1>1. pc' = "done" /\ job' \in {"calloc", "reallocarray"} /\ 2 * input'[2] < Half
  BY DEF ArraySizeExact
<1>2. job' = job /\ input' = input
  BY DEF Next, Step, vars, Strings, Wildcard, ContinueWildcard, Seek, Found, Trailing,
         Match, MatchEnds, ParseThreshold, ArraySize, Finished
<1>3. CASE pc = "done"
  BY <1>1, <1>2, <1>3 DEF ArraySizeExact, Next, Step, vars, Wildcard,
     ContinueWildcard, Seek, Found, Trailing, Match, MatchEnds, ParseThreshold, ArraySize, Finished
<1>4. CASE pc # "done"
  <2>1. ArraySize
    BY <1>1, <1>2, <1>4 DEF Next, Step, vars, InSearch, AlgorithmsInv, InBounds,
       Wildcard, ContinueWildcard, Seek, Found, Trailing,
       Match, MatchEnds, ParseThreshold, Finished
  <2> DEFINE size == input[1]
             count == input[2]
  <2>2. /\ size \in 0..Word - 1 /\ count \in 0..Word - 1 /\ 2 * count < Half
        /\ Half \in Nat \ {0} /\ Word \in Nat \ {0}
    BY <1>1, <1>2, AlgorithmsAssumption DEF AlgorithmsInv, TypeOK, Word
  <2> HIDE DEF size, count
  <2>3. count \in 0..Half - 1
    BY <2>2
  <2>4. AsInt(count) = count
    BY <2>2, <2>3, SmallRemainder DEF AsInt
  <2>5. Half <= Word
    BY <2>2, ProductGrows, AlgorithmsAssumption DEF Word
  <2>6. AsLong(count) = count
    BY <2>2, <2>5 DEF AsLong
  <2>7. answer' = IF CheckedArraySize(size, count) THEN Total(size, count) ELSE Untold
    BY <2>1, <2>3, <2>4, <2>6 DEF ArraySize, Answer, size, count
  <2>8. answer' = IF size * count < Word THEN size * count ELSE Untold
    BY <2>2, <2>3, <2>7, CheckedArraySizeExact
  <2> QED  BY <1>1, <1>2, <2>8 DEF ArraySizeExact, size, count
<1> QED  BY <1>3, <1>4

\* A leak's size is that of the allocation, or the allocation cannot have succeeded, for
\* every width of a word.
THEOREM ArraySizesExact == Spec => []ArraySizeExact
<1>1. Init => ArraySizeExact
  BY DEF Init, Start, ArraySizeExact
<1> QED  BY <1>1, MatchersInBounds, ArraySizeStep, PTL DEF Spec
-----------------------------------------------------------------------------
(* What a pattern takes of a text.                                         *)

NatLess == {nn \in Nat \X Nat : nn[1] < nn[2]}
\* Every set of numbers that is not empty has a least one: < is well-founded on Nat.
LEMMA LeastNat ==
  ASSUME NEW T, T \subseteq Nat, T # {}
  PROVE  \E a \in T : \A b \in T : a <= b
<1>1. IsWellFoundedOn(NatLess, Nat)
  BY NatLessThanWellFounded DEF OpToRel, NatLess
<1>2. PICK a \in T : \A b \in T : ~(<<b, a>> \in NatLess)
  BY <1>1, WFMin
<1>3. \A b \in T : ~(b < a)
  BY <1>2 DEF NatLess
<1> QED  BY <1>3

\* Nothing of the pattern takes nothing of the text.
LEMMA TakesNothing == ASSUME NEW s \in Seq(Symbols), NEW f PROVE Takes(s, f, 0, 0)
<1> DEFINE e == [i \in 0..0 |-> 0]
<1>1. e \in [0..0 -> 0..Len(s)] /\ e[0] = 0
  OBVIOUS
<1>2. Fits(s, f, 0, e)
  BY <1>1 DEF Fits
<1> HIDE DEF e
<1> QED  BY <1>1, <1>2 DEF Takes

\* One more character of the pattern.
LEMMA TakesMore ==
  ASSUME NEW s \in Seq(Symbols), NEW f \in Seq(Symbols), NEW n \in Nat,
         NEW k \in 0..Len(s), NEW m \in 0..Len(s), Takes(s, f, n, k),
         IF f[n + 1] = Star THEN k <= m ELSE m = k + 1 /\ s[m] = f[n + 1]
  PROVE  Takes(s, f, n + 1, m)
<1>1. PICK ends \in [0..n -> 0..Len(s)] : ends[n] = k /\ Fits(s, f, n, ends)
  BY DEF Takes
<1> DEFINE e == [i \in 0..n + 1 |-> IF i = n + 1 THEN m ELSE ends[i]]
<1>2. /\ e \in [0..n + 1 -> 0..Len(s)] /\ e[n + 1] = m
      /\ \A i \in 0..n : e[i] = ends[i]
  OBVIOUS
<1> HIDE DEF e
<1>3. e[0] = 0
  BY <1>1, <1>2 DEF Fits
<1>4. ASSUME NEW i \in 1..n + 1
      PROVE  IF f[i] = Star THEN e[i - 1] <= e[i] ELSE e[i] = e[i - 1] + 1 /\ s[e[i]] = f[i]
  <2>1. CASE i = n + 1
    <3>1. i - 1 = n /\ e[i - 1] = k /\ e[i] = m
      BY <1>1, <1>2, <2>1
    <3> QED  BY <3>1, <2>1
  <2>2. CASE i # n + 1
    <3>1. i \in 1..n /\ e[i] = ends[i] /\ e[i - 1] = ends[i - 1]
      BY <1>2, <2>2
    <3> QED  BY <1>1, <3>1 DEF Fits
  <2> QED  BY <2>1, <2>2
<1>5. Fits(s, f, n + 1, e)
  BY <1>3, <1>4 DEF Fits
<1> QED  BY <1>2, <1>5 DEF Takes

\* A wildcard at the end may take more.
LEMMA TakesWider ==
  ASSUME NEW s \in Seq(Symbols), NEW f \in Seq(Symbols), NEW n \in Nat \ {0},
         NEW k \in 0..Len(s), NEW m \in 0..Len(s), Takes(s, f, n, k), f[n] = Star, k <= m
  PROVE  Takes(s, f, n, m)
<1>1. PICK ends \in [0..n -> 0..Len(s)] : ends[n] = k /\ Fits(s, f, n, ends)
  BY DEF Takes
<1> DEFINE e == [i \in 0..n |-> IF i = n THEN m ELSE ends[i]]
<1>2. /\ e \in [0..n -> 0..Len(s)] /\ e[n] = m
      /\ \A i \in 0..n - 1 : e[i] = ends[i]
  OBVIOUS
<1> HIDE DEF e
<1>3. e[0] = 0
  BY <1>1, <1>2 DEF Fits
<1>4. ASSUME NEW i \in 1..n
      PROVE  IF f[i] = Star THEN e[i - 1] <= e[i] ELSE e[i] = e[i - 1] + 1 /\ s[e[i]] = f[i]
  <2>1. CASE i = n
    <3>1. e[i - 1] = ends[i - 1] /\ e[i] = m /\ f[i] = Star
      BY <1>2, <2>1
    <3>2. ends[i - 1] <= ends[i] /\ ends[i] = k
      BY <1>1, <2>1, <3>1 DEF Fits
    <3>3. ends[i - 1] \in 0..Len(s)
      BY <1>1
    <3> QED  BY <3>1, <3>2, <3>3
  <2>2. CASE i # n
    <3>1. i \in 1..n /\ e[i] = ends[i] /\ e[i - 1] = ends[i - 1]
      BY <1>2, <2>2
    <3> QED  BY <1>1, <3>1 DEF Fits
  <2> QED  BY <2>1, <2>2
<1>5. Fits(s, f, n, e)
  BY <1>3, <1>4 DEF Fits
<1> QED  BY <1>2, <1>5 DEF Takes

\* The letters of a part are taken one by one.
LEMMA TakesLetters ==
  ASSUME NEW s \in Seq(Symbols), NEW f \in Seq(Symbols), NEW n \in Nat, NEW k \in Nat,
         NEW l \in Nat, k + l <= Len(s), Takes(s, f, n, k),
         \A j \in 0..l - 1 : f[n + 1 + j] # Star /\ s[k + 1 + j] = f[n + 1 + j]
  PROVE  Takes(s, f, n + l, k + l)
<1> DEFINE T == {i \in 0..l : ~Takes(s, f, n + i, k + i)}
<1>1. SUFFICES ASSUME T # {} PROVE FALSE
  <2>1. SUFFICES ASSUME T = {} PROVE l \notin T
    <3>1. l \in 0..l
      OBVIOUS
    <3> QED  BY <2>1, <3>1
  <2> QED  BY <2>1
<1>2. T \subseteq Nat
  OBVIOUS
<1>3. PICK i \in T : \A b \in T : i <= b
  BY <1>1, <1>2, LeastNat
<1>4. i \in 0..l /\ ~Takes(s, f, n + i, k + i)
  BY <1>3
<1>5. i # 0
  BY <1>4
<1>6. i - 1 \in 0..l - 1 /\ i - 1 \notin T
  BY <1>3, <1>4, <1>5
<1>7. Takes(s, f, n + (i - 1), k + (i - 1))
  BY <1>6
<1>8. /\ f[n + (i - 1) + 1] # Star /\ s[k + (i - 1) + 1] = f[n + (i - 1) + 1]
      /\ n + (i - 1) \in Nat /\ k + (i - 1) \in 0..Len(s) /\ k + (i - 1) + 1 \in 0..Len(s)
  <2>1. f[n + 1 + (i - 1)] # Star /\ s[k + 1 + (i - 1)] = f[n + 1 + (i - 1)]
    BY <1>6
  <2>2. n + 1 + (i - 1) = n + (i - 1) + 1 /\ k + 1 + (i - 1) = k + (i - 1) + 1
    BY <1>4
  <2> QED  BY <2>1, <2>2, <1>4, <1>5
<1>9. Takes(s, f, n + (i - 1) + 1, k + (i - 1) + 1)
  BY <1>7, <1>8, TakesMore
<1>10. n + (i - 1) + 1 = n + i /\ k + (i - 1) + 1 = k + i
  BY <1>4
<1> QED  BY <1>4, <1>9, <1>10

\* More of the pattern takes more of the text.
LEMMA EndsGrow ==
  ASSUME NEW s \in Seq(Symbols), NEW f \in Seq(Symbols), NEW n \in Nat,
         NEW ends \in [0..n -> 0..Len(s)], Fits(s, f, n, ends),
         NEW a \in 0..n, NEW b \in 0..n, a <= b
  PROVE  ends[a] <= ends[b]
<1> DEFINE T == {i \in a..n : ends[i] < ends[a]}
<1>1. SUFFICES ASSUME T # {} PROVE FALSE
  <2>1. SUFFICES ASSUME T = {} PROVE b \notin T
    <3>1. b \in a..n
      OBVIOUS
    <3> QED  BY <2>1, <3>1
  <2> QED  BY <2>1
<1>2. T \subseteq Nat
  OBVIOUS
<1>3. PICK i \in T : \A c \in T : i <= c
  BY <1>1, <1>2, LeastNat
<1>4. i \in a..n /\ ends[i] < ends[a] /\ i # a
  BY <1>3
<1>5. i - 1 \in a..n /\ i - 1 \notin T /\ i \in 1..n
  BY <1>3, <1>4
<1>6. ends[i - 1] >= ends[a]
  BY <1>5
<1>7. ends[i - 1] <= ends[i]
  <2>1. IF f[i] = Star THEN ends[i - 1] <= ends[i] ELSE ends[i] = ends[i - 1] + 1
    BY <1>5 DEF Fits
  <2>2. ends[i - 1] \in Nat /\ ends[i] \in Nat
    BY <1>5
  <2> QED  BY <2>1, <2>2
<1> QED  BY <1>4, <1>5, <1>6, <1>7

\* A letter takes one letter.
LEMMA EndsLetters ==
  ASSUME NEW s \in Seq(Symbols), NEW f \in Seq(Symbols), NEW n \in Nat,
         NEW ends \in [0..n -> 0..Len(s)], Fits(s, f, n, ends),
         NEW a \in 0..n, NEW b \in 0..n, a <= b, \A j \in a + 1..b : f[j] # Star
  PROVE  ends[b] = ends[a] + (b - a)
<1> DEFINE T == {i \in a..b : ends[i] # ends[a] + (i - a)}
<1>1. SUFFICES ASSUME T # {} PROVE FALSE
  <2>1. SUFFICES ASSUME T = {} PROVE b \notin T
    <3>1. b \in a..b
      OBVIOUS
    <3> QED  BY <2>1, <3>1
  <2> QED  BY <2>1
<1>2. T \subseteq Nat
  OBVIOUS
<1>3. PICK i \in T : \A c \in T : i <= c
  BY <1>1, <1>2, LeastNat
<1>4. i \in a..b /\ ends[i] # ends[a] + (i - a) /\ i # a
  BY <1>3
<1>5. i - 1 \in a..b /\ i - 1 \notin T /\ i \in 1..n /\ f[i] # Star
  BY <1>3, <1>4
<1>6. ends[i - 1] = ends[a] + (i - 1 - a)
  BY <1>5
<1>7. ends[i] = ends[i - 1] + 1
  BY <1>5 DEF Fits
<1> QED  BY <1>4, <1>5, <1>6, <1>7
\* What encode_exception_filter makes of a filter: a wildcard, the filter, a wildcard, where
\* those of the filter itself count.
Shift(f) == IF f[1] = Star THEN 0 ELSE 1
Rest(f) == IF f[Len(f)] = Star THEN 0 ELSE 1

\* The encoded filter is the filter, shifted by the wildcard put in front of it, between two wildcards.
LEMMA EncodedShape ==
  ASSUME NEW f \in Seq(Symbols), f # <<>>
  PROVE  LET e == Encoded(f)
             d == Shift(f)
         IN  /\ e \in Seq(Symbols) /\ Len(e) = d + Len(f) + Rest(f)
             /\ \A j \in 1..Len(f) : e[d + j] = f[j]
             /\ e[1] = Star /\ e[Len(e)] = Star
<1> DEFINE before == IF f[1] = Star THEN <<>> ELSE <<Star>>
           after == IF f[Len(f)] = Star THEN <<>> ELSE <<Star>>
           d == Shift(f)
           m == before \o f
<1>1. <<Star>> \in Seq(Symbols) /\ <<>> \in Seq(Symbols) /\ Len(<<Star>>) = 1 /\ <<Star>>[1] = Star
  BY DEF Symbols
<1>2. /\ before \in Seq(Symbols) /\ Len(before) = d
      /\ d = 1 => before[1] = Star
  BY <1>1 DEF Shift
<1>3. /\ after \in Seq(Symbols) /\ Len(after) \in {0, 1} /\ Len(after) = Rest(f)
      /\ Len(after) = 1 => after[1] = Star
      /\ Len(after) = 0 => f[Len(f)] = Star
  BY <1>1 DEF Rest
<1>4. Len(f) \in Nat \ {0} /\ d \in {0, 1} /\ (d = 0 => f[1] = Star)
  BY DEF Shift
<1> HIDE DEF before, after, d
<1>5. /\ m \in Seq(Symbols) /\ Len(m) = d + Len(f)
      /\ \A j \in 1..Len(f) : m[d + j] = f[j]
      /\ d = 1 => m[1] = Star
  BY <1>2, <1>4
<1>6. m[1] = Star
  <2>1. CASE d = 0
    BY <2>1, <1>4, <1>5
  <2> QED  BY <2>1, <1>4, <1>5
<1> HIDE DEF m
<1> DEFINE e == m \o after
<1>7. /\ e \in Seq(Symbols) /\ Len(e) = Len(m) + Len(after)
      /\ \A j \in 1..Len(m) : e[j] = m[j]
      /\ Len(after) = 1 => e[Len(m) + 1] = Star
  <2>1. /\ e \in Seq(Symbols) /\ Len(e) = Len(m) + Len(after)
        /\ \A j \in 1..Len(m) : e[j] = m[j]
        /\ \A j \in 1..Len(after) : e[Len(m) + j] = after[j]
    BY <1>3, <1>5, ConcatProperties
  <2> QED  BY <2>1, <1>3
<1>8. Encoded(f) = e
  BY DEF Encoded, before, after, m
<1> HIDE DEF e
<1>9. \A j \in 1..Len(f) : e[d + j] = f[j]
  BY <1>4, <1>5, <1>7
<1>10. e[1] = Star
  BY <1>4, <1>5, <1>6, <1>7
<1>11. e[Len(e)] = Star
  <2>1. CASE Len(after) = 0
    <3>1. Len(e) = d + Len(f)
      BY <2>1, <1>4, <1>5, <1>7
    <3>2. e[d + Len(f)] = f[Len(f)]
      BY <1>4, <1>9
    <3> QED  BY <3>1, <3>2, <2>1, <1>3
  <2> QED  BY <2>1, <1>3, <1>7
<1>12. Len(e) = d + Len(f) + Rest(f)
  BY <1>3, <1>4, <1>5, <1>7
<1> QED  BY <1>7, <1>8, <1>9, <1>10, <1>11, <1>12 DEF d

\* Lowering and encoding can be swapped: no letter becomes a wildcard.
LEMMA LoweredShape ==
  ASSUME NEW f \in Seq(Symbols)
  PROVE  /\ Lowered(f) \in Seq(Symbols) /\ Len(Lowered(f)) = Len(f)
         /\ \A i \in 1..Len(f) : /\ Lowered(f)[i] = IF f[i] = Star THEN Star ELSE Lower[f[i]]
                                 /\ Lowered(f)[i] = Star <=> f[i] = Star
<1>1. \A i \in 1..Len(f) : f[i] # Star => Lower[f[i]] \in Letters
  BY AlgorithmsAssumption DEF Symbols
<1>2. /\ Len(Lowered(f)) = Len(f)
      /\ \A i \in 1..Len(f) : Lowered(f)[i] = IF f[i] = Star THEN Star ELSE Lower[f[i]]
  BY DEF Lowered
<1> QED  BY <1>1, <1>2, LoweredType, AlgorithmsAssumption

\* It makes no difference whether a filter is lowered before or after it is encoded.
LEMMA LoweredEncoded ==
  ASSUME NEW f \in Seq(Symbols), f # <<>>
  PROVE  Lowered(Encoded(f)) = Encoded(Lowered(f))
<1> DEFINE g == Lowered(f)
           e == Encoded(f)
           l == Lowered(e)
           r == Encoded(g)
           d == Shift(f)
<1>1. /\ g \in Seq(Symbols) /\ Len(g) = Len(f) /\ g # <<>>
      /\ \A i \in 1..Len(f) : /\ g[i] = IF f[i] = Star THEN Star ELSE Lower[f[i]]
                              /\ g[i] = Star <=> f[i] = Star
  <2>1. Len(f) > 0
    OBVIOUS
  <2> QED  BY <2>1, LoweredShape
<1>2. Shift(g) = d /\ Len(f) \in Nat \ {0} /\ d \in {0, 1}
  BY <1>1 DEF Shift
<1>3. /\ e \in Seq(Symbols) /\ Len(e) = d + Len(f) + Rest(f) /\ Rest(f) \in {0, 1}
      /\ \A j \in 1..Len(f) : e[d + j] = f[j]
      /\ e[1] = Star /\ e[Len(e)] = Star
  BY EncodedShape DEF Rest
<1>4. /\ r \in Seq(Symbols) /\ Len(r) = d + Len(g) + Rest(g)
      /\ \A j \in 1..Len(f) : r[d + j] = g[j]
      /\ r[1] = Star /\ r[Len(r)] = Star
  BY <1>1, <1>2, EncodedShape
<1>5. Len(r) = Len(e)
  <2>1. Rest(g) = Rest(f)
    BY <1>1, <1>2 DEF Rest
  <2> QED  BY <2>1, <1>1, <1>2, <1>3, <1>4
<1>6. /\ l \in Seq(Symbols) /\ Len(l) = Len(e)
      /\ \A i \in 1..Len(e) : l[i] = IF e[i] = Star THEN Star ELSE Lower[e[i]]
  BY <1>3, LoweredShape
<1> HIDE DEF g, e, l, r, d
<1>7. ASSUME NEW i \in 1..Len(e) PROVE l[i] = r[i]
  <2>1. CASE i = 1 \/ i = Len(e)
    BY <2>1, <1>3, <1>4, <1>5, <1>6
  <2>2. CASE i # 1 /\ i # Len(e)
    <3>1. i - d \in 1..Len(f) /\ d + (i - d) = i
      BY <2>2, <1>2, <1>3
    <3>2. e[i] = f[i - d] /\ r[i] = g[i - d]
      BY <3>1, <1>3, <1>4
    <3> QED  BY <3>1, <3>2, <1>1, <1>6
  <2> QED  BY <2>1, <2>2
<1>8. l = r
  BY <1>4, <1>5, <1>6, <1>7
<1> QED  BY <1>8 DEF l, r, e, g

\* The places of an encoded filter, with the bounds the proofs below compute with.
LEMMA EncodedPlaces ==
  ASSUME NEW f \in Seq(Symbols), f # <<>>
  PROVE  /\ Encoded(f) \in Seq(Symbols) /\ Len(f) \in Nat \ {0}
         /\ Shift(f) \in Nat /\ Shift(f) <= 1 /\ (Shift(f) = 1 => f[1] # Star)
         /\ Len(Encoded(f)) \in Nat /\ Len(Encoded(f)) >= 1
         /\ Shift(f) + Len(f) <= Len(Encoded(f)) /\ Len(Encoded(f)) <= Shift(f) + Len(f) + 1
         /\ \A j \in 1..Len(f) : Encoded(f)[Shift(f) + j] = f[j]
         /\ Encoded(f)[1] = Star /\ Encoded(f)[Len(Encoded(f))] = Star
<1>1. /\ Shift(f) \in Nat /\ Shift(f) <= 1 /\ (Shift(f) = 1 => f[1] # Star)
      /\ Rest(f) \in Nat /\ Rest(f) <= 1 /\ Len(f) \in Nat \ {0}
  BY DEF Shift, Rest
<1>2. /\ Encoded(f) \in Seq(Symbols) /\ Len(Encoded(f)) = Shift(f) + Len(f) + Rest(f)
      /\ \A j \in 1..Len(f) : Encoded(f)[Shift(f) + j] = f[j]
      /\ Encoded(f)[1] = Star /\ Encoded(f)[Len(Encoded(f))] = Star
  BY EncodedShape
<1> QED  BY <1>1, <1>2

\* A text matches an encoded filter when a part of it matches the filter.
LEMMA PartFits ==
  ASSUME NEW s \in Seq(Symbols), NEW f \in Seq(Symbols), f # <<>>,
         NEW i \in 1..Len(s), NEW k \in 0..Len(s), Glob(SubSeq(s, i, k), f)
  PROVE  Glob(s, Encoded(f))
<1> DEFINE L == Len(f)
           d == Shift(f)
           e == Encoded(f)
           q == SubSeq(s, i, k)
<1>1. /\ e \in Seq(Symbols) /\ L \in Nat \ {0} /\ d \in Nat /\ d <= 1
      /\ Len(e) \in Nat /\ Len(e) >= 1 /\ d + L <= Len(e) /\ Len(e) <= d + L + 1
      /\ \A j \in 1..L : e[d + j] = f[j]
      /\ e[1] = Star /\ e[Len(e)] = Star
  BY EncodedPlaces
<1>2. /\ q \in Seq(Symbols) /\ i - 1 + Len(q) <= Len(s) /\ Len(s) \in Nat /\ Len(q) \in Nat
      /\ \A j \in 1..Len(q) : q[j] = s[i + j - 1]
  <2>1. \A j \in i..k : s[j] \in Symbols
    OBVIOUS
  <2>2. /\ q \in Seq(Symbols) /\ Len(q) = IF i <= k THEN k - i + 1 ELSE 0
        /\ \A j \in 1..k - i + 1 : q[j] = s[i + j - 1]
    BY <2>1, SubSeqProperties
  <2> HIDE DEF q
  <2> QED  BY <2>2
<1>3. PICK h \in [0..L -> 0..Len(q)] : h[L] = Len(q) /\ Fits(q, f, L, h)
  BY DEF Glob, Takes
<1> HIDE DEF q, d, e, L
<1> DEFINE g == [j \in 0..Len(e) |-> IF j = 0 THEN 0 ELSE IF j = Len(e) THEN Len(s)
                                     ELSE i - 1 + h[j - d]]
<1>4. /\ g \in [0..Len(e) -> 0..Len(s)] /\ g[0] = 0 /\ g[Len(e)] = Len(s)
      /\ \A j \in 1..Len(e) - 1 : g[j] = i - 1 + h[j - d] /\ j - d \in 0..L
  <2>1. ASSUME NEW j \in 0..Len(e), j # 0, j # Len(e) PROVE j - d \in 0..L /\ h[j - d] \in 0..Len(q)
    BY <1>1, <1>3, <2>1
  <2>2. \A j \in 0..Len(e) :
          (IF j = 0 THEN 0 ELSE IF j = Len(e) THEN Len(s) ELSE i - 1 + h[j - d]) \in 0..Len(s)
    BY <1>2, <2>1
  <2>3. Len(e) \in Nat /\ Len(e) > 0 /\ 0 \in 0..Len(e) /\ Len(e) \in 0..Len(e)
    BY <1>1
  <2>4. /\ g \in [0..Len(e) -> 0..Len(s)]
        /\ \A j \in 0..Len(e) : g[j] = IF j = 0 THEN 0 ELSE IF j = Len(e) THEN Len(s)
                                       ELSE i - 1 + h[j - d]
    BY <2>2
  <2> HIDE DEF g
  <2>5. \A j \in 1..Len(e) - 1 : j \in 0..Len(e) /\ j # 0 /\ j # Len(e)
    BY <2>3
  <2>6. \A j \in 1..Len(e) - 1 : g[j] = i - 1 + h[j - d] /\ j - d \in 0..L
    BY <2>1, <2>4, <2>5
  <2>7. g[0] = 0 /\ g[Len(e)] = Len(s)
    BY <2>3, <2>4
  <2> QED  BY <2>4, <2>6, <2>7
<1> HIDE DEF g
<1>5. ASSUME NEW j \in 1..Len(e)
      PROVE  IF e[j] = Star THEN g[j - 1] <= g[j] ELSE g[j] = g[j - 1] + 1 /\ s[g[j]] = e[j]
  <2>0. g[j - 1] \in 0..Len(s) /\ g[j] \in 0..Len(s)
    <3>1. j - 1 \in 0..Len(e) /\ j \in 0..Len(e)
      BY <1>1
    <3> QED  BY <3>1, <1>4
  <2>1. CASE j = 1
    BY <2>0, <2>1, <1>1, <1>4
  <2>2. CASE j = Len(e)
    BY <2>0, <2>2, <1>1, <1>4
  <2>3. CASE j # 1 /\ j # Len(e)
    <3> DEFINE m == j - d
    <3>1. m \in 1..L /\ d + m = j /\ j - 1 - d = m - 1 /\ j \in 1..Len(e) - 1 /\ j - 1 \in 1..Len(e) - 1
      BY <2>3, <1>1
    <3>2. e[j] = f[m] /\ g[j] = i - 1 + h[m] /\ g[j - 1] = i - 1 + h[m - 1]
      BY <3>1, <1>1, <1>4
    <3>3. h[m] \in 0..Len(q) /\ h[m - 1] \in 0..Len(q)
      BY <3>1, <1>1, <1>3
    <3>4. IF f[m] = Star THEN h[m - 1] <= h[m] ELSE h[m] = h[m - 1] + 1 /\ q[h[m]] = f[m]
      BY <3>1, <1>3 DEF Fits
    <3> HIDE DEF m
    <3>5. CASE f[m] = Star
      BY <3>2, <3>3, <3>4, <3>5
    <3>6. CASE f[m] # Star
      <4>1. h[m] \in 1..Len(q)
        BY <3>3, <3>4, <3>6, <1>2
      <4>2. q[h[m]] = s[i + h[m] - 1] /\ i + h[m] - 1 = i - 1 + h[m]
        <5>1. q[h[m]] = s[i + h[m] - 1]
          BY <4>1, <1>2
        <5> QED  BY <5>1, <3>3
      <4>3. h[m] = h[m - 1] + 1 /\ q[h[m]] = f[m]
        BY <3>4, <3>6
      <4>4. s[g[j]] = e[j]
        BY <4>2, <4>3, <3>2
      <4>5. g[j] = g[j - 1] + 1
        BY <4>3, <3>2, <3>3
      <4> QED  BY <4>4, <4>5, <3>2, <3>6
    <3> QED  BY <3>5, <3>6
  <2> QED  BY <2>1, <2>2, <2>3
<1>6. Fits(s, e, Len(e), g)
  BY <1>4, <1>5 DEF Fits
<1> QED  BY <1>4, <1>6 DEF Glob, Takes, e

\* A text that matches an encoded filter has a part that matches the filter.
LEMMA FitsPart ==
  ASSUME NEW s \in Seq(Symbols), s # <<>>, NEW f \in Seq(Symbols), f # <<>>, Glob(s, Encoded(f))
  PROVE  \E i \in 1..Len(s), k \in 0..Len(s) : Glob(SubSeq(s, i, k), f)
<1> DEFINE L == Len(f)
           d == Shift(f)
           e == Encoded(f)
<1>1. /\ e \in Seq(Symbols) /\ L \in Nat \ {0} /\ d \in Nat /\ d <= 1
      /\ Len(e) \in Nat /\ Len(e) >= 1 /\ d + L <= Len(e) /\ Len(e) <= d + L + 1
      /\ \A j \in 1..L : e[d + j] = f[j]
      /\ d = 1 => f[1] # Star
      /\ Len(s) \in Nat \ {0}
  BY EncodedPlaces
<1>2. PICK g \in [0..Len(e) -> 0..Len(s)] : g[Len(e)] = Len(s) /\ Fits(s, e, Len(e), g)
  BY DEF Glob, Takes
<1> HIDE DEF d, e, L
<1> DEFINE lo == g[d]
           hi == g[d + L]
           q == SubSeq(s, lo + 1, hi)
<1>3. \A j \in 0..L : d + j \in 0..Len(e) /\ g[d + j] \in 0..Len(s)
  <2> TAKE j \in 0..L
  <2>1. d + j \in 0..Len(e)
    BY <1>1
  <2> QED  BY <2>1, <1>2
<1>4. lo \in 0..Len(s) /\ hi \in 0..Len(s)
  <2>1. 0 \in 0..L /\ L \in 0..L /\ d + 0 = d
    BY <1>1
  <2> QED  BY <2>1, <1>3
<1>5. \A j \in 0..L : lo <= g[d + j] /\ g[d + j] <= hi
  <2>1. d \in 0..Len(e) /\ d + L \in 0..Len(e) /\ Len(e) \in Nat
    BY <1>1
  <2> TAKE j \in 0..L
  <2>2. d + j \in 0..Len(e) /\ d <= d + j /\ d + j <= d + L
    BY <1>1, <1>3
  <2> QED  BY <2>1, <2>2, <1>1, <1>2, EndsGrow
<1>6. lo < Len(s)
  <2>1. CASE d = 0
    BY <2>1, <1>1, <1>2 DEF Fits
  <2>2. CASE d = 1
    <3>1. e[2] # Star /\ 2 \in 1..Len(e)
      BY <2>2, <1>1
    <3>2. g[2] = g[2 - 1] + 1
      BY <3>1, <1>2 DEF Fits
    <3>3. g[2] \in 0..Len(s)
      BY <3>1, <1>2
    <3> QED  BY <2>2, <3>2, <3>3, <1>4
  <2> QED  BY <2>1, <2>2, <1>1
<1>7. lo <= hi
  BY <1>1, <1>5
<1>8. /\ q \in Seq(Symbols) /\ Len(q) = hi - lo
      /\ \A j \in 1..hi - lo : q[j] = s[lo + j]
  <2>1. \A j \in lo + 1..hi : s[j] \in Symbols
    BY <1>4
  <2>2. lo + 1 \in Int /\ hi \in Int
    BY <1>4
  <2> HIDE DEF lo, hi
  <2>3. /\ q \in Seq(Symbols) /\ Len(q) = IF lo + 1 <= hi THEN hi - (lo + 1) + 1 ELSE 0
        /\ \A j \in 1..hi - (lo + 1) + 1 : q[j] = s[lo + 1 + j - 1]
    BY <2>1, <2>2, SubSeqProperties
  <2> HIDE DEF q
  <2>4. hi - (lo + 1) + 1 = hi - lo
    BY <1>4
  <2>5. \A j \in 1..hi - lo : lo + 1 + j - 1 = lo + j
    BY <1>4
  <2> QED  BY <2>3, <2>4, <2>5, <1>4, <1>7
<1> DEFINE h == [j \in 0..L |-> g[d + j] - lo]
<1> HIDE DEF q
<1>9. /\ h \in [0..L -> 0..Len(q)] /\ h[0] = 0 /\ h[L] = Len(q)
      /\ \A j \in 0..L : g[d + j] = lo + h[j]
  <2>1. \A j \in 0..L : g[d + j] - lo \in 0..hi - lo
    BY <1>3, <1>4, <1>5, <1>7
  <2>2. h \in [0..L -> 0..hi - lo]
    BY <2>1
  <2>3. \A j \in 0..L : h[j] = g[d + j] - lo
    OBVIOUS
  <2> HIDE DEF h, lo, hi
  <2>4. d + 0 = d
    BY <1>1
  <2>5. 0 \in 0..L /\ L \in 0..L
    BY <1>1
  <2>6. h[0] = lo - lo /\ h[L] = hi - lo
    BY <2>3, <2>4, <2>5 DEF lo, hi
  <2>7. \A j \in 0..L : g[d + j] = lo + h[j]
    BY <2>3, <1>3, <1>4
  <2>8. Len(q) = hi - lo
    BY <1>8
  <2> QED  BY <2>2, <2>6, <2>7, <2>8, <1>4
<1> HIDE DEF h
<1>10. ASSUME NEW j \in 1..L
       PROVE  IF f[j] = Star THEN h[j - 1] <= h[j] ELSE h[j] = h[j - 1] + 1 /\ q[h[j]] = f[j]
  <2> DEFINE n == d + j
  <2>1. n \in 1..Len(e) /\ n - 1 = d + (j - 1) /\ j \in 0..L /\ j - 1 \in 0..L
    BY <1>1
  <2>2. e[n] = f[j] /\ g[n] = lo + h[j] /\ g[n - 1] = lo + h[j - 1]
    BY <2>1, <1>1, <1>9
  <2> HIDE DEF lo, hi, n
  <2>3. h[j] \in 0..hi - lo /\ h[j - 1] \in 0..hi - lo
    BY <2>1, <1>8, <1>9
  <2>4. CASE f[j] = Star
    <3>1. g[n - 1] <= g[n]
      BY <2>1, <2>2, <2>4, <1>2 DEF Fits
    <3> QED  BY <3>1, <2>2, <2>3, <2>4, <1>4
  <2>5. CASE f[j] # Star
    <3>1. g[n] = g[n - 1] + 1 /\ s[g[n]] = f[j]
      BY <2>1, <2>2, <2>5, <1>2 DEF Fits
    <3>2. h[j] = h[j - 1] + 1 /\ h[j] \in 1..hi - lo /\ s[lo + h[j]] = f[j]
      BY <3>1, <2>2, <2>3, <1>4
    <3> QED  BY <3>2, <2>5, <1>8
  <2> QED  BY <2>4, <2>5
<1>11. Fits(q, f, L, h)
  BY <1>9, <1>10 DEF Fits
<1>12. Glob(q, f)
  BY <1>9, <1>11 DEF Glob, Takes, L
<1>13. lo + 1 \in 1..Len(s)
  BY <1>4, <1>6
<1> QED  BY <1>4, <1>12, <1>13 DEF q
\* However all of f fits all of s, its first n characters take k letters of it or more.
AtLeast(s, f, n, k) ==
  \A ends \in [0..Len(f) -> 0..Len(s)] :
    Fits(s, f, Len(f), ends) /\ ends[Len(f)] = Len(s) => ends[n] >= k

\* No character of the pattern takes no letter of the text.
LEMMA AtLeastNothing ==
  ASSUME NEW s \in Seq(Symbols), NEW f \in Seq(Symbols) PROVE AtLeast(s, f, 0, 0)
BY DEF AtLeast, Fits

\* A wildcard takes nothing at least, a letter one.
LEMMA AtLeastStar ==
  ASSUME NEW s \in Seq(Symbols), NEW f \in Seq(Symbols), NEW n \in Nat, n < Len(f),
         NEW k \in Int, AtLeast(s, f, n, k)
  PROVE  AtLeast(s, f, n + 1, k)
<1> SUFFICES ASSUME NEW ends \in [0..Len(f) -> 0..Len(s)],
                    Fits(s, f, Len(f), ends), ends[Len(f)] = Len(s)
             PROVE  ends[n + 1] >= k
  BY DEF AtLeast
<1>1. ends[n] >= k
  BY DEF AtLeast
<1>2. n \in 0..Len(f) /\ n + 1 \in 0..Len(f) /\ n <= n + 1 /\ Len(f) \in Nat
  OBVIOUS
<1>3. ends[n] <= ends[n + 1]
  BY <1>2, EndsGrow
<1>4. ends[n] \in Nat /\ ends[n + 1] \in Nat
  BY <1>2
<1> QED  BY <1>1, <1>3, <1>4

\* Letters take one letter each.
LEMMA AtLeastLetters ==
  ASSUME NEW s \in Seq(Symbols), NEW f \in Seq(Symbols), NEW a \in Nat, NEW b \in Nat,
         a <= b, b <= Len(f), NEW k \in Int, AtLeast(s, f, a, k),
         \A j \in a + 1..b : f[j] # Star
  PROVE  AtLeast(s, f, b, k + (b - a))
<1> SUFFICES ASSUME NEW ends \in [0..Len(f) -> 0..Len(s)],
                    Fits(s, f, Len(f), ends), ends[Len(f)] = Len(s)
             PROVE  ends[b] >= k + (b - a)
  BY DEF AtLeast
<1>1. ends[a] >= k
  BY DEF AtLeast
<1>2. a \in 0..Len(f) /\ b \in 0..Len(f) /\ Len(f) \in Nat
  OBVIOUS
<1>3. ends[b] = ends[a] + (b - a)
  BY <1>2, EndsLetters
<1>4. ends[a] \in Nat
  BY <1>2
<1> QED  BY <1>1, <1>3, <1>4

\* Where the b-th character differs from the letter it had to take, more must be taken.
LEMMA AtLeastMismatch ==
  ASSUME NEW s \in Seq(Symbols), NEW f \in Seq(Symbols), NEW a \in Nat, NEW b \in Nat,
         a < b, b <= Len(f), NEW k \in Int, AtLeast(s, f, a, k),
         \A j \in a + 1..b : f[j] # Star, s[k + (b - a)] # f[b]
  PROVE  AtLeast(s, f, a, k + 1)
<1> SUFFICES ASSUME NEW ends \in [0..Len(f) -> 0..Len(s)],
                    Fits(s, f, Len(f), ends), ends[Len(f)] = Len(s), ~(ends[a] >= k + 1)
             PROVE  FALSE
  BY DEF AtLeast
<1>1. ends[a] >= k
  BY DEF AtLeast
<1>2. a \in 0..Len(f) /\ b \in 0..Len(f) /\ a <= b /\ Len(f) \in Nat /\ b \in 1..Len(f) /\ f[b] # Star
  OBVIOUS
<1>3. ends[b] = ends[a] + (b - a)
  BY <1>2, EndsLetters
<1>4. ends[a] \in Nat
  BY <1>2
<1>5. ends[b] = k + (b - a)
  BY <1>1, <1>3, <1>4
<1>6. s[ends[b]] = f[b]
  BY <1>2 DEF Fits
<1> QED  BY <1>5, <1>6

\* No more can be taken than there is.
LEMMA TooMuch ==
  ASSUME NEW s \in Seq(Symbols), NEW f \in Seq(Symbols), NEW n \in 0..Len(f),
         NEW k \in Int, k > Len(s), AtLeast(s, f, n, k)
  PROVE  ~Glob(s, f)
<1> SUFFICES ASSUME Glob(s, f) PROVE FALSE
  OBVIOUS
<1>1. PICK ends \in [0..Len(f) -> 0..Len(s)] : ends[Len(f)] = Len(s) /\ Fits(s, f, Len(f), ends)
  BY DEF Glob, Takes
<1>2. ends[n] >= k
  BY <1>1 DEF AtLeast
<1>3. ends[n] \in 0..Len(s)
  BY <1>1
<1> QED  BY <1>2, <1>3

\* Where all of the text must be taken, only wildcards can follow.
LEMMA OnlyStarsFollow ==
  ASSUME NEW s \in Seq(Symbols), NEW f \in Seq(Symbols), NEW n \in Nat, n <= Len(f),
         AtLeast(s, f, n, Len(s)), NEW i \in n + 1..Len(f), f[i] # Star
  PROVE  ~Glob(s, f)
<1> SUFFICES ASSUME Glob(s, f) PROVE FALSE
  OBVIOUS
<1>1. PICK ends \in [0..Len(f) -> 0..Len(s)] : ends[Len(f)] = Len(s) /\ Fits(s, f, Len(f), ends)
  BY DEF Glob, Takes
<1>2. ends[n] >= Len(s)
  BY <1>1 DEF AtLeast
<1>3. n \in 0..Len(f) /\ i \in 1..Len(f) /\ i - 1 \in 0..Len(f) /\ n <= i - 1 /\ Len(f) \in Nat
  OBVIOUS
<1>4. ends[n] <= ends[i - 1]
  BY <1>1, <1>3, EndsGrow
<1>5. ends[i] = ends[i - 1] + 1
  BY <1>1, <1>3 DEF Fits
<1>6. ends[n] \in 0..Len(s) /\ ends[i - 1] \in 0..Len(s) /\ ends[i] \in 0..Len(s)
  BY <1>1, <1>3
<1> QED  BY <1>2, <1>4, <1>5, <1>6

\* Wildcards at the end take nothing if nothing is left.
LEMMA StarsFollow ==
  ASSUME NEW s \in Seq(Symbols), NEW f \in Seq(Symbols), NEW n \in Nat, n <= Len(f),
         Takes(s, f, n, Len(s)), \A i \in n + 1..Len(f) : f[i] = Star
  PROVE  Glob(s, f)
<1> DEFINE T == {i \in n..Len(f) : ~Takes(s, f, i, Len(s))}
<1>1. SUFFICES ASSUME T # {} PROVE FALSE
  <2>1. SUFFICES ASSUME T = {} PROVE Len(f) \notin T
    <3>1. Len(f) \in n..Len(f)
      OBVIOUS
    <3> QED  BY <2>1, <3>1 DEF Glob
  <2> QED  BY <2>1
<1>2. T \subseteq Nat
  OBVIOUS
<1>3. PICK i \in T : \A b \in T : i <= b
  BY <1>1, <1>2, LeastNat
<1>4. i \in n..Len(f) /\ ~Takes(s, f, i, Len(s)) /\ i # n
  BY <1>3
<1>5. i - 1 \in n..Len(f) /\ i - 1 \notin T /\ i \in n + 1..Len(f)
  BY <1>3, <1>4
<1>6. Takes(s, f, i - 1, Len(s)) /\ f[i - 1 + 1] = Star /\ i - 1 \in Nat /\ i - 1 + 1 = i
  BY <1>5
<1>7. Len(s) \in 0..Len(s) /\ Len(s) <= Len(s)
  OBVIOUS
<1>8. Takes(s, f, i - 1 + 1, Len(s))
  BY <1>6, <1>7, TakesMore
<1> QED  BY <1>4, <1>6, <1>8
-----------------------------------------------------------------------------
(* The matchers are exact.                                                 *)

\* WildcardSearch: what is before p takes what is before v, and never less; a part that is
\* looked for is one of letters, and cc is where it is compared.
SearchInv ==
  /\ pattern # <<>> /\ pattern[Len(pattern)] = Star
  /\ pc # "done" => Takes(text, pattern, p - 1, v - 1)
  /\ pc = "loop" => p <= Len(pattern) \/ v = Len(text) + 1
  /\ pc \in {"loop", "star"} => AtLeast(text, pattern, p - 1, v - 1)
  /\ pc \in {"star", "seek"} => p > 1 /\ pattern[p - 1] = Star
  /\ pc = "seek" =>
       /\ sub.endpos > 0 /\ PartEnds(p, sub.endpos)
       /\ AtLeast(text, pattern, p - 1, v - 1 + sub.cc)
       /\ \A j \in 0..sub.ss - 1 : text[v + sub.cc + j] = pattern[p + j]

\* wildcard_matches: the same, with letters only since the last wildcard.
ReportInv ==
  /\ \A i \in 1..Len(text) : text[i] # Star
  /\ pc = "loop" =>
       /\ Takes(text, pattern, p - 1, v - 1)
       /\ back.wildcard < p /\ back.restart >= 1
       /\ \A j \in back.wildcard + 1..p - 1 : pattern[j] # Star
       /\ p - 1 - back.wildcard = v - back.restart
       /\ AtLeast(text, pattern, back.wildcard, back.restart - 1)
       /\ back.wildcard = 0 => back.restart = 1
       /\ back.wildcard > 0 =>
            /\ pattern[back.wildcard] = Star
            /\ Takes(text, pattern, back.wildcard, back.restart - 1)

\* The answers, once there.
Exact == pc = "done" /\ job \in {"filter", "report"} => (answer = 1 <=> Glob(text, pattern))

\* The inductive invariant of both matchers, on top of AlgorithmsInv.
GreedyInv == (job = "filter" => SearchInv) /\ (job = "report" => ReportInv) /\ Exact

\* The part of AlgorithmsInv that the search needs.
Strung ==
  /\ text \in Seq(Symbols) /\ pattern \in Seq(Symbols)
  /\ v \in Nat \ {0} /\ p \in Nat \ {0} /\ sub \in [cc : Nat, ss : Nat, endpos : Nat]
  /\ back \in [wildcard : Nat, restart : Nat]
  /\ Len(text) \in Nat /\ Len(pattern) \in Nat
  /\ v <= Len(text) + 1 /\ p <= Len(pattern) + 1

\* The indices and strings have their types.
LEMMA StrungHolds == AlgorithmsInv => Strung
BY DEF AlgorithmsInv, TypeOK, InBounds, Strung

\* What a string has at a place inside it.
LEMMA AtIs ==
  ASSUME NEW s \in Seq(Symbols), NEW i \in Nat \ {0}
  PROVE  /\ i <= Len(s) => At(s, i) = s[i] /\ s[i] # Nul
         /\ i > Len(s) => At(s, i) = Nul
<1>1. i <= Len(s) => s[i] \in Symbols
  OBVIOUS
<1> QED  BY <1>1, AlgorithmsAssumption DEF At, Symbols

\* A part is one of letters.
LEMMA PartLetters ==
  ASSUME Strung, NEW k \in Nat, PartEnds(p, k), NEW j \in 0..k - 1
  PROVE  p + j <= Len(pattern) /\ pattern[p + j] = At(pattern, p + j) /\ pattern[p + j] # Star
<1>1. At(pattern, p + j) \notin {Star, Nul}
  BY DEF PartEnds
<1>2. p + j \in Nat \ {0} /\ pattern \in Seq(Symbols)
  BY DEF Strung
<1> QED  BY <1>1, <1>2, AtIs DEF Strung

Filtering == job = "filter" /\ Strung /\ InBounds /\ SearchInv /\ pc # "done" /\ UNCHANGED Strings

\* A wildcard of the filter is stepped over.
LEMMA OverStar ==
  ASSUME Filtering, pc \in {"loop", "star"}, At(pattern, p) = Star
  PROVE  /\ Takes(text, pattern, p, v - 1) /\ p <= Len(pattern) /\ pattern[p] = Star
         /\ AtLeast(text, pattern, p, v - 1)
<1>1. /\ text \in Seq(Symbols) /\ pattern \in Seq(Symbols) /\ p \in Nat \ {0} /\ v \in Nat \ {0}
      /\ v <= Len(text) + 1 /\ Len(text) \in Nat
      /\ Takes(text, pattern, p - 1, v - 1) /\ AtLeast(text, pattern, p - 1, v - 1)
  BY DEF Filtering, Strung, SearchInv
<1>2. p <= Len(pattern) /\ pattern[p] = Star
  BY <1>1, AtIs, AlgorithmsAssumption
<1> DEFINE n == p - 1
           k == v - 1
<1>3. n \in Nat /\ n + 1 = p /\ n < Len(pattern) /\ k \in 0..Len(text) /\ k \in Int /\ k <= k
  BY <1>1, <1>2
<1>4. Takes(text, pattern, n, k) /\ AtLeast(text, pattern, n, k)
  BY <1>1
<1> HIDE DEF n, k
<1>5. Takes(text, pattern, n + 1, k)
  BY <1>1, <1>2, <1>3, <1>4, TakesMore
<1>6. AtLeast(text, pattern, n + 1, k)
  BY <1>1, <1>3, <1>4, AtLeastStar
<1> QED  BY <1>2, <1>3, <1>5, <1>6 DEF k

\* A wildcard was read: it has taken the fewest letters a match can begin with.
LEMMA WildcardStep == Filtering /\ Wildcard => SearchInv' /\ pc' # "done"
<1> SUFFICES ASSUME Filtering, Wildcard PROVE SearchInv' /\ pc' # "done"
  OBVIOUS
<1>1. /\ pc = "loop" /\ At(pattern, p) = Star /\ p' = p + 1 /\ pc' = "star" /\ v' = v
      /\ text' = text /\ pattern' = pattern
  BY DEF Wildcard, Strings
<1>2. /\ Takes(text, pattern, p, v - 1) /\ pattern[p] = Star /\ AtLeast(text, pattern, p, v - 1)
  BY <1>1, OverStar
<1>3. p' - 1 = p /\ p' > 1
  BY <1>1 DEF Filtering, Strung
<1> QED  BY <1>1, <1>2, <1>3 DEF SearchInv, Filtering

\* The end of a run of wildcards: either the part to look for begins, or the text matches.
LEMMA ContinueStep == Filtering /\ ContinueWildcard => SearchInv' /\ Exact'
<1> SUFFICES ASSUME Filtering, ContinueWildcard PROVE SearchInv' /\ Exact'
  OBVIOUS
<1>1. pc = "star" /\ v' = v /\ text' = text /\ pattern' = pattern /\ job' = job
  BY DEF ContinueWildcard, Strings
<1>2. /\ text \in Seq(Symbols) /\ pattern \in Seq(Symbols) /\ p \in Nat \ {0} /\ v \in Nat \ {0}
      /\ v <= Len(text) + 1 /\ p <= Len(pattern) + 1 /\ Len(text) \in Nat /\ Len(pattern) \in Nat
      /\ Takes(text, pattern, p - 1, v - 1) /\ AtLeast(text, pattern, p - 1, v - 1)
      /\ p > 1 /\ pattern[p - 1] = Star
      /\ pattern # <<>> /\ pattern[Len(pattern)] = Star
  BY <1>1 DEF Filtering, Strung, SearchInv
<1>3. CASE At(pattern, p) = Nul
  <2>1. pc' = "done" /\ answer' = 1
    BY <1>3, AlgorithmsAssumption DEF ContinueWildcard, Answer
  <2>2. p = Len(pattern) + 1
    BY <1>2, <1>3, AtIs
  <2> DEFINE n == p - 1
             k == v - 1
  <2>3. /\ n = Len(pattern) /\ n \in Nat \ {0} /\ k \in 0..Len(text) /\ Len(text) \in 0..Len(text)
        /\ k <= Len(text) /\ Takes(text, pattern, n, k) /\ pattern[n] = Star
    BY <1>2, <2>2
  <2> HIDE DEF n, k
  <2>4. Takes(text, pattern, n, Len(text))
    BY <1>2, <2>3, TakesWider
  <2>5. Glob(text, pattern)
    BY <2>3, <2>4 DEF Glob
  <2> QED  BY <1>1, <1>2, <2>1, <2>5 DEF SearchInv, Exact
<1>4. CASE At(pattern, p) = Star
  <2>1. p' = p + 1 /\ pc' = "star"
    BY <1>1, <1>4, AlgorithmsAssumption DEF ContinueWildcard
  <2>2. /\ Takes(text, pattern, p, v - 1) /\ pattern[p] = Star /\ AtLeast(text, pattern, p, v - 1)
    BY <1>1, <1>4, OverStar
  <2>3. p' - 1 = p /\ p' > 1
    BY <2>1, <1>2
  <2> QED  BY <1>1, <1>2, <2>1, <2>2, <2>3 DEF SearchInv, Exact
<1>5. CASE At(pattern, p) \notin {Star, Nul}
  <2>1. PICK k \in 1..Len(pattern) :
          PartEnds(p, k) /\ sub' = [cc |-> 0, ss |-> 0, endpos |-> k]
    BY <1>5 DEF ContinueWildcard
  <2>2. p' = p /\ pc' = "seek"
    BY <1>5 DEF ContinueWildcard
  <2>3. sub'.cc = 0 /\ sub'.ss = 0 /\ sub'.endpos = k /\ k > 0 /\ v - 1 + 0 = v - 1
    BY <1>2, <2>1
  <2>4. PartEnds(p, k)'
    BY <1>1, <2>1, <2>2 DEF PartEnds, At
  <2>5. AtLeast(text, pattern, p' - 1, v' - 1 + sub'.cc)
    BY <1>1, <1>2, <2>2, <2>3
  <2>6. \A j \in 0..sub'.ss - 1 : text[v + sub'.cc + j] = pattern[p + j]
    BY <2>3
  <2> QED  BY <1>1, <1>2, <2>2, <2>3, <2>4, <2>5, <2>6 DEF SearchInv, Exact
<1> QED  BY <1>3, <1>4, <1>5
\* The part that is looked for: what it has to take where it is compared.
LEMMA PartAt ==
  ASSUME Filtering, pc = "seek"
  PROVE  /\ text \in Seq(Symbols) /\ pattern \in Seq(Symbols) /\ p \in Nat /\ v \in Nat
         /\ p > 1 /\ v >= 1 /\ Len(text) \in Nat /\ Len(pattern) \in Nat
         /\ sub.cc \in Nat /\ sub.ss \in Nat /\ sub.endpos \in Nat /\ sub.endpos > 0
         /\ sub.ss <= sub.endpos /\ p + sub.endpos <= Len(pattern) + 1
         /\ v + sub.cc + sub.ss <= Len(text) + 1
         /\ \A j \in 0..sub.endpos - 1 : pattern[p + j] # Star
         /\ AtLeast(text, pattern, p - 1, v - 1 + sub.cc)
<1>1. /\ text \in Seq(Symbols) /\ pattern \in Seq(Symbols) /\ p \in Nat /\ v \in Nat
      /\ p > 1 /\ v >= 1 /\ Len(text) \in Nat /\ Len(pattern) \in Nat
      /\ sub.cc \in Nat /\ sub.ss \in Nat /\ sub.endpos \in Nat /\ sub.endpos > 0
      /\ PartEnds(p, sub.endpos)
      /\ AtLeast(text, pattern, p - 1, v - 1 + sub.cc)
  BY DEF Filtering, Strung, SearchInv
<1>2. /\ sub.ss <= sub.endpos /\ p + sub.endpos <= Len(pattern) + 1
      /\ v + sub.cc + sub.ss <= Len(text) + 1
  BY DEF Filtering, InBounds
<1>3. \A j \in 0..sub.endpos - 1 : pattern[p + j] # Star
  BY <1>1, PartLetters DEF Filtering
<1> QED  BY <1>1, <1>2, <1>3

\* One comparison of the search: a place where the part does not fit takes no match.
LEMMA SeekStep == Filtering /\ Seek => SearchInv' /\ Exact'
<1> SUFFICES ASSUME Filtering, Seek PROVE SearchInv' /\ Exact'
  OBVIOUS
<1> DEFINE cc == sub.cc
           ss == sub.ss
           endpos == sub.endpos
           n == p - 1
           k == v - 1 + cc
           l == n + ss + 1
<1>1. /\ pc = "seek" /\ ss < endpos /\ p' = p /\ v' = v
      /\ text' = text /\ pattern' = pattern /\ job' = job
  BY DEF Seek, Strings
<1>2. /\ text \in Seq(Symbols) /\ pattern \in Seq(Symbols) /\ p \in Nat /\ v \in Nat
      /\ p > 1 /\ v >= 1 /\ Len(text) \in Nat /\ Len(pattern) \in Nat
      /\ cc \in Nat /\ ss \in Nat /\ endpos \in Nat /\ endpos > 0
      /\ p + endpos <= Len(pattern) + 1 /\ v + cc + ss <= Len(text) + 1
      /\ \A j \in 0..endpos - 1 : pattern[p + j] # Star
      /\ AtLeast(text, pattern, n, k)
  BY <1>1, PartAt
<1>3. /\ pattern # <<>> /\ pattern[Len(pattern)] = Star /\ Takes(text, pattern, p - 1, v - 1)
      /\ pattern[p - 1] = Star /\ PartEnds(p, endpos)
      /\ \A j \in 0..ss - 1 : text[v + cc + j] = pattern[p + j]
  BY <1>1 DEF Filtering, SearchInv
<1>4. sub \in [cc : Nat, ss : Nat, endpos : Nat]
  BY DEF Filtering, Strung
<1> HIDE DEF cc, ss, endpos
<1>5. /\ n \in Nat /\ l \in Nat /\ n < l /\ l <= Len(pattern) /\ k \in Int
      /\ l = p + ss /\ k + (l - n) = v + ss + cc /\ v + ss + cc \in Nat \ {0} /\ p + ss \in Nat \ {0}
  BY <1>1, <1>2
<1>6. \A j \in n + 1..l : pattern[j] # Star
  <2> TAKE j \in n + 1..l
  <2>1. j - p \in 0..endpos - 1 /\ p + (j - p) = j
    BY <1>1, <1>2
  <2> QED  BY <2>1, <1>2
<1> DEFINE c == At(text, v + ss + cc)
           s == At(pattern, p + ss)
<1>7. s = pattern[l]
  BY <1>2, <1>5, AtIs
<1>8. AtLeast(text, pattern, n, k) /\ n <= l
  BY <1>2, <1>5
<1> HIDE DEF n, k, l
<1>9. CASE TextEnds(c)
  <2>1. pc' = "done" /\ answer' = 0
    BY <1>9 DEF Seek, Answer, c, cc, ss
  <2>2. v + ss + cc > Len(text)
    BY <1>2, <1>5, <1>9, AtIs DEF TextEnds
  <2>3. AtLeast(text, pattern, l, k + (l - n))
    BY <1>2, <1>5, <1>6, <1>8, AtLeastLetters
  <2>4. l \in 0..Len(pattern) /\ k + (l - n) \in Int /\ k + (l - n) > Len(text)
    BY <2>2, <1>5
  <2>5. ~Glob(text, pattern)
    BY <2>3, <2>4, <1>2, TooMuch
  <2> QED  BY <1>1, <1>3, <2>1, <2>5 DEF SearchInv, Exact
<1>10. CASE ~TextEnds(c)
  <2>1. /\ pc' = pc /\ answer' = answer
        /\ sub' = IF s = c THEN [sub EXCEPT !.ss = @ + 1]
                           ELSE [cc |-> cc + 1, ss |-> 0, endpos |-> endpos]
    BY <1>10 DEF Seek, c, s, cc, ss, endpos
  <2>2. v + ss + cc <= Len(text) /\ c = text[v + ss + cc]
    BY <1>2, <1>5, <1>10, AtIs DEF TextEnds
  <2>3. CASE s = c
    <3>1. sub'.cc = cc /\ sub'.ss = ss + 1 /\ sub'.endpos = endpos
      BY <2>1, <2>3, <1>4 DEF cc, ss, endpos
    <3>2. \A j \in 0..sub'.ss - 1 : text[v + sub'.cc + j] = pattern[p + j]
      <4> TAKE j \in 0..sub'.ss - 1
      <4>0. j \in 0..ss /\ sub'.cc = cc
        BY <3>1, <1>2
      <4>1. CASE j = ss
        <5>1. v + cc + j = v + ss + cc /\ p + j = l
          BY <4>1, <1>2, <1>5
        <5> QED  BY <4>0, <5>1, <2>2, <2>3, <1>7
      <4>2. CASE j # ss
        <5>1. j \in 0..ss - 1
          BY <4>0, <4>2, <1>2
        <5> QED  BY <4>0, <5>1, <1>3
      <4> QED  BY <4>1, <4>2
    <3>3. PartEnds(p, sub.endpos)' /\ sub'.endpos > 0
      BY <3>1, <1>1, <1>2, <1>3 DEF PartEnds, At
    <3>4. AtLeast(text, pattern, p - 1, v - 1 + sub'.cc)
      BY <3>1, <1>8 DEF n, k
    <3> QED  BY <1>1, <1>2, <1>3, <2>1, <3>1, <3>2, <3>3, <3>4 DEF SearchInv, Exact
  <2>4. CASE s # c
    <3>1. sub'.cc = cc + 1 /\ sub'.ss = 0 /\ sub'.endpos = endpos
      BY <2>1, <2>4
    <3>2. text[k + (l - n)] # pattern[l]
      BY <2>2, <2>4, <1>5, <1>7
    <3>3. AtLeast(text, pattern, n, k + 1)
      BY <3>2, <1>2, <1>5, <1>6, <1>8, AtLeastMismatch
    <3>4. AtLeast(text, pattern, p - 1, v - 1 + sub'.cc)
      <4>1. k + 1 = v - 1 + (cc + 1)
        BY <1>2 DEF k
      <4> QED  BY <3>1, <3>3, <4>1 DEF n
    <3>5. PartEnds(p, sub.endpos)' /\ sub'.endpos > 0
      BY <3>1, <1>1, <1>2, <1>3 DEF PartEnds, At
    <3>6. \A j \in 0..sub'.ss - 1 : text[v + sub'.cc + j] = pattern[p + j]
      BY <3>1
    <3> QED  BY <1>1, <1>2, <1>3, <2>1, <3>1, <3>4, <3>5, <3>6 DEF SearchInv, Exact
  <2> QED  BY <2>3, <2>4
<1> QED  BY <1>9, <1>10

\* The first place where the part fits is the one to take.
LEMMA FoundStep == Filtering /\ Found => SearchInv' /\ pc' # "done"
<1> SUFFICES ASSUME Filtering, Found PROVE SearchInv' /\ pc' # "done"
  OBVIOUS
<1> DEFINE cc == sub.cc
           ss == sub.ss
           n == p - 1
           k == v - 1 + cc
<1>1. /\ pc = "seek" /\ ss = sub.endpos /\ p' = p + ss /\ v' = v + ss + cc /\ pc' = "loop"
      /\ text' = text /\ pattern' = pattern
  BY DEF Found, Strings
<1>2. /\ text \in Seq(Symbols) /\ pattern \in Seq(Symbols) /\ p \in Nat /\ v \in Nat
      /\ p > 1 /\ v >= 1 /\ Len(text) \in Nat /\ Len(pattern) \in Nat
      /\ cc \in Nat /\ ss \in Nat /\ ss > 0
      /\ p + ss <= Len(pattern) + 1 /\ v + cc + ss <= Len(text) + 1
      /\ \A j \in 0..ss - 1 : pattern[p + j] # Star
      /\ AtLeast(text, pattern, n, k)
  BY <1>1, PartAt
<1>3. /\ pattern # <<>> /\ pattern[Len(pattern)] = Star /\ Takes(text, pattern, n, v - 1)
      /\ pattern[n] = Star
      /\ \A j \in 0..ss - 1 : text[v + cc + j] = pattern[p + j]
  BY <1>1 DEF Filtering, SearchInv
<1> HIDE DEF cc, ss
<1>4. /\ n \in Nat \ {0} /\ n \in Nat /\ n + ss \in Nat /\ n <= n + ss /\ n + ss <= Len(pattern) /\ k \in Int
      /\ v - 1 \in 0..Len(text) /\ k \in 0..Len(text) /\ k \in Nat /\ v - 1 <= k /\ k + ss <= Len(text)
      /\ p' - 1 = n + ss /\ v' - 1 = k + ss /\ n + ss - n = ss
  <2>1. /\ p \in Nat /\ v \in Nat /\ p > 1 /\ v >= 1 /\ Len(text) \in Nat /\ Len(pattern) \in Nat
        /\ cc \in Nat /\ ss \in Nat /\ ss > 0
        /\ p + ss <= Len(pattern) + 1 /\ v + cc + ss <= Len(text) + 1
        /\ p' = p + ss /\ v' = v + ss + cc
    BY <1>1, <1>2
  <2> QED  BY <2>1
<1>5. Takes(text, pattern, n, k)
  BY <1>2, <1>3, <1>4, TakesWider
<1>6. \A j \in 0..ss - 1 : n + 1 + j = p + j /\ k + 1 + j = v + cc + j
  BY <1>2
<1>7. \A j \in 0..ss - 1 : pattern[n + 1 + j] # Star /\ text[k + 1 + j] = pattern[n + 1 + j]
  BY <1>2, <1>3, <1>6
<1>8. \A j \in n + 1..n + ss : pattern[j] # Star
  <2> TAKE j \in n + 1..n + ss
  <2>1. j - p \in 0..ss - 1 /\ p + (j - p) = j
    BY <1>2
  <2> QED  BY <2>1, <1>2
<1>9. AtLeast(text, pattern, n, k)
  BY <1>2
<1> HIDE DEF n, k
<1>10. Takes(text, pattern, n + ss, k + ss)
  BY <1>2, <1>4, <1>5, <1>7, TakesLetters
<1>11. AtLeast(text, pattern, n + ss, k + (n + ss - n))
  BY <1>2, <1>4, <1>8, <1>9, AtLeastLetters
<1>12. n + ss # Len(pattern)
  <2>1. n + ss \in n + 1..n + ss
    BY <1>2, <1>4
  <2> QED  BY <2>1, <1>3, <1>8
<1>13. p' <= Len(pattern)
  BY <1>1, <1>2, <1>4, <1>12
<1> QED  BY <1>1, <1>3, <1>4, <1>10, <1>11, <1>13 DEF SearchInv

\* The end of the search: the text matches if the pattern was used up.
LEMMA TrailingStep == Filtering /\ Trailing => SearchInv' /\ Exact'
<1> SUFFICES ASSUME Filtering, Trailing PROVE SearchInv' /\ Exact'
  OBVIOUS
<1>1. /\ pc = "loop" /\ v' = v /\ text' = text /\ pattern' = pattern /\ job' = job
      /\ job = "filter" /\ ~InSearch
  BY DEF Trailing, Strings
<1>2. /\ text \in Seq(Symbols) /\ pattern \in Seq(Symbols) /\ p \in Nat \ {0} /\ v \in Nat \ {0}
      /\ p <= Len(pattern) + 1 /\ v <= Len(text) + 1 /\ Len(text) \in Nat /\ Len(pattern) \in Nat
      /\ pattern # <<>> /\ pattern[Len(pattern)] = Star
      /\ p <= Len(pattern) \/ v = Len(text) + 1
      /\ Takes(text, pattern, p - 1, v - 1) /\ AtLeast(text, pattern, p - 1, v - 1)
  BY <1>1 DEF Filtering, Strung, SearchInv
<1>3. v = Len(text) + 1
  <2>1. At(text, v) = Nul \/ At(pattern, p) = Nul
    BY <1>1 DEF InSearch
  <2> QED  BY <2>1, <1>2, AtIs
<1>4. At(text, v) = Nul /\ v - 1 = Len(text)
  BY <1>2, <1>3, AtIs
<1>5. CASE At(pattern, p) = Star
  <2>1. p' = p + 1 /\ pc' = "loop"
    BY <1>1, <1>5 DEF Trailing
  <2>2. Takes(text, pattern, p, v - 1) /\ AtLeast(text, pattern, p, v - 1)
    BY <1>1, <1>5, OverStar
  <2>3. p' - 1 = p /\ v' = Len(text) + 1
    BY <2>1, <1>1, <1>2, <1>3
  <2> QED  BY <1>1, <1>2, <2>1, <2>2, <2>3 DEF SearchInv, Exact
<1>6. CASE At(pattern, p) # Star
  <2>1. pc' = "done" /\ (answer' = 1 <=> At(pattern, p) = Nul)
    BY <1>4, <1>6 DEF Trailing, Answer, Truth
  <2> DEFINE n == p - 1
  <2>2. /\ n \in Nat /\ n <= Len(pattern) /\ Takes(text, pattern, n, Len(text))
        /\ AtLeast(text, pattern, n, Len(text)) /\ p = n + 1
    BY <1>2, <1>4
  <2> HIDE DEF n
  <2>3. CASE At(pattern, p) = Nul
    <3>1. n = Len(pattern)
      BY <2>2, <2>3, <1>2, AtIs
    <3>2. Glob(text, pattern)
      BY <3>1, <2>2 DEF Glob
    <3> QED  BY <3>2, <2>1, <2>3, <1>1, <1>2 DEF SearchInv, Exact
  <2>4. CASE At(pattern, p) # Nul
    <3>1. p \in n + 1..Len(pattern) /\ pattern[p] # Star
      BY <2>2, <2>4, <1>2, <1>6, AtIs
    <3>2. ~Glob(text, pattern)
      BY <3>1, <2>2, <1>2, OnlyStarsFollow
    <3> QED  BY <3>2, <2>1, <2>4, <1>1, <1>2 DEF SearchInv, Exact
  <2> QED  BY <2>3, <2>4
<1> QED  BY <1>5, <1>6

-----------------------------------------------------------------------------
(* wildcard_matches.                                                       *)

Reporting == job = "report" /\ Strung /\ ReportInv /\ pc = "loop" /\ UNCHANGED Strings

\* What the letters since the last wildcard have to take.
LEMMA SinceWildcard ==
  ASSUME Reporting
  PROVE  /\ text \in Seq(Symbols) /\ pattern \in Seq(Symbols) /\ p \in Nat \ {0} /\ v \in Nat \ {0}
         /\ p <= Len(pattern) + 1 /\ v <= Len(text) + 1 /\ Len(text) \in Nat /\ Len(pattern) \in Nat
         /\ Takes(text, pattern, p - 1, v - 1) /\ AtLeast(text, pattern, p - 1, v - 1)
<1> DEFINE w == back.wildcard
           k == back.restart - 1
           n == p - 1
<1>1. /\ text \in Seq(Symbols) /\ pattern \in Seq(Symbols) /\ p \in Nat \ {0} /\ v \in Nat \ {0}
      /\ p <= Len(pattern) + 1 /\ v <= Len(text) + 1 /\ Len(text) \in Nat /\ Len(pattern) \in Nat
      /\ back.wildcard \in Nat /\ back.restart \in Nat
  BY DEF Reporting, Strung
<1>2. /\ Takes(text, pattern, p - 1, v - 1)
      /\ w < p /\ back.restart >= 1
      /\ \A j \in w + 1..p - 1 : pattern[j] # Star
      /\ p - 1 - w = v - back.restart
      /\ AtLeast(text, pattern, w, k)
  BY DEF Reporting, ReportInv
<1>3. /\ n \in Nat /\ w \in Nat /\ w <= n /\ n <= Len(pattern) /\ k \in Int /\ k + (n - w) = v - 1
      /\ \A j \in w + 1..n : pattern[j] # Star
  BY <1>1, <1>2
<1>4. AtLeast(text, pattern, n, k + (n - w))
  <2> HIDE DEF n, w, k
  <2> QED  BY <1>1, <1>2, <1>3, AtLeastLetters
<1> QED  BY <1>1, <1>2, <1>3, <1>4

\* One step of wildcard_matches: a mismatch moves the last wildcard on by one letter, and no match is lost.
LEMMA MatchStep == Reporting /\ Match => ReportInv' /\ Exact'
<1> SUFFICES ASSUME Reporting, Match PROVE ReportInv' /\ Exact'
  OBVIOUS
<1> DEFINE w == back.wildcard
           r == back.restart
           n == p - 1
           k == v - 1
<1>1. pc = "loop" /\ v <= Len(text) /\ text' = text /\ pattern' = pattern /\ job' = job
  BY DEF Match, Strings
<1>2. /\ text \in Seq(Symbols) /\ pattern \in Seq(Symbols) /\ p \in Nat \ {0} /\ v \in Nat \ {0}
      /\ p <= Len(pattern) + 1 /\ Len(text) \in Nat /\ Len(pattern) \in Nat
      /\ Takes(text, pattern, n, k) /\ AtLeast(text, pattern, n, k)
  BY SinceWildcard
<1>3. /\ \A i \in 1..Len(text) : text[i] # Star
      /\ w < p /\ r >= 1 /\ w \in Nat /\ r \in Nat
      /\ \A j \in w + 1..n : pattern[j] # Star
      /\ n - w = v - r
      /\ AtLeast(text, pattern, w, r - 1)
      /\ w = 0 => r = 1
      /\ w > 0 => pattern[w] = Star /\ Takes(text, pattern, w, r - 1)
  BY DEF Reporting, ReportInv, Strung
<1>4. /\ n \in Nat /\ n + 1 = p /\ k \in 0..Len(text) /\ k \in Int /\ v \in 0..Len(text)
      /\ k + 1 = v /\ k <= k /\ text[v] # Star /\ w <= p /\ w <= n /\ r - 1 + 1 = r /\ r - 1 \in Int
  <2>1. /\ p \in Nat \ {0} /\ v \in Nat \ {0} /\ Len(text) \in Nat /\ v <= Len(text)
        /\ w \in Nat /\ r \in Nat /\ w < p
    BY <1>1, <1>2, <1>3
  <2>2. v \in 1..Len(text)
    BY <2>1
  <2>3. text[v] # Star
    BY <2>2, <1>3
  <2> HIDE DEF w, r
  <2> QED  BY <2>1, <2>3
<1>5. At(pattern, p) \in {text[v], Star} => p <= Len(pattern) /\ At(pattern, p) = pattern[p] /\ n < Len(pattern)
  <2>1. text[v] \in Symbols
    BY <1>1, <1>2
  <2> QED  BY <2>1, <1>2, <1>4, AtIs, AlgorithmsAssumption DEF Symbols
<1> HIDE DEF w, r, n, k
<1>6. CASE At(pattern, p) = text[v] /\ v' = v + 1 /\ p' = p + 1 /\ UNCHANGED <<pc, back, answer>>
  <2>1. pattern[n + 1] # Star /\ text[v] = pattern[n + 1]
    BY <1>4, <1>5, <1>6
  <2>2. Takes(text, pattern, n + 1, v)
    BY <2>1, <1>2, <1>4, TakesMore
  <2>3. Takes(text, pattern, p' - 1, v' - 1)
    BY <2>2, <1>2, <1>4, <1>6
  <2>4. w' = w /\ r' = r
    BY <1>6 DEF w, r
  <2>5. \A j \in w + 1..p' - 1 : pattern[j] # Star
    <3> TAKE j \in w + 1..p' - 1
    <3>1. j = p \/ j \in w + 1..n
      BY <1>2, <1>3, <1>4, <1>6
    <3> QED  BY <3>1, <2>1, <1>3, <1>4
  <2>6. w < p' /\ p' - 1 - w = v' - r
    BY <1>2, <1>3, <1>4, <1>6
  <2> QED  BY <1>1, <1>3, <1>6, <2>3, <2>4, <2>5, <2>6 DEF ReportInv, Exact, w, r
<1>7. CASE /\ At(pattern, p) = Star /\ back' = [wildcard |-> p, restart |-> v]
           /\ p' = p + 1 /\ UNCHANGED <<pc, v, answer>>
  <2>1. pattern[n + 1] = Star /\ p <= Len(pattern)
    BY <1>4, <1>5, <1>7
  <2>2. Takes(text, pattern, n + 1, k)
    BY <2>1, <1>2, <1>4, TakesMore
  <2>3. AtLeast(text, pattern, n + 1, k)
    BY <2>1, <1>2, <1>4, <1>5, <1>7, AtLeastStar
  <2>4. back'.wildcard = p /\ back'.restart = v /\ v' = v
    BY <1>7
  <2>5. p' - 1 = p /\ v - 1 = k /\ v >= 1 /\ p < p' /\ p > 0 /\ p' - 1 - p = v - v
    BY <1>2, <1>4, <1>7
  <2>6. \A j \in p + 1..p' - 1 : pattern[j] # Star
    BY <2>5, <1>2
  <2>7. Takes(text, pattern, p, k) /\ AtLeast(text, pattern, p, k) /\ pattern[p] = Star
    BY <2>1, <2>2, <2>3, <1>4
  <2>8. p # 0
    BY <1>2
  <2> QED  BY <1>1, <1>3, <1>7, <2>4, <2>5, <2>6, <2>7, <2>8 DEF ReportInv, Exact
<1>8. CASE At(pattern, p) \notin {text[v], Star}
  <2>1. AtLeast(text, pattern, w, r - 1 + 1) \/ p > Len(pattern)
    <3>1. SUFFICES ASSUME p <= Len(pattern) PROVE AtLeast(text, pattern, w, r - 1 + 1)
      BY <1>2
    <3>2. pattern[p] # Star /\ pattern[p] # text[v]
      BY <3>1, <1>2, <1>8, AtIs
    <3>3. \A j \in w + 1..p : pattern[j] # Star
      <4> TAKE j \in w + 1..p
      <4>1. j = p \/ j \in w + 1..n
        BY <1>2, <1>3, <1>4
      <4> QED  BY <4>1, <3>2, <1>3
    <3>4. r - 1 + (p - w) = v /\ r - 1 \in Int
      BY <1>2, <1>3, <1>4
    <3>5. text[r - 1 + (p - w)] # pattern[p]
      BY <3>2, <3>4
    <3> QED  BY <3>1, <3>3, <3>4, <3>5, <1>2, <1>3, AtLeastMismatch
  <2>2. ASSUME p > Len(pattern) PROVE AtLeast(text, pattern, w, r)
    <3>1. n = Len(pattern)
      BY <2>2, <1>2, <1>4
    <3>2. \A ends \in [0..Len(pattern) -> 0..Len(text)] :
            Fits(text, pattern, Len(pattern), ends) /\ ends[Len(pattern)] = Len(text) =>
              ends[w] >= r
      <4> TAKE ends \in [0..Len(pattern) -> 0..Len(text)]
      <4> HAVE Fits(text, pattern, Len(pattern), ends) /\ ends[Len(pattern)] = Len(text)
      <4>1. w \in 0..Len(pattern) /\ n \in 0..Len(pattern) /\ w <= n
        BY <3>1, <1>2, <1>3, <1>4
      <4>2. ends[n] = ends[w] + (n - w)
        <5>1. Len(pattern) \in Nat /\ \A j \in w + 1..n : pattern[j] # Star
          BY <1>2, <1>3
        <5> QED  BY <4>1, <5>1, <1>2, EndsLetters
      <4>3. ends[w] \in Nat /\ ends[n] = Len(text)
        BY <3>1, <4>1
      <4>4. n - w = v - r /\ v <= Len(text) /\ v \in Nat /\ r \in Nat /\ Len(text) \in Nat
            /\ n \in Nat /\ w \in Nat
        BY <1>1, <1>2, <1>3, <1>4
      <4> QED  BY <4>2, <4>3, <4>4
    <3> QED  BY <3>2 DEF AtLeast
  <2>3. AtLeast(text, pattern, w, r)
    <3>1. r - 1 + 1 = r
      BY <1>4
    <3>2. p > Len(pattern) => AtLeast(text, pattern, w, r)
      BY <2>2
    <3> QED  BY <2>1, <3>1, <3>2
  <2>4. CASE back.wildcard # 0 /\ Restart /\ UNCHANGED <<pc, answer>>
    <3>1. /\ back'.wildcard = w /\ back'.restart = r + 1 /\ p' = w + 1 /\ v' = r + 1
      <4>1. back \in [wildcard : Nat, restart : Nat]
        BY DEF Reporting, Strung
      <4> QED  BY <4>1, <2>4 DEF Restart, w, r
    <3>2. w > 0 /\ w \in Nat \ {0} /\ pattern[w] = Star /\ Takes(text, pattern, w, r - 1)
      BY <2>4, <1>3 DEF w
    <3>3. r - 1 \in 0..Len(text) /\ r \in 0..Len(text) /\ r - 1 <= r
      <4>1. n - w = v - r /\ v <= Len(text) /\ v \in Nat /\ r \in Nat /\ r >= 1 /\ Len(text) \in Nat
            /\ n \in Nat /\ w \in Nat /\ w <= n
        BY <1>1, <1>2, <1>3, <1>4
      <4> QED  BY <4>1
    <3>4. Takes(text, pattern, w, r)
      BY <3>2, <3>3, <1>2, TakesWider
    <3>5. p' - 1 = w /\ v' - 1 = r /\ w < p' /\ r + 1 >= 1 /\ p' - 1 - w = v' - (r + 1) /\ r + 1 - 1 = r
      BY <3>1, <1>3
    <3>6. \A j \in w + 1..p' - 1 : pattern[j] # Star
      BY <3>5, <1>3
    <3>7. w # 0
      BY <3>2
    <3> QED  BY <1>1, <1>3, <2>3, <2>4, <3>1, <3>2, <3>4, <3>5, <3>6, <3>7 DEF ReportInv, Exact
  <2>5. CASE back.wildcard = 0 /\ Answer(0)
    <3>1. w = 0 /\ r = 1 /\ pc' = "done" /\ answer' = 0
      BY <2>5, <1>3 DEF w, Answer
    <3>2. ~Glob(text, pattern)
      <4>1. SUFFICES ASSUME Glob(text, pattern) PROVE FALSE
        OBVIOUS
      <4>2. PICK ends \in [0..Len(pattern) -> 0..Len(text)] :
              ends[Len(pattern)] = Len(text) /\ Fits(text, pattern, Len(pattern), ends)
        BY <4>1 DEF Glob, Takes
      <4>3. ends[0] >= 1
        BY <4>2, <2>3, <3>1 DEF AtLeast
      <4>4. ends[0] = 0
        BY <4>2 DEF Fits
      <4> QED  BY <4>3, <4>4
    <3> QED  BY <1>1, <1>3, <3>1, <3>2 DEF ReportInv, Exact
  <2> QED  BY <1>4, <1>8, <2>4, <2>5 DEF Match
<1> QED  BY <1>6, <1>7, <1>8 DEF Match

\* The end of wildcard_matches: only wildcards may be left.
LEMMA MatchEndsStep == Reporting /\ MatchEnds => ReportInv' /\ Exact'
<1> SUFFICES ASSUME Reporting, MatchEnds PROVE ReportInv' /\ Exact'
  OBVIOUS
<1> DEFINE n == p - 1
<1>1. /\ text' = text /\ pattern' = pattern /\ job' = job /\ v > Len(text) /\ pc' = "done"
      /\ answer' = 1 <=> \A i \in p..Len(pattern) : pattern[i] = Star
  BY DEF MatchEnds, Strings, Answer, Truth
<1>2. /\ text \in Seq(Symbols) /\ pattern \in Seq(Symbols) /\ p \in Nat \ {0} /\ v \in Nat \ {0}
      /\ p <= Len(pattern) + 1 /\ v <= Len(text) + 1 /\ Len(text) \in Nat /\ Len(pattern) \in Nat
      /\ Takes(text, pattern, n, v - 1) /\ AtLeast(text, pattern, n, v - 1)
  BY SinceWildcard
<1>3. /\ n \in Nat /\ n <= Len(pattern) /\ n + 1 = p /\ v - 1 = Len(text)
  BY <1>1, <1>2
<1>4. Takes(text, pattern, n, Len(text)) /\ AtLeast(text, pattern, n, Len(text))
  BY <1>2, <1>3
<1> HIDE DEF n
<1>5. CASE \A i \in p..Len(pattern) : pattern[i] = Star
  <2>1. Glob(text, pattern)
    BY <1>2, <1>3, <1>4, <1>5, StarsFollow
  <2> QED  BY <1>1, <1>5, <2>1 DEF Reporting, ReportInv, Exact
<1>6. CASE ~\A i \in p..Len(pattern) : pattern[i] = Star
  <2>1. PICK i \in n + 1..Len(pattern) : pattern[i] # Star
    BY <1>3, <1>6
  <2>2. ~Glob(text, pattern)
    BY <2>1, <1>2, <1>3, <1>4, OnlyStarsFollow
  <2> QED  BY <1>1, <1>6, <2>2 DEF Reporting, ReportInv, Exact
<1> QED  BY <1>5, <1>6
-----------------------------------------------------------------------------
(* Both.                                                                   *)

\* Every step keeps what the matchers know of all possible matches.
LEMMA GreedyStep == AlgorithmsInv /\ GreedyInv /\ [Next]_vars => GreedyInv'
<1> SUFFICES ASSUME AlgorithmsInv, GreedyInv, [Next]_vars PROVE GreedyInv'
  OBVIOUS
<1>1. Strung /\ InBounds
  BY StrungHolds DEF AlgorithmsInv
<1>2. CASE Wildcard \/ ContinueWildcard \/ Seek \/ Found \/ Trailing
  <2>1. job = "filter" /\ pc # "done" /\ UNCHANGED Strings
    BY <1>1, <1>2 DEF InBounds, InSearch, Wildcard, ContinueWildcard, Seek, Found, Trailing
  <2>2. Filtering
    BY <1>1, <2>1 DEF Filtering, GreedyInv
  <2>3. SearchInv' /\ (pc' # "done" \/ Exact')
    BY <1>2, <2>2, WildcardStep, ContinueStep, SeekStep, FoundStep, TrailingStep
  <2>4. job' = "filter"
    BY <2>1 DEF Strings
  <2> QED  BY <2>3, <2>4 DEF GreedyInv, Exact
<1>3. CASE Match \/ MatchEnds
  <2>1. job = "report" /\ pc = "loop" /\ UNCHANGED Strings
    BY <1>3 DEF Match, MatchEnds
  <2>2. Reporting
    BY <1>1, <2>1 DEF Reporting, GreedyInv
  <2>3. ReportInv' /\ Exact'
    BY <1>3, <2>2, MatchStep, MatchEndsStep
  <2>4. job' = "report"
    BY <2>1 DEF Strings
  <2> QED  BY <2>3, <2>4 DEF GreedyInv
<1>4. CASE ParseThreshold \/ ArraySize
  <2>1. job' \in {"threshold", "calloc", "reallocarray"}
    BY <1>4 DEF ParseThreshold, ArraySize, Strings
  <2> QED  BY <2>1 DEF GreedyInv, Exact
<1>5. CASE UNCHANGED vars
  BY <1>5 DEF vars, GreedyInv, Exact, SearchInv, ReportInv, PartEnds, At
<1> QED  BY <1>2, <1>3, <1>4, <1>5 DEF Next, Step, Finished

\* The strings of a job are those of its input.
StringsInv ==
  /\ job = "filter" => /\ text # <<>>
                       /\ Lowered(input[2]) \in Seq(Symbols) /\ Lowered(input[2]) # <<>>
                       /\ pattern = Encoded(Lowered(input[2]))
  /\ job = "report" => pattern = Lowered(input[2])

\* No step changes the strings.
LEMMA StringsStep == StringsInv /\ [Next]_vars => StringsInv'
<1> SUFFICES ASSUME StringsInv, [Next]_vars PROVE StringsInv'
  OBVIOUS
<1>1. UNCHANGED Strings
  BY DEF Next, Step, vars, Strings, Wildcard, ContinueWildcard, Seek, Found, Trailing,
         Match, MatchEnds, ParseThreshold, ArraySize, Finished
<1> QED  BY <1>1 DEF Strings, StringsInv

\* A job starts with nothing taken and nothing excluded.
LEMMA StringsInit == Init => StringsInv /\ GreedyInv
<1> SUFFICES ASSUME Init PROVE StringsInv /\ GreedyInv
  OBVIOUS
<1>1. Letters \subseteq Symbols /\ Letters \cup {Star} = Symbols
  BY DEF Symbols
<1>2. pc = "loop" /\ v - 1 = 0 /\ p - 1 = 0 /\ v = 1 /\ p = 1
  BY DEF Init, Start
<1>3. back.wildcard = 0 /\ back.restart = 1
  BY DEF Init, Start, NoBack
<1>4. Strung
  BY InitInv, StrungHolds
<1>5. Takes(text, pattern, p - 1, v - 1) /\ AtLeast(text, pattern, p - 1, v - 1)
  BY <1>2, <1>4, TakesNothing, AtLeastNothing DEF Strung
<1>6. CASE job = "filter"
  <2>1. PICK s \in Words(MaxText, Symbols) \ {<<>>}, f \in Words(MaxFilter, Symbols) \ {<<>>} :
          input = <<s, f>> /\ text = Lowered(s) /\ pattern = Lowered(Encoded(f))
    BY <1>6, <1>1 DEF Init
  <2>2. s \in Seq(Symbols) /\ f \in Seq(Symbols) /\ s # <<>> /\ f # <<>> /\ input[2] = f
    BY <2>1, WordsAreStrings, AlgorithmsAssumption
  <2>3. text # <<>>
    <3>1. Len(text) = Len(s) /\ Len(s) > 0
      BY <2>1, <2>2, LoweredShape
    <3> QED  BY <3>1
  <2>4. Lowered(f) \in Seq(Symbols) /\ Lowered(f) # <<>>
    <3>1. Len(Lowered(f)) = Len(f) /\ Len(f) > 0
      BY <2>2, LoweredShape
    <3> QED  BY <2>2, <3>1, LoweredShape
  <2>5. pattern = Encoded(Lowered(f))
    BY <2>1, <2>2, LoweredEncoded
  <2>6. Len(pattern) >= 1 /\ pattern[Len(pattern)] = Star
    BY <2>4, <2>5, EncodedPlaces
  <2>7. pattern # <<>>
    BY <2>6
  <2>8. StringsInv
    BY <1>6, <2>2, <2>3, <2>4, <2>5 DEF StringsInv
  <2> QED  BY <1>2, <1>5, <1>6, <2>6, <2>7, <2>8 DEF SearchInv, GreedyInv, Exact
<1>7. CASE job = "report"
  <2>1. PICK s \in Words(MaxText, Letters), f \in Words(MaxFilter, Symbols) :
          input = <<s, f>> /\ text = Lowered(s) /\ pattern = Lowered(f)
    BY <1>7, <1>1 DEF Init
  <2>2. s \in Seq(Letters) /\ s \in Seq(Symbols) /\ input[2] = f
    <3>1. s \in Seq(Letters) /\ input[2] = f
      BY <2>1, WordsAreStrings, AlgorithmsAssumption
    <3> QED  BY <3>1, <1>1
  <2>3. \A i \in 1..Len(text) : text[i] # Star
    <3>1. Len(text) = Len(s) /\ \A i \in 1..Len(s) : text[i] = Star <=> s[i] = Star
      BY <2>1, <2>2, LoweredShape
    <3>2. \A i \in 1..Len(s) : s[i] # Star
      BY <2>2, AlgorithmsAssumption
    <3> QED  BY <3>1, <3>2
  <2>4. \A j \in back.wildcard + 1..p - 1 : pattern[j] # Star
    BY <1>2, <1>3
  <2>5. /\ AtLeast(text, pattern, back.wildcard, back.restart - 1)
        /\ back.wildcard < p /\ back.restart >= 1 /\ p - 1 - back.wildcard = v - back.restart
    BY <1>2, <1>3, <1>5
  <2>6. ~(back.wildcard > 0)
    BY <1>3
  <2>7. ReportInv
    BY <1>2, <1>3, <1>5, <2>3, <2>4, <2>5, <2>6 DEF ReportInv
  <2>8. StringsInv
    BY <1>7, <2>1, <2>2 DEF StringsInv
  <2> QED  BY <1>2, <1>7, <2>7, <2>8 DEF GreedyInv, Exact
<1>8. CASE job \notin {"filter", "report"}
  BY <1>2, <1>8 DEF StringsInv, GreedyInv, Exact
<1> QED  BY <1>6, <1>7, <1>8

\* -f takes exactly the exceptions whose text has a part that matches the filter, and -fx
\* the frames that match as a whole: the greedy matchers decide the declarative glob, for
\* texts and patterns of any length over any letters.
THEOREM MatchersExact == Spec => []MatchIsGlob
<1>1. Init => StringsInv /\ GreedyInv  BY StringsInit
<1>2. StringsInv /\ [Next]_vars => StringsInv'  BY StringsStep
<1>3. AlgorithmsInv /\ GreedyInv /\ [Next]_vars => GreedyInv'  BY GreedyStep
<1>4. AlgorithmsInv /\ StringsInv /\ GreedyInv => MatchIsGlob
  <2> SUFFICES ASSUME AlgorithmsInv, StringsInv, GreedyInv, pc = "done" PROVE MatchIsGlob
    BY DEF MatchIsGlob
  <2>1. text \in Seq(Symbols)
    BY StrungHolds DEF Strung
  <2>2. ASSUME job = "filter"
        PROVE  answer = 1 <=> \E i \in 1..Len(text), k \in 0..Len(text) :
                                Glob(SubSeq(text, i, k), Lowered(input[2]))
    <3> DEFINE f == Lowered(input[2])
    <3>1. text # <<>> /\ f \in Seq(Symbols) /\ f # <<>> /\ pattern = Encoded(f)
      BY <2>2 DEF StringsInv
    <3>2. answer = 1 <=> Glob(text, Encoded(f))
      BY <2>2, <3>1 DEF GreedyInv, Exact
    <3> HIDE DEF f
    <3>3. Glob(text, Encoded(f)) =>
            \E i \in 1..Len(text), k \in 0..Len(text) : Glob(SubSeq(text, i, k), f)
      BY <2>1, <3>1, FitsPart
    <3>4. ASSUME NEW i \in 1..Len(text), NEW k \in 0..Len(text), Glob(SubSeq(text, i, k), f)
          PROVE  Glob(text, Encoded(f))
      BY <2>1, <3>1, <3>4, PartFits
    <3>5. answer = 1 <=> \E i \in 1..Len(text), k \in 0..Len(text) : Glob(SubSeq(text, i, k), f)
      BY <3>2, <3>3, <3>4
    <3> QED  BY <3>5 DEF f
  <2>3. ASSUME job = "report" PROVE answer = 1 <=> Glob(text, Lowered(input[2]))
    BY <2>3 DEF StringsInv, GreedyInv, Exact
  <2> QED  BY <2>2, <2>3, Zenon DEF MatchIsGlob
<1> QED  BY <1>1, <1>2, <1>3, <1>4, MatchersInBounds, PTL DEF Spec
=============================================================================
