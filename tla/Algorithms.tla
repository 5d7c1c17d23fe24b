----------------------------- MODULE Algorithms -----------------------------
(***************************************************************************)
(* The computations on which a trigger or a report depends, step by step,  *)
(* each against what it should compute:                                    *)
(*   filter     -f: encode_exception_filter in procdump, WildcardSearch on *)
(*              the exception's text in the profiler;                      *)
(*   report     -fx: wildcard_matches on a frame of the leak report;       *)
(*   threshold  -gcm: megabytes, sent as text and shifted in an int;       *)
(*   calloc, reallocarray: the size CheckedArraySize gives to the event.   *)
(***************************************************************************)
EXTENDS Integers, Sequences

CONSTANTS
  Letters,    \* characters of texts and filters but the wildcard
  Lower,      \* what wcslwr and to_ascii_lowercase make of a letter
  Star, Nul,  \* the wildcard; the end of a C string
  MaxText, MaxFilter,  \* bounds: lengths of a text and of a filter
  Half,       \* half a machine word (2^32); a word is its square
  IntMB,      \* megabytes a positive int can hold as bytes (2048)
  MaxMB       \* bound: megabytes asked for with -gcm

ASSUME AlgorithmsAssumption ==
  /\ Lower \in [Letters -> Letters] /\ Star \notin Letters /\ Nul \notin Letters \cup {Star}
  /\ MaxText \in Nat /\ MaxFilter \in Nat \ {0}
  /\ Half \in Nat \ {0} /\ IntMB \in Nat \ {0} /\ MaxMB \in Nat

Words(n, symbols) == UNION {[1..k -> symbols] : k \in 0..n}
Lowered(s) == [i \in 1..Len(s) |-> IF s[i] = Star THEN Star ELSE Lower[s[i]]]
At(s, i) == IF i <= Len(s) THEN s[i] ELSE Nul
Word == Half * Half

VARIABLES
  job,      \* which computation
  input,    \* what the user or the target gave it
  text,     \* the text a matcher reads, lowered
  pattern,  \* and the pattern, encoded for the profiler and lowered
  pc,
  v, p,     \* the matcher's places in text and pattern
  sub,      \* WildcardSearch's search for a part between two wildcards
  back,     \* wildcard_matches' last wildcard (0: none) and where it restarts
  answer    \* the result

vars == <<job, input, text, pattern, pc, v, p, sub, back, answer>>

-----------------------------------------------------------------------------
(* encode_exception_filter: a wildcard on either side that lacks one.      *)

MutEncoded(f) == (IF f[1] = Star THEN <<>> ELSE <<Star>>) \o f
Encoded(f) ==
  (IF f[1] = Star THEN <<>> ELSE <<Star>>) \o f \o (IF f[Len(f)] = Star THEN <<>> ELSE <<Star>>)

\* Nothing is matched before the strings are there.
NoSub == [cc |-> 0, ss |-> 0, endpos |-> 0]
NoBack == [wildcard |-> 0, restart |-> 1]
Start ==
  /\ v = 1 /\ p = 1 /\ sub = NoSub /\ back = NoBack /\ pc = "loop" /\ answer = 0

\* An exception's text is never empty, and may hold the wildcard's character; symbols,
\* which the report does not demangle, never do.
Init ==
  /\ Start
  /\ \/ /\ job = "filter"
        /\ \E s \in Words(MaxText, Letters \cup {Star}) \ {<<>>},
              f \in Words(MaxFilter, Letters \cup {Star}) \ {<<>>} :
              input = <<s, f>> /\ text = Lowered(s) /\ pattern = Lowered(Encoded(f))
     \/ /\ job = "report"
        /\ \E s \in Words(MaxText, Letters), f \in Words(MaxFilter, Letters \cup {Star}) :
              input = <<s, f>> /\ text = Lowered(s) /\ pattern = Lowered(f)
     \/ /\ job = "threshold" /\ input \in 0..MaxMB /\ text = <<>> /\ pattern = <<>>
     \/ /\ job \in {"calloc", "reallocarray"} /\ input \in (0..Word - 1) \X (0..Word - 1)
        /\ text = <<>> /\ pattern = <<>>

Strings == <<job, input, text, pattern>>
Answer(a) == pc' = "done" /\ answer' = a
Truth(b) == IF b THEN 1 ELSE 0

-----------------------------------------------------------------------------
(* WildcardSearch.                                                         *)

InSearch == job = "filter" /\ At(text, v) # Nul /\ At(pattern, p) # Nul

\* The loop's straight compare of two characters has no action: every encoded filter
\* begins with a wildcard and every part found ends at one or at the end of the filter.
\* A state in which it were due would be a deadlock of this specification.

\* A wildcard: step over it and over those that follow; one at the end matches all,
\* else what is up to the next one has to be found.
Wildcard ==
  /\ pc = "loop" /\ InSearch /\ At(pattern, p) = Star
  /\ p' = p + 1 /\ pc' = "star"
  /\ UNCHANGED <<Strings, v, sub, back, answer>>
PartEnds(i, k) ==
  /\ At(pattern, i + k) \in {Star, Nul}
  /\ \A j \in 0..k - 1 : At(pattern, i + j) \notin {Star, Nul}
ContinueWildcard ==
  /\ pc = "star"
  /\ \/ /\ At(pattern, p) = Nul /\ Answer(1) /\ UNCHANGED <<p, sub>>
     \/ /\ At(pattern, p) = Star /\ p' = p + 1 /\ UNCHANGED <<pc, answer, sub>>
     \/ /\ At(pattern, p) \notin {Star, Nul}
        /\ \E k \in 1..Len(pattern) :
             PartEnds(p, k) /\ sub' = [cc |-> 0, ss |-> 0, endpos |-> k]
        /\ pc' = "seek" /\ UNCHANGED <<p, answer>>
  /\ UNCHANGED <<Strings, v, back>>

MutTextEnds(c) == FALSE
TextEnds(c) == c = Nul
\* After a mismatch the part is looked for one character further on.
Seek ==
  /\ pc = "seek" /\ sub.ss < sub.endpos
  /\ LET c == At(text, v + sub.ss + sub.cc)
         s == At(pattern, p + sub.ss)
     IN  \/ TextEnds(c) /\ Answer(0) /\ UNCHANGED sub
         \/ ~TextEnds(c) /\ UNCHANGED <<pc, answer>>
            /\ sub' = IF s = c THEN [sub EXCEPT !.ss = @ + 1]
                               ELSE [cc |-> sub.cc + 1, ss |-> 0, endpos |-> sub.endpos]
  /\ UNCHANGED <<Strings, v, p, back>>
Found ==
  /\ pc = "seek" /\ sub.ss = sub.endpos
  /\ p' = p + sub.ss /\ v' = v + sub.ss + sub.cc /\ pc' = "loop" /\ sub' = NoSub
  /\ UNCHANGED <<Strings, back, answer>>

\* One string is at its end: wildcards left in the pattern match nothing.
Trailing ==
  /\ pc = "loop" /\ job = "filter" /\ ~InSearch
  /\ \/ At(pattern, p) = Star /\ p' = p + 1 /\ UNCHANGED <<pc, answer>>
     \/ /\ At(pattern, p) # Star /\ UNCHANGED p
        /\ Answer(Truth(At(pattern, p) = Nul /\ At(text, v) = Nul))
  /\ UNCHANGED <<Strings, v, sub, back>>

-----------------------------------------------------------------------------
(* wildcard_matches.                                                       *)

MutRestart == p' = back.wildcard + 1 /\ v' = back.restart /\ UNCHANGED back
\* The wildcard takes one more character.
Restart ==
  /\ p' = back.wildcard + 1 /\ v' = back.restart + 1 /\ back' = [back EXCEPT !.restart = @ + 1]
Match ==
  /\ pc = "loop" /\ job = "report" /\ v <= Len(text)
  /\ \/ /\ At(pattern, p) = text[v] /\ v' = v + 1 /\ p' = p + 1
        /\ UNCHANGED <<pc, back, answer>>
     \/ /\ At(pattern, p) # text[v] /\ At(pattern, p) = Star
        /\ back' = [wildcard |-> p, restart |-> v] /\ p' = p + 1 /\ UNCHANGED <<pc, v, answer>>
     \/ /\ At(pattern, p) \notin {text[v], Star} /\ back.wildcard # 0
        /\ Restart /\ UNCHANGED <<pc, answer>>
     \/ /\ At(pattern, p) \notin {text[v], Star} /\ back.wildcard = 0
        /\ Answer(0) /\ UNCHANGED <<v, p, back>>
  /\ UNCHANGED <<Strings, sub>>
MatchEnds ==
  /\ pc = "loop" /\ job = "report" /\ v > Len(text)
  /\ Answer(Truth(\A i \in p..Len(pattern) : pattern[i] = Star))
  /\ UNCHANGED <<Strings, v, p, sub, back>>

-----------------------------------------------------------------------------
(* Arithmetic.                                                             *)

\* stoi(m) << 20, an int, kept as a uint64_t, in megabytes: of m the bits that fit, and
\* when those make the int negative, a threshold that no heap reaches.
Unreached == 0 - 1
MutThreshold(m) == LET low == (2 * m) % (2 * IntMB) IN IF low >= IntMB THEN Unreached ELSE low
Threshold(m) == LET low == m % (2 * IntMB) IN IF low >= IntMB THEN Unreached ELSE low
ParseThreshold ==
  /\ pc = "loop" /\ job = "threshold" /\ Answer(Threshold(input))
  /\ UNCHANGED <<Strings, v, p, sub, back>>

\* CheckedArraySize: the high part must fit in half a word, and the sum in a word.
Low(size, count) == ((size % Half) * count) % Word
High(size, count) == ((size \div Half) * count) % Word
Total(size, count) == (Low(size, count) + High(size, count) * Half) % Word
MutCheckedArraySize(size, count) == High(size, count) < Half
CheckedArraySize(size, count) ==
  High(size, count) < Half /\ Total(size, count) >= Low(size, count)

\* calloc's probe takes its count as an int, reallocarray's as a long.
Untold == 0 - 1
AsInt(n) == LET low == n % Half IN IF 2 * low < Half THEN low ELSE low - Half
AsLong(n) == IF 2 * n < Word THEN n ELSE n - Word
ArraySize ==
  /\ pc = "loop" /\ job \in {"calloc", "reallocarray"}
  /\ LET count == IF job = "calloc" THEN AsInt(input[2]) ELSE AsLong(input[2])
     IN  Answer(IF count >= 0 /\ CheckedArraySize(input[1], count)
                  THEN Total(input[1], count) ELSE Untold)
  /\ UNCHANGED <<Strings, v, p, sub, back>>

Finished == pc = "done" /\ UNCHANGED vars
Step ==
  \/ Wildcard \/ ContinueWildcard \/ Seek \/ Found \/ Trailing
  \/ Match \/ MatchEnds \/ ParseThreshold \/ ArraySize
Next == Step \/ Finished
Spec == Init /\ [][Next]_vars
\* The computations are sequential code: they go on.
FairSpec == Spec /\ WF_vars(Step)

-----------------------------------------------------------------------------
(* Properties.                                                             *)

Symbols == Letters \cup {Star}
TypeOK ==
  /\ job \in {"filter", "report", "threshold", "calloc", "reallocarray"}
  /\ text \in Seq(Symbols) /\ pattern \in Seq(Symbols)
  /\ pc \in {"loop", "star", "seek", "done"}
  /\ v \in Nat \ {0} /\ p \in Nat \ {0}
  /\ job = "threshold" => input \in 0..MaxMB
  /\ job \in {"calloc", "reallocarray"} => input \in (0..Word - 1) \X (0..Word - 1)
  /\ sub \in [cc : Nat, ss : Nat, endpos : Nat] /\ back \in [wildcard : Nat, restart : Nat]

\* Neither matcher reads past its strings: WildcardSearch not past the terminators, also
\* while it looks for a part, and wildcard_matches slices its pattern within bounds.
InBounds ==
  /\ v <= Len(text) + 1 /\ p <= Len(pattern) + 1
  /\ pc \in {"star", "seek"} => job = "filter"
  /\ pc = "seek" =>
       /\ sub.ss <= sub.endpos /\ v + sub.cc + sub.ss <= Len(text) + 1
       /\ p + sub.endpos <= Len(pattern) + 1
  /\ back.wildcard <= Len(pattern) /\ back.restart <= v

\* The inductive invariant.
AlgorithmsInv == TypeOK /\ InBounds

\* ends[i] is how much of s the first i characters of f take: a wildcard any number of
\* letters, a letter itself.
Fits(s, f, n, ends) ==
  /\ ends[0] = 0
  /\ \A i \in 1..n : IF f[i] = Star THEN ends[i - 1] <= ends[i]
                                     ELSE ends[i] = ends[i - 1] + 1 /\ s[ends[i]] = f[i]
Takes(s, f, n, k) == \E ends \in [0..n -> 0..Len(s)] : ends[n] = k /\ Fits(s, f, n, ends)
Glob(s, f) == Takes(s, f, Len(f), Len(s))

\* -f takes the exceptions whose text has a part that matches the filter, -fx the frames
\* that match as a whole, whatever the case of letters: greedy WildcardSearch, right only
\* between two wildcards, gets them from encode_exception_filter.
MatchIsGlob ==
  pc = "done" =>
    /\ job = "filter" =>
         (answer = 1 <=> \E i \in 1..Len(text), k \in 0..Len(text) :
                           Glob(SubSeq(text, i, k), Lowered(input[2])))
    /\ job = "report" => (answer = 1 <=> Glob(text, Lowered(input[2])))

\* A threshold below 2 GB is the one asked for.  (From there on it is not: the shift
\* leaves the range of an int.)
ThresholdExact == pc = "done" /\ job = "threshold" /\ input < IntMB => answer = input

\* The size told of an array is the one allocated: below 2^31 elements the check refuses
\* exactly the products that do not fit in a word.
ArraySizeExact ==
  pc = "done" /\ job \in {"calloc", "reallocarray"} /\ 2 * input[2] < Half =>
    answer = IF input[1] * input[2] < Word THEN input[1] * input[2] ELSE Untold

\* The matchers' loops come to an end.
Terminates == <>(pc = "done")
=============================================================================
