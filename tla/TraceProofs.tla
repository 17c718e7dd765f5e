----------------------------- MODULE TraceProofs -----------------------------
(* Theorems about Trace, for chains, calls and logs of any length.         *)
EXTENDS Trace, TLAPS, SequenceTheorems, FiniteSetTheorems, WellFoundedInduction

(***************************************************************************)
(* Induction over the natural numbers, for a set of numbers.               *)
(***************************************************************************)
LEMMA NaturalsInSet ==
  ASSUME NEW S, 0 \in S, \A n \in S \cap Nat : n + 1 \in S
  PROVE  Nat \subseteq S
<1>. DEFINE T == Nat \ S
<1>1. ASSUME T # {} PROVE FALSE
  <2>. DEFINE R == OpToRel(<, Nat)
  <2>1. IsWellFoundedOn(R, Nat)
    BY NatLessThanWellFounded
  <2>2. R = {p \in Nat \X Nat : p[1] < p[2]}
    BY Zenon DEF OpToRel
  <2>3. T \subseteq Nat
    OBVIOUS
  <2>. HIDE DEF R
  <2>4. PICK n \in T : \A m \in T : ~(<<m, n>> \in R)
    <3>. HIDE DEF T
    <3>. QED
      BY <1>1, <2>1, <2>3, WFMin
  <2>5. \A m \in T : ~(m < n)
    BY <2>2, <2>4
  <2>6. n # 0 /\ n - 1 \in Nat /\ n - 1 \notin T
    BY <2>5
  <2>7. n - 1 \in S \cap Nat
    BY <2>6
  <2>8. (n - 1) + 1 \in S
    BY <2>7
  <2>. QED
    BY <2>6, <2>8
<1>. QED
  BY <1>1

-----------------------------------------------------------------------------
(***************************************************************************)
(* The loop of parse_log_results takes line after line: what FoldLeft      *)
(* yields is the last of a row of parsers, each made of the one before it  *)
(* by parse_line.                                                          *)
(***************************************************************************)
LEMMA GreatestOfRange == \A k \in Nat \ {0} : Max(1 .. k) = k
<1>. SUFFICES ASSUME NEW k \in Nat \ {0} PROVE Max(1 .. k) = k
  OBVIOUS
<1>1. k \in 1 .. k /\ \A y \in 1 .. k : k >= y
  OBVIOUS
<1>2. \A x \in 1 .. k : (\A y \in 1 .. k : x >= y) => x = k
  OBVIOUS
<1>. QED
  BY <1>1, <1>2 DEF Max

(* f is the function that FoldLeft recurs in, for the first k lines of s.  *)
Folded(base, s, k, f) ==
  f = [t \in SUBSET (1 .. k) |->
         IF t = {} THEN base ELSE parse_line(f[t \ {Max(t)}], s[Max(t)])]

LEMMA FoldedExists ==
  ASSUME NEW base, NEW s, NEW n \in Nat
  PROVE  \E f : Folded(base, s, n, f)
<1>. DEFINE D == {k \in Nat : \E f : Folded(base, s, k, f)}
<1>1. 0 \in D
  <2>. DEFINE f == [t \in SUBSET (1 .. 0) |-> base]
  <2>1. \A t \in SUBSET (1 .. 0) : t = {}
    OBVIOUS
  <2>2. f = [t \in SUBSET (1 .. 0) |->
               IF t = {} THEN base ELSE parse_line(f[t \ {Max(t)}], s[Max(t)])]
    BY <2>1
  <2>. QED
    BY <2>2 DEF Folded
<1>2. ASSUME NEW k \in D \cap Nat PROVE k + 1 \in D
  <2>1. PICK f : Folded(base, s, k, f)
    OBVIOUS
  <2>. DEFINE step(t) == parse_line(f[t \ {Max(t)}], s[Max(t)])
              g == [t \in SUBSET (1 .. k + 1) |-> IF t \in SUBSET (1 .. k) THEN f[t] ELSE step(t)]
  <2>2. ASSUME NEW t \in SUBSET (1 .. k + 1)
        PROVE  g[t] = IF t = {} THEN base ELSE parse_line(g[t \ {Max(t)}], s[Max(t)])
    <3>1. CASE t \in SUBSET (1 .. k)
      <4>1. f[t] = IF t = {} THEN base ELSE parse_line(f[t \ {Max(t)}], s[Max(t)])
        BY <2>1, <3>1 DEF Folded
      <4>2. t \ {Max(t)} \in SUBSET (1 .. k) /\ t \ {Max(t)} \in SUBSET (1 .. k + 1)
        BY <3>1
      <4>3. g[t] = f[t] /\ g[t \ {Max(t)}] = f[t \ {Max(t)}]
        BY <3>1, <4>2
      <4>. QED
        BY <4>1, <4>3
    <3>2. CASE t \notin SUBSET (1 .. k)
      <4>1. k + 1 \in t /\ t # {}
        BY <3>2
      <4>2. Max(t) = k + 1
        <5>1. k + 1 \in t /\ \A y \in t : k + 1 >= y
          BY <4>1
        <5>2. \A x \in t : (\A y \in t : x >= y) => x = k + 1
          BY <4>1
        <5>. QED
          BY <5>1, <5>2 DEF Max
      <4>3. t \ {Max(t)} \in SUBSET (1 .. k) /\ t \ {Max(t)} \in SUBSET (1 .. k + 1)
        BY <4>2
      <4>4. g[t] = step(t) /\ g[t \ {Max(t)}] = f[t \ {Max(t)}]
        BY <3>2, <4>3
      <4>. QED
        BY <4>1, <4>4
    <3>. QED
      BY <3>1, <3>2
  <2>3. Folded(base, s, k + 1, g)
    BY <2>2 DEF Folded
  <2>4. k + 1 \in Nat
    OBVIOUS
  <2>. HIDE DEF g
  <2>. QED
    BY <2>3, <2>4
<1>3. n \in D
  <2>. HIDE DEF D
  <2>. QED
    BY <1>1, <1>2, NaturalsInSet
<1>. QED
  BY <1>3

(* The parser after the lines of s. *)
Parsed(base, s) == FoldLeft(parse_line, base, s)

LEMMA FoldSteps ==
  ASSUME NEW base, NEW S, NEW s \in Seq(S)
  PROVE  \E f : /\ Parsed(base, s) = f[Len(s)] /\ f[0] = base
                /\ \A k \in 1 .. Len(s) : f[k] = parse_line(f[k - 1], s[k])
<1>. DEFINE n == Len(s)
            F == CHOOSE f : Folded(base, s, n, f)
            f == [k \in 0 .. n |-> F[1 .. k]]
<1>1. n \in Nat /\ DOMAIN s = 1 .. n
  BY LenProperties
<1>2. Folded(base, s, n, F)
  BY <1>1, FoldedExists
<1>3. Parsed(base, s) = F[1 .. n]
  <2>1. Parsed(base, s) =
          (CHOOSE iter : iter = [t \in SUBSET (DOMAIN s) |->
             IF t = {} THEN base ELSE parse_line(iter[t \ {Max(t)}], s[Max(t)])])[DOMAIN s]
    BY Zenon DEF Parsed, FoldLeft, MapThenFoldSet
  <2>2. F = CHOOSE iter : iter = [t \in SUBSET (1 .. n) |->
              IF t = {} THEN base ELSE parse_line(iter[t \ {Max(t)}], s[Max(t)])]
    BY DEF Folded
  <2>. HIDE DEF F, n
  <2>. QED
    BY <1>1, <2>1, <2>2
<1>. HIDE DEF F, n
<1>4. f[0] = base
  <2>1. 1 .. 0 = {}
    OBVIOUS
  <2>2. F[{}] = base
    BY <1>2 DEF Folded
  <2>3. 0 \in 0 .. n
    BY <1>1
  <2>. QED
    BY <2>1, <2>2, <2>3
<1>5. ASSUME NEW k \in 1 .. n PROVE f[k] = parse_line(f[k - 1], s[k])
  <2>1. k \in Nat \ {0} /\ k - 1 \in 0 .. n /\ k \in 0 .. n /\ (1 .. k) \in SUBSET (1 .. n)
    BY <1>1
  <2>2. (1 .. k) \ {k} = 1 .. k - 1 /\ 1 .. k # {}
    BY <2>1
  <2>3. F[1 .. k] = parse_line(F[(1 .. k) \ {Max(1 .. k)}], s[Max(1 .. k)])
    BY <1>2, <2>1, <2>2 DEF Folded
  <2>4. Max(1 .. k) = k
    BY <2>1, GreatestOfRange
  <2>5. f[k] = F[1 .. k] /\ f[k - 1] = F[1 .. k - 1]
    BY <2>1
  <2>. QED
    BY <2>2, <2>3, <2>4, <2>5
<1>6. n \in 0 .. n
  BY <1>1
<1>7. Parsed(base, s) = f[n]
  BY <1>3, <1>6
<1>. HIDE DEF f
<1>. QED
  BY <1>4, <1>5, <1>7 DEF n

(* One more line in the log is one more turn of the parser. *)
LEMMA ParseAppend ==
  ASSUME NEW S, NEW lines \in Seq(S), NEW line \in S
  PROVE  parse_logs(Append(lines, line)) = parse_line(parse_logs(lines), line)
<1>. DEFINE n == Len(lines)
            longer == Append(lines, line)
<1>1. /\ n \in Nat /\ longer \in Seq(S) /\ Len(longer) = n + 1 /\ longer[n + 1] = line
      /\ \A k \in 1 .. n : longer[k] = lines[k]
  BY LenProperties, AppendProperties
<1>. HIDE DEF longer
<1>2. PICK f : /\ Parsed(EmptyParser, lines) = f[Len(lines)] /\ f[0] = EmptyParser
               /\ \A k \in 1 .. Len(lines) : f[k] = parse_line(f[k - 1], lines[k])
  BY FoldSteps
<1>3. longer \in Seq(S)
  BY <1>1
<1>4. PICK g : /\ Parsed(EmptyParser, longer) = g[Len(longer)] /\ g[0] = EmptyParser
               /\ \A k \in 1 .. Len(longer) : g[k] = parse_line(g[k - 1], longer[k])
  BY <1>3, FoldSteps
<1>. HIDE DEF n
<1>5. n = Len(lines)
  BY DEF n
<1>. DEFINE D == {k \in Nat : k \in 0 .. n => f[k] = g[k]}
<1>6. 0 \in D
  BY <1>2, <1>4
<1>7. ASSUME NEW k \in D \cap Nat PROVE k + 1 \in D
  <2>1. CASE k + 1 \in 1 .. n
    <3>1. k \in 0 .. n /\ (k + 1) - 1 = k /\ k + 1 \in 1 .. Len(longer)
      BY <2>1, <1>1
    <3>2. f[k] = g[k] /\ longer[k + 1] = lines[k + 1]
      BY <2>1, <3>1, <1>1
    <3>3. f[k + 1] = parse_line(f[k], lines[k + 1]) /\ g[k + 1] = parse_line(g[k], longer[k + 1])
      BY <2>1, <3>1, <1>2, <1>4, <1>5
    <3>4. f[k + 1] = g[k + 1]
      BY <3>2, <3>3
    <3>. QED
      BY <3>4
  <2>2. CASE k + 1 \notin 1 .. n
    BY <2>2
  <2>. QED
    BY <2>1, <2>2
<1>8. Nat \subseteq D
  <2>. HIDE DEF D
  <2>. QED
    BY <1>6, <1>7, NaturalsInSet
<1>9. f[n] = g[n]
  BY <1>1, <1>8
<1>10. n + 1 \in 1 .. Len(longer) /\ (n + 1) - 1 = n
  BY <1>1
<1>11. g[n + 1] = parse_line(g[n], line)
  BY <1>1, <1>4, <1>10
<1>12. Parsed(EmptyParser, longer) = parse_line(Parsed(EmptyParser, lines), line)
  BY <1>1, <1>2, <1>4, <1>5, <1>9, <1>11
<1>. QED
  BY <1>12 DEF parse_logs, Parsed, longer

(* A log without lines. *)
LEMMA ParseEmpty == parse_logs(<<>>) = EmptyParser
<1>1. ASSUME NEW none \in Seq(Nat), Len(none) = 0 PROVE parse_logs(none) = EmptyParser
  <2>1. PICK f : /\ Parsed(EmptyParser, none) = f[Len(none)] /\ f[0] = EmptyParser
                 /\ \A k \in 1 .. Len(none) : f[k] = parse_line(f[k - 1], none[k])
    BY FoldSteps
  <2>. QED
    BY <1>1, <2>1 DEF parse_logs, Parsed
<1>2. <<>> \in Seq(Nat) /\ Len(<<>>) = 0
  OBVIOUS
<1>. QED
  BY <1>1, <1>2, Zenon

-----------------------------------------------------------------------------
(***************************************************************************)
(* What a turn of the parser does with each kind of line.                  *)
(***************************************************************************)
Parser(s, c, r) == [stack |-> s, counter |-> c, results |-> r]

LEMMA ParseInvoke ==
  ASSUME NEW s, NEW c \in Nat, NEW r, NEW line, line.kind = "invoke", line.n \in Nat \ {0}
  PROVE  parse_line(Parser(s, c, r), line) = Parser(Append(s, <<line.n - 1, c>>), c + 1, r)
BY DEF parse_line, parse_invoke_log, parse_consumed_log, parse_result_log, Parser

LEMMA ParseConsumed ==
  ASSUME NEW s, NEW c, NEW r, NEW line, line.kind = "consumed", s # <<>>
  PROVE  parse_line(Parser(s, c, r), line) =
           Parser(s, c, put(r, Last(s), [entry(r, Last(s)) EXCEPT !.units = line.n]))
BY DEF parse_line, parse_invoke_log, parse_consumed_log, parse_result_log, Parser

LEMMA ParseResult ==
  ASSUME NEW s, NEW c, NEW r, NEW line, line.kind \in {"success", "failed"}, s # <<>>
  PROVE  parse_line(Parser(s, c, r), line) =
           Parser(Front(s), c,
                  put(r, Last(s), [entry(r, Last(s)) EXCEPT
                                     !.result = IF line.kind = "success" THEN 0 ELSE 1]))
<1>1. /\ parse_result_log(line) # {}
      /\ (CHOOSE code \in parse_result_log(line) : TRUE) = IF line.kind = "success" THEN 0 ELSE 1
  BY DEF parse_result_log
<1>. QED
  BY <1>1 DEF parse_line, parse_invoke_log, parse_consumed_log, Parser

LEMMA ParseOther ==
  ASSUME NEW p, NEW line, line.kind = "other"
  PROVE  parse_line(p, line) = p
BY DEF parse_line, parse_invoke_log, parse_consumed_log, parse_result_log

-----------------------------------------------------------------------------
(***************************************************************************)
(* The frames of a set of nesting levels.                                  *)
(***************************************************************************)
Among(n, depths, f) ==
  f = [k \in 0 .. n |->
         IF k = 0 THEN <<>>
         ELSE IF calls[k].depth \in depths THEN Append(f[k - 1], k) ELSE f[k - 1]]

LEMMA AmongExists ==
  ASSUME NEW depths, NEW n \in Nat
  PROVE  \E f : Among(n, depths, f)
<1>. DEFINE D == {k \in Nat : \E f : Among(k, depths, f)}
<1>1. 0 \in D
  <2>1. Among(0, depths, [k \in 0 .. 0 |-> <<>>])
    BY DEF Among
  <2>. QED
    BY <2>1
<1>2. ASSUME NEW k \in D \cap Nat PROVE k + 1 \in D
  <2>1. PICK f : Among(k, depths, f)
    OBVIOUS
  <2>. DEFINE last == IF calls[k + 1].depth \in depths THEN Append(f[k], k + 1) ELSE f[k]
              g == [i \in 0 .. k + 1 |-> IF i = k + 1 THEN last ELSE f[i]]
  <2>2. ASSUME NEW i \in 0 .. k + 1
        PROVE  g[i] = IF i = 0 THEN <<>>
                      ELSE IF calls[i].depth \in depths THEN Append(g[i - 1], i) ELSE g[i - 1]
    <3>1. CASE i = k + 1
      <4>1. g[i] = last /\ i # 0 /\ i - 1 = k /\ g[k] = f[k]
        BY <3>1
      <4>. QED
        BY <3>1, <4>1
    <3>2. CASE i \in 0 .. k
      <4>1. f[i] = IF i = 0 THEN <<>>
                   ELSE IF calls[i].depth \in depths THEN Append(f[i - 1], i) ELSE f[i - 1]
        BY <2>1, <3>2 DEF Among
      <4>2. g[i] = f[i] /\ (i # 0 => g[i - 1] = f[i - 1])
        BY <3>2
      <4>. QED
        BY <4>1, <4>2
    <3>. QED
      BY <3>1, <3>2
  <2>3. Among(k + 1, depths, g)
    BY <2>2 DEF Among
  <2>4. k + 1 \in Nat
    OBVIOUS
  <2>. HIDE DEF g
  <2>. QED
    BY <2>3, <2>4
<1>3. n \in D
  <2>. HIDE DEF D
  <2>. QED
    BY <1>1, <1>2, NaturalsInSet
<1>. QED
  BY <1>3

LEMMA PositionsSteps ==
  ASSUME NEW depths, Len(calls) \in Nat
  PROVE  \E f : /\ Positions(depths) = f[Len(calls)] /\ f[0] = <<>>
                /\ \A k \in 1 .. Len(calls) :
                     f[k] = IF calls[k].depth \in depths THEN Append(f[k - 1], k) ELSE f[k - 1]
<1>. DEFINE F == CHOOSE f : Among(Len(calls), depths, f)
<1>1. Among(Len(calls), depths, F)
  BY AmongExists
<1>2. Positions(depths) = F[Len(calls)]
  BY DEF Positions, Among
<1>. HIDE DEF F
<1>3. F[0] = <<>>
  BY <1>1 DEF Among
<1>4. ASSUME NEW k \in 1 .. Len(calls)
      PROVE  F[k] = IF calls[k].depth \in depths THEN Append(F[k - 1], k) ELSE F[k - 1]
  <2>1. k \in 0 .. Len(calls) /\ k # 0
    OBVIOUS
  <2>. QED
    BY <1>1, <2>1 DEF Among
<1>. QED
  BY <1>2, <1>3, <1>4

(* They are positions of calls. *)
LEMMA PositionsType ==
  ASSUME NEW depths, Len(calls) \in Nat
  PROVE  Positions(depths) \in Seq(1 .. Len(calls))
<1>. DEFINE n == Len(calls)
<1>1. PICK f : /\ Positions(depths) = f[Len(calls)] /\ f[0] = <<>>
               /\ \A k \in 1 .. Len(calls) :
                    f[k] = IF calls[k].depth \in depths THEN Append(f[k - 1], k) ELSE f[k - 1]
  BY PositionsSteps
<1>. DEFINE D == {k \in Nat : k \in 0 .. n => f[k] \in Seq(1 .. n)}
<1>2. 0 \in D
  BY <1>1, EmptySeq
<1>3. ASSUME NEW k \in D \cap Nat PROVE k + 1 \in D
  <2>1. CASE k + 1 \in 1 .. n
    <3>1. k \in 0 .. n /\ (k + 1) - 1 = k
      BY <2>1
    <3>2. f[k] \in Seq(1 .. n)
      BY <3>1
    <3>3. Append(f[k], k + 1) \in Seq(1 .. n)
      BY <2>1, <3>2, AppendProperties
    <3>4. f[k + 1] = IF calls[k + 1].depth \in depths THEN Append(f[k], k + 1) ELSE f[k]
      BY <2>1, <3>1, <1>1
    <3>5. f[k + 1] \in Seq(1 .. n)
      BY <3>2, <3>3, <3>4
    <3>. QED
      BY <3>5
  <2>2. CASE k + 1 \notin 1 .. n
    BY <2>2
  <2>. QED
    BY <2>1, <2>2
<1>4. Nat \subseteq D
  <2>. HIDE DEF D
  <2>. QED
    BY <1>2, <1>3, NaturalsInSet
<1>5. f[n] \in Seq(1 .. n)
  BY <1>4
<1>. QED
  BY <1>1, <1>5

(* If the calls after the m-th and up to the q-th have these levels and no *)
(* other does, the frames are those calls in their order.                  *)
Between(m, q, s) ==
  s \in Seq(Nat) /\ Len(s) = q - m /\ \A i \in 1 .. q - m : s[i] = m + i

LEMMA PositionsFrom ==
  ASSUME NEW depths, Len(calls) \in Nat, NEW m \in Nat, NEW q \in Nat,
         m <= q, q <= Len(calls),
         \A c \in 1 .. Len(calls) : calls[c].depth \in depths <=> m < c /\ c <= q
  PROVE  Between(m, q, Positions(depths))
<1>. DEFINE n == Len(calls)
            size(k) == IF k <= m THEN 0 ELSE IF k <= q THEN k - m ELSE q - m
            Row(s, k) == /\ s \in Seq(Nat) /\ Len(s) = size(k)
                         /\ \A i \in 1 .. size(k) : s[i] = m + i
<1>1. PICK f : /\ Positions(depths) = f[Len(calls)] /\ f[0] = <<>>
               /\ \A k \in 1 .. Len(calls) :
                    f[k] = IF calls[k].depth \in depths THEN Append(f[k - 1], k) ELSE f[k - 1]
  BY PositionsSteps
<1>. DEFINE D == {k \in Nat : k \in 0 .. n => Row(f[k], k)}
<1>2. 0 \in D
  <2>1. size(0) = 0
    OBVIOUS
  <2>2. f[0] \in Seq(Nat) /\ Len(f[0]) = 0
    BY <1>1
  <2>. QED
    BY <2>1, <2>2
<1>3. ASSUME NEW k \in D \cap Nat PROVE k + 1 \in D
  <2>1. CASE k + 1 \in 1 .. n
    <3>1. k \in 0 .. n /\ (k + 1) - 1 = k
      BY <2>1
    <3>2. Row(f[k], k)
      BY <3>1
    <3>3. f[k + 1] = IF m < k + 1 /\ k + 1 <= q THEN Append(f[k], k + 1) ELSE f[k]
      BY <2>1, <3>1, <1>1
    <3>4. CASE m < k + 1 /\ k + 1 <= q
      <4>1. size(k) = k - m /\ size(k + 1) = size(k) + 1 /\ k - m \in Nat
        BY <3>4
      <4>2. f[k + 1] = Append(f[k], k + 1)
        BY <3>3, <3>4
      <4>3. /\ f[k + 1] \in Seq(Nat) /\ Len(f[k + 1]) = size(k) + 1
            /\ f[k + 1][size(k) + 1] = k + 1 /\ \A i \in 1 .. size(k) : f[k + 1][i] = f[k][i]
        <5>1. f[k] \in Seq(Nat) /\ Len(f[k]) = size(k) /\ k + 1 \in Nat
          BY <3>2
        <5>. HIDE DEF size
        <5>. QED
          BY <4>2, <5>1, AppendProperties
      <4>4. ASSUME NEW i \in 1 .. size(k + 1) PROVE f[k + 1][i] = m + i
        <5>1. CASE i = size(k) + 1
          BY <4>1, <4>3, <5>1
        <5>2. CASE i \in 1 .. size(k)
          BY <3>2, <4>3, <5>2
        <5>. QED
          BY <4>1, <5>1, <5>2
      <4>5. Row(f[k + 1], k + 1)
        BY <4>1, <4>3, <4>4
      <4>. HIDE DEF Row
      <4>. QED
        BY <4>5
    <3>5. CASE ~(m < k + 1 /\ k + 1 <= q)
      <4>1. size(k + 1) = size(k) /\ f[k + 1] = f[k]
        BY <3>3, <3>5
      <4>2. Row(f[k + 1], k + 1)
        BY <3>2, <4>1
      <4>. HIDE DEF Row
      <4>. QED
        BY <4>2
    <3>. QED
      BY <3>4, <3>5
  <2>2. CASE k + 1 \notin 1 .. n
    BY <2>2
  <2>. QED
    BY <2>1, <2>2
<1>4. Nat \subseteq D
  <2>. HIDE DEF D
  <2>. QED
    BY <1>2, <1>3, NaturalsInSet
<1>5. Row(f[n], n)
  <2>. HIDE DEF Row
  <2>. QED
    BY <1>4
<1>6. size(n) = q - m
  OBVIOUS
<1>. QED
  BY <1>1, <1>5, <1>6 DEF Between

-----------------------------------------------------------------------------
(***************************************************************************)
(* The inductive invariant, in five parts: the types, the room the chain   *)
(* has left, the parser's place in an intelligible log, what the parser    *)
(* has settled in any log, and the trace of the last call.                 *)
(***************************************************************************)
Call == [depth : 0 .. MaxHeight - 1, units : Units \cup {0}, metered : BOOLEAN, logged : BOOLEAN,
         outcome : {"running", "success", "failed", "refused"}]

Line == [kind : Kinds, n : Nat, bytes : Nat] \cup ProgramLines

Log == [lines : Seq(Line), bytes : Nat, limit_warning : BOOLEAN]

Types ==
  /\ phase \in {"idle", "running", "done"}
  /\ chain \in 0 .. MaxChain
  /\ failing \in BOOLEAN
  /\ calls \in Seq(Call)
  /\ log \in Log
  /\ stack \in Seq(Nat) /\ Len(stack) <= MaxHeight
  /\ phase # "running" => stack = <<>>
  /\ \A i \in 1 .. Len(stack) : /\ stack[i] \in 1 .. Len(calls)
                                /\ calls[stack[i]].depth = i - 1
                                /\ calls[stack[i]].outcome = "running"
  /\ \A c \in 1 .. Len(calls) :
       calls[c].outcome = "running" => \E i \in 1 .. Len(stack) : stack[i] = c
  /\ \A c \in 1 .. Len(calls) :
       calls[c].logged => calls[c].outcome \in {"success", "failed"}

(* There are no more top-level calls than instructions, and room for those *)
(* to come.                                                                *)
Counts ==
  /\ TopLevelCalls \in Nat /\ TopLevelCalls <= chain
  /\ Len(calls) + chain <= MaxCalls + TopLevelCalls

Key(c) == <<calls[c].depth, c - 1>>

(* The parser has met the calls up to counter, and has a result, the right *)
(* one, for each of them that is over.                                     *)
Follows(counter, results) ==
  /\ counter \in 0 .. Len(calls) /\ (~failing => counter = Len(calls))
  /\ \A c \in 1 .. Len(calls) : calls[c].outcome = "refused" <=> c > counter
  /\ DOMAIN results \subseteq {Key(c) : c \in 1 .. counter}
  /\ \A c \in 1 .. counter :
       /\ calls[c].outcome = "running" => Key(c) \notin DOMAIN results
       /\ calls[c].outcome # "running" =>
            /\ Key(c) \in DOMAIN results
            /\ results[Key(c)] = [result |-> IF calls[c].outcome = "success" THEN 0 ELSE 1,
                                  units |-> calls[c].units]

OpenCalls == [i \in 1 .. Len(stack) |-> <<i - 1, stack[i] - 1>>]

Following ==
  Intelligible =>
    \E counter, results :
      /\ parse_logs(log.lines) = Parser(OpenCalls, counter, results)
      /\ Follows(counter, results)

(* The parser p has met each call of cs that ended in a complete log, has  *)
(* closed it, and has its result: no line to come can change that.         *)
Settled(cs, s, counter, r) ==
  \A c \in 1 .. Len(cs) : cs[c].logged =>
    /\ c <= counter
    /\ \A i \in 1 .. Len(s) : s[i][2] # c - 1
    /\ <<cs[c].depth, c - 1>> \in DOMAIN r
    /\ r[<<cs[c].depth, c - 1>>] = [result |-> IF cs[c].outcome = "success" THEN 0 ELSE 1,
                                    units |-> cs[c].units]

Settles(cs, p) ==
  \E s \in Seq(Int \X Int), counter \in Nat : \E r :
    p = Parser(s, counter, r) /\ Settled(cs, s, counter, r)

Settling == ProgramsWritePlainLines => Settles(calls, parse_logs(log.lines))

Traced ==
  /\ phase # "done" => trace = <<>>
  /\ \A i \in DOMAIN trace : trace[i].call \in 0 .. Len(calls)
  /\ TraceMatchesCalls

IInv == Types /\ Counts /\ Following /\ Settling /\ Traced

-----------------------------------------------------------------------------
(* A line stays in the log, or the log says that one was dropped. *)
LEMMA Recorded ==
  ASSUME NEW l \in Log, NEW line \in Line
  PROVE  /\ record_line(l, line) \in Log
         /\ ~record_line(l, line).limit_warning =>
              ~l.limit_warning /\ record_line(l, line).lines = Append(l.lines, line)
<1>. DEFINE fits == [l EXCEPT !.lines = Append(@, line), !.bytes = @ + line.bytes]
            full == [l EXCEPT !.lines = IF l.limit_warning THEN @ ELSE Append(@, Truncated),
                              !.limit_warning = TRUE]
<1>1. line.bytes \in Nat /\ Truncated \in Line
  BY ConstantsAssumption DEF Line, Truncated, Kinds
<1>2. l.lines \in Seq(Line) /\ l.bytes \in Nat /\ l.limit_warning \in BOOLEAN
  BY DEF Log
<1>3. Append(l.lines, line) \in Seq(Line) /\ Append(l.lines, Truncated) \in Seq(Line)
  BY <1>1, <1>2, AppendProperties
<1>4. ASSUME NEW x \in Seq(Line), NEW b \in Nat
      PROVE  LET r == [l EXCEPT !.lines = x, !.bytes = b]
             IN  r \in Log /\ r.lines = x /\ r.limit_warning = l.limit_warning
  BY DEF Log
<1>5. ASSUME NEW x \in Seq(Line)
      PROVE  LET r == [l EXCEPT !.lines = x, !.limit_warning = TRUE]
             IN  r \in Log /\ r.limit_warning
  BY DEF Log
<1>6. fits \in Log /\ (~fits.limit_warning => ~l.limit_warning /\ fits.lines = Append(l.lines, line))
  <2>1. l.bytes + line.bytes \in Nat
    BY <1>1, <1>2
  <2>. QED
    BY <1>3, <1>4, <2>1
<1>7. full \in Log /\ full.limit_warning
  <2>1. (IF l.limit_warning THEN l.lines ELSE Append(l.lines, Truncated)) \in Seq(Line)
    BY <1>2, <1>3
  <2>. QED
    BY <1>5, <2>1
<1>8. record_line(l, line) = fits \/ record_line(l, line) = full
  BY DEF record_line, fits, full
<1>. QED
  BY <1>6, <1>7, <1>8

LEMMA RuntimeLines ==
  ASSUME NEW kind \in Kinds, NEW n \in Nat
  PROVE  /\ runtime_line(kind, n) \in Line
         /\ runtime_line(kind, n).kind = kind /\ runtime_line(kind, n).n = n
BY DEF runtime_line, Line

(* The number of top-level calls in a list of calls. *)
Top(cs) == Cardinality({c \in DOMAIN cs : cs[c].depth = 0})

LEMMA IntervalSize ==
  ASSUME NEW n \in Nat
  PROVE  IsFiniteSet(1 .. n) /\ Cardinality(1 .. n) = n
BY FS_Interval

LEMMA NumberedRow ==
  ASSUME NEW s \in Seq(Nat), NEW row, row = [i \in 1 .. Len(s) |-> <<i - 1, s[i] - 1>>]
  PROVE  /\ row \in Seq(Int \X Int) /\ Len(row) = Len(s)
         /\ \A i \in 1 .. Len(s) : row[i] = <<i - 1, s[i] - 1>>
<1>1. Len(s) \in Nat /\ \A i \in 1 .. Len(s) : s[i] \in Nat
  BY LenProperties, ElementOfSeq
<1>. QED
  BY <1>1

LEMMA TopAppend ==
  ASSUME NEW cs \in Seq(Call), NEW call \in Call
  PROVE  /\ Top(cs) \in Nat /\ Top(cs) <= Len(cs)
         /\ Top(Append(cs, call)) = Top(cs) + (IF call.depth = 0 THEN 1 ELSE 0)
<1>. DEFINE S == {c \in DOMAIN cs : cs[c].depth = 0}
            n == Len(cs)
            longer == Append(cs, call)
<1>1. n \in Nat /\ DOMAIN cs = 1 .. n
  BY LenProperties
<1>2. IsFiniteSet(1 .. n) /\ Cardinality(1 .. n) = n
  BY <1>1, IntervalSize
<1>3. IsFiniteSet(S) /\ Cardinality(S) <= n
  BY <1>1, <1>2, FS_Subset
<1>4. Cardinality(S) \in Nat
  BY <1>3, FS_CardinalityType
<1>5. /\ DOMAIN longer = 1 .. n + 1 /\ longer[n + 1] = call
      /\ \A c \in 1 .. n : longer[c] = cs[c]
  BY <1>1, AppendProperties, LenProperties
<1>. HIDE DEF longer
<1>55. Top(cs) = Cardinality(S)
  BY DEF Top
<1>. SUFFICES Top(longer) = Top(cs) + (IF call.depth = 0 THEN 1 ELSE 0)
  BY <1>3, <1>4, <1>55 DEF longer
<1>6. CASE call.depth = 0
  <2>1. {c \in DOMAIN longer : longer[c].depth = 0} = S \cup {n + 1} /\ n + 1 \notin S
    BY <1>1, <1>5, <1>6
  <2>2. Cardinality(S \cup {n + 1}) = Cardinality(S) + 1
    BY <1>3, <2>1, FS_AddElement
  <2>. QED
    BY <1>6, <2>1, <2>2 DEF Top
<1>7. CASE call.depth # 0
  <2>1. {c \in DOMAIN longer : longer[c].depth = 0} = S
    BY <1>1, <1>5, <1>7
  <2>2. Top(longer) = Cardinality(S)
    BY <2>1 DEF Top
  <2>. HIDE DEF S
  <2>. QED
    BY <1>4, <1>55, <1>7, <2>2
<1>. QED
  BY <1>6, <1>7

(* A call that begins: what is known of it, and that the chain has room.   *)
LEMMA Invoked ==
  ASSUME Types, Counts, MayInvoke, UNCHANGED chain, NEW outcome \in {"running", "refused"},
         calls' = Append(calls, invocation(outcome))
  PROVE  /\ Len(calls) \in Nat /\ Len(stack) \in 0 .. MaxHeight - 1
         /\ calls' \in Seq(Call) /\ Len(calls') = Len(calls) + 1
         /\ calls'[Len(calls) + 1] = invocation(outcome)
         /\ \A c \in 1 .. Len(calls) : calls'[c] = calls[c]
         /\ Counts'
<1>1. Len(calls) \in Nat /\ Len(stack) \in 0 .. MaxHeight - 1 /\ calls \in Seq(Call)
  BY LenProperties, ConstantsAssumption DEF Types, MayInvoke
<1>2. invocation(outcome) \in Call /\ invocation(outcome).depth = Len(stack)
  BY <1>1 DEF invocation, Call
<1>3. /\ calls' \in Seq(Call) /\ Len(calls') = Len(calls) + 1
      /\ calls'[Len(calls) + 1] = invocation(outcome)
      /\ \A c \in 1 .. Len(calls) : calls'[c] = calls[c]
  BY <1>1, <1>2, AppendProperties
<1>4. /\ Top(calls) \in Nat
      /\ Top(calls') = Top(calls) + (IF Len(stack) = 0 THEN 1 ELSE 0)
  BY <1>1, <1>2, TopAppend
<1>5. TopLevelCalls = Top(calls) /\ TopLevelCalls' = Top(calls')
  BY DEF Top, TopLevelCalls
<1>6. stack = <<>> <=> Len(stack) = 0
  BY DEF Types
<1>7. chain \in Nat /\ MaxCalls \in Nat
  BY ConstantsAssumption DEF Types
<1>8. TopLevelCalls' \in Nat /\ TopLevelCalls' <= chain
  BY <1>4, <1>5, <1>6, <1>7 DEF MayInvoke, Counts
<1>9. Len(calls') + chain <= MaxCalls + TopLevelCalls'
  <2>1. CASE stack = <<>>
    BY <1>1, <1>3, <1>4, <1>5, <1>6, <1>7, <2>1 DEF Counts
  <2>2. CASE stack # <<>>
    BY <1>1, <1>3, <1>4, <1>5, <1>6, <1>7, <2>2 DEF MayInvoke
  <2>. QED
    BY <2>1, <2>2
<1>10. Counts'
  BY <1>8, <1>9 DEF Counts
<1>. QED
  BY <1>1, <1>3, <1>10

-----------------------------------------------------------------------------
(***************************************************************************)
(* What is settled stays settled, whatever line comes: an invocation gets  *)
(* a new number, and other lines touch the innermost open one, which is    *)
(* not a call that is over.                                                *)
(***************************************************************************)
(* A table of results to which one entry has been put. *)
Extends(table, r, k, e) ==
  /\ DOMAIN table = DOMAIN r \cup {k}
  /\ table[k] = e
  /\ \A x \in DOMAIN r : x # k => table[x] = r[x]

LEMMA PutEntry == \A r, k, e : Extends(put(r, k, e), r, k, e)
BY DEF put, Extends

LEMMA FrontOf ==
  ASSUME NEW S, NEW s \in Seq(S), NEW d \in Nat, Len(s) = d, d # 0
  PROVE  /\ Front(s) \in Seq(S) /\ Len(Front(s)) = d - 1
         /\ \A i \in 1 .. d - 1 : Front(s)[i] = s[i]
         /\ Last(s) = s[d]
<1>1. \A i \in 1 .. d - 1 : s[i] \in S
  BY ElementOfSeq
<1>2. d - 1 \in Int /\ 1 \in Int
  OBVIOUS
<1>. DEFINE front == SubSeq(s, 1, d - 1)
<1>3. /\ front \in Seq(S)
      /\ Len(front) = IF 1 <= d - 1 THEN (d - 1) - 1 + 1 ELSE 0
      /\ \A i \in 1 .. (d - 1) - 1 + 1 : front[i] = s[1 + i - 1]
  BY <1>1, <1>2, SubSeqProperties
<1>4. Len(front) = d - 1
  BY <1>3
<1>5. \A i \in 1 .. d - 1 : front[i] = s[i]
  BY <1>3
<1>6. Front(s) = front /\ Last(s) = s[d]
  BY DEF Front, Last
<1>. HIDE DEF front
<1>. QED
  BY <1>3, <1>4, <1>5, <1>6

LEMMA SettlesLine ==
  ASSUME NEW cs \in Seq(Call), NEW p, Settles(cs, p), NEW line \in Line
  PROVE  Settles(cs, parse_line(p, line))
<1>. PICK s \in Seq(Int \X Int), counter \in Nat :
       \E r : p = Parser(s, counter, r) /\ Settled(cs, s, counter, r)
  BY DEF Settles
<1>. PICK r : p = Parser(s, counter, r) /\ Settled(cs, s, counter, r)
  OBVIOUS
<1>. DEFINE key(c) == <<cs[c].depth, c - 1>>
            d == Len(s)
<1>1. Len(cs) \in Nat /\ d \in Nat
  BY LenProperties
<1>2. line.n \in Nat /\ line.kind \in Kinds
  BY ConstantsAssumption DEF Line
<1>3. \A i \in 1 .. d : s[i] \in Int \X Int
  BY ElementOfSeq
<1>4. ASSUME line.kind = "invoke" PROVE Settles(cs, parse_line(p, line))
  <2>. DEFINE e == <<IF line.n = 0 THEN 0 ELSE line.n - 1, counter>>
  <2>1. parse_line(p, line) = Parser(Append(s, e), counter + 1, r)
    BY <1>4 DEF parse_line, parse_invoke_log, parse_consumed_log, parse_result_log, Parser
  <2>2. e \in Int \X Int /\ e[2] = counter
    BY <1>2
  <2>. HIDE DEF e
  <2>. DEFINE Pairs == Int \X Int
  <2>3. s \in Seq(Pairs) /\ e \in Pairs
    BY <2>2
  <2>. HIDE DEF Pairs
  <2>4. /\ Append(s, e) \in Seq(Pairs) /\ Len(Append(s, e)) = d + 1
        /\ Append(s, e)[d + 1] = e
        /\ \A i \in 1 .. d : Append(s, e)[i] = s[i]
    BY <2>3, AppendProperties
  <2>5. Settled(cs, Append(s, e), counter + 1, r)
    <3>. SUFFICES ASSUME NEW c \in 1 .. Len(cs), cs[c].logged
                  PROVE  /\ c <= counter + 1
                         /\ \A i \in 1 .. d + 1 : Append(s, e)[i][2] # c - 1
      BY <2>4 DEF Settled
    <3>1. c <= counter /\ \A i \in 1 .. d : s[i][2] # c - 1
      BY DEF Settled
    <3>2. ASSUME NEW i \in 1 .. d + 1 PROVE Append(s, e)[i][2] # c - 1
      <4>1. CASE i = d + 1
        BY <4>1, <1>1, <2>2, <2>4, <3>1
      <4>2. CASE i \in 1 .. d
        BY <4>2, <2>4, <3>1
      <4>. QED
        BY <4>1, <4>2, <1>1
    <3>3. c <= counter + 1
      BY <1>1, <3>1
    <3>. QED
      BY <3>2, <3>3
  <2>6. counter + 1 \in Nat
    OBVIOUS
  <2>7. Append(s, e) \in Seq(Int \X Int)
    BY <2>4 DEF Pairs
  <2>. QED
    BY <2>1, <2>5, <2>6, <2>7 DEF Settles
(* A new entry for the innermost open invocation.                          *)
<1>5. ASSUME s # <<>>, NEW e, NEW t \in Seq(Int \X Int), Len(t) <= d,
             \A i \in 1 .. Len(t) : t[i] = s[i]
      PROVE  Settles(cs, Parser(t, counter, put(r, Last(s), e)))
  <2>. DEFINE k == Last(s)
              q == put(r, k, e)
  <2>1. d \in 1 .. d /\ k = s[d]
    BY <1>1, <1>5 DEF Last
  <2>. HIDE DEF k
  <2>2. Extends(q, r, k, e)
    BY PutEntry
  <2>. HIDE DEF q
  <2>3. ASSUME NEW c \in 1 .. Len(cs), cs[c].logged
        PROVE  /\ c <= counter /\ \A i \in 1 .. Len(t) : t[i][2] # c - 1
               /\ key(c) \in DOMAIN q
               /\ q[key(c)] = [result |-> IF cs[c].outcome = "success" THEN 0 ELSE 1,
                               units |-> cs[c].units]
    <3>1. /\ c <= counter /\ \A i \in 1 .. d : s[i][2] # c - 1
          /\ key(c) \in DOMAIN r
          /\ r[key(c)] = [result |-> IF cs[c].outcome = "success" THEN 0 ELSE 1,
                          units |-> cs[c].units]
      BY <2>3 DEF Settled
    <3>2. key(c) # k
      <4>1. k[2] # c - 1 /\ key(c)[2] = c - 1
        BY <2>1, <3>1
      <4>. HIDE DEF key
      <4>. QED
        BY <4>1
    <3>3. key(c) \in DOMAIN q /\ q[key(c)] = r[key(c)]
      <4>. HIDE DEF key
      <4>. QED
        BY <2>2, <3>1, <3>2 DEF Extends
    <3>4. \A i \in 1 .. Len(t) : i \in 1 .. d
      BY <1>1, <1>5, LenProperties
    <3>. QED
      BY <1>5, <3>1, <3>3, <3>4
  <2>4. Settled(cs, t, counter, q)
    BY <2>3 DEF Settled
  <2>. QED
    BY <2>4 DEF Settles, q, k
<1>6. ASSUME line.kind = "consumed", s # <<>> PROVE Settles(cs, parse_line(p, line))
  <2>1. parse_line(p, line) =
          Parser(s, counter, put(r, Last(s), [entry(r, Last(s)) EXCEPT !.units = line.n]))
    BY <1>6, ParseConsumed
  <2>2. Len(s) <= d /\ \A i \in 1 .. Len(s) : s[i] = s[i]
    BY <1>1
  <2>. QED
    BY <1>5, <1>6, <2>1, <2>2
<1>7. ASSUME line.kind \in {"success", "failed"}, s # <<>>
      PROVE  Settles(cs, parse_line(p, line))
  <2>. DEFINE e == [entry(r, Last(s)) EXCEPT !.result = IF line.kind = "success" THEN 0 ELSE 1]
              Pairs == Int \X Int
  <2>1. parse_line(p, line) = Parser(Front(s), counter, put(r, Last(s), e))
    BY <1>7, ParseResult
  <2>2. d # 0 /\ s \in Seq(Pairs)
    BY <1>1, <1>7
  <2>. HIDE DEF Pairs, e
  <2>3. /\ Front(s) \in Seq(Pairs) /\ Len(Front(s)) = d - 1
        /\ \A i \in 1 .. d - 1 : Front(s)[i] = s[i]
    BY <1>1, <2>2, FrontOf
  <2>4. Front(s) \in Seq(Int \X Int) /\ Len(Front(s)) <= d
    BY <1>1, <2>3 DEF Pairs
  <2>. QED
    BY <1>5, <1>7, <2>1, <2>3, <2>4
<1>8. CASE line.kind = "other"
  <2>1. parse_line(p, line) = p
    BY <1>8, ParseOther
  <2>. QED
    BY <2>1
<1>9. CASE line.kind # "invoke" /\ s = <<>>
  <2>1. parse_line(p, line) = p
    BY <1>9 DEF parse_line, parse_invoke_log, Parser
  <2>. QED
    BY <2>1
<1>. QED
  BY <1>2, <1>4, <1>6, <1>7, <1>8, <1>9 DEF Kinds

(* Nor does a line that is dropped, or the one that says so.               *)
LEMMA SettlesRecord ==
  ASSUME NEW cs \in Seq(Call), NEW l \in Log, NEW line \in Line,
         Settles(cs, parse_logs(l.lines))
  PROVE  Settles(cs, parse_logs(record_line(l, line).lines))
<1>1. l.lines \in Seq(Line) /\ Truncated \in Line
  BY DEF Log, Line, Truncated, Kinds
<1>2. \/ record_line(l, line).lines = l.lines
      \/ \E x \in {line, Truncated} : record_line(l, line).lines = Append(l.lines, x)
  BY DEF record_line, Log
<1>3. ASSUME NEW x \in {line, Truncated}
      PROVE  Settles(cs, parse_logs(Append(l.lines, x)))
  <2>1. x \in Line
    BY <1>1
  <2>2. parse_logs(Append(l.lines, x)) = parse_line(parse_logs(l.lines), x)
    BY <1>1, <2>1, ParseAppend
  <2>. QED
    BY <2>1, <2>2, SettlesLine
<1>. QED
  BY <1>2, <1>3

LEMMA SettlesFewer ==
  ASSUME NEW cs, NEW fewer, NEW p, Settles(cs, p),
         \A c \in 1 .. Len(fewer) : fewer[c].logged => c \in 1 .. Len(cs) /\ fewer[c] = cs[c]
  PROVE  Settles(fewer, p)
<1>0. PICK s \in Seq(Int \X Int), counter \in Nat :
        \E r : p = Parser(s, counter, r) /\ Settled(cs, s, counter, r)
  BY DEF Settles
<1>1. PICK r : p = Parser(s, counter, r) /\ Settled(cs, s, counter, r)
  BY <1>0
<1>2. Settled(fewer, s, counter, r)
  BY <1>1 DEF Settled
<1>. QED
  BY <1>1, <1>2 DEF Settles

(* In a complete log the parser has settled all calls that are over.       *)
LEMMA FollowingSettles == Types /\ Following /\ Intelligible => Settling
<1>. SUFFICES ASSUME Types, Following, Intelligible
              PROVE  Settles(calls, parse_logs(log.lines))
  BY DEF Settling
<1>1. PICK counter, r : parse_logs(log.lines) = Parser(OpenCalls, counter, r) /\ Follows(counter, r)
  BY DEF Following
<1>2. /\ OpenCalls \in Seq(Int \X Int) /\ Len(OpenCalls) = Len(stack)
      /\ \A i \in 1 .. Len(stack) : OpenCalls[i] = <<i - 1, stack[i] - 1>>
  BY NumberedRow DEF OpenCalls, Types
<1>3. Len(calls) \in Nat /\ Len(stack) \in Nat /\ counter \in Nat
  BY <1>1, LenProperties DEF Types, Follows
<1>4. ASSUME NEW c \in 1 .. Len(calls), calls[c].logged
      PROVE  /\ c <= counter /\ \A i \in 1 .. Len(OpenCalls) : OpenCalls[i][2] # c - 1
             /\ Key(c) \in DOMAIN r
             /\ r[Key(c)] = [result |-> IF calls[c].outcome = "success" THEN 0 ELSE 1,
                             units |-> calls[c].units]
  <2>1. calls[c].outcome \in {"success", "failed"}
    BY <1>4 DEF Types
  <2>2. c <= counter
    BY <1>1, <1>3, <2>1 DEF Follows
  <2>3. ASSUME NEW i \in 1 .. Len(OpenCalls) PROVE OpenCalls[i][2] # c - 1
    <3>1. OpenCalls[i][2] = stack[i] - 1
      BY <1>2
    <3>2. stack[i] \in 1 .. Len(calls) /\ calls[stack[i]].outcome = "running"
      BY <1>2 DEF Types
    <3>3. stack[i] # c
      BY <2>1, <3>2
    <3>. QED
      BY <1>3, <3>1, <3>2, <3>3
  <2>4. c \in 1 .. counter
    BY <1>3, <2>2
  <2>. QED
    BY <1>1, <2>1, <2>2, <2>3, <2>4 DEF Follows
<1>5. Settled(calls, OpenCalls, counter, r)
  BY <1>4 DEF Settled, Key
<1>. QED
  BY <1>1, <1>2, <1>3, <1>5 DEF Settles

-----------------------------------------------------------------------------
(***************************************************************************)
(* Each action keeps the invariant.                                        *)
(***************************************************************************)
(* The parser is right about a log without lines. *)
Fresh == /\ chain \in 0 .. MaxChain /\ failing = FALSE
         /\ calls = <<>> /\ stack = <<>> /\ log = NewLog
         /\ phase # "done" /\ trace = <<>>

LEMMA FreshStart == phase \in {"idle", "running"} /\ Fresh => IInv
<1>. SUFFICES ASSUME phase \in {"idle", "running"}, Fresh PROVE IInv
  OBVIOUS
<1>. USE DEF Fresh
<1>1. Len(calls) = 0 /\ Len(stack) = 0 /\ calls \in Seq(Call) /\ stack \in Seq(Nat)
  OBVIOUS
<1>2. log = [lines |-> <<>>, bytes |-> 0, limit_warning |-> FALSE] /\ log \in Log
  BY EmptySeq DEF NewLog, Log
<1>3. Types
  <2>1. Len(stack) <= MaxHeight
    BY <1>1, ConstantsAssumption
  <2>2. \A i \in 1 .. Len(stack) : FALSE
    BY <1>1
  <2>3. \A c \in 1 .. Len(calls) : FALSE
    BY <1>1
  <2>4. failing \in BOOLEAN /\ phase \in {"idle", "running", "done"}
    OBVIOUS
  <2>. QED
    BY <1>1, <1>2, <2>1, <2>2, <2>3, <2>4 DEF Types
<1>4. Counts
  <2>1. {c \in DOMAIN calls : calls[c].depth = 0} = {}
    OBVIOUS
  <2>2. TopLevelCalls = 0
    BY <2>1, FS_EmptySet DEF TopLevelCalls
  <2>. QED
    BY <1>1, <2>2, ConstantsAssumption DEF Counts
<1>5. Following
  <2>1. parse_logs(log.lines) = EmptyParser
    BY <1>2, ParseEmpty
  <2>2. OpenCalls = <<>>
    BY <1>1 DEF OpenCalls
  <2>3. EmptyParser = Parser(OpenCalls, 0, <<>>)
    BY <2>2 DEF EmptyParser, Parser
  <2>4. Follows(0, <<>>)
    BY <1>1 DEF Follows
  <2>. QED
    BY <2>1, <2>3, <2>4 DEF Following
<1>6. Traced
  BY DEF Traced, TraceMatchesCalls
<1>7. Settling
  <2>1. ~log.limit_warning
    BY <1>2
  <2>. QED
    BY <1>3, <1>5, <2>1, FollowingSettles DEF Settling, Intelligible
<1>. QED
  BY <1>3, <1>4, <1>5, <1>6, <1>7 DEF IInv

LEMMA InvokeStep ==
  ASSUME IInv, invoke
  PROVE  IInv'
<1>. PICK n, d : n = Len(calls) /\ d = Len(stack)
  OBVIOUS
<1>. DEFINE line == runtime_line("invoke", d + 1)
<1>. USE DEF IInv
<1>1. MayInvoke /\ UNCHANGED <<phase, chain, failing, trace>> /\ phase = "running" /\ ~failing
  BY DEF invoke, MayInvoke
<1>2. calls' = Append(calls, invocation("running"))
  BY DEF invoke
<1>3. /\ n \in Nat /\ d \in 0 .. MaxHeight - 1
      /\ calls' \in Seq(Call) /\ Len(calls') = n + 1
      /\ calls'[n + 1] = invocation("running")
      /\ \A c \in 1 .. n : calls'[c] = calls[c]
      /\ Counts'
  BY <1>1, <1>2, Invoked
<1>4. MaxHeight \in Nat /\ d \in Nat /\ d + 1 <= MaxHeight
  BY <1>3, ConstantsAssumption
<1>5. calls'[n + 1].depth = d /\ calls'[n + 1].outcome = "running" /\ ~calls'[n + 1].logged
  BY <1>3 DEF invocation
<1>6. /\ stack' = Append(stack, n + 1) /\ stack' \in Seq(Nat) /\ Len(stack') = d + 1
      /\ stack'[d + 1] = n + 1 /\ \A i \in 1 .. d : stack'[i] = stack[i]
  BY <1>3, AppendProperties DEF Types, invoke
<1>7. line \in Line /\ line.kind = "invoke" /\ line.n = d + 1
  BY <1>4, RuntimeLines DEF Kinds
<1>8. log' = record_line(log, line) /\ log \in Log
  BY DEF invoke, Types
<1>. HIDE DEF line
<1>9. /\ log' \in Log
      /\ ~log'.limit_warning => ~log.limit_warning /\ log'.lines = Append(log.lines, line)
  BY <1>7, <1>8, Recorded
<1>10. Types'
  <2>1. ASSUME NEW i \in 1 .. Len(stack')
        PROVE  /\ stack'[i] \in 1 .. Len(calls') /\ calls'[stack'[i]].depth = i - 1
               /\ calls'[stack'[i]].outcome = "running"
    <3>1. CASE i = d + 1
      BY <3>1, <1>3, <1>4, <1>5, <1>6
    <3>2. CASE i \in 1 .. d
      BY <3>2, <1>3, <1>6 DEF Types
    <3>. QED
      BY <3>1, <3>2, <1>4, <1>6
  <2>2. ASSUME NEW c \in 1 .. Len(calls'), calls'[c].outcome = "running"
        PROVE  \E i \in 1 .. Len(stack') : stack'[i] = c
    <3>1. CASE c = n + 1
      BY <3>1, <1>4, <1>6
    <3>2. CASE c \in 1 .. n
      <4>1. PICK i \in 1 .. d : stack[i] = c
        BY <2>2, <3>2, <1>3 DEF Types
      <4>. QED
        BY <4>1, <1>4, <1>6
    <3>. QED
      BY <3>1, <3>2, <1>3
  <2>3. Len(stack') <= MaxHeight
    BY <1>4, <1>6
  <2>4. \A c \in 1 .. Len(calls') :
          calls'[c].logged => calls'[c].outcome \in {"success", "failed"}
    <3>1. \A c \in 1 .. n : calls[c].logged => calls[c].outcome \in {"success", "failed"}
      BY DEF Types
    <3>2. \A c \in 1 .. n + 1 : c \in 1 .. n \/ c = n + 1
      BY <1>3
    <3>. QED
      BY <3>1, <3>2, <1>3, <1>5
  <2>. QED
    BY <2>1, <2>2, <2>3, <2>4, <1>1, <1>3, <1>6, <1>9 DEF Types
<1>11. Following'
  <2>. SUFFICES ASSUME Intelligible'
                PROVE  \E counter, results :
                         /\ parse_logs(log'.lines) = Parser(OpenCalls', counter, results)
                         /\ Follows(counter, results)'
    BY DEF Following
  <2>1. ~log'.limit_warning /\ Intelligible
    BY <1>9 DEF Intelligible
  <2>2. PICK r : parse_logs(log.lines) = Parser(OpenCalls, n, r) /\ Follows(n, r)
    BY <2>1, <1>1 DEF Following, Follows
  <2>3. parse_logs(log'.lines) = parse_line(Parser(OpenCalls, n, r), line)
    <3>1. log.lines \in Seq(Line) /\ line \in Line
      BY <1>7, <1>8 DEF Log
    <3>2. parse_logs(Append(log.lines, line)) = parse_line(parse_logs(log.lines), line)
      BY <3>1, ParseAppend
    <3>. QED
      BY <2>1, <2>2, <3>2, <1>9
  <2>4. parse_line(Parser(OpenCalls, n, r), line) = Parser(Append(OpenCalls, <<d, n>>), n + 1, r)
    <3>1. line.n \in Nat \ {0} /\ line.n - 1 = d
      BY <1>4, <1>7
    <3>. QED
      BY <3>1, <1>3, <1>7, ParseInvoke
  <2>5. OpenCalls' = Append(OpenCalls, <<d, n>>)
    <3>1. /\ OpenCalls \in Seq(Int \X Int) /\ Len(OpenCalls) = d
          /\ \A i \in 1 .. d : OpenCalls[i] = <<i - 1, stack[i] - 1>>
      BY <1>4, NumberedRow DEF OpenCalls, Types
    <3>2. /\ OpenCalls' \in Seq(Int \X Int) /\ Len(OpenCalls') = d + 1
          /\ \A i \in 1 .. d + 1 : OpenCalls'[i] = <<i - 1, stack'[i] - 1>>
      BY <1>4, <1>6 DEF OpenCalls
    <3>3. <<d, n>> \in Int \X Int
      BY <1>3, <1>4
    <3>4. /\ Append(OpenCalls, <<d, n>>) \in Seq(Int \X Int)
          /\ Len(Append(OpenCalls, <<d, n>>)) = d + 1
          /\ Append(OpenCalls, <<d, n>>)[d + 1] = <<d, n>>
          /\ \A i \in 1 .. d : Append(OpenCalls, <<d, n>>)[i] = OpenCalls[i]
      BY <3>1, <3>3, AppendProperties
    <3>5. ASSUME NEW i \in 1 .. d + 1 PROVE OpenCalls'[i] = Append(OpenCalls, <<d, n>>)[i]
      <4>0. OpenCalls'[i] = <<i - 1, stack'[i] - 1>>
        BY <3>2
      <4>1. CASE i = d + 1
        <5>1. i - 1 = d /\ stack'[i] - 1 = n
          BY <4>1, <1>3, <1>4, <1>6
        <5>2. OpenCalls'[i] = <<d, n>>
          BY <4>0, <5>1
        <5>3. Append(OpenCalls, <<d, n>>)[i] = <<d, n>>
          BY <4>1, <3>4
        <5>. QED
          BY <5>2, <5>3
      <4>2. CASE i \in 1 .. d
        <5>1. OpenCalls[i] = <<i - 1, stack'[i] - 1>>
          BY <4>2, <3>1, <1>6
        <5>2. Append(OpenCalls, <<d, n>>)[i] = OpenCalls[i]
          BY <4>2, <3>4
        <5>3. OpenCalls'[i] = OpenCalls[i]
          BY <4>0, <5>1
        <5>. QED
          BY <5>2, <5>3
      <4>3. i = d + 1 \/ i \in 1 .. d
        BY <1>4
      <4>. QED
        BY <4>1, <4>2, <4>3, Zenon
    <3>. QED
      BY <3>2, <3>4, <3>5, SeqEqual
  <2>6. Follows(n + 1, r)'
    <3>1. \A c \in 1 .. n : Key(c)' = Key(c)
      BY <1>3 DEF Key
    <3>2. Key(n + 1)' \notin {Key(c) : c \in 1 .. n}
      BY <1>3 DEF Key
    <3>3. DOMAIN r \subseteq {Key(c)' : c \in 1 .. n + 1}
      BY <2>2, <3>1, <1>3 DEF Follows
    <3>4. \A c \in 1 .. n + 1 : calls'[c].outcome = "refused" <=> c > n + 1
      BY <2>2, <1>3, <1>5 DEF Follows
    <3>5. ASSUME NEW c \in 1 .. n + 1
          PROVE  /\ calls'[c].outcome = "running" => Key(c)' \notin DOMAIN r
                 /\ calls'[c].outcome # "running" =>
                      /\ Key(c)' \in DOMAIN r
                      /\ r[Key(c)'] =
                           [result |-> IF calls'[c].outcome = "success" THEN 0 ELSE 1,
                            units |-> calls'[c].units]
      <4>1. CASE c = n + 1
        BY <4>1, <2>2, <3>2, <1>5 DEF Follows
      <4>2. CASE c \in 1 .. n
        <5>1. /\ calls[c].outcome = "running" => Key(c) \notin DOMAIN r
              /\ calls[c].outcome # "running" =>
                   /\ Key(c) \in DOMAIN r
                   /\ r[Key(c)] = [result |-> IF calls[c].outcome = "success" THEN 0 ELSE 1,
                                  units |-> calls[c].units]
          BY <4>2, <2>2 DEF Follows
        <5>2. Key(c)' = Key(c) /\ calls'[c] = calls[c]
          BY <4>2, <3>1, <1>3
        <5>. QED
          BY <5>1, <5>2
      <4>. QED
        BY <4>1, <4>2, <1>3
    <3>6. n + 1 \in 0 .. Len(calls') /\ n + 1 = Len(calls')
      BY <1>3
    <3>. QED
      BY <3>3, <3>4, <3>5, <3>6 DEF Follows
  <2>7. parse_logs(log'.lines) = Parser(OpenCalls', n + 1, r)
    BY <2>3, <2>4, <2>5
  <2>. QED
    BY <2>6, <2>7
<1>12. Settling'
  <2>. SUFFICES ASSUME ProgramsWritePlainLines
                PROVE  Settles(calls', parse_logs(log'.lines))
    BY DEF Settling, ProgramsWritePlainLines
  <2>1. Settles(calls, parse_logs(record_line(log, line).lines))
    BY <1>7, <1>8, SettlesRecord DEF Settling, Types
  <2>2. \A c \in 1 .. Len(calls') : calls'[c].logged => c \in 1 .. Len(calls) /\ calls'[c] = calls[c]
    BY <1>3, <1>5
  <2>. QED
    BY <2>1, <2>2, <1>8, SettlesFewer
<1>13. Traced'
  BY <1>1 DEF Traced, TraceMatchesCalls
<1>. QED
  BY <1>3, <1>10, <1>11, <1>12, <1>13

LEMMA RefuseStep ==
  ASSUME IInv, refuse
  PROVE  IInv'
<1>. PICK n, d : n = Len(calls) /\ d = Len(stack)
  OBVIOUS
<1>. USE DEF IInv
<1>1. /\ MayInvoke /\ UNCHANGED <<phase, chain, stack, log, trace>> /\ failing' = TRUE
      /\ phase = "running" /\ ~failing
  BY DEF refuse, MayInvoke
<1>2. calls' = Append(calls, invocation("refused"))
  BY DEF refuse
<1>3. /\ n \in Nat /\ d \in 0 .. MaxHeight - 1
      /\ calls' \in Seq(Call) /\ Len(calls') = n + 1
      /\ calls'[n + 1] = invocation("refused")
      /\ \A c \in 1 .. n : calls'[c] = calls[c]
      /\ Counts'
  BY <1>1, <1>2, Invoked
<1>4. calls'[n + 1].outcome = "refused" /\ ~calls'[n + 1].logged
  BY <1>3 DEF invocation
<1>5. Types'
  <2>1. ASSUME NEW i \in 1 .. Len(stack)
        PROVE  /\ stack[i] \in 1 .. Len(calls') /\ calls'[stack[i]].depth = i - 1
               /\ calls'[stack[i]].outcome = "running"
    BY <1>3 DEF Types
  <2>2. ASSUME NEW c \in 1 .. Len(calls'), calls'[c].outcome = "running"
        PROVE  \E i \in 1 .. Len(stack) : stack[i] = c
    <3>1. c \in 1 .. n
      BY <2>2, <1>3, <1>4
    <3>. QED
      BY <2>2, <3>1, <1>3 DEF Types
  <2>3. \A c \in 1 .. Len(calls') :
          calls'[c].logged => calls'[c].outcome \in {"success", "failed"}
    <3>1. \A c \in 1 .. n : calls[c].logged => calls[c].outcome \in {"success", "failed"}
      BY DEF Types
    <3>2. \A c \in 1 .. n + 1 : c \in 1 .. n \/ c = n + 1
      BY <1>3
    <3>. QED
      BY <3>1, <3>2, <1>3, <1>4
  <2>. QED
    BY <2>1, <2>2, <2>3, <1>1, <1>3 DEF Types
<1>6. Following'
  <2>. SUFFICES ASSUME Intelligible'
                PROVE  \E counter, results :
                         /\ parse_logs(log'.lines) = Parser(OpenCalls', counter, results)
                         /\ Follows(counter, results)'
    BY DEF Following
  <2>1. Intelligible
    BY <1>1 DEF Intelligible
  <2>2. PICK r : parse_logs(log.lines) = Parser(OpenCalls, n, r) /\ Follows(n, r)
    BY <2>1, <1>1 DEF Following, Follows
  <2>3. Follows(n, r)'
    <3>1. \A c \in 1 .. n : Key(c)' = Key(c)
      BY <1>3 DEF Key
    <3>2. DOMAIN r \subseteq {Key(c)' : c \in 1 .. n}
      BY <2>2, <3>1, <1>3 DEF Follows
    <3>3. \A c \in 1 .. n + 1 : calls'[c].outcome = "refused" <=> c > n
      BY <2>2, <1>3, <1>4 DEF Follows
    <3>4. ASSUME NEW c \in 1 .. n
          PROVE  /\ calls'[c].outcome = "running" => Key(c)' \notin DOMAIN r
                 /\ calls'[c].outcome # "running" =>
                      /\ Key(c)' \in DOMAIN r
                      /\ r[Key(c)'] =
                           [result |-> IF calls'[c].outcome = "success" THEN 0 ELSE 1,
                            units |-> calls'[c].units]
      <4>1. /\ calls[c].outcome = "running" => Key(c) \notin DOMAIN r
            /\ calls[c].outcome # "running" =>
                 /\ Key(c) \in DOMAIN r
                 /\ r[Key(c)] = [result |-> IF calls[c].outcome = "success" THEN 0 ELSE 1,
                                units |-> calls[c].units]
        BY <2>2 DEF Follows
      <4>2. Key(c)' = Key(c) /\ calls'[c] = calls[c]
        BY <3>1, <1>3
      <4>. QED
        BY <4>1, <4>2
    <3>5. n \in 0 .. Len(calls')
      BY <1>3
    <3>. QED
      BY <3>2, <3>3, <3>4, <3>5, <1>1, <1>3 DEF Follows
  <2>4. parse_logs(log'.lines) = Parser(OpenCalls', n, r)
    BY <2>2, <1>1 DEF OpenCalls
  <2>. QED
    BY <2>3, <2>4
<1>7. Settling'
  <2>. SUFFICES ASSUME ProgramsWritePlainLines
                PROVE  Settles(calls', parse_logs(log.lines))
    BY <1>1 DEF Settling, ProgramsWritePlainLines
  <2>1. \A c \in 1 .. Len(calls') : calls'[c].logged => c \in 1 .. Len(calls) /\ calls'[c] = calls[c]
    BY <1>3, <1>4
  <2>. QED
    BY <2>1, SettlesFewer DEF Settling
<1>8. Traced'
  BY <1>1 DEF Traced, TraceMatchesCalls
<1>. QED
  BY <1>3, <1>5, <1>6, <1>7, <1>8

(* The parser p has closed the last open call of s, and has its result.    *)
Closed(p, s, c, r, outcome, units) ==
  \E results :
    /\ p = Parser(Front(s), c, results)
    /\ DOMAIN results = DOMAIN r \cup {Last(s)}
    /\ results[Last(s)] = [result |-> IF outcome = "success" THEN 0 ELSE 1, units |-> units]
    /\ \A x \in DOMAIN r : results[x] = r[x]

(* A result, with or without the consumption before it, for a call that    *)
(* had none.                                                               *)
LEMMA ParseReturn ==
  ASSUME NEW s, NEW c \in Nat, NEW r, s # <<>>, Last(s) \notin DOMAIN r,
         NEW outcome \in {"success", "failed"}, NEW metered \in BOOLEAN, NEW units \in Nat,
         metered \/ units = 0,
         NEW p, p = IF metered THEN parse_line(Parser(s, c, r), runtime_line("consumed", units))
                               ELSE Parser(s, c, r)
  PROVE  Closed(parse_line(p, runtime_line(outcome, 0)), s, c, r, outcome, units)
<1>. DEFINE k == Last(s)
            code == IF outcome = "success" THEN 0 ELSE 1
<1>1. /\ runtime_line("consumed", units).kind = "consumed"
      /\ runtime_line("consumed", units).n = units
      /\ runtime_line(outcome, 0).kind = outcome
  BY DEF runtime_line
<1>2. entry(r, k) = [result |-> 0, units |-> 0]
  BY DEF entry
<1>3. PICK q : /\ p = Parser(s, c, q) /\ entry(q, k) = [result |-> 0, units |-> units]
               /\ DOMAIN q \cup {k} = DOMAIN r \cup {k} /\ \A x \in DOMAIN r : x \in DOMAIN q /\ q[x] = r[x]
  <2>1. CASE metered
    <3>. DEFINE e == [entry(r, k) EXCEPT !.units = units]
                q == put(r, k, e)
    <3>1. p = Parser(s, c, q)
      BY <2>1, <1>1, ParseConsumed
    <3>2. e = [result |-> 0, units |-> units]
      BY <1>2
    <3>. HIDE DEF k, e
    <3>3. Extends(q, r, k, e)
      BY PutEntry
    <3>. HIDE DEF q
    <3>. USE <3>3 DEF Extends
    <3>4. entry(q, k) = e
      BY <3>3 DEF entry
    <3>5. \A x \in DOMAIN r : x \in DOMAIN q /\ q[x] = r[x]
      BY <3>3 DEF k
    <3>. QED
      BY <3>1, <3>2, <3>3, <3>4, <3>5
  <2>2. CASE ~metered
    <3>1. p = Parser(s, c, r) /\ units = 0
      BY <2>2
    <3>. QED
      BY <3>1, <1>2
  <2>. QED
    BY <2>1, <2>2
<1>. DEFINE e == [entry(q, k) EXCEPT !.result = code]
            results == put(q, k, e)
<1>4. parse_line(p, runtime_line(outcome, 0)) = Parser(Front(s), c, results)
  BY <1>1, <1>3, ParseResult
<1>5. e = [result |-> code, units |-> units]
  BY <1>3
<1>6. Extends(results, q, k, e)
  <2>. HIDE DEF k, e
  <2>. QED
    BY PutEntry
<1>. HIDE DEF results, e
<1>7. \A x \in DOMAIN r : results[x] = r[x]
  BY <1>3, <1>6 DEF Extends
<1>8. DOMAIN results = DOMAIN r \cup {k} /\ results[k] = [result |-> code, units |-> units]
  BY <1>3, <1>5, <1>6 DEF Extends
<1>. QED
  BY <1>4, <1>7, <1>8 DEF Closed

(* An invocation ends: the call is the one on top of the parser's stack,   *)
(* and gets its result.                                                    *)
LEMMA ReturnStep ==
  ASSUME IInv, NEW outcome \in {"success", "failed"}, NEW metered \in BOOLEAN,
         NEW units \in Units \cup {0}, metered \/ units = 0,
         return(outcome, metered, units)
  PROVE  IInv'
<1>. PICK n, d, top : n = Len(calls) /\ d = Len(stack) /\ top = stack[Len(stack)]
  OBVIOUS
<1>. DEFINE consumed == runtime_line("consumed", units)
            result == runtime_line(outcome, 0)
            l1 == IF metered THEN record_line(log, consumed) ELSE log
            complete == ~log'.limit_warning
<1>. USE DEF IInv
<1>1. /\ stack # <<>> /\ (failing => outcome = "failed")
      /\ UNCHANGED <<phase, chain, trace>>
      /\ stack' = Front(stack) /\ failing' = (outcome = "failed")
      /\ calls' = [calls EXCEPT ![Last(stack)] =
                     [@ EXCEPT !.outcome = outcome, !.metered = metered, !.units = units,
                               !.logged = complete]]
      /\ log' = record_line(l1, result)
  BY DEF return
<1>2. n \in Nat /\ d \in Nat /\ d # 0 /\ d <= MaxHeight /\ MaxHeight \in Nat
      /\ calls \in Seq(Call) /\ stack \in Seq(Nat) /\ DOMAIN calls = 1 .. n
  BY <1>1, LenProperties, ConstantsAssumption DEF Types
<1>3. phase = "running"
  BY <1>1 DEF Types
<1>4. /\ stack' \in Seq(Nat) /\ Len(stack') = d - 1 /\ Last(stack) = top
      /\ \A i \in 1 .. d - 1 : stack'[i] = stack[i]
  <2>1. stack \in Seq(Nat) /\ d \in Nat /\ Len(stack) = d /\ d # 0
    BY <1>2
  <2>2. /\ Front(stack) \in Seq(Nat) /\ Len(Front(stack)) = d - 1
        /\ \A i \in 1 .. d - 1 : Front(stack)[i] = stack[i]
        /\ Last(stack) = stack[d]
    BY <2>1, FrontOf
  <2>. QED
    BY <2>2, <1>1
<1>5. top \in 1 .. n /\ calls[top].depth = d - 1 /\ calls[top].outcome = "running"
  BY <1>2 DEF Types
<1>6. /\ calls' \in Seq(Call) /\ Len(calls') = n
      /\ \A c \in 1 .. n : c # top => calls'[c] = calls[c]
      /\ calls'[top].outcome = outcome /\ calls'[top].units = units
      /\ calls'[top].depth = calls[top].depth /\ calls'[top].logged = complete
  <2>. DEFINE old == calls[top]
              new == [old EXCEPT !.outcome = outcome, !.metered = metered, !.units = units,
                                 !.logged = complete]
  <2>1. old \in Call
    BY <1>2, <1>5, ElementOfSeq
  <2>2. /\ new \in Call /\ new.outcome = outcome /\ new.units = units /\ new.depth = old.depth
        /\ new.logged = complete
    <3>1. complete \in BOOLEAN
      OBVIOUS
    <3>. HIDE DEF complete
    <3>. QED
      BY <2>1, <3>1 DEF Call
  <2>3. calls' = [calls EXCEPT ![top] = new]
    BY <1>1, <1>4
  <2>. HIDE DEF new
  <2>4. calls' \in Seq(Call) /\ Len(calls') = n
    BY <1>2, <1>5, <2>2, <2>3, ExceptSeq
  <2>5. calls'[top] = new /\ \A c \in 1 .. n : c # top => calls'[c] = calls[c]
    BY <1>2, <1>5, <2>3
  <2>. QED
    BY <2>2, <2>4, <2>5
<1>7. \A c \in 1 .. n : calls'[c].depth = calls[c].depth
  BY <1>6
<1>8. units \in Nat
  <2>1. Units \subseteq Nat
    BY ConstantsAssumption
  <2>. QED
    BY <2>1
<1>9. /\ consumed \in Line /\ consumed.kind = "consumed"
      /\ result \in Line /\ result.kind = outcome
  BY <1>8, RuntimeLines DEF Kinds
<1>10. log \in Log
  BY DEF Types
<1>. HIDE DEF consumed, result
<1>11. /\ l1 \in Log
       /\ ~l1.limit_warning =>
            ~log.limit_warning
            /\ l1.lines = IF metered THEN Append(log.lines, consumed) ELSE log.lines
  <2>1. CASE metered
    <3>1. l1 = record_line(log, consumed)
      BY <2>1
    <3>. QED
      BY <2>1, <3>1, <1>9, <1>10, Recorded
  <2>2. CASE ~metered
    BY <2>2, <1>10
  <2>. QED
    BY <2>1, <2>2
<1>. HIDE DEF l1
<1>12. /\ log' \in Log
       /\ ~log'.limit_warning => ~l1.limit_warning /\ log'.lines = Append(l1.lines, result)
  BY <1>1, <1>9, <1>11, Recorded
<1>13. Types'
  <2>1. ASSUME NEW i \in 1 .. Len(stack')
        PROVE  /\ stack'[i] \in 1 .. Len(calls') /\ calls'[stack'[i]].depth = i - 1
               /\ calls'[stack'[i]].outcome = "running"
    <3>1. i \in 1 .. d /\ i # d /\ stack'[i] = stack[i]
      <4>1. i \in 1 .. d - 1
        BY <1>4
      <4>. QED
        BY <4>1, <1>2, <1>4
    <3>2. stack[i] \in 1 .. n /\ calls[stack[i]].depth = i - 1 /\ calls[stack[i]].outcome = "running"
      BY <3>1, <1>2 DEF Types
    <3>3. stack[i] # top
      BY <3>1, <3>2, <1>2, <1>5
    <3>. QED
      BY <3>1, <3>2, <3>3, <1>6
  <2>2. ASSUME NEW c \in 1 .. Len(calls'), calls'[c].outcome = "running"
        PROVE  \E i \in 1 .. Len(stack') : stack'[i] = c
    <3>1. c \in 1 .. n /\ c # top /\ calls'[c] = calls[c]
      BY <2>2, <1>6
    <3>2. PICK i \in 1 .. d : stack[i] = c
      BY <2>2, <3>1, <1>2 DEF Types
    <3>3. i \in 1 .. d - 1
      BY <3>1, <3>2, <1>2
    <3>. QED
      BY <3>2, <3>3, <1>4
  <2>3. Len(stack') <= MaxHeight
    BY <1>2, <1>4
  <2>4. phase' \in {"idle", "running", "done"} /\ chain' \in 0 .. MaxChain /\ failing' \in BOOLEAN
    BY <1>1 DEF Types
  <2>5. phase' # "running" => stack' = <<>>
    BY <1>1, <1>3
  <2>6. ASSUME NEW c \in 1 .. Len(calls'), calls'[c].logged
        PROVE  calls'[c].outcome \in {"success", "failed"}
    <3>1. CASE c = top
      BY <3>1, <1>6
    <3>2. CASE c # top
      BY <2>6, <3>2, <1>6 DEF Types
    <3>. QED
      BY <3>1, <3>2
  <2>. QED
    BY <2>1, <2>2, <2>3, <2>4, <2>5, <2>6, <1>4, <1>6, <1>12 DEF Types
<1>14. Counts'
  <2>1. DOMAIN calls' = 1 .. n
    BY <1>2, <1>5, <1>6, LenProperties
  <2>2. {c \in DOMAIN calls' : calls'[c].depth = 0} = {c \in DOMAIN calls : calls[c].depth = 0}
    BY <2>1, <1>2, <1>7
  <2>3. TopLevelCalls' = TopLevelCalls
    BY <2>2 DEF TopLevelCalls
  <2>. QED
    BY <2>3, <1>1, <1>2, <1>6 DEF Counts
<1>15. Following'
  <2>. SUFFICES ASSUME Intelligible'
                PROVE  \E counter, results :
                         /\ parse_logs(log'.lines) = Parser(OpenCalls', counter, results)
                         /\ Follows(counter, results)'
    BY DEF Following
  <2>1. /\ Intelligible /\ log'.lines = Append(l1.lines, result)
        /\ l1.lines = IF metered THEN Append(log.lines, consumed) ELSE log.lines
    BY <1>11, <1>12 DEF Intelligible
  <2>2. PICK counter, r : parse_logs(log.lines) = Parser(OpenCalls, counter, r) /\ Follows(counter, r)
    BY <2>1 DEF Following
  <2>. DEFINE p == parse_logs(l1.lines)
  <2>3. log.lines \in Seq(Line) /\ l1.lines \in Seq(Line)
    BY <1>10, <1>11 DEF Log
  <2>4. p = IF metered THEN parse_line(Parser(OpenCalls, counter, r), consumed)
                       ELSE Parser(OpenCalls, counter, r)
    <3>1. parse_logs(Append(log.lines, consumed)) = parse_line(parse_logs(log.lines), consumed)
      BY <2>3, <1>9, ParseAppend
    <3>. QED
      BY <2>1, <2>2, <3>1
  <2>5. parse_logs(log'.lines) = parse_line(p, result)
    BY <2>1, <2>3, <1>9, ParseAppend
  <2>. HIDE DEF p
  <2>6. /\ OpenCalls \in Seq(Int \X Int) /\ Len(OpenCalls) = d
        /\ \A i \in 1 .. d : OpenCalls[i] = <<i - 1, stack[i] - 1>>
    BY <1>2, NumberedRow DEF OpenCalls
  <2>7. /\ Front(OpenCalls) \in Seq(Int \X Int) /\ Len(Front(OpenCalls)) = d - 1
        /\ \A i \in 1 .. d - 1 : Front(OpenCalls)[i] = OpenCalls[i]
        /\ Last(OpenCalls) = OpenCalls[d]
    <3>. DEFINE Pairs == Int \X Int
    <3>1. OpenCalls \in Seq(Pairs)
      BY <2>6
    <3>. HIDE DEF Pairs
    <3>2. /\ Front(OpenCalls) \in Seq(Pairs) /\ Len(Front(OpenCalls)) = d - 1
          /\ \A i \in 1 .. d - 1 : Front(OpenCalls)[i] = OpenCalls[i]
          /\ Last(OpenCalls) = OpenCalls[d]
      BY <3>1, <2>6, <1>2, FrontOf
    <3>. QED
      BY <3>2 DEF Pairs
  <2>8. OpenCalls' = Front(OpenCalls)
    <3>1. /\ OpenCalls' \in Seq(Int \X Int) /\ Len(OpenCalls') = d - 1
          /\ \A i \in 1 .. d - 1 : OpenCalls'[i] = <<i - 1, stack'[i] - 1>>
      <4>. DEFINE s == stack'
      <4>1. s \in Seq(Nat) /\ Len(s) = d - 1
        BY <1>4
      <4>2. OpenCalls' = [i \in 1 .. Len(s) |-> <<i - 1, s[i] - 1>>]
        BY DEF OpenCalls
      <4>. HIDE DEF s
      <4>3. /\ OpenCalls' \in Seq(Int \X Int) /\ Len(OpenCalls') = d - 1
            /\ \A i \in 1 .. d - 1 : OpenCalls'[i] = <<i - 1, s[i] - 1>>
        BY <4>1, <4>2, NumberedRow
      <4>. QED
        BY <4>3 DEF s
    <3>2. ASSUME NEW i \in 1 .. d - 1 PROVE OpenCalls'[i] = Front(OpenCalls)[i]
      <4>1. OpenCalls'[i] = <<i - 1, stack[i] - 1>>
        BY <3>1, <1>4
      <4>2. i \in 1 .. d
        BY <1>2
      <4>3. OpenCalls[i] = <<i - 1, stack[i] - 1>>
        BY <2>6, <4>2
      <4>4. Front(OpenCalls)[i] = OpenCalls[i]
        BY <2>7
      <4>. QED
        BY <4>1, <4>3, <4>4
    <3>. QED
      BY <2>7, <3>1, <3>2, SeqEqual
  <2>9. OpenCalls # <<>> /\ Last(OpenCalls) = Key(top)
    <3>1. OpenCalls # <<>>
      BY <2>6, <1>2
    <3>2. OpenCalls[d] = <<d - 1, top - 1>>
      <4>1. d \in 1 .. d /\ stack[d] = top
        BY <1>2
      <4>. QED
        BY <2>6, <4>1
    <3>. QED
      BY <3>1, <3>2, <2>7, <1>5 DEF Key
  <2>10. counter \in Nat /\ counter \in 0 .. n /\ top \in 1 .. counter
    BY <2>2, <1>2, <1>5 DEF Follows
  <2>11. Key(top) \notin DOMAIN r
    BY <2>2, <2>10, <1>5 DEF Follows
  <2>12. PICK results :
           /\ parse_line(p, result) = Parser(Front(OpenCalls), counter, results)
           /\ DOMAIN results = DOMAIN r \cup {Key(top)}
           /\ results[Key(top)] = [result |-> IF outcome = "success" THEN 0 ELSE 1, units |-> units]
           /\ \A x \in DOMAIN r : results[x] = r[x]
    <3>1. Closed(parse_line(p, result), OpenCalls, counter, r, outcome, units)
      BY <2>4, <2>9, <2>10, <2>11, <1>8, ParseReturn DEF consumed, result
    <3>. QED
      BY <3>1, <2>9 DEF Closed
  <2>13. Follows(counter, results)'
    <3>1. \A c \in 1 .. n : Key(c)' = Key(c)
      BY <1>7 DEF Key
    <3>2. DOMAIN results \subseteq {Key(c)' : c \in 1 .. counter}
      <4>1. DOMAIN r \subseteq {Key(c) : c \in 1 .. counter}
        BY <2>2 DEF Follows
      <4>2. \A c \in 1 .. counter : Key(c)' = Key(c)
        BY <2>10, <3>1
      <4>. QED
        BY <4>1, <4>2, <2>10, <2>12
    <3>3. \A c \in 1 .. n : calls'[c].outcome = "refused" <=> c > counter
      <4>1. \A c \in 1 .. n : calls[c].outcome = "refused" <=> c > counter
        BY <2>2, <1>2 DEF Follows
      <4>. QED
        BY <4>1, <1>5, <1>6, <2>10
    <3>4. ASSUME NEW c \in 1 .. counter
          PROVE  /\ calls'[c].outcome = "running" => Key(c)' \notin DOMAIN results
                 /\ calls'[c].outcome # "running" =>
                      /\ Key(c)' \in DOMAIN results
                      /\ results[Key(c)'] =
                           [result |-> IF calls'[c].outcome = "success" THEN 0 ELSE 1,
                            units |-> calls'[c].units]
      <4>0. c \in 1 .. n /\ Key(c)' = Key(c)
        BY <2>10, <3>1
      <4>1. CASE c = top
        BY <4>0, <4>1, <2>12, <1>6
      <4>2. CASE c # top
        <5>1. /\ calls[c].outcome = "running" => Key(c) \notin DOMAIN r
              /\ calls[c].outcome # "running" =>
                   /\ Key(c) \in DOMAIN r
                   /\ r[Key(c)] = [result |-> IF calls[c].outcome = "success" THEN 0 ELSE 1,
                                  units |-> calls[c].units]
          BY <2>2 DEF Follows
        <5>2. calls'[c] = calls[c]
          BY <4>0, <4>2, <1>6
        <5>3. Key(c) # Key(top)
          BY <4>0, <4>2, <1>5 DEF Key
        <5>4. Key(c) \in DOMAIN results <=> Key(c) \in DOMAIN r
          BY <5>3, <2>12
        <5>5. Key(c) \in DOMAIN r => results[Key(c)] = r[Key(c)]
          BY <2>12
        <5>. QED
          BY <4>0, <5>1, <5>2, <5>4, <5>5
      <4>. QED
        BY <4>1, <4>2
    <3>5. counter \in 0 .. Len(calls') /\ (~failing' => counter = Len(calls'))
      <4>1. ~failing' => ~failing
        BY <1>1
      <4>2. ~failing => counter = n
        BY <2>2 DEF Follows
      <4>. QED
        BY <4>1, <4>2, <2>10, <1>6
    <3>6. Len(calls') = n
      BY <1>6
    <3>. QED
      BY <3>2, <3>3, <3>4, <3>5, <3>6 DEF Follows
  <2>. QED
    BY <2>5, <2>8, <2>12, <2>13
<1>16. Settling'
  <2>1. CASE complete
    <3>1. (Types /\ Following /\ Intelligible)' => Settling'
      BY FollowingSettles, PTL
    <3>2. ProgramsWritePlainLines => Intelligible'
      BY <2>1 DEF Intelligible, ProgramsWritePlainLines
    <3>. QED
      BY <1>13, <1>15, <3>1, <3>2 DEF Settling, ProgramsWritePlainLines
  <2>2. CASE ~complete
    <3>. SUFFICES ASSUME ProgramsWritePlainLines
                  PROVE  Settles(calls', parse_logs(log'.lines))
      BY DEF Settling, ProgramsWritePlainLines
    <3>1. Settles(calls, parse_logs(log.lines))
      BY DEF Settling
    <3>2. Settles(calls, parse_logs(l1.lines))
      BY <3>1, <1>2, <1>9, <1>10, SettlesRecord DEF l1
    <3>3. Settles(calls, parse_logs(log'.lines))
      BY <3>2, <1>1, <1>2, <1>9, <1>11, SettlesRecord
    <3>4. \A c \in 1 .. Len(calls') :
            calls'[c].logged => c \in 1 .. Len(calls) /\ calls'[c] = calls[c]
      BY <2>2, <1>6
    <3>. QED
      BY <3>3, <3>4, SettlesFewer
  <2>. QED
    BY <2>1, <2>2
<1>17. Traced'
  BY <1>1, <1>3, <1>6 DEF Traced, TraceMatchesCalls
<1>. QED
  BY <1>13, <1>14, <1>15, <1>16, <1>17

(* A program writes a line: the parser passes over it, unless it looks     *)
(* like a line of the runtime.                                             *)
LEMMA ProgramLogStep ==
  ASSUME IInv, NEW line \in ProgramLines, program_log(line)
  PROVE  IInv'
<1>. USE DEF IInv
<1>1. /\ UNCHANGED <<phase, chain, calls, stack, failing, trace>>
      /\ log' = record_line(log, line)
  BY DEF program_log
<1>2. log \in Log /\ line \in Line
  BY DEF Types, Line
<1>3. /\ log' \in Log
      /\ ~log'.limit_warning => ~log.limit_warning /\ log'.lines = Append(log.lines, line)
  BY <1>1, <1>2, Recorded
<1>4. Types'
  BY <1>1, <1>3 DEF Types
<1>5. Counts'
  BY <1>1 DEF Counts, TopLevelCalls
<1>6. Following'
  <2>. SUFFICES ASSUME Intelligible'
                PROVE  \E counter, results :
                         /\ parse_logs(log'.lines) = Parser(OpenCalls', counter, results)
                         /\ Follows(counter, results)'
    BY DEF Following
  <2>1. Intelligible /\ line.kind = "other" /\ log'.lines = Append(log.lines, line)
    BY <1>3 DEF Intelligible, ProgramsWritePlainLines
  <2>2. PICK counter, r : parse_logs(log.lines) = Parser(OpenCalls, counter, r) /\ Follows(counter, r)
    BY <2>1 DEF Following
  <2>3. log.lines \in Seq(Line)
    BY <1>2 DEF Log
  <2>4. parse_logs(log'.lines) = parse_line(parse_logs(log.lines), line)
    BY <2>1, <2>3, <1>2, ParseAppend
  <2>5. parse_logs(log'.lines) = Parser(OpenCalls, counter, r)
    BY <2>1, <2>2, <2>4, ParseOther
  <2>6. OpenCalls' = OpenCalls
    BY <1>1 DEF OpenCalls
  <2>7. Follows(counter, r)'
    BY <2>2, <1>1 DEF Follows, Key
  <2>. QED
    BY <2>5, <2>6, <2>7
<1>7. Traced'
  <2>. SUFFICES TraceMatchesCalls'
    BY <1>1 DEF Traced
  <2>1. phase # "done"
    <3>1. stack # <<>>
      BY DEF program_log
    <3>. QED
      BY <3>1 DEF Types
  <2>. QED
    BY <2>1, <1>1 DEF TraceMatchesCalls
<1>8. Settling'
  <2>. SUFFICES ASSUME ProgramsWritePlainLines
                PROVE  Settles(calls, parse_logs(log'.lines))
    BY <1>1 DEF Settling, ProgramsWritePlainLines
  <2>. QED
    BY <1>1, <1>2, SettlesRecord DEF Settling, Types
<1>. QED
  BY <1>4, <1>5, <1>6, <1>7, <1>8

LEMMA ExecuteStep ==
  ASSUME NEW n \in 0 .. MaxChain, execute_inner(n)
  PROVE  IInv'
<1>1. phase' \in {"idle", "running"}
  BY DEF execute_inner
<1>2. Fresh'
  BY DEF execute_inner, reset_logger, Fresh
<1>3. (phase \in {"idle", "running"})' /\ Fresh' => IInv'
  BY FreshStart, PTL
<1>. QED
  BY <1>1, <1>2, <1>3

-----------------------------------------------------------------------------
(***************************************************************************)
(* The frames of a chain.                                                  *)
(***************************************************************************)
LEMMA FramesType ==
  ASSUME Types
  PROVE  InstructionFrames \in Seq(0 .. Len(calls))
<1>. DEFINE n == Len(calls)
            top == Positions({0})
            prepared == [i \in 1 .. chain |-> IF i \in DOMAIN top THEN top[i] ELSE 0]
            inner == Positions(1 .. MaxHeight)
<1>1. n \in Nat /\ chain \in Nat
  BY LenProperties, ConstantsAssumption DEF Types
<1>2. top \in Seq(1 .. n) /\ inner \in Seq(1 .. n)
  BY <1>1, PositionsType
<1>. HIDE DEF top, inner, n
<1>3. \A i \in DOMAIN top : top[i] \in 1 .. n
  BY <1>2, ElementOfSeq, LenProperties
<1>4. prepared \in Seq(0 .. n)
  BY <1>1, <1>3
<1>5. inner \in Seq(0 .. n)
  BY <1>1, <1>2
<1>. HIDE DEF prepared
<1>6. prepared \o inner \in Seq(0 .. n)
  BY <1>4, <1>5, ConcatProperties
<1>. QED
  BY <1>6 DEF InstructionFrames, prepared, inner, top, n

(* A set of numbers up to n that has no gaps below its members is an        *)
(* interval.                                                                *)
LEMMA NoGaps ==
  ASSUME NEW n \in Nat, NEW S \in SUBSET (1 .. n),
         \A i \in 1 .. n, j \in S : i < j => i \in S
  PROVE  Cardinality(S) \in 0 .. n /\ S = 1 .. Cardinality(S)
<1>. DEFINE D == {k \in Nat : k <= n => 1 .. k \subseteq S}
<1>1. PICK k \in 0 .. n : S = 1 .. k
  <2>1. CASE Nat \subseteq D
    <3>1. n \in D
      BY <2>1
    <3>2. 1 .. n \subseteq S
      BY <3>1
    <3>3. S = 1 .. n
      BY <3>2
    <3>. QED
      BY <3>3
  <2>2. CASE ~(Nat \subseteq D)
    <3>1. 0 \in D
      OBVIOUS
    <3>2. PICK k \in D \cap Nat : k + 1 \notin D
      <4>. HIDE DEF D
      <4>. QED
        BY <2>2, <3>1, NaturalsInSet
    <3>3. k \in 0 .. n /\ 1 .. k \subseteq S /\ k + 1 \in 1 .. n /\ k + 1 \notin S
      <4>1. k + 1 <= n /\ ~(1 .. k + 1 \subseteq S)
        BY <3>2
      <4>2. 1 .. k \subseteq S
        BY <3>2, <4>1
      <4>3. k + 1 \notin S
        BY <4>1, <4>2, <3>2
      <4>. QED
        BY <4>1, <4>2, <4>3, <3>2
    <3>4. ASSUME NEW i \in S PROVE i \in 1 .. k
      BY <3>3
    <3>. QED
      BY <3>3, <3>4
  <2>. QED
    BY <2>1, <2>2
<1>2. Cardinality(1 .. k) = k
  BY IntervalSize
<1>. QED
  BY <1>1, <1>2

(* The frames are the calls in their order, and empty ones behind them.    *)
LEMMA FramesInOrder ==
  ASSUME Types, Counts, FramesFollowLog
  PROVE  /\ Len(InstructionFrames) \in Nat /\ Len(calls) <= Len(InstructionFrames)
         /\ \A i \in 1 .. Len(InstructionFrames) :
              InstructionFrames[i] = IF i <= Len(calls) THEN i ELSE 0
<1>. DEFINE n == Len(calls)
            top == Positions({0})
            prepared == [i \in 1 .. chain |-> IF i \in DOMAIN top THEN top[i] ELSE 0]
            inner == Positions(1 .. MaxHeight)
<1>1. n \in Nat /\ chain \in Nat /\ MaxHeight \in Nat
  BY LenProperties, ConstantsAssumption DEF Types
<1>2. ASSUME NEW c \in 1 .. n PROVE calls[c].depth \in 0 .. MaxHeight - 1
  <2>1. calls[c] \in Call
    BY ElementOfSeq DEF Types
  <2>. QED
    BY <2>1 DEF Call
<1>3. InstructionFrames = prepared \o inner
  BY DEF InstructionFrames
<1>. SUFFICES ASSUME NEW q \in Nat, q <= chain, q <= n,
                     top \in Seq(Nat), Len(top) = q, \A i \in 1 .. q : top[i] = i,
                     inner \in Seq(Nat), Len(inner) = n - q,
                     \A i \in 1 .. n - q : inner[i] = q + i,
                     chain = q \/ n = q
              PROVE  /\ Len(prepared \o inner) \in Nat /\ n <= Len(prepared \o inner)
                     /\ \A i \in 1 .. Len(prepared \o inner) :
                          (prepared \o inner)[i] = IF i <= n THEN i ELSE 0
  <2>. DEFINE S == {c \in DOMAIN calls : calls[c].depth = 0}
              q == Cardinality(S)
  <2>1. S \in SUBSET (1 .. n) /\ DOMAIN calls = 1 .. n
    BY LenProperties DEF Types
  <2>2. \A i \in 1 .. n, j \in S : i < j => i \in S
    BY <2>1 DEF FramesFollowLog
  <2>3. q \in 0 .. n /\ S = 1 .. q
    <3>. HIDE DEF S, n
    <3>. QED
      BY <1>1, <2>1, <2>2, NoGaps
  <2>4. q <= chain
    BY DEF Counts, TopLevelCalls
  <2>5. chain = q \/ n = q
    <3>1. CASE \A i \in DOMAIN calls : calls[i].depth = 0
      <4>1. S = 1 .. n
        BY <2>1, <3>1
      <4>. QED
        BY <4>1, <1>1, IntervalSize
    <3>2. CASE TopLevelCalls = chain
      BY <3>2 DEF TopLevelCalls
    <3>. QED
      BY <3>1, <3>2 DEF FramesFollowLog
  <2>. HIDE DEF q
  <2>6. \A c \in 1 .. n : calls[c].depth = 0 <=> c <= q
    <3>1. \A c \in 1 .. n : calls[c].depth = 0 <=> c \in S
      BY <2>1
    <3>. HIDE DEF S
    <3>. QED
      BY <1>1, <2>3, <3>1
  <2>. HIDE DEF S
  <2>7. \A c \in 1 .. Len(calls) : calls[c].depth \in {0} <=> 0 < c /\ c <= q
    BY <1>1, <2>6
  <2>8. \A c \in 1 .. Len(calls) : calls[c].depth \in 1 .. MaxHeight <=> q < c /\ c <= n
    BY <1>1, <1>2, <2>3, <2>6
  <2>9. Between(0, q, top) /\ Between(q, n, inner)
    BY <1>1, <2>3, <2>7, <2>8, PositionsFrom
  <2>10. /\ q \in Nat /\ q <= n
         /\ top \in Seq(Nat) /\ Len(top) = q /\ \A i \in 1 .. q : top[i] = i
    BY <2>3, <2>9 DEF Between
  <2>11. inner \in Seq(Nat) /\ Len(inner) = n - q /\ \A i \in 1 .. n - q : inner[i] = q + i
    BY <2>9 DEF Between
  <2>. HIDE DEF top, inner, prepared
  <2>. QED
    BY <1>3, <2>4, <2>5, <2>10, <2>11
<1>. HIDE DEF top, inner, n
<1>4. DOMAIN top = 1 .. q
  BY LenProperties
<1>5. /\ prepared \in Seq(Nat) /\ Len(prepared) = chain
      /\ \A i \in 1 .. chain : prepared[i] = IF i <= q THEN i ELSE 0
  BY <1>1, <1>4
<1>. HIDE DEF prepared
<1>6. /\ Len(prepared \o inner) = chain + (n - q)
      /\ \A i \in 1 .. chain + (n - q) :
           (prepared \o inner)[i] = IF i <= chain THEN prepared[i] ELSE inner[i - chain]
  <2>1. inner \in Seq(Nat) /\ Len(inner) = n - q
    OBVIOUS
  <2>2. /\ Len(prepared \o inner) = Len(prepared) + Len(inner)
        /\ \A i \in 1 .. Len(prepared) + Len(inner) :
             (prepared \o inner)[i] =
               IF i <= Len(prepared) THEN prepared[i] ELSE inner[i - Len(prepared)]
    BY <2>1, <1>5, ConcatProperties
  <2>. QED
    BY <2>1, <2>2, <1>5
<1>7. CASE chain = q
  <2>1. Len(prepared \o inner) = n
    BY <1>1, <1>6, <1>7
  <2>2. ASSUME NEW i \in 1 .. n PROVE (prepared \o inner)[i] = i
    <3>1. i <= q => prepared[i] = i
      BY <1>5, <1>7
    <3>2. ~(i <= q) => i - q \in 1 .. n - q /\ q + (i - q) = i
      BY <1>1
    <3>. QED
      BY <1>1, <1>6, <1>7, <3>1, <3>2
  <2>. QED
    BY <1>1, <2>1, <2>2
<1>8. CASE n = q
  <2>1. Len(prepared \o inner) = chain
    BY <1>1, <1>6, <1>8
  <2>2. \A i \in 1 .. chain : (prepared \o inner)[i] = IF i <= q THEN i ELSE 0
    BY <1>1, <1>5, <1>6, <1>8
  <2>. QED
    BY <1>1, <1>8, <2>1, <2>2
<1>. QED
  BY <1>7, <1>8

(* The call is over: it gets its trace. *)
LEMMA FinishStep ==
  ASSUME IInv, finish
  PROVE  IInv'
<1>. DEFINE frames == InstructionFrames
            n == Len(calls)
            level(c) == IF c = 0 THEN 0 ELSE calls[c].depth
            found(r, i) == entry(r, <<level(frames[i]), i - 1>>)
<1>. USE DEF IInv
<1>1. /\ phase' = "done" /\ phase = "running" /\ stack = <<>>
      /\ UNCHANGED <<chain, calls, stack, failing, log>>
      /\ trace' = extract_execution_trace(frames, log.lines)
  BY DEF finish, drain_logs
<1>2. /\ DOMAIN trace' = DOMAIN frames
      /\ \A i \in DOMAIN frames :
           /\ trace'[i].call = frames[i] /\ trace'[i].stack_depth = level(frames[i])
           /\ trace'[i].result = found(parse_log_results(log.lines), i).result
           /\ trace'[i].units = found(parse_log_results(log.lines), i).units
  <2>. HIDE DEF frames
  <2>. QED
    BY <1>1 DEF extract_execution_trace
<1>3. n \in Nat /\ DOMAIN calls = 1 .. n
  BY LenProperties DEF Types
<1>4. frames \in Seq(0 .. n)
  BY FramesType
<1>5. Types'
  BY <1>1 DEF Types
<1>6. Counts'
  BY <1>1 DEF Counts, TopLevelCalls
<1>7. Following'
  BY <1>1 DEF Following, Follows, Key, OpenCalls, Intelligible
<1>8. Traced'
  <2>1. \A i \in DOMAIN trace' : trace'[i].call \in 0 .. n
    <3>. HIDE DEF frames
    <3>1. DOMAIN frames = 1 .. Len(frames)
      BY <1>4, LenProperties
    <3>2. \A i \in 1 .. Len(frames) : frames[i] \in 0 .. n
      BY <1>4, ElementOfSeq
    <3>. QED
      BY <1>2, <3>1, <3>2
  <2>2. TraceMatchesCalls'
    <3>. SUFFICES ASSUME ProgramsWritePlainLines, FramesFollowLog, NEW c \in 1 .. n
                  PROVE  /\ c \in DOMAIN trace'
                         /\ \A j \in DOMAIN trace' : trace'[j].call = c <=> j = c
                         /\ trace'[c].stack_depth = calls[c].depth
                         /\ calls[c].logged =>
                              /\ trace'[c].result = 0 <=> calls[c].outcome = "success"
                              /\ trace'[c].units = calls[c].units
      BY <1>1, <1>3 DEF TraceMatchesCalls, ProgramsWritePlainLines, FramesFollowLog, TopLevelCalls
    <3>1. /\ Len(frames) \in Nat /\ n <= Len(frames) /\ DOMAIN frames = 1 .. Len(frames)
          /\ \A i \in 1 .. Len(frames) : frames[i] = IF i <= n THEN i ELSE 0
      BY <1>4, FramesInOrder, LenProperties
    <3>. HIDE DEF frames
    <3>2. c \in DOMAIN frames /\ frames[c] = c /\ level(c) = calls[c].depth
      BY <1>3, <3>1
    <3>3. \A j \in DOMAIN frames : frames[j] = c <=> j = c
      BY <1>3, <3>1
    <3>4. ASSUME calls[c].logged
          PROVE  /\ trace'[c].result = 0 <=> calls[c].outcome = "success"
                 /\ trace'[c].units = calls[c].units
      <4>1. PICK s, counter, r :
              parse_logs(log.lines) = Parser(s, counter, r) /\ Settled(calls, s, counter, r)
        BY DEF Settling, Settles
      <4>2. parse_log_results(log.lines) = r
        BY <4>1 DEF parse_log_results, Parser
      <4>3. /\ Key(c) \in DOMAIN r
            /\ r[Key(c)] = [result |-> IF calls[c].outcome = "success" THEN 0 ELSE 1,
                            units |-> calls[c].units]
        BY <3>4, <4>1 DEF Settled, Key
      <4>4. found(r, c) = r[Key(c)]
        BY <3>2, <4>3 DEF entry, Key
      <4>. QED
        BY <1>2, <3>2, <4>2, <4>3, <4>4
    <3>. QED
      BY <1>2, <3>2, <3>3, <3>4
  <2>. QED
    BY <1>1, <2>1, <2>2 DEF Traced
<1>9. Settling'
  BY <1>1 DEF Settling, ProgramsWritePlainLines
<1>. QED
  BY <1>5, <1>6, <1>7, <1>8, <1>9

-----------------------------------------------------------------------------
LEMMA Stutter ==
  ASSUME IInv, UNCHANGED vars
  PROVE  IInv'
<1>0. UNCHANGED <<phase, chain, calls, stack, failing, log, trace>>
  BY DEF vars
<1>. USE <1>0 DEF IInv
<1>1. Types'
  BY DEF Types
<1>2. Counts'
  BY DEF Counts, TopLevelCalls
<1>3. Following'
  <2>. SUFFICES ASSUME Intelligible'
                PROVE  \E counter, results :
                         /\ parse_logs(log'.lines) = Parser(OpenCalls', counter, results)
                         /\ Follows(counter, results)'
    BY DEF Following
  <2>1. Intelligible /\ OpenCalls' = OpenCalls
    BY DEF Intelligible, OpenCalls
  <2>2. PICK counter, r : parse_logs(log.lines) = Parser(OpenCalls, counter, r) /\ Follows(counter, r)
    BY <2>1 DEF Following
  <2>3. Follows(counter, r)'
    BY <2>2 DEF Follows, Key
  <2>. QED
    BY <2>1, <2>2, <2>3
<1>4. Settling'
  BY DEF Settling, ProgramsWritePlainLines
<1>5. Traced'
  BY DEF Traced, TraceMatchesCalls, ProgramsWritePlainLines, FramesFollowLog, TopLevelCalls
<1>. QED
  BY <1>1, <1>2, <1>3, <1>4, <1>5

LEMMA Invariance == Spec => []IInv
<1>1. Init => IInv
  <2>. SUFFICES ASSUME Init PROVE phase \in {"idle", "running"} /\ Fresh
    BY FreshStart
  <2>. QED
    BY ConstantsAssumption DEF Init, Fresh
<1>2. IInv /\ [Next]_vars => IInv'
  <2>. SUFFICES ASSUME IInv, [Next]_vars PROVE IInv'
    OBVIOUS
  <2>1. ASSUME NEW n \in 0 .. MaxChain, execute_inner(n) PROVE IInv'
    BY <2>1, ExecuteStep
  <2>2. CASE invoke
    BY <2>2, InvokeStep
  <2>3. CASE refuse
    BY <2>3, RefuseStep
  <2>4. ASSUME NEW outcome \in {"success", "failed"}, NEW units \in Units,
               return(outcome, TRUE, units)
        PROVE  IInv'
    <3>1. units \in Units \cup {0} /\ TRUE \in BOOLEAN /\ (TRUE \/ units = 0)
      OBVIOUS
    <3>. QED
      BY <2>4, <3>1, ReturnStep
  <2>5. ASSUME NEW outcome \in {"success", "failed"}, return(outcome, FALSE, 0)
        PROVE  IInv'
    <3>1. 0 \in Units \cup {0} /\ FALSE \in BOOLEAN /\ (FALSE \/ 0 = 0)
      OBVIOUS
    <3>. QED
      BY <2>5, <3>1, ReturnStep
  <2>6. ASSUME NEW line \in ProgramLines, program_log(line) PROVE IInv'
    BY <2>6, ProgramLogStep
  <2>7. CASE finish
    BY <2>7, FinishStep
  <2>8. CASE UNCHANGED vars
    BY <2>8, Stutter
  <2>. QED
    BY <2>1, <2>2, <2>3, <2>4, <2>5, <2>6, <2>7, <2>8 DEF Next
<1>. QED
  BY <1>1, <1>2, PTL DEF Spec

(* The variables keep their types, the open invocations lie inside each    *)
(* other, level by level, and a chain stays within its bound.              *)
THEOREM TypesKept == Spec => []TypeOK
<1>1. IInv => TypeOK
  <2>. SUFFICES ASSUME IInv PROVE TypeOK
    OBVIOUS
  <2>. USE DEF IInv
  <2>1. calls \in Seq(Call) /\ Len(calls) \in Nat /\ DOMAIN calls = 1 .. Len(calls)
        /\ DOMAIN stack = 1 .. Len(stack)
    BY LenProperties DEF Types
  <2>2. \A i \in DOMAIN calls : calls[i] \in Call
    BY <2>1, ElementOfSeq
  <2>3. Len(calls) <= MaxCalls
    <3>1. chain \in Nat /\ MaxCalls \in Nat
      BY ConstantsAssumption DEF Types
    <3>. QED
      BY <2>1, <3>1 DEF Counts
  <2>4. ASSUME NEW i \in DOMAIN log.lines PROVE log.lines[i].kind \in Kinds
    <3>1. log.lines[i] \in Line
      BY ElementOfSeq, LenProperties DEF Types, Log
    <3>2. CASE log.lines[i] \in ProgramLines
      BY <3>2, ConstantsAssumption
    <3>3. CASE log.lines[i] \in [kind : Kinds, n : Nat, bytes : Nat]
      BY <3>3
    <3>. QED
      BY <3>1, <3>2, <3>3 DEF Line
  <2>5. \A i \in DOMAIN stack : stack[i] \in DOMAIN calls /\ calls[stack[i]].depth = i - 1
    BY <2>1 DEF Types
  <2>6. \A i \in DOMAIN trace : trace[i].call \in 0 .. Len(calls)
    BY DEF Traced
  <2>7. phase \in {"idle", "running", "done"} /\ chain \in 0 .. MaxChain /\ failing \in BOOLEAN
    BY DEF Types
  <2>. QED
    BY <2>2, <2>3, <2>4, <2>5, <2>6, <2>7 DEF TypeOK, Call
<1>. QED
  BY <1>1, Invariance, PTL

(* The parser, stopped anywhere in a complete log of well-behaved          *)
(* programs, has exactly the running invocations on its stack.             *)
THEOREM ParserFollowsStackAlways == Spec => []ParserFollowsStack
<1>1. IInv => ParserFollowsStack
  <2>. SUFFICES ASSUME IInv, Intelligible
                PROVE  parse_logs(log.lines).stack = [i \in DOMAIN stack |-> <<i - 1, stack[i] - 1>>]
    BY DEF ParserFollowsStack
  <2>1. PICK counter, r : parse_logs(log.lines) = Parser(OpenCalls, counter, r)
    BY DEF IInv, Following
  <2>2. parse_logs(log.lines).stack = OpenCalls
    BY <2>1 DEF Parser
  <2>3. DOMAIN stack = 1 .. Len(stack)
    BY LenProperties DEF IInv, Types
  <2>. QED
    BY <2>2, <2>3 DEF OpenCalls
<1>. QED
  BY <1>1, Invariance, PTL

(* Every executed call is in the trace once, with its level, its result    *)
(* and its units, in the chains whose frames are in the order of the log.  *)
THEOREM TraceMatchesCallsAlways == Spec => []TraceMatchesCalls
<1>1. IInv => TraceMatchesCalls
  BY DEF IInv, Traced
<1>. QED
  BY <1>1, Invariance, PTL

=============================================================================
