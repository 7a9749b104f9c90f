--------------------------- MODULE Conversions_proofs ---------------------------
(***************************************************************************)
(* What the conversions do with texts of every length: completion lists,   *)
(* the elements of a URI, and paths.  A loop over a text is a recursive    *)
(* function; what it has at each place is proved by induction over the     *)
(* places, with the set of those where it holds.                           *)
(***************************************************************************)
EXTENDS Conversions, Integers, SequenceTheorems, FiniteSetTheorems, WellFoundedInduction,
        TLAPS

(* A set of natural numbers has a smallest one.                            *)
LEMMA Least ==
  ASSUME NEW S \in SUBSET Nat, S # {}
  PROVE  \E m \in S : \A n \in S : m <= n
<1> DEFINE R == {pair \in Nat \X Nat : pair[1] < pair[2]}
<1>1. IsWellFoundedOn(R, Nat)
  BY NatLessThanWellFounded DEF OpToRel
<1>2. PICK m \in S : \A n \in S : <<n, m>> \notin R
  <2> HIDE DEF R
  <2>1. \E m \in S : \A n \in S : ~ (<<n, m>> \in R)
    BY <1>1, WFMin
  <2> QED
    BY <2>1
<1>3. ASSUME NEW n \in S PROVE m <= n
  <2>1. ~ (<<n, m>> \in R) /\ m \in Nat /\ n \in Nat
    BY <1>2
  <2> QED
    BY <2>1
<1> QED
  BY <1>3

(* Induction: a set with 0 and the successor of each of its numbers has    *)
(* them all.                                                               *)
LEMMA Induct ==
  ASSUME NEW S \in SUBSET Nat, 0 \in S, \A n \in S : n + 1 \in S
  PROVE  S = Nat
<1> SUFFICES ASSUME Nat \ S # {} PROVE FALSE
  OBVIOUS
<1>1. PICK m \in Nat \ S : \A n \in Nat \ S : m <= n
  BY Least
<1>2. m - 1 \in S
  BY <1>1
<1> QED
  BY <1>1, <1>2

(* The same for the rounds of a loop that has N of them.                   *)
LEMMA UpTo ==
  ASSUME NEW N \in Nat, NEW P \in SUBSET (0 .. N), 0 \in P,
         \A i \in 1 .. N : i - 1 \in P => i \in P
  PROVE  P = 0 .. N
<1> DEFINE M == {n \in Nat : n <= N => n \in P}
<1>1. ASSUME NEW n \in M PROVE n + 1 \in M
  <2>1. n \in Nat /\ n + 1 \in Nat /\ (n <= N => n \in P)
    OBVIOUS
  <2>2. ASSUME n + 1 <= N PROVE n + 1 \in P
    <3>1. n + 1 \in 1 .. N /\ (n + 1) - 1 = n /\ n <= N
      BY <2>1, <2>2
    <3>2. (n + 1) - 1 \in P
      BY <2>1, <3>1
    <3> QED
      BY <3>1, <3>2
  <2> QED
    BY <2>1, <2>2
<1>2. M = Nat
  <2>1. M \in SUBSET Nat /\ 0 \in M
    OBVIOUS
  <2> HIDE DEF M
  <2> QED
    BY <1>1, <2>1, Induct
<1>3. ASSUME NEW i \in 0 .. N PROVE i \in P
  <2>1. i \in M /\ i <= N
    BY <1>2
  <2> QED
    BY <2>1
<1> QED
  BY <1>3

(* A loop that starts from base and goes through N rounds, each of which   *)
(* brings a value of S to another one.                                     *)
Brings(G, S, N) == G \in [S \X (1 .. N) -> S]
Runs(f, base, S, N, G) ==
  f \in [0 .. N -> S] /\ f[0] = base /\ \A i \in 1 .. N : f[i] = G[<<f[i - 1], i>>]

LEMMA Rounds ==
  ASSUME NEW S, NEW base \in S, NEW N \in Nat, NEW G, Brings(G, S, N)
  PROVE  \E f : Runs(f, base, S, N, G)
<1> USE DEF Brings
<1> DEFINE Sol(f, n) == f[0] = base /\ \A i \in 1 .. n : f[i] = G[<<f[i - 1], i>>]
           P == {n \in 0 .. N : \E f \in [0 .. n -> S] : Sol(f, n)}
<1>1. 0 \in P
  <2>1. [i \in 0 .. 0 |-> base] \in [0 .. 0 -> S] /\ Sol([i \in 0 .. 0 |-> base], 0)
    OBVIOUS
  <2> HIDE DEF Sol
  <2> QED
    BY <2>1
<1>2. ASSUME NEW m \in 1 .. N, m - 1 \in P PROVE m \in P
  <2>1. PICK f \in [0 .. m - 1 -> S] : Sol(f, m - 1)
    BY <1>2
  <2>2. /\ m \in Nat /\ m - 1 \in Nat /\ m - 1 \in 0 .. m - 1 /\ ~ (m <= m - 1)
        /\ 0 \in 0 .. m /\ m \in 0 .. m /\ 0 <= m - 1 /\ 0 \in 0 .. m - 1
    OBVIOUS
  <2> DEFINE g == [i \in 0 .. m |-> IF i <= m - 1 THEN f[i] ELSE G[<<f[m - 1], m>>]]
  <2>3. G[<<f[m - 1], m>>] \in S
    BY <2>1, <2>2
  <2>4. g \in [0 .. m -> S]
    <3>1. ASSUME NEW i \in 0 .. m
          PROVE  (IF i <= m - 1 THEN f[i] ELSE G[<<f[m - 1], m>>]) \in S
      <4>1. CASE i <= m - 1
        <5>1. i \in 0 .. m - 1
          BY <4>1
        <5> QED
          BY <4>1, <5>1
      <4> QED
        BY <2>3, <4>1
    <3> QED
      BY <3>1
  <2>5. ASSUME NEW i \in 1 .. m PROVE g[i] = G[<<g[i - 1], i>>]
    <3>1. i - 1 \in 0 .. m /\ i - 1 <= m - 1
      OBVIOUS
    <3>2. g[i - 1] = f[i - 1]
      BY <3>1
    <3>3. CASE i = m
      <4>1. g[m] = G[<<f[m - 1], m>>]
        BY <2>2
      <4> QED
        BY <3>2, <3>3, <4>1
    <3>4. CASE i # m
      <4>1. i \in 1 .. m - 1 /\ i \in 0 .. m /\ i <= m - 1
        BY <3>4
      <4>2. g[i] = f[i]
        BY <4>1
      <4> QED
        BY <2>1, <3>2, <4>1, <4>2
    <3> QED
      BY <3>3, <3>4
  <2>6. g[0] = base
    <3>1. g[0] = f[0]
      BY <2>2
    <3> QED
      BY <2>1, <3>1
  <2> HIDE DEF g
  <2>7. Sol(g, m)
    BY <2>5, <2>6
  <2>8. m \in 0 .. N
    OBVIOUS
  <2> QED
    BY <2>4, <2>7, <2>8
<1>3. P = 0 .. N
  <2>1. P \in SUBSET (0 .. N)
    OBVIOUS
  <2> HIDE DEF P
  <2> QED
    BY <1>1, <1>2, <2>1, UpTo
<1>4. N \in P
  <2>1. N \in 0 .. N
    OBVIOUS
  <2> HIDE DEF P
  <2> QED
    BY <1>3, <2>1
<1>5. PICK f \in [0 .. N -> S] : Sol(f, N)
  BY <1>4
<1> QED
  BY <1>5 DEF Runs

-----------------------------------------------------------------------------
(* Completion                                                              *)

(* How many characters of the pattern are matched after each of the text.  *)
Count(count, c, w) ==
  IF count < Len(w) /\ char_equal_case_insensitive(c, w[count + 1]) THEN count + 1 ELSE count
Matched(f, t, w) ==
  /\ f \in [0 .. Len(t) -> Nat]
  /\ f[0] = 0
  /\ \A i \in 1 .. Len(t) : f[i] = Count(f[i - 1], t[i], w)

LEMMA MatchedDef ==
  ASSUME NEW t, Len(t) \in Nat, NEW w
  PROVE  \E f : Matched(f, t, w) /\ string_fuzzy_match(t, w) = (f[Len(t)] = Len(w))
<1> DEFINE Rec(f) == f = [i \in 0 .. Len(t) |-> IF i = 0 THEN 0 ELSE Count(f[i - 1], t[i], w)]
           F == CHOOSE f : Rec(f)
           G == [p \in Nat \X (1 .. Len(t)) |-> Count(p[1], t[p[2]], w)]
<1>0. ASSUME NEW count \in Nat, NEW i \in 1 .. Len(t) PROVE Count(count, t[i], w) \in Nat
  BY DEF Count
<1>1. Brings(G, Nat, Len(t))
  BY <1>0 DEF Brings
<1>2. PICK f : Runs(f, 0, Nat, Len(t), G)
  <2> HIDE DEF G
  <2>1. 0 \in Nat /\ Len(t) \in Nat
    OBVIOUS
  <2> QED
    BY <1>1, <2>1, Rounds, Zenon
<1>3. ASSUME NEW i \in 1 .. Len(t) PROVE f[i] = Count(f[i - 1], t[i], w)
  <2>1. f[i - 1] \in Nat
    BY <1>2 DEF Runs
  <2> QED
    BY <1>2, <2>1 DEF Runs
<1>4. Rec(f)
  <2>1. ASSUME NEW i \in 0 .. Len(t)
        PROVE  f[i] = IF i = 0 THEN 0 ELSE Count(f[i - 1], t[i], w)
    <3>1. i # 0 => i \in 1 .. Len(t)
      OBVIOUS
    <3>2. f[0] = 0
      BY <1>2 DEF Runs
    <3> QED
      BY <1>3, <3>1, <3>2
  <2>2. f = [i \in 0 .. Len(t) |-> f[i]]
    BY <1>2 DEF Runs
  <2> QED
    BY <2>1, <2>2
<1>5. Rec(F)
  BY <1>4, Zenon
<1>6. string_fuzzy_match(t, w) = (F[Len(t)] = Len(w))
  BY DEF string_fuzzy_match, Count
<1>7. /\ F[0] = 0
      /\ \A i \in 1 .. Len(t) : F[i] = Count(F[i - 1], t[i], w)
      /\ F = [i \in 0 .. Len(t) |-> F[i]]
  <2>1. ASSUME NEW g, Rec(g)
        PROVE  /\ g[0] = 0
               /\ \A i \in 1 .. Len(t) : g[i] = Count(g[i - 1], t[i], w)
               /\ g = [i \in 0 .. Len(t) |-> g[i]]
    <3>1. \A i \in 0 .. Len(t) : g[i] = IF i = 0 THEN 0 ELSE Count(g[i - 1], t[i], w)
      BY <2>1, Zenon
    <3>2. 0 \in 0 .. Len(t) /\ \A i \in 1 .. Len(t) : i \in 0 .. Len(t) /\ i # 0
      OBVIOUS
    <3>3. DOMAIN g = 0 .. Len(t)
      BY <2>1, Zenon
    <3>4. g = [i \in 0 .. Len(t) |-> g[i]]
      BY <2>1, Zenon
    <3> QED
      BY <3>1, <3>2, <3>4, Zenon
  <2> HIDE DEF F, Rec
  <2> QED
    BY <1>5, <2>1
<1> HIDE DEF F
<1>8. F \in [0 .. Len(t) -> Nat]
  <2> DEFINE P == {i \in 0 .. Len(t) : F[i] \in Nat}
  <2>1. 0 \in P
    <3>1. 0 \in 0 .. Len(t) /\ 0 \in Nat
      OBVIOUS
    <3> QED
      BY <1>7, <3>1
  <2>2. ASSUME NEW i \in 1 .. Len(t), i - 1 \in P PROVE i \in P
    <3>1. F[i - 1] \in Nat /\ i \in 0 .. Len(t)
      BY <2>2
    <3>2. F[i] = Count(F[i - 1], t[i], w)
      BY <1>7
    <3> QED
      BY <1>0, <3>1, <3>2
  <2>3. P = 0 .. Len(t)
    <3>1. P \in SUBSET (0 .. Len(t)) /\ Len(t) \in Nat
      OBVIOUS
    <3> HIDE DEF P
    <3> QED
      BY <2>1, <2>2, <3>1, UpTo
  <2>4. ASSUME NEW i \in 0 .. Len(t) PROVE F[i] \in Nat
    BY <2>3
  <2> QED
    BY <1>7, <2>4
<1> QED
  BY <1>6, <1>7, <1>8 DEF Matched

(* A longer word matches less: what it matches, its beginnings match.      *)
LEMMA Shorter ==
  ASSUME NEW t, Text(t), NEW w, Text(w), NEW n \in 0 .. Len(w), string_fuzzy_match(t, w)
  PROVE  string_fuzzy_match(t, SubSeq(w, 1, n))
<1> DEFINE v == SubSeq(w, 1, n)
<1>1. /\ Len(t) \in Nat /\ Len(w) \in Nat /\ n \in Nat /\ n <= Len(w)
      /\ Len(v) = n /\ \A i \in 1 .. n : v[i] = w[i]
  BY DEF Text
<1> HIDE DEF v
<1>2. PICK f : Matched(f, t, w) /\ string_fuzzy_match(t, w) = (f[Len(t)] = Len(w))
  BY <1>1, MatchedDef
<1>3. PICK g : Matched(g, t, v) /\ string_fuzzy_match(t, v) = (g[Len(t)] = Len(v))
  BY <1>1, MatchedDef
<1> DEFINE P == {i \in 0 .. Len(t) : g[i] = IF f[i] <= n THEN f[i] ELSE n}
<1>4. 0 \in P
  BY <1>1, <1>2, <1>3 DEF Matched
<1>5. ASSUME NEW i \in 1 .. Len(t), i - 1 \in P PROVE i \in P
  <2>1. /\ f[i] = Count(f[i - 1], t[i], w) /\ f[i - 1] \in Nat
        /\ g[i] = Count(g[i - 1], t[i], v) /\ g[i - 1] \in Nat
        /\ i \in 0 .. Len(t)
    BY <1>1, <1>2, <1>3 DEF Matched
  <2>2. g[i - 1] = IF f[i - 1] <= n THEN f[i - 1] ELSE n
    BY <1>5
  <2>3. CASE f[i - 1] < n
    <3>1. g[i - 1] = f[i - 1] /\ f[i - 1] + 1 \in 1 .. n /\ f[i - 1] < Len(w)
      BY <1>1, <2>1, <2>2, <2>3
    <3>2. v[f[i - 1] + 1] = w[f[i - 1] + 1]
      BY <1>1, <3>1
    <3>3. g[i] = f[i]
      BY <1>1, <2>1, <2>3, <3>1, <3>2 DEF Count
    <3>4. f[i] <= n
      BY <1>1, <2>1, <2>3 DEF Count
    <3> QED
      BY <2>1, <3>3, <3>4
  <2>4. CASE f[i - 1] >= n
    <3>1. g[i - 1] = n
      BY <1>1, <2>1, <2>2, <2>4
    <3>2. g[i] = n
      BY <1>1, <2>1, <3>1 DEF Count
    <3>3. f[i] >= n /\ f[i] \in Nat
      BY <1>1, <2>1, <2>4 DEF Count
    <3> QED
      BY <1>1, <2>1, <3>2, <3>3
  <2> QED
    BY <1>1, <2>1, <2>3, <2>4
<1>6. P = 0 .. Len(t)
  <2>1. P \in SUBSET (0 .. Len(t))
    OBVIOUS
  <2> HIDE DEF P
  <2> QED
    BY <1>1, <1>4, <1>5, <2>1, UpTo
<1>7. g[Len(t)] = n
  <2>1. Len(t) \in P
    BY <1>1, <1>6
  <2>2. f[Len(t)] = Len(w)
    BY <1>2
  <2> QED
    BY <1>1, <2>1, <2>2
<1> QED
  BY <1>1, <1>3, <1>7 DEF v

LEMMA MatchesShorter ==
  ASSUME NEW result \in Range(Results), NEW w, Text(w), NEW n \in 0 .. Len(w),
         Matches(result, w)
  PROVE  Matches(result, SubSeq(w, 1, n))
BY ResultsAssumption, Shorter DEF Matches

(* The list after each result.                                             *)
Taken(list, result, start) ==
  IF /\ Len(list) < completion_results_max
     /\ result.priority <= completion_priority_max
     /\ filter_pass(result, start)
  THEN Append(list, result) ELSE list
Passed(p, start) ==
  /\ p \in [0 .. Len(Results) -> Seq(Range(Results))]
  /\ p[0] = <<>>
  /\ \A i \in 1 .. Len(Results) : p[i] = Taken(p[i - 1], Results[i], start)

LEMMA PassedDef ==
  ASSUME NEW line
  PROVE  \E p : /\ Passed(p, start_string(line))
                /\ unit_code_completion(line).items = p[Len(Results)]
<1> DEFINE w == start_string(line)
<1> DEFINE Rec(f) == f = [i \in 0 .. Len(Results) |-> IF i = 0 THEN <<>> ELSE Taken(f[i - 1], Results[i], w)]
           F == CHOOSE f : Rec(f)
           G == [p \in Seq(Range(Results)) \X (1 .. Len(Results)) |-> Taken(p[1], Results[p[2]], w)]
<1>0. ASSUME NEW list \in Seq(Range(Results)), NEW i \in 1 .. Len(Results)
      PROVE  Taken(list, Results[i], w) \in Seq(Range(Results))
  <2>1. Results[i] \in Range(Results)
    BY ResultsAssumption
  <2> QED
    BY <2>1 DEF Taken
<1>1. Brings(G, Seq(Range(Results)), Len(Results))
  BY <1>0 DEF Brings
<1>2. PICK f : Runs(f, <<>>, Seq(Range(Results)), Len(Results), G)
  <2> HIDE DEF G
  <2>1. <<>> \in Seq(Range(Results)) /\ Len(Results) \in Nat
    BY ResultsAssumption
  <2> QED
    BY <1>1, <2>1, Rounds, Zenon
<1>3. ASSUME NEW i \in 1 .. Len(Results) PROVE f[i] = Taken(f[i - 1], Results[i], w)
  <2>1. f[i - 1] \in Seq(Range(Results))
    BY <1>2 DEF Runs
  <2> QED
    BY <1>2, <2>1 DEF Runs
<1>4. Rec(f)
  <2>1. ASSUME NEW i \in 0 .. Len(Results)
        PROVE  f[i] = IF i = 0 THEN <<>> ELSE Taken(f[i - 1], Results[i], w)
    <3>1. i # 0 => i \in 1 .. Len(Results)
      OBVIOUS
    <3>2. f[0] = <<>>
      BY <1>2 DEF Runs
    <3> QED
      BY <1>3, <3>1, <3>2
  <2>2. f = [i \in 0 .. Len(Results) |-> f[i]]
    BY <1>2 DEF Runs
  <2> QED
    BY <2>1, <2>2
<1>5. Rec(F)
  BY <1>4, Zenon
<1>6. unit_code_completion(line).items = F[Len(Results)]
  BY DEF unit_code_completion, Taken
<1>7. /\ F[0] = <<>>
      /\ \A i \in 1 .. Len(Results) : F[i] = Taken(F[i - 1], Results[i], w)
      /\ F = [i \in 0 .. Len(Results) |-> F[i]]
  <2>1. ASSUME NEW g, Rec(g)
        PROVE  /\ g[0] = <<>>
               /\ \A i \in 1 .. Len(Results) : g[i] = Taken(g[i - 1], Results[i], w)
               /\ g = [i \in 0 .. Len(Results) |-> g[i]]
    <3>1. \A i \in 0 .. Len(Results) : g[i] = IF i = 0 THEN <<>> ELSE Taken(g[i - 1], Results[i], w)
      BY <2>1, Zenon
    <3>2. 0 \in 0 .. Len(Results) /\ \A i \in 1 .. Len(Results) : i \in 0 .. Len(Results) /\ i # 0
      BY ResultsAssumption
    <3>3. DOMAIN g = 0 .. Len(Results)
      BY <2>1, Zenon
    <3>4. g = [i \in 0 .. Len(Results) |-> g[i]]
      BY <2>1, Zenon
    <3> QED
      BY <3>1, <3>2, <3>4, Zenon
  <2> HIDE DEF F, Rec
  <2> QED
    BY <1>5, <2>1
<1> HIDE DEF F
<1>8. F \in [0 .. Len(Results) -> Seq(Range(Results))]
  <2> DEFINE P == {i \in 0 .. Len(Results) : F[i] \in Seq(Range(Results))}
  <2>1. 0 \in P
    <3>1. 0 \in 0 .. Len(Results) /\ <<>> \in Seq(Range(Results))
      BY ResultsAssumption
    <3> QED
      BY <1>7, <3>1
  <2>2. ASSUME NEW i \in 1 .. Len(Results), i - 1 \in P PROVE i \in P
    <3>1. F[i - 1] \in Seq(Range(Results)) /\ i \in 0 .. Len(Results)
      BY <2>2
    <3>2. F[i] = Taken(F[i - 1], Results[i], w)
      BY <1>7
    <3> QED
      BY <1>0, <3>1, <3>2
  <2>3. P = 0 .. Len(Results)
    <3>1. P \in SUBSET (0 .. Len(Results)) /\ Len(Results) \in Nat
      BY ResultsAssumption
    <3> HIDE DEF P
    <3> QED
      BY <2>1, <2>2, <3>1, UpTo
  <2>4. ASSUME NEW i \in 0 .. Len(Results) PROVE F[i] \in Seq(Range(Results))
    BY <2>3
  <2> QED
    BY <1>7, <2>4
<1> QED
  BY <1>6, <1>7, <1>8 DEF Passed

(* What of a list matches a word, after each of its elements.              *)
Narrowing(f, list, w, S) ==
  /\ f \in [0 .. Len(list) -> Seq(S)]
  /\ f[0] = <<>>
  /\ \A i \in 1 .. Len(list) :
       f[i] = IF Matches(list[i], w) THEN Append(f[i - 1], list[i]) ELSE f[i - 1]

LEMMA NarrowedDef ==
  ASSUME NEW S, NEW list \in Seq(S), NEW w
  PROVE  \E f : Narrowing(f, list, w, S) /\ Narrowed(list, w) = f[Len(list)]
<1> DEFINE Rec(f) == f = [i \in 0 .. Len(list) |-> IF i = 0 THEN <<>> ELSE IF Matches(list[i], w) THEN Append(f[i - 1], list[i]) ELSE f[i - 1]]
           F == CHOOSE f : Rec(f)
           G == [p \in Seq(S) \X (1 .. Len(list)) |-> IF Matches(list[p[2]], w) THEN Append(p[1], list[p[2]]) ELSE p[1]]
<1>0. ASSUME NEW found \in Seq(S), NEW i \in 1 .. Len(list)
      PROVE  (IF Matches(list[i], w) THEN Append(found, list[i]) ELSE found) \in Seq(S)
  OBVIOUS
<1>1. Brings(G, Seq(S), Len(list))
  BY <1>0 DEF Brings
<1>2. PICK f : Runs(f, <<>>, Seq(S), Len(list), G)
  <2> HIDE DEF G
  <2>1. <<>> \in Seq(S) /\ Len(list) \in Nat
    OBVIOUS
  <2> QED
    BY <1>1, <2>1, Rounds, Zenon
<1>3. ASSUME NEW i \in 1 .. Len(list) PROVE f[i] = IF Matches(list[i], w) THEN Append(f[i - 1], list[i]) ELSE f[i - 1]
  <2>1. f[i - 1] \in Seq(S)
    BY <1>2 DEF Runs
  <2> QED
    BY <1>2, <2>1 DEF Runs
<1>4. Rec(f)
  <2>1. ASSUME NEW i \in 0 .. Len(list)
        PROVE  f[i] = IF i = 0 THEN <<>> ELSE IF Matches(list[i], w) THEN Append(f[i - 1], list[i]) ELSE f[i - 1]
    <3>1. i # 0 => i \in 1 .. Len(list)
      OBVIOUS
    <3>2. f[0] = <<>>
      BY <1>2 DEF Runs
    <3> QED
      BY <1>3, <3>1, <3>2
  <2>2. f = [i \in 0 .. Len(list) |-> f[i]]
    BY <1>2 DEF Runs
  <2> QED
    BY <2>1, <2>2
<1>5. Rec(F)
  BY <1>4, Zenon
<1>6. Narrowed(list, w) = F[Len(list)]
  BY DEF Narrowed
<1>7. /\ F[0] = <<>>
      /\ \A i \in 1 .. Len(list) : F[i] = IF Matches(list[i], w) THEN Append(F[i - 1], list[i]) ELSE F[i - 1]
      /\ F = [i \in 0 .. Len(list) |-> F[i]]
  <2>1. ASSUME NEW g, Rec(g)
        PROVE  /\ g[0] = <<>>
               /\ \A i \in 1 .. Len(list) : g[i] = IF Matches(list[i], w) THEN Append(g[i - 1], list[i]) ELSE g[i - 1]
               /\ g = [i \in 0 .. Len(list) |-> g[i]]
    <3>1. \A i \in 0 .. Len(list) : g[i] = IF i = 0 THEN <<>> ELSE IF Matches(list[i], w) THEN Append(g[i - 1], list[i]) ELSE g[i - 1]
      BY <2>1, Zenon
    <3>2. 0 \in 0 .. Len(list) /\ \A i \in 1 .. Len(list) : i \in 0 .. Len(list) /\ i # 0
      OBVIOUS
    <3>3. DOMAIN g = 0 .. Len(list)
      BY <2>1, Zenon
    <3>4. g = [i \in 0 .. Len(list) |-> g[i]]
      BY <2>1, Zenon
    <3> QED
      BY <3>1, <3>2, <3>4, Zenon
  <2> HIDE DEF F, Rec
  <2> QED
    BY <1>5, <2>1
<1> HIDE DEF F
<1>8. F \in [0 .. Len(list) -> Seq(S)]
  <2> DEFINE P == {i \in 0 .. Len(list) : F[i] \in Seq(S)}
  <2>1. 0 \in P
    <3>1. 0 \in 0 .. Len(list) /\ <<>> \in Seq(S)
      OBVIOUS
    <3> QED
      BY <1>7, <3>1
  <2>2. ASSUME NEW i \in 1 .. Len(list), i - 1 \in P PROVE i \in P
    <3>1. F[i - 1] \in Seq(S) /\ i \in 0 .. Len(list)
      BY <2>2
    <3>2. F[i] = IF Matches(list[i], w) THEN Append(F[i - 1], list[i]) ELSE F[i - 1]
      BY <1>7
    <3> QED
      BY <1>0, <3>1, <3>2
  <2>3. P = 0 .. Len(list)
    <3>1. P \in SUBSET (0 .. Len(list)) /\ Len(list) \in Nat
      OBVIOUS
    <3> HIDE DEF P
    <3> QED
      BY <2>1, <2>2, <3>1, UpTo
  <2>4. ASSUME NEW i \in 0 .. Len(list) PROVE F[i] \in Seq(S)
    BY <2>3
  <2> QED
    BY <1>7, <2>4
<1> QED
  BY <1>6, <1>7, <1>8 DEF Narrowing

LEMMA NarrowedEmpty ==
  ASSUME NEW w
  PROVE  Narrowed(<<>>, w) = <<>>
<1>1. <<>> \in Seq({})
  OBVIOUS
<1>2. PICK f : Narrowing(f, <<>>, w, {}) /\ Narrowed(<<>>, w) = f[Len(<<>>)]
  BY <1>1, NarrowedDef
<1> QED
  BY <1>2 DEF Narrowing

LEMMA NarrowedAppend ==
  ASSUME NEW S, NEW list \in Seq(S), NEW x \in S, NEW w
  PROVE  Narrowed(Append(list, x), w) =
           IF Matches(x, w) THEN Append(Narrowed(list, w), x) ELSE Narrowed(list, w)
<1> DEFINE longer == Append(list, x)
<1>1. /\ longer \in Seq(S) /\ Len(list) \in Nat /\ Len(longer) = Len(list) + 1
      /\ \A i \in 1 .. Len(list) : longer[i] = list[i]
      /\ longer[Len(list) + 1] = x
  OBVIOUS
<1> HIDE DEF longer
<1>2. PICK f : Narrowing(f, list, w, S) /\ Narrowed(list, w) = f[Len(list)]
  BY NarrowedDef
<1>3. PICK g : Narrowing(g, longer, w, S) /\ Narrowed(longer, w) = g[Len(longer)]
  BY <1>1, NarrowedDef
<1> DEFINE P == {i \in 0 .. Len(list) : g[i] = f[i]}
<1>4. 0 \in P
  BY <1>1, <1>2, <1>3 DEF Narrowing
<1>5. ASSUME NEW i \in 1 .. Len(list), i - 1 \in P PROVE i \in P
  <2>1. i \in 1 .. Len(longer) /\ i \in 0 .. Len(list) /\ longer[i] = list[i]
    BY <1>1
  <2>2. f[i] = IF Matches(list[i], w) THEN Append(f[i - 1], list[i]) ELSE f[i - 1]
    BY <1>2 DEF Narrowing
  <2>3. g[i] = IF Matches(longer[i], w) THEN Append(g[i - 1], longer[i]) ELSE g[i - 1]
    BY <1>3, <2>1 DEF Narrowing
  <2>4. g[i - 1] = f[i - 1]
    BY <1>5
  <2> QED
    BY <2>1, <2>2, <2>3, <2>4
<1>6. P = 0 .. Len(list)
  <2>1. P \in SUBSET (0 .. Len(list))
    OBVIOUS
  <2> HIDE DEF P
  <2> QED
    BY <1>1, <1>4, <1>5, <2>1, UpTo
<1>7. g[Len(list)] = f[Len(list)]
  <2>1. Len(list) \in P
    BY <1>1, <1>6
  <2> QED
    BY <2>1
<1>8. g[Len(list) + 1] =
        IF Matches(x, w) THEN Append(g[Len(list)], x) ELSE g[Len(list)]
  <2>1. Len(list) + 1 \in 1 .. Len(longer) /\ (Len(list) + 1) - 1 = Len(list)
    BY <1>1
  <2>2. g[Len(list) + 1] =
          IF Matches(longer[Len(list) + 1], w)
            THEN Append(g[(Len(list) + 1) - 1], longer[Len(list) + 1])
            ELSE g[(Len(list) + 1) - 1]
    BY <1>3, <2>1 DEF Narrowing
  <2> QED
    BY <1>1, <2>1, <2>2
<1>9. Narrowed(longer, w) = g[Len(list) + 1] /\ Narrowed(list, w) = f[Len(list)]
  BY <1>1, <1>2, <1>3
<1>10. Narrowed(longer, w) =
         IF Matches(x, w) THEN Append(Narrowed(list, w), x) ELSE Narrowed(list, w)
  BY <1>7, <1>8, <1>9
<1> QED
  BY <1>10 DEF longer

(* When a word is typed on, the last token of the line before is the begin *)
(* of it, if it is a word and no blank is behind it.                       *)
LEMMA TypedOn ==
  ASSUME NEW t, Text(t), NEW n \in 0 .. Len(t) - 1, NEW w \in start_string(t),
         \A i \in n + 1 .. Len(t) : t[i] \in Alphas \cup Digits,
         start_string(SubSeq(t, 1, n)) # {} => t[n] \notin Blanks
  PROVE  /\ Text(w) /\ start_string(t) = {w}
         /\ \A v \in start_string(SubSeq(t, 1, n)) : \E k \in 0 .. Len(w) : v = SubSeq(w, 1, k)
<1>1. /\ Len(t) \in Nat /\ DOMAIN t = 1 .. Len(t) /\ t \in Seq(Range(t)) /\ n \in Nat
      /\ n < Len(t) /\ Len(t) \in n + 1 .. Len(t)
  BY DEF Text
<1>2. ASSUME NEW x \in start_string(t)
      PROVE  \E b \in 1 .. Len(t) : LastWord(t, b, Len(t)) /\ x = SubSeq(t, b, Len(t))
  <2>1. PICK b \in 1 .. Len(t), e \in 1 .. Len(t) : LastWord(t, b, e) /\ x = SubSeq(t, b, e)
    BY <1>1, <1>2 DEF start_string
  <2>2. ~ (e < Len(t))
    <3>1. SUFFICES ASSUME e < Len(t) PROVE FALSE
      OBVIOUS
    <3>2. Len(t) \in e + 1 .. Len(t)
      BY <1>1, <3>1
    <3>3. t[Len(t)] \in Blanks /\ t[Len(t)] \in Alphas \cup Digits
      BY <1>1, <2>1, <3>2 DEF LastWord
    <3> QED
      BY <3>3, ResultsAssumption
  <2>3. e = Len(t)
    <3>1. PICK N \in Nat : N = Len(t)
      BY <1>1, Zenon
    <3>2. e \in 1 .. N /\ ~ (e < N)
      BY <2>2, <3>1, Zenon
    <3>3. e = N
      BY <3>2
    <3> QED
      BY <3>1, <3>3, Zenon
  <2> QED
    BY <2>1, <2>3
<1>3. PICK b \in 1 .. Len(t) : LastWord(t, b, Len(t)) /\ w = SubSeq(t, b, Len(t))
  BY <1>2
<1>4. ASSUME NEW c \in 1 .. Len(t), t[c] \in Alphas,
             \A i \in c .. Len(t) : t[i] \in Alphas \cup Digits,
             c > 1 => t[c - 1] \notin Alphas \cup Digits
      PROVE  c = b
  <2>1. ~ (b < c)
    <3>1. SUFFICES ASSUME b < c PROVE FALSE
      OBVIOUS
    <3>2. c > 1 /\ c - 1 \in b .. Len(t)
      BY <1>1, <3>1
    <3> QED
      BY <1>3, <1>4, <3>2 DEF LastWord
  <2>2. ~ (c < b)
    <3>1. SUFFICES ASSUME c < b PROVE FALSE
      OBVIOUS
    <3>2. b > 1 /\ b - 1 \in c .. Len(t)
      BY <1>1, <3>1
    <3> QED
      BY <1>3, <1>4, <3>2 DEF LastWord
  <2> QED
    BY <1>1, <2>1, <2>2
<1>5. start_string(t) = {w}
  <2>1. ASSUME NEW x \in start_string(t) PROVE x = w
    <3>1. PICK c \in 1 .. Len(t) : LastWord(t, c, Len(t)) /\ x = SubSeq(t, c, Len(t))
      BY <1>2
    <3>2. c = b
      BY <1>4, <3>1 DEF LastWord
    <3> QED
      BY <1>3, <3>1, <3>2
  <2> QED
    BY <2>1
<1>6. w \in Seq(Range(t)) /\ Len(w) = Len(t) - b + 1 /\ \A i \in 1 .. Len(w) : w[i] = t[b + i - 1]
  <2>1. \A i \in b .. Len(t) : t[i] \in Range(t)
    BY <1>1 DEF Range
  <2>2. b \in Int /\ Len(t) \in Int /\ b <= Len(t)
    BY <1>1
  <2>3. /\ w \in Seq(Range(t)) /\ Len(w) = Len(t) - b + 1
        /\ \A i \in 1 .. Len(t) - b + 1 : w[i] = t[b + i - 1]
    BY <1>3, <2>1, <2>2, SubSeqProperties
  <2> QED
    BY <2>3, Zenon
<1>7. Text(w)
  BY <1>6, SeqMonotonic DEF Text, Range
<1>8. ASSUME NEW v \in start_string(SubSeq(t, 1, n))
      PROVE  \E k \in 0 .. Len(w) : v = SubSeq(w, 1, k)
  <2>1. PICK u : u = SubSeq(t, 1, n)
    OBVIOUS
  <2>2. u \in Seq(Range(t)) /\ Len(u) = n /\ DOMAIN u = 1 .. n /\ \A i \in 1 .. n : u[i] = t[i]
    BY <1>1, <2>1
  <2>3. PICK c \in 1 .. n, e \in 1 .. n : LastWord(u, c, e) /\ v = SubSeq(u, c, e)
    BY <1>8, <2>1, <2>2 DEF start_string
  <2>4. u[n] \notin Blanks
    BY <1>8, <2>2, <2>3
  <2>5. e = n
    <3>1. ~ (e < n)
      <4>1. SUFFICES ASSUME e < n PROVE FALSE
        OBVIOUS
      <4>2. n \in e + 1 .. Len(u)
        BY <1>1, <2>2, <4>1
      <4> QED
        BY <2>3, <2>4, <4>2 DEF LastWord
    <3> QED
      BY <1>1, <3>1
  <2>6. c = b
    <3>1. c \in 1 .. Len(t) /\ t[c] \in Alphas
      BY <1>1, <2>2, <2>3 DEF LastWord
    <3>2. ASSUME NEW i \in c .. Len(t) PROVE t[i] \in Alphas \cup Digits
      <4>1. CASE i \in n + 1 .. Len(t)
        BY <4>1
      <4>2. CASE i \in c .. n
        <5>1. u[i] \in Alphas \cup Digits /\ i \in 1 .. n
          BY <1>1, <2>3, <2>5, <4>2 DEF LastWord
        <5> QED
          BY <2>2, <5>1
      <4> QED
        BY <1>1, <4>1, <4>2
    <3>3. c > 1 => t[c - 1] \notin Alphas \cup Digits
      <4>1. SUFFICES ASSUME c > 1 PROVE t[c - 1] \notin Alphas \cup Digits
        OBVIOUS
      <4>2. c - 1 \in 1 .. n
        BY <1>1, <4>1
      <4> QED
        BY <2>2, <2>3, <4>1, <4>2 DEF LastWord
    <3> QED
      BY <1>4, <3>1, <3>2, <3>3
  <2>7. PICK k \in Nat : k = n - b + 1 /\ k \in 0 .. Len(w)
    BY <1>1, <1>6, <2>3, <2>6
  <2>8. v = SubSeq(w, 1, k)
    <3>1. /\ v \in Seq(Range(t)) /\ Len(v) = k
          /\ \A i \in 1 .. k : v[i] = u[b + i - 1] /\ b + i - 1 \in 1 .. n
      BY <1>1, <2>2, <2>3, <2>5, <2>6, <2>7
    <3>2. PICK y : y = SubSeq(w, 1, k)
      OBVIOUS
    <3>3. y \in Seq(Range(t)) /\ Len(y) = k /\ \A i \in 1 .. k : y[i] = w[i] /\ i \in 1 .. Len(w)
      <4>1. \A i \in 1 .. Len(w) : w[i] \in Range(t)
        BY <1>6
      <4>2. PICK m \in Nat : m = Len(w)
        BY <1>6, LenProperties
      <4>3. k \in 0 .. m /\ \A i \in 1 .. m : w[i] \in Range(t)
        BY <2>7, <4>1, <4>2, Zenon
      <4>4. /\ y \in Seq(Range(t)) /\ Len(y) = k /\ \A i \in 1 .. k : y[i] = w[i]
            /\ \A i \in 1 .. k : i \in 1 .. m
        BY <3>2, <4>3, SubSeqProperties
      <4> QED
        BY <4>2, <4>4
    <3>4. \A i \in 1 .. k : v[i] = y[i]
      BY <1>6, <2>2, <3>1, <3>3
    <3>5. v = y
      BY <3>1, <3>3, <3>4, SeqEqual
    <3> QED
      BY <3>2, <3>5
  <2> QED
    BY <2>7, <2>8
<1> QED
  BY <1>5, <1>7, <1>8

(* As long as the list before is not full, that of the longer word has     *)
(* what it has that matches this one, and is not full either.              *)
LEMMA LongerWord ==
  ASSUME NEW t, Text(t), NEW n \in 0 .. Len(t) - 1, NEW w \in start_string(t),
         \A i \in n + 1 .. Len(t) : t[i] \in Alphas \cup Digits,
         start_string(SubSeq(t, 1, n)) # {} => t[n] \notin Blanks,
         ~ unit_code_completion(SubSeq(t, 1, n)).isIncomplete
  PROVE  unit_code_completion(t).items =
           Narrowed(unit_code_completion(SubSeq(t, 1, n)).items, w)
<1> DEFINE line == SubSeq(t, 1, n)
           v == start_string(line)
           N == Len(Results)
           max == completion_results_max
<1>0. N \in Nat /\ max \in Nat
  BY ResultsAssumption
<1>1. PICK p : Passed(p, v) /\ unit_code_completion(line).items = p[N]
  BY PassedDef
<1>2. PICK q : Passed(q, {w}) /\ unit_code_completion(t).items = q[N]
  <2>1. start_string(t) = {w}
    BY TypedOn
  <2> QED
    BY <2>1, PassedDef
<1>3. Len(p[N]) < max
  <2>1. unit_code_completion(line).isIncomplete = ~Complete(Len(unit_code_completion(line).items))
    BY Zenon DEF unit_code_completion
  <2> QED
    BY <1>1, <2>1 DEF Complete
<1>4. \A result \in Range(Results) : Matches(result, w) => filter_pass(result, v)
  <2>1. Text(w) /\ \A x \in v : \E k \in 0 .. Len(w) : x = SubSeq(w, 1, k)
    BY TypedOn
  <2> QED
    BY <2>1, MatchesShorter DEF filter_pass
<1>9. \A result : filter_pass(result, {w}) <=> Matches(result, w)
  BY DEF filter_pass
<1> HIDE DEF line, v
<1> DEFINE Follows(i) == Len(p[i]) < max => q[i] = Narrowed(p[i], w) /\ Len(q[i]) <= Len(p[i])
           P == {i \in 0 .. N : Follows(i)}
<1>5. 0 \in P
  <2>1. 0 \in 0 .. N /\ p[0] = <<>> /\ q[0] = <<>> /\ Len(<<>>) <= Len(<<>>)
    BY <1>0, <1>1, <1>2 DEF Passed
  <2> QED
    BY <2>1, NarrowedEmpty
<1>6. ASSUME NEW i \in 1 .. N, i - 1 \in P PROVE i \in P
  <2>1. i \in 0 .. N /\ i - 1 \in 0 .. N
    BY <1>0
  <2>2. /\ p[i] = Taken(p[i - 1], Results[i], v) /\ q[i] = Taken(q[i - 1], Results[i], {w})
        /\ p[i - 1] \in Seq(Range(Results)) /\ q[i - 1] \in Seq(Range(Results))
    BY <1>1, <1>2, <2>1 DEF Passed
  <2>3. Results[i] \in Range(Results)
    BY ResultsAssumption
  <2>4. Follows(i - 1)
    BY <1>6
  <2>5. PICK a, b, r : a = p[i - 1] /\ b = q[i - 1] /\ r = Results[i]
    OBVIOUS
  <2>6. /\ p[i] = Taken(a, r, v) /\ q[i] = Taken(b, r, {w}) /\ r \in Range(Results)
        /\ a \in Seq(Range(Results)) /\ b \in Seq(Range(Results))
        /\ Len(a) < max => b = Narrowed(a, w) /\ Len(b) <= Len(a)
        /\ Matches(r, w) => filter_pass(r, v)
    BY <1>4, <2>2, <2>3, <2>4, <2>5
  <2>7. ASSUME Len(Taken(a, r, v)) < max
        PROVE  /\ Taken(b, r, {w}) = Narrowed(Taken(a, r, v), w)
               /\ Len(Taken(b, r, {w})) <= Len(Taken(a, r, v))
    <3>1. Len(a) < max /\ Len(a) \in Nat /\ Len(b) \in Nat
      BY <1>0, <2>6, <2>7 DEF Taken
    <3>2. b = Narrowed(a, w) /\ Len(b) <= Len(a) /\ Len(b) < max
      BY <1>0, <2>6, <3>1
    <3>3. CASE r.priority <= completion_priority_max /\ filter_pass(r, v)
      <4>1. Taken(a, r, v) = Append(a, r)
        BY <3>1, <3>3 DEF Taken
      <4>2. Taken(b, r, {w}) = IF Matches(r, w) THEN Append(b, r) ELSE b
        BY <1>9, <3>2, <3>3 DEF Taken
      <4>3. Narrowed(Append(a, r), w) =
              IF Matches(r, w) THEN Append(Narrowed(a, w), r) ELSE Narrowed(a, w)
        BY <2>6, NarrowedAppend
      <4>4. Len(Append(a, r)) = Len(a) + 1 /\ Len(Append(b, r)) = Len(b) + 1
        BY <2>6
      <4> QED
        BY <3>1, <3>2, <4>1, <4>2, <4>3, <4>4
    <3>4. CASE ~ (r.priority <= completion_priority_max /\ filter_pass(r, v))
      <4>1. Taken(a, r, v) = a /\ Taken(b, r, {w}) = b
        BY <1>9, <2>6, <3>4 DEF Taken
      <4> QED
        BY <3>2, <4>1
    <3> QED
      BY <3>3, <3>4
  <2>8. Follows(i)
    BY <2>6, <2>7
  <2> QED
    BY <2>1, <2>8
<1>7. P = 0 .. N
  <2>1. P \in SUBSET (0 .. N)
    OBVIOUS
  <2> HIDE DEF P
  <2> QED
    BY <1>0, <1>5, <1>6, <2>1, UpTo
<1>8. N \in P
  BY <1>0, <1>7
<1> QED
  BY <1>1, <1>2, <1>3, <1>8 DEF line

-----------------------------------------------------------------------------
(* What is typed                                                           *)

(* Whatever is typed is a text.                                            *)
TextTyped == kind \in Kinds /\ Text(text)

LEMMA IsText ==
  ASSUME NEW S, NEW t \in Seq(S)
  PROVE  Text(t)
<1>1. Len(t) \in Nat /\ DOMAIN t = 1 .. Len(t) /\ t = [i \in 1 .. Len(t) |-> t[i]]
  OBVIOUS
<1>2. \A i \in 1 .. Len(t) : t[i] \in Range(t)
  BY <1>1 DEF Range
<1>3. t \in Seq(Range(t))
  BY <1>1, <1>2
<1> QED
  BY <1>3 DEF Text

LEMMA TextLonger ==
  ASSUME NEW a, Text(a), NEW b, Text(b)
  PROVE  Text(a \o b)
<1> DEFINE C == Range(a) \cup Range(b)
<1>1. a \in Seq(C) /\ b \in Seq(C)
  BY DEF Text
<1>2. a \o b \in Seq(C)
  BY <1>1
<1> QED
  BY <1>2, IsText

LEMMA TypedText == Spec => []TextTyped
<1>1. Init => TextTyped
  BY KindsAssumption DEF Init, TextTyped
<1>2. TextTyped /\ [Next]_vars => TextTyped'
  <2> SUFFICES ASSUME TextTyped, [Next]_vars PROVE TextTyped'
    OBVIOUS
  <2>1. CASE Next
    <3>1. PICK part \in Alphabet[kind] : text' = text \o part
      BY <2>1 DEF Next
    <3>2. Text(part)
      BY <3>1, KindsAssumption DEF TextTyped
    <3> QED
      BY <2>1, <3>1, <3>2, TextLonger DEF Next, TextTyped
  <2>2. CASE UNCHANGED vars
    BY <2>2 DEF vars, TextTyped
  <2> QED
    BY <2>1, <2>2
<1> QED
  BY <1>1, <1>2, PTL DEF Spec

(* A complete list is all the client needs while the word is typed on,     *)
(* whatever libclang offers, whatever the limits and however long the word *)
(* (unit_code_completion).                                                 *)
THEOREM CompleteListAlwaysEnough == Spec => []CompleteListEnough
<1>1. TextTyped => CompleteListEnough
  BY LongerWord DEF TextTyped, CompleteListEnough
<1> QED
  BY <1>1, TypedText, PTL

-----------------------------------------------------------------------------
(* The elements of a URI                                                   *)

(* What decode_escape writes from each place on with room for so many      *)
(* characters, by what it writes with room for one less.                   *)
Written(less, t, left) ==
  [i \in 1 .. Len(t) + 1 |->
     IF left = 0 \/ i > Len(t) THEN <<>>
     ELSE IF t[i] # "%" THEN <<t[i]>> \o less[i + 1]
     ELSE IF SubSeq(t, i + 1, Min({i + 2, Len(t)})) \in DOMAIN Bytes
            THEN <<Bytes[SubSeq(t, i + 1, i + 2)]>> \o less[i + 3]
     ELSE <<>>]

LEMMA WrittenNothing ==
  ASSUME NEW t, NEW a, NEW b
  PROVE  Written(a, t, 0) = Written(b, t, 0)
BY DEF Written

LEMMA WrittenExists ==
  ASSUME NEW t, NEW room \in Nat
  PROVE  \E f : f = [left \in 0 .. room |-> Written(f[left - 1], t, left)]
<1> DEFINE Rec(f, n) == f = [left \in 0 .. n |-> Written(f[left - 1], t, left)]
           P == {n \in 0 .. room : \E f : Rec(f, n)}
<1>1. 0 \in P
  <2> DEFINE f == [left \in 0 .. 0 |-> Written(0, t, left)]
  <2>1. ASSUME NEW left \in 0 .. 0 PROVE f[left] = Written(f[left - 1], t, left)
    <3>1. left = 0 /\ f[left] = Written(0, t, left)
      OBVIOUS
    <3> HIDE DEF f
    <3> QED
      BY <3>1, WrittenNothing
  <2>2. f = [left \in 0 .. 0 |-> f[left]]
    OBVIOUS
  <2> HIDE DEF f
  <2>3. Rec(f, 0)
    BY <2>1, <2>2
  <2> QED
    BY <2>3
<1>2. ASSUME NEW n \in 1 .. room, n - 1 \in P PROVE n \in P
  <2>1. PICK f : Rec(f, n - 1)
    BY <1>2
  <2>2. ASSUME NEW left \in 0 .. n - 1 PROVE f[left] = Written(f[left - 1], t, left)
    BY <2>1, Zenon
  <2> DEFINE g == [left \in 0 .. n |-> IF left <= n - 1 THEN f[left] ELSE Written(f[n - 1], t, n)]
  <2>3. ASSUME NEW left \in 0 .. n PROVE g[left] = Written(g[left - 1], t, left)
    <3>1. CASE left = 0
      <4>1. g[left] = f[left] /\ left \in 0 .. n - 1
        BY <3>1
      <4>2. g[left] = Written(f[left - 1], t, 0)
        BY <2>2, <3>1, <4>1
      <4> HIDE DEF g
      <4> QED
        BY <3>1, <4>2, WrittenNothing
    <3>2. CASE left # 0 /\ left <= n - 1
      <4>1. left \in 0 .. n - 1 /\ left - 1 \in 0 .. n /\ left - 1 <= n - 1
        BY <3>2
      <4>2. g[left] = f[left] /\ g[left - 1] = f[left - 1]
        BY <3>2, <4>1
      <4> QED
        BY <2>2, <4>1, <4>2
    <3>3. CASE left = n
      <4>1. ~ (n <= n - 1) /\ n - 1 \in 0 .. n /\ n - 1 <= n - 1 /\ n \in 0 .. n
        OBVIOUS
      <4>2. g[n] = Written(f[n - 1], t, n) /\ g[n - 1] = f[n - 1]
        BY <4>1
      <4> QED
        BY <3>3, <4>2
    <3> QED
      BY <3>1, <3>2, <3>3
  <2>4. g = [left \in 0 .. n |-> g[left]]
    OBVIOUS
  <2> HIDE DEF g
  <2>5. Rec(g, n)
    BY <2>3, <2>4
  <2> QED
    BY <2>5
<1>3. P = 0 .. room
  <2>1. P \in SUBSET (0 .. room)
    OBVIOUS
  <2> HIDE DEF P
  <2> QED
    BY <1>1, <1>2, <2>1, UpTo
<1>4. room \in P
  <2>1. room \in 0 .. room
    OBVIOUS
  <2> HIDE DEF P
  <2> QED
    BY <1>3, <2>1
<1> QED
  BY <1>4

(* Characters that are no percent signs stand for themselves.              *)
LEMMA DecodedPlain ==
  ASSUME NEW t, Text(t), NEW room \in 0 .. Len(t), \A i \in 1 .. room : t[i] # "%"
  PROVE  decode_escape(t, room) = SubSeq(t, 1, room)
<1> DEFINE Rec(f) == f = [left \in 0 .. room |-> Written(f[left - 1], t, left)]
           F == CHOOSE f : Rec(f)
<1>0. t \in Seq(Range(t)) /\ Len(t) \in Nat /\ room \in Nat /\ room <= Len(t)
  BY DEF Text
<1>1. \E f : Rec(f)
  BY <1>0, WrittenExists
<1>2. Rec(F)
  BY <1>1, Zenon
<1>3. decode_escape(t, room) = F[room][1]
  BY DEF decode_escape, Written
<1> HIDE DEF F
<1>4. \A left \in 0 .. room : F[left] = Written(F[left - 1], t, left)
  BY <1>2, Zenon
<1> DEFINE P == {left \in 0 .. room : F[left][room - left + 1] = SubSeq(t, room - left + 1, room)}
<1>5. 0 \in P
  <2>1. 0 \in 0 .. room /\ room - 0 + 1 = room + 1 /\ room + 1 \in 1 .. Len(t) + 1
    BY <1>0
  <2>2. F[0] = Written(F[0 - 1], t, 0)
    BY <1>4, <2>1
  <2>3. F[0][room + 1] = <<>>
    BY <2>1, <2>2 DEF Written
  <2>4. SubSeq(t, room + 1, room) = <<>>
    BY <1>0
  <2> QED
    BY <2>1, <2>3, <2>4
<1>6. ASSUME NEW left \in 1 .. room, left - 1 \in P PROVE left \in P
  <2>1. PICK i \in 1 .. room : i = room - left + 1
    BY <1>0
  <2>2. /\ room - (left - 1) + 1 = i + 1 /\ left \in 0 .. room
        /\ i \in 1 .. Len(t) + 1 /\ ~ (left = 0 \/ i > Len(t)) /\ t[i] # "%"
    BY <1>0, <2>1
  <2>3. F[left - 1][i + 1] = SubSeq(t, i + 1, room)
    BY <1>6, <2>2
  <2>4. F[left] = Written(F[left - 1], t, left)
    BY <1>4, <2>2
  <2>5. F[left][i] = <<t[i]>> \o F[left - 1][i + 1]
    BY <2>2, <2>4 DEF Written
  <2>6. <<t[i]>> \o SubSeq(t, i + 1, room) = SubSeq(t, i, room)
    BY <1>0, <2>1
  <2> QED
    BY <2>1, <2>2, <2>3, <2>5, <2>6
<1>7. P = 0 .. room
  <2>1. P \in SUBSET (0 .. room)
    OBVIOUS
  <2> HIDE DEF P
  <2> QED
    BY <1>0, <1>5, <1>6, <2>1, UpTo
<1>8. F[room][1] = SubSeq(t, 1, room)
  <2>1. room \in 0 .. room /\ room - room + 1 = 1
    BY <1>0
  <2>2. F[room][room - room + 1] = SubSeq(t, room - room + 1, room)
    BY <1>7, <2>1
  <2> QED
    BY <2>1, <2>2
<1> QED
  BY <1>3, <1>8

(* A terminator is found at a place in the text, if at all.                *)
LEMMA FindPlace ==
  ASSUME NEW t, Text(t), NEW terminator
  PROVE  Find(t, terminator) \in 0 .. Len(t)
<1> DEFINE places == {i \in 1 .. Len(t) : IsPrefix(terminator, SubSeq(t, i, Len(t)))}
<1>1. Len(t) \in Nat
  BY DEF Text
<1>2. CASE places = {}
  BY <1>1, <1>2 DEF Find
<1>3. CASE places # {}
  <2>1. places \in SUBSET Nat
    BY <1>1
  <2>2. \E i \in places : \A j \in places : i <= j
    <3> HIDE DEF places
    <3> QED
      BY <1>3, <2>1, Least
  <2>3. Find(t, terminator) = CHOOSE i \in places : \A j \in places : i <= j
    BY <1>3 DEF Find
  <2>4. Find(t, terminator) \in places
    <3> HIDE DEF places
    <3> QED
      BY <2>2, <2>3
  <2> QED
    BY <1>1, <2>4
<1> QED
  BY <1>2, <1>3

(* Where the element behind one begins.                                    *)
NextBegin(t, from, i) ==
  LET at == IF from = 0 THEN 0 ELSE Find(SubSeq(t, from, Len(t)), Terminators[i])
      next == from + at - 1 + Len(Terminators[i])
  IN  IF at = 0 \/ next > Len(t) THEN 0 ELSE next

LEMMA BeginDef ==
  ASSUME NEW t
  PROVE  Begin(t)[1] = 1 /\ \A i \in 1 .. 4 : Begin(t)[i + 1] = NextBegin(t, Begin(t)[i], i)
<1> DEFINE Rec(f) == f = [i \in 1 .. 5 |-> IF i = 1 THEN 1 ELSE NextBegin(t, f[i - 1], i - 1)]
           F == CHOOSE f : Rec(f)
           b2 == NextBegin(t, 1, 1)
           b3 == NextBegin(t, b2, 2)
           b4 == NextBegin(t, b3, 3)
           b5 == NextBegin(t, b4, 4)
           g == [i \in 1 .. 5 |-> IF i = 1 THEN 1 ELSE IF i = 2 THEN b2 ELSE IF i = 3 THEN b3
                                  ELSE IF i = 4 THEN b4 ELSE b5]
<1>1. Rec(g)
  <2>1. g[1] = 1 /\ g[2] = b2 /\ g[3] = b3 /\ g[4] = b4 /\ g[5] = b5
    <3> HIDE DEF b2, b3, b4, b5
    <3> QED
      OBVIOUS
  <2>2. g = [i \in 1 .. 5 |-> g[i]]
    OBVIOUS
  <2> HIDE DEF g
  <2>3. ASSUME NEW i \in 1 .. 5
        PROVE  g[i] = IF i = 1 THEN 1 ELSE NextBegin(t, g[i - 1], i - 1)
    <3>1. i = 1 \/ i = 2 \/ i = 3 \/ i = 4 \/ i = 5
      OBVIOUS
    <3>2. 2 - 1 = 1 /\ 3 - 1 = 2 /\ 4 - 1 = 3 /\ 5 - 1 = 4
      OBVIOUS
    <3> QED
      BY <2>1, <3>1, <3>2
  <2> QED
    BY <2>2, <2>3
<1>2. Rec(F)
  <2> HIDE DEF g
  <2> QED
    BY <1>1, Zenon
<1>3. Begin(t) = F
  BY DEF Begin, NextBegin
<1> HIDE DEF F
<1>4. \A i \in 1 .. 5 : F[i] = IF i = 1 THEN 1 ELSE NextBegin(t, F[i - 1], i - 1)
  BY <1>2, Zenon
<1>5. F[1] = 1
  BY <1>4
<1>6. ASSUME NEW i \in 1 .. 4 PROVE F[i + 1] = NextBegin(t, F[i], i)
  <2>1. i + 1 \in 1 .. 5 /\ i + 1 # 1 /\ (i + 1) - 1 = i
    OBVIOUS
  <2>2. F[i + 1] = NextBegin(t, F[(i + 1) - 1], (i + 1) - 1)
    BY <1>4, <2>1
  <2> QED
    BY <2>1, <2>2
<1> QED
  BY <1>3, <1>5, <1>6

(* The five rounds of uri_decode.                                          *)
LEMMA TakenDef ==
  ASSUME NEW t
  PROVE  \E f : /\ f[0] = [raw |-> t, done |-> FALSE, fits |-> TRUE, uri |-> NoUri]
                /\ \A i \in 1 .. 5 : f[i] = Take(f[i - 1], i)
                /\ uri_decode(t) = IF f[5].fits THEN [outcome |-> "uri", uri |-> f[5].uri]
                                   ELSE [outcome |-> "assert", uri |-> NoUri]
<1> DEFINE start == [raw |-> t, done |-> FALSE, fits |-> TRUE, uri |-> NoUri]
           Rec(f) == f = [i \in 0 .. 5 |-> IF i = 0 THEN start ELSE Take(f[i - 1], i)]
           F == CHOOSE f : Rec(f)
           a1 == Take(start, 1)
           a2 == Take(a1, 2)
           a3 == Take(a2, 3)
           a4 == Take(a3, 4)
           a5 == Take(a4, 5)
           g == [i \in 0 .. 5 |-> IF i = 0 THEN start ELSE IF i = 1 THEN a1
                                  ELSE IF i = 2 THEN a2 ELSE IF i = 3 THEN a3
                                  ELSE IF i = 4 THEN a4 ELSE a5]
<1>1. Rec(g)
  <2>1. /\ g[0] = start /\ g[1] = a1 /\ g[2] = a2 /\ g[3] = a3 /\ g[4] = a4 /\ g[5] = a5
        /\ a1 = Take(start, 1) /\ a2 = Take(a1, 2) /\ a3 = Take(a2, 3) /\ a4 = Take(a3, 4)
        /\ a5 = Take(a4, 5)
    <3> HIDE DEF start
    <3> QED
      OBVIOUS
  <2>2. g = [i \in 0 .. 5 |-> g[i]]
    OBVIOUS
  <2> HIDE DEF g, a1, a2, a3, a4, a5, start
  <2>3. ASSUME NEW i \in 0 .. 5 PROVE g[i] = IF i = 0 THEN start ELSE Take(g[i - 1], i)
    <3>1. i = 0 \/ i = 1 \/ i = 2 \/ i = 3 \/ i = 4 \/ i = 5
      OBVIOUS
    <3>2. 1 - 1 = 0 /\ 2 - 1 = 1 /\ 3 - 1 = 2 /\ 4 - 1 = 3 /\ 5 - 1 = 4
      OBVIOUS
    <3> QED
      BY <2>1, <3>1, <3>2
  <2> QED
    BY <2>2, <2>3
<1>2. Rec(F)
  <2> HIDE DEF g, start
  <2> QED
    BY <1>1, Zenon
<1>3. uri_decode(t) = IF F[5].fits THEN [outcome |-> "uri", uri |-> F[5].uri]
                      ELSE [outcome |-> "assert", uri |-> NoUri]
  BY DEF uri_decode
<1> HIDE DEF F
<1>4. \A i \in 0 .. 5 : F[i] = IF i = 0 THEN start ELSE Take(F[i - 1], i)
  <2> HIDE DEF start
  <2> QED
    BY <1>2, Zenon
<1>5. F[0] = start /\ \A i \in 1 .. 5 : F[i] = Take(F[i - 1], i)
  <2> HIDE DEF start
  <2> QED
    BY <1>4
<1> QED
  BY <1>3, <1>5

(* What an element is that begins at a place of a text.                    *)
Stretch(raw, i) ==
  IF Find(raw, Terminators[i]) = 0 THEN Len(raw) ELSE Find(raw, Terminators[i]) - 1
Element(t, from, i) ==
  IF from = 0 THEN {}
  ELSE {decode_escape(SubSeq(t, from, Len(t)), Stretch(SubSeq(t, from, Len(t)), i))}

(* One that is not there, or is short enough.                              *)
Short(t, from, i) == from = 0 \/ Stretch(SubSeq(t, from, Len(t)), i) < ELEMENT_MAX

(* A loop that is not done has the text from a place on still to read.     *)
AtPlace(state, t, from) ==
  IF state.done THEN from = 0
  ELSE from \in 1 .. Len(t) + 1 /\ state.raw = SubSeq(t, from, Len(t))

LEMMA Suffix ==
  ASSUME NEW t, Text(t), NEW from \in 1 .. Len(t) + 1
  PROVE  /\ Text(SubSeq(t, from, Len(t)))
         /\ Len(SubSeq(t, from, Len(t))) = Len(t) - from + 1
         /\ \A m \in Nat \ {0} :
              /\ SubSeq(SubSeq(t, from, Len(t)), m, Len(SubSeq(t, from, Len(t))))
                   = SubSeq(t, from + m - 1, Len(t))
              /\ SubSeq(t, from + m - 1, Len(t)) = <<>> <=> from + m - 1 > Len(t)
<1>1. t \in Seq(Range(t)) /\ Len(t) \in Nat
  BY DEF Text
<1>2. PICK raw : raw = SubSeq(t, from, Len(t))
  OBVIOUS
<1>3. raw \in Seq(Range(t)) /\ Len(raw) = Len(t) - from + 1
  BY <1>1, <1>2
<1>4. Text(raw)
  BY <1>3, IsText
<1>5. ASSUME NEW m \in Nat \ {0}
      PROVE  /\ SubSeq(raw, m, Len(raw)) = SubSeq(t, from + m - 1, Len(t))
             /\ SubSeq(t, from + m - 1, Len(t)) = <<>> <=> from + m - 1 > Len(t)
  <2>1. PICK at \in Nat : at = from + m - 1
    OBVIOUS
  <2>2. CASE at > Len(t)
    <3>1. m > Len(raw) /\ m \in Int /\ Len(raw) \in Int /\ at \in Int /\ Len(t) \in Int
      BY <1>1, <1>3, <2>1, <2>2
    <3>2. SubSeq(raw, m, Len(raw)) = <<>>
      BY <3>1, SubSeqEmpty
    <3>3. SubSeq(t, at, Len(t)) = <<>>
      BY <2>2, <3>1, SubSeqEmpty
    <3> QED
      BY <2>1, <2>2, <3>2, <3>3
  <2>3. CASE at <= Len(t)
    <3>1. /\ m \in 1 .. Len(raw) /\ from + Len(raw) - 1 = Len(t)
          /\ from \in 1 .. Len(t) /\ at \in 1 .. Len(t)
      BY <1>1, <1>3, <2>1, <2>3
    <3>2. SubSeq(raw, m, Len(raw)) = SubSeq(t, at, Len(t))
      <4>1. /\ Len(t) \in 1 .. Len(t) /\ m \in 1 .. Len(t) - from + 1
            /\ Len(raw) \in 1 .. Len(t) - from + 1
        BY <1>1, <1>3, <3>1
      <4>2. SubSeq(SubSeq(t, from, Len(t)), m, Len(raw)) = SubSeq(t, from + m - 1, from + Len(raw) - 1)
        BY <1>1, <3>1, <4>1, SubSeqOfSubSeq
      <4> QED
        BY <1>2, <2>1, <3>1, <4>2
    <3>3. SubSeq(t, at, Len(t)) # <<>>
      <4>1. PICK b : b = SubSeq(t, at, Len(t))
        OBVIOUS
      <4>2. Len(b) = Len(t) - at + 1
        BY <1>1, <3>1, <4>1
      <4>3. Len(b) # 0
        BY <1>1, <3>1, <4>2
      <4> QED
        BY <4>1, <4>3
    <3> QED
      BY <1>1, <2>1, <2>3, <3>2, <3>3
  <2>4. at > Len(t) \/ at <= Len(t)
    BY <1>1, <2>1
  <2> QED
    BY <2>2, <2>3, <2>4, Zenon
<1> QED
  BY <1>2, <1>3, <1>4, <1>5

LEMMA TakeStep ==
  ASSUME NEW t, Text(t), NEW i \in 1 .. 4, NEW state, state.done \in BOOLEAN, NEW from,
         AtPlace(state, t, from)
  PROVE  /\ Take(state, i).done \in BOOLEAN
         /\ Take(state, i).fits <=> state.fits /\ Short(t, from, i)
         /\ AtPlace(Take(state, i), t, NextBegin(t, from, i))
         /\ Take(state, i).uri = IF from = 0 THEN state.uri
                                 ELSE [state.uri EXCEPT ![Elements[i]] = Element(t, from, i)]
<1>0. Len(t) \in Nat
  BY DEF Text
<1>1. CASE state.done
  <2>1. from = 0 /\ Take(state, i) = state
    BY <1>1 DEF AtPlace, Take
  <2>2. NextBegin(t, from, i) = 0
    BY <2>1 DEF NextBegin
  <2> QED
    BY <1>1, <2>1, <2>2 DEF AtPlace, Short
<1>2. CASE ~state.done
  <2>1. from \in 1 .. Len(t) + 1 /\ from # 0
    BY <1>0, <1>2 DEF AtPlace
  <2>2. PICK raw : raw = SubSeq(t, from, Len(t)) /\ raw = state.raw
    BY <1>2 DEF AtPlace
  <2>3. /\ Text(raw) /\ Len(raw) = Len(t) - from + 1
        /\ \A m \in Nat \ {0} :
             /\ SubSeq(raw, m, Len(raw)) = SubSeq(t, from + m - 1, Len(t))
             /\ SubSeq(t, from + m - 1, Len(t)) = <<>> <=> from + m - 1 > Len(t)
    <3>1. from \in 1 .. Len(t) + 1
      BY <2>1
    <3>2. /\ Text(SubSeq(t, from, Len(t)))
          /\ Len(SubSeq(t, from, Len(t))) = Len(t) - from + 1
          /\ \A m \in Nat \ {0} :
               /\ SubSeq(SubSeq(t, from, Len(t)), m, Len(SubSeq(t, from, Len(t))))
                    = SubSeq(t, from + m - 1, Len(t))
               /\ SubSeq(t, from + m - 1, Len(t)) = <<>> <=> from + m - 1 > Len(t)
      BY <3>1, Suffix
    <3>3. raw = SubSeq(t, from, Len(t))
      BY <2>2
    <3> QED
      BY <3>2, <3>3, Zenon
  <2>4. PICK terminator : terminator = Terminators[i]
    OBVIOUS
  <2>5. terminator # <<>> /\ Len(terminator) \in Nat /\ Len(terminator) # 0
    <3>1. i = 1 \/ i = 2 \/ i = 3 \/ i = 4
      OBVIOUS
    <3> QED
      BY <2>4, <3>1 DEF Terminators
  <2>6. PICK at : at = Find(raw, terminator) /\ at \in 0 .. Len(raw)
    BY <2>3, FindPlace
  <2>7. PICK length : length = IF at = 0 THEN Len(raw) ELSE at - 1
    OBVIOUS
  <2>8. PICK rest : rest = SubSeq(raw, length + Len(terminator) + 1, Len(raw))
    OBVIOUS
  <2>9. Take(state, i) =
          [raw |-> rest, done |-> at = 0 \/ rest = <<>>,
           fits |-> state.fits /\ length < ELEMENT_MAX,
           uri |-> [state.uri EXCEPT ![Elements[i]] = {decode_escape(raw, length)}]]
    BY <1>2, <2>2, <2>4, <2>5, <2>6, <2>7, <2>8, Zenon DEF Take
  <2>10. PICK over \in BOOLEAN : over <=> (at = 0 \/ rest = <<>>)
    OBVIOUS
  <2>17. PICK fits \in BOOLEAN : fits <=> state.fits /\ length < ELEMENT_MAX
    OBVIOUS
  <2>11. /\ Take(state, i).done = over /\ Take(state, i).raw = rest
         /\ Take(state, i).uri = [state.uri EXCEPT ![Elements[i]] = {decode_escape(raw, length)}]
        /\ Take(state, i).fits = fits
    <3>1. (at = 0 \/ rest = <<>>) = over /\ (state.fits /\ length < ELEMENT_MAX) = fits
      BY <2>10, <2>17
    <3>2. Take(state, i) =
            [raw |-> rest, done |-> over, fits |-> fits,
             uri |-> [state.uri EXCEPT ![Elements[i]] = {decode_escape(raw, length)}]]
      BY <2>9, <3>1, Zenon
    <3> QED
      BY <3>2
  <2>16. Take(state, i).fits <=> state.fits /\ Short(t, from, i)
    <3>1. Take(state, i).fits <=> state.fits /\ length < ELEMENT_MAX
      BY <2>11, <2>17
    <3>2. Short(t, from, i) <=> length < ELEMENT_MAX
      BY <2>1, <2>2, <2>4, <2>6, <2>7 DEF Short, Stretch
    <3> QED
      BY <3>1, <3>2
  <2>12. Element(t, from, i) = {decode_escape(raw, length)}
    BY <2>1, <2>2, <2>4, <2>6, <2>7 DEF Element, Stretch
  <2>13. NextBegin(t, from, i) =
           IF at = 0 \/ from + at - 1 + Len(terminator) > Len(t) THEN 0
           ELSE from + at - 1 + Len(terminator)
    BY <2>1, <2>2, <2>4, <2>6 DEF NextBegin
  <2>14. ASSUME at # 0
         PROVE  /\ rest = SubSeq(t, from + at - 1 + Len(terminator), Len(t))
                /\ rest = <<>> <=> from + at - 1 + Len(terminator) > Len(t)
    <3>0. length \in Nat /\ Len(terminator) \in Nat
      <4>1. Len(raw) \in Nat
        BY <2>3 DEF Text
      <4>2. at \in Nat /\ at # 0
        BY <2>6, <2>14, <4>1
      <4> QED
        BY <2>5, <2>7, <4>1, <4>2
    <3>1. PICK m \in Nat \ {0} : m = length + Len(terminator) + 1
      BY <3>0
    <3>2. from + m - 1 = from + at - 1 + Len(terminator)
      <4>1. from \in Nat /\ at \in Nat /\ at # 0 /\ length = at - 1
        BY <1>0, <2>1, <2>3, <2>6, <2>7, <2>14
      <4> QED
        BY <2>5, <3>1, <4>1
    <3>3. /\ SubSeq(raw, m, Len(raw)) = SubSeq(t, from + m - 1, Len(t))
          /\ SubSeq(t, from + m - 1, Len(t)) = <<>> <=> from + m - 1 > Len(t)
      BY <2>3
    <3>4. rest = SubSeq(raw, m, Len(raw))
      BY <2>8, <3>1
    <3> QED
      BY <3>2, <3>3, <3>4
  <2>15. AtPlace(Take(state, i), t, NextBegin(t, from, i))
    <3>1. CASE at = 0 \/ rest = <<>>
      <4>1. NextBegin(t, from, i) = 0
        BY <2>13, <2>14, <3>1
      <4> QED
        BY <2>10, <2>11, <3>1, <4>1 DEF AtPlace
    <3>2. CASE at # 0 /\ rest # <<>>
      <4>1. PICK next : next = from + at - 1 + Len(terminator)
        OBVIOUS
      <4>2. next \in 1 .. Len(t) + 1 /\ ~ (next > Len(t))
        <5>1. from \in Nat /\ from # 0 /\ at \in Nat /\ at # 0
          BY <1>0, <2>1, <2>3, <2>6, <3>2
        <5>2. next <= Len(t)
          BY <2>14, <3>2, <4>1, <5>1, <2>5, <1>0
        <5> QED
          BY <1>0, <2>5, <4>1, <5>1, <5>2
      <4>3. NextBegin(t, from, i) = next
        BY <2>13, <3>2, <4>1, <4>2
      <4>4. rest = SubSeq(t, next, Len(t))
        BY <2>14, <3>2, <4>1
      <4>5. Take(state, i).done = FALSE /\ Take(state, i).raw = rest
        BY <2>10, <2>11, <3>2
      <4> QED
        BY <4>2, <4>3, <4>4, <4>5 DEF AtPlace
    <3> QED
      BY <3>1, <3>2
  <2> QED
    BY <2>1, <2>12, <2>15, <2>11, <2>16
<1> QED
  BY <1>1, <1>2

(* An element that is set leaves the others alone.                         *)
LEMMA ElementSet ==
  ASSUME NEW u, DOMAIN u = Range(Elements), NEW n \in 1 .. 5, NEW e,
         NEW v, v = [u EXCEPT ![Elements[n]] = e]
  PROVE  /\ DOMAIN v = Range(Elements)
         /\ v[Elements[n]] = e
         /\ \A i \in 1 .. 5 : i # n => v[Elements[i]] = u[Elements[i]]
<1>1. /\ \A i, j \in 1 .. 5 : i # j => Elements[i] # Elements[j]
      /\ \A i \in 1 .. 5 : Elements[i] \in Range(Elements)
  BY DEF Elements, Range
<1> QED
  BY <1>1

(* So each of the first four elements is the one that begins at its place, *)
(* unless one of them is too long.                                         *)
LEMMA UriElements ==
  ASSUME NEW t, Text(t)
  PROVE  /\ \A i \in 1 .. 4 : Begin(t)[i] \in 0 .. Len(t) + 1
         /\ ~ (\A i \in 1 .. 4 : Short(t, Begin(t)[i], i)) => uri_decode(t).outcome = "assert"
         /\ (\A i \in 1 .. 4 : Short(t, Begin(t)[i], i)) =>
              /\ uri_decode(t).outcome = "uri"
              /\ \A i \in 1 .. 4 : uri_decode(t).uri[Elements[i]] = Element(t, Begin(t)[i], i)
<1>0. Len(t) \in Nat /\ \A i \in 1 .. 5 : Elements[i] \in Range(Elements)
  BY DEF Text, Elements, Range
<1>1. PICK f : /\ f[0] = [raw |-> t, done |-> FALSE, fits |-> TRUE, uri |-> NoUri]
               /\ \A i \in 1 .. 5 : f[i] = Take(f[i - 1], i)
               /\ uri_decode(t) = IF f[5].fits THEN [outcome |-> "uri", uri |-> f[5].uri]
                                  ELSE [outcome |-> "assert", uri |-> NoUri]
  BY TakenDef
<1> DEFINE b == Begin(t)
           Follows(n) ==
             /\ f[n].done \in BOOLEAN
             /\ AtPlace(f[n], t, b[n + 1])
             /\ DOMAIN f[n].uri = Range(Elements)
             /\ \A i \in 1 .. n : /\ b[i] \in 0 .. Len(t) + 1
                                  /\ f[n].uri[Elements[i]] = Element(t, b[i], i)
             /\ \A i \in n + 1 .. 5 : f[n].uri[Elements[i]] = {}
             /\ f[n].fits <=> \A i \in 1 .. n : Short(t, b[i], i)
           P == {n \in 0 .. 4 : Follows(n)}
<1>2. b[1] = 1 /\ \A i \in 1 .. 4 : b[i + 1] = NextBegin(t, b[i], i)
  BY BeginDef
<1> HIDE DEF b
<1>3. 0 \in P
  <2>1. f[0].done = FALSE /\ f[0].raw = t /\ f[0].uri = NoUri /\ f[0].fits
    BY <1>1
  <2>2. AtPlace(f[0], t, b[0 + 1])
    <3>1. t = SubSeq(t, 1, Len(t))
      BY DEF Text
    <3>2. 0 + 1 = 1 /\ 1 \in 1 .. Len(t) + 1
      BY <1>0
    <3> QED
      BY <1>2, <2>1, <3>1, <3>2 DEF AtPlace
  <2>3. \A i \in 1 .. 5 : NoUri[Elements[i]] = {}
    BY <1>0 DEF NoUri
  <2>4. DOMAIN NoUri = Range(Elements)
    BY DEF NoUri
  <2>5. 0 + 1 = 1 /\ 0 \in 0 .. 4 /\ \A i \in 1 .. 0 : FALSE
    OBVIOUS
  <2> QED
    BY <2>1, <2>2, <2>3, <2>4, <2>5
<1>4. ASSUME NEW n \in 1 .. 4, n - 1 \in P PROVE n \in P
  <2>1. PICK state : state = f[n - 1]
    OBVIOUS
  <2>2. (n - 1) + 1 = n /\ n \in 1 .. 5 /\ n \in 0 .. 4
    OBVIOUS
  <2>3. /\ state.done \in BOOLEAN /\ AtPlace(state, t, b[n])
        /\ DOMAIN state.uri = Range(Elements)
        /\ \A i \in 1 .. n - 1 : /\ b[i] \in 0 .. Len(t) + 1
                                 /\ state.uri[Elements[i]] = Element(t, b[i], i)
        /\ \A i \in n .. 5 : state.uri[Elements[i]] = {}
        /\ state.fits <=> \A i \in 1 .. n - 1 : Short(t, b[i], i)
    BY <1>4, <2>1, <2>2
  <2>4. f[n] = Take(state, n)
    BY <1>1, <2>1, <2>2
  <2>5. /\ f[n].done \in BOOLEAN
        /\ AtPlace(f[n], t, NextBegin(t, b[n], n))
        /\ f[n].uri = IF b[n] = 0 THEN state.uri
                      ELSE [state.uri EXCEPT ![Elements[n]] = Element(t, b[n], n)]
        /\ f[n].fits <=> state.fits /\ Short(t, b[n], n)
    BY <2>3, <2>4, TakeStep
  <2>6. AtPlace(f[n], t, b[n + 1])
    BY <1>2, <2>5
  <2>7. /\ DOMAIN f[n].uri = Range(Elements)
        /\ f[n].uri[Elements[n]] = Element(t, b[n], n)
        /\ \A i \in 1 .. 5 : i # n => f[n].uri[Elements[i]] = state.uri[Elements[i]]
    <3>1. CASE b[n] = 0
      <4>1. f[n].uri = state.uri /\ Element(t, b[n], n) = {}
        BY <2>5, <3>1 DEF Element
      <4>2. n \in n .. 5
        OBVIOUS
      <4> QED
        BY <2>3, <4>1, <4>2
    <3>2. CASE b[n] # 0
      <4>1. f[n].uri = [state.uri EXCEPT ![Elements[n]] = Element(t, b[n], n)]
        BY <2>5, <3>2
      <4>2. PICK u, v, e : u = state.uri /\ v = f[n].uri /\ e = Element(t, b[n], n)
        OBVIOUS
      <4>3. DOMAIN u = Range(Elements) /\ v = [u EXCEPT ![Elements[n]] = e]
        BY <2>3, <4>1, <4>2
      <4>4. /\ DOMAIN v = Range(Elements) /\ v[Elements[n]] = e
            /\ \A i \in 1 .. 5 : i # n => v[Elements[i]] = u[Elements[i]]
        BY <2>2, <4>3, ElementSet
      <4> QED
        BY <4>2, <4>4
    <3> QED
      BY <3>1, <3>2
  <2>8. b[n] \in 0 .. Len(t) + 1
    BY <1>0, <2>3 DEF AtPlace
  <2>9. ASSUME NEW i \in 1 .. n
        PROVE  b[i] \in 0 .. Len(t) + 1 /\ f[n].uri[Elements[i]] = Element(t, b[i], i)
    <3>1. i = n \/ (i \in 1 .. n - 1 /\ i \in 1 .. 5 /\ i # n)
      OBVIOUS
    <3> QED
      BY <2>3, <2>7, <2>8, <3>1
  <2>10. ASSUME NEW i \in n + 1 .. 5 PROVE f[n].uri[Elements[i]] = {}
    <3>1. i \in n .. 5 /\ i \in 1 .. 5 /\ i # n
      OBVIOUS
    <3> QED
      BY <2>3, <2>7, <3>1
  <2>12. f[n].fits <=> \A i \in 1 .. n : Short(t, b[i], i)
    <3>1. \A i \in 1 .. n : i = n \/ i \in 1 .. n - 1
      OBVIOUS
    <3>2. n \in 1 .. n /\ \A i \in 1 .. n - 1 : i \in 1 .. n
      OBVIOUS
    <3>3. (\A i \in 1 .. n : Short(t, b[i], i)) <=>
            (\A i \in 1 .. n - 1 : Short(t, b[i], i)) /\ Short(t, b[n], n)
      BY <3>1, <3>2
    <3> QED
      BY <2>3, <2>5, <3>3
  <2>11. Follows(n)
    BY <2>5, <2>6, <2>7, <2>9, <2>10, <2>12
  <2> QED
    BY <2>2, <2>11
<1>5. Follows(4)
  <2>1. P = 0 .. 4
    <3>1. P \in SUBSET (0 .. 4)
      OBVIOUS
    <3> HIDE DEF P
    <3> QED
      BY <1>3, <1>4, <3>1, UpTo
  <2>2. 4 \in P
    <3> HIDE DEF P
    <3> QED
      BY <2>1
  <2> QED
    BY <2>2
<1>7. f[5].fits <=> f[4].fits
  <2>1. f[5] = Take(f[4], 5)
    BY <1>1
  <2>2. PICK state : state = f[4]
    OBVIOUS
  <2>3. Terminators[5] = <<>> /\ 0 < ELEMENT_MAX
    BY UrisAssumption DEF Terminators
  <2>4. PICK fits \in BOOLEAN : fits <=> state.fits /\ 1 - 1 < ELEMENT_MAX
    OBVIOUS
  <2>5. (state.fits /\ 1 - 1 < ELEMENT_MAX) = fits /\ (fits <=> state.fits) /\ 1 # 0
    BY <2>3, <2>4
  <2>6. \/ Take(state, 5) = state
        \/ \E raw, done, uri : Take(state, 5) = [raw |-> raw, done |-> done, fits |-> fits,
                                                uri |-> uri]
    <3>1. CASE state.done
      BY <3>1, Zenon DEF Take
    <3>2. CASE ~state.done
      BY <2>3, <2>5, <3>2, Zenon DEF Take
    <3> QED
      BY <3>1, <3>2
  <2>7. Take(state, 5).fits <=> state.fits
    BY <2>5, <2>6
  <2> QED
    BY <2>1, <2>2, <2>7
<1>6. ASSUME NEW i \in 1 .. 4 PROVE f[5].uri[Elements[i]] = f[4].uri[Elements[i]]
  <2>1. f[5] = Take(f[4], 5)
    BY <1>1
  <2>2. PICK state : state = f[4]
    OBVIOUS
  <2>3. \/ Take(state, 5) = state
        \/ \E raw, done, fits, e :
             Take(state, 5) = [raw |-> raw, done |-> done, fits |-> fits,
                               uri |-> [state.uri EXCEPT ![Elements[5]] = e]]
    BY Zenon DEF Take
  <2>4. f[5].uri = state.uri \/ \E e : f[5].uri = [state.uri EXCEPT ![Elements[5]] = e]
    <3>1. CASE Take(state, 5) = state
      BY <2>1, <2>2, <3>1
    <3>2. ASSUME NEW raw, NEW done, NEW fits, NEW e,
                 Take(state, 5) = [raw |-> raw, done |-> done, fits |-> fits,
                                   uri |-> [state.uri EXCEPT ![Elements[5]] = e]]
          PROVE  f[5].uri = [state.uri EXCEPT ![Elements[5]] = e]
      BY <2>1, <2>2, <3>2
    <3> QED
      BY <2>3, <3>1, <3>2
  <2>5. i \in 1 .. 5 /\ i # 5 /\ 5 \in 1 .. 5
    OBVIOUS
  <2>6. PICK u, v : u = state.uri /\ v = f[5].uri
    OBVIOUS
  <2>7. DOMAIN u = Range(Elements) /\ (v = u \/ \E e : v = [u EXCEPT ![Elements[5]] = e])
    BY <1>5, <2>2, <2>4, <2>6
  <2>8. v[Elements[i]] = u[Elements[i]]
    BY <2>5, <2>7, ElementSet
  <2> QED
    BY <2>2, <2>6, <2>8
<1>8. f[5].fits <=> \A i \in 1 .. 4 : Short(t, b[i], i)
  BY <1>5, <1>7
<1>9. \A i \in 1 .. 4 : b[i] \in 0 .. Len(t) + 1 /\ f[5].uri[Elements[i]] = Element(t, b[i], i)
  BY <1>5, <1>6
<1>10. /\ f[5].fits => uri_decode(t).outcome = "uri" /\ uri_decode(t).uri = f[5].uri
       /\ ~f[5].fits => uri_decode(t).outcome = "assert"
  BY <1>1
<1> QED
  BY <1>8, <1>9, <1>10 DEF b

(* Scheme, authority, path and query of every text that is decoded are the *)
(* texts between their terminators, each with its escapes decoded, unless  *)
(* one with an escape takes in what follows it; one that is too long spins *)
(* in an assertion, and nothing else does (uri_decode, strdup_until).      *)
THEOREM ElementsAlwaysDecoded == Spec => []ElementsDecoded
<1>1. ASSUME TextTyped PROVE ElementsDecoded
  <2>1. Text(text) /\ Len(text) \in Nat
    BY <1>1 DEF TextTyped, Text
  <2> DEFINE From(i) == SubSeq(text, Begin(text)[i], Len(text))
             End(i) == Find(From(i), Terminators[i])
             Piece(i) == IF End(i) = 0 THEN From(i) ELSE SubSeq(From(i), 1, End(i) - 1)
  <2>3. ASSUME NEW i \in 1 .. 4, Begin(text)[i] # 0
        PROVE  Len(Piece(i)) = Stretch(From(i), i)
    <3>1. PICK raw : raw = From(i)
      OBVIOUS
    <3>2. Text(raw)
      <4>1. Begin(text)[i] \in 1 .. Len(text) + 1
        BY <2>1, <2>3, UriElements
      <4> QED
        BY <2>1, <3>1, <4>1, Suffix
    <3>3. End(i) = Find(raw, Terminators[i]) /\ Find(raw, Terminators[i]) \in 0 .. Len(raw)
      BY <3>1, <3>2, FindPlace
    <3>4. CASE End(i) = 0
      BY <3>1, <3>3, <3>4 DEF Stretch
    <3>5. CASE End(i) # 0
      <4>1. PICK length : length = Find(raw, Terminators[i]) - 1
        OBVIOUS
      <4>2. length \in 0 .. Len(raw) /\ raw \in Seq(Range(raw)) /\ Len(raw) \in Nat
        BY <3>2, <3>3, <3>5, <4>1 DEF Text
      <4>3. Len(SubSeq(raw, 1, length)) = length
        BY <4>2
      <4>4. Piece(i) = SubSeq(raw, 1, length)
        BY <3>1, <3>3, <3>5, <4>1
      <4>5. Stretch(raw, i) = length
        BY <3>3, <3>5, <4>1 DEF Stretch
      <4> QED
        BY <3>1, <4>3, <4>4, <4>5
    <3> QED
      BY <3>4, <3>5
  <2>4. ASSUME NEW i \in 1 .. 4
        PROVE  Short(text, Begin(text)[i], i) <=>
                 (Begin(text)[i] # 0 => Len(Piece(i)) < ELEMENT_MAX)
    BY <2>3 DEF Short
  <2>5. (\A i \in 1 .. 4 : Short(text, Begin(text)[i], i)) <=>
          \A i \in 1 .. 4 : Begin(text)[i] # 0 => Len(Piece(i)) < ELEMENT_MAX
    <3> HIDE DEF Piece
    <3> QED
      BY <2>4, Zenon
  <2>2. ASSUME \A j \in 1 .. 4 : Short(text, Begin(text)[j], j), NEW i \in 1 .. 4
        PROVE  \/ uri_decode(text).uri[Elements[i]] =
                    IF Begin(text)[i] = 0 THEN {} ELSE {decode_escape(Piece(i), Len(Piece(i)))}
               \/ Begin(text)[i] # 0 /\ End(i) # 0 /\ "%" \in ToSet(Piece(i))
    <3>1. uri_decode(text).uri[Elements[i]] = Element(text, Begin(text)[i], i)
      BY <2>1, <2>2, UriElements
    <3>2. CASE Begin(text)[i] = 0
      BY <3>1, <3>2 DEF Element
    <3>3. CASE Begin(text)[i] # 0 /\ End(i) = 0
      BY <3>1, <3>3 DEF Element, Stretch
    <3>4. CASE Begin(text)[i] # 0 /\ End(i) # 0 /\ "%" \notin ToSet(Piece(i))
      <4>1. PICK raw : raw = From(i)
        OBVIOUS
      <4>2. Text(raw)
        <5>1. Begin(text)[i] \in 1 .. Len(text) + 1
          <6>1. Begin(text)[i] \in 0 .. Len(text) + 1
            BY <2>1, UriElements
          <6> QED
            BY <2>1, <3>4, <6>1
        <5> QED
          BY <2>1, <4>1, <5>1, Suffix
      <4>3. PICK length : length = End(i) - 1
        OBVIOUS
      <4>4. End(i) = Find(raw, Terminators[i]) /\ End(i) \in 0 .. Len(raw)
        <5>1. Find(raw, Terminators[i]) \in 0 .. Len(raw)
          BY <4>2, FindPlace
        <5> QED
          BY <4>1, <5>1
      <4>5. PICK piece : piece = SubSeq(raw, 1, length)
        OBVIOUS
      <4>6. Piece(i) = piece
        BY <3>4, <4>1, <4>3, <4>5
      <4>7. length \in 0 .. Len(raw) /\ raw \in Seq(Range(raw)) /\ Len(raw) \in Nat
        BY <3>4, <4>2, <4>3, <4>4 DEF Text
      <4>8. /\ piece \in Seq(Range(raw)) /\ Len(piece) = length
            /\ \A k \in 1 .. length : piece[k] = raw[k] /\ piece[k] \in ToSet(piece)
        <5>1. piece \in Seq(Range(raw)) /\ Len(piece) = length
          BY <4>5, <4>7
        <5>2. \A k \in 1 .. length : piece[k] = raw[k]
          BY <4>5, <4>7
        <5>3. \A k \in 1 .. length : k \in DOMAIN piece
          BY <5>1
        <5>4. \A k \in 1 .. length : piece[k] \in ToSet(piece)
          BY <5>3 DEF ToSet
        <5> QED
          BY <5>1, <5>2, <5>4
      <4>9. \A k \in 1 .. length : raw[k] # "%" /\ piece[k] # "%"
        BY <3>4, <4>6, <4>8
      <4>10. Text(piece)
        BY <4>8, IsText
      <4>11. decode_escape(raw, length) = piece
        BY <4>2, <4>5, <4>7, <4>9, DecodedPlain
      <4>12. decode_escape(piece, Len(piece)) = piece
        <5>1. Len(piece) \in 0 .. Len(piece) /\ SubSeq(piece, 1, Len(piece)) = piece
          BY <4>7, <4>8
        <5> QED
          BY <4>8, <4>9, <4>10, <5>1, DecodedPlain
      <4>13. Element(text, Begin(text)[i], i) = {decode_escape(raw, length)}
        BY <3>4, <4>1, <4>3, <4>4 DEF Element, Stretch
      <4> QED
        BY <3>1, <3>4, <4>6, <4>11, <4>12, <4>13
    <3>5. CASE Begin(text)[i] # 0 /\ End(i) # 0 /\ "%" \in ToSet(Piece(i))
      BY <3>5
    <3> QED
      BY <3>2, <3>3, <3>4, <3>5
  <2>6. uri_decode(text).outcome =
          IF \A i \in 1 .. 4 : Begin(text)[i] # 0 => Len(Piece(i)) < ELEMENT_MAX
            THEN "uri" ELSE "assert"
    <3> HIDE DEF Piece
    <3> QED
      BY <2>1, <2>5, UriElements
  <2> QED
    BY <2>2, <2>5, <2>6, Zenon DEF ElementsDecoded
<1> QED
  BY <1>1, TypedText, PTL

-----------------------------------------------------------------------------
(* Loops over a sequence, an element more at a time                        *)

(* Two loops that start alike and do the same in each round.               *)
LEMMA Agree ==
  ASSUME NEW N \in Nat, NEW f, NEW g, f[0] = g[0],
         \A i \in 1 .. N : f[i - 1] = g[i - 1] => f[i] = g[i]
  PROVE  \A i \in 0 .. N : f[i] = g[i]
<1> DEFINE P == {i \in 0 .. N : f[i] = g[i]}
<1>1. 0 \in P
  OBVIOUS
<1>2. ASSUME NEW i \in 1 .. N, i - 1 \in P PROVE i \in P
  <2>1. f[i - 1] = g[i - 1] /\ i \in 0 .. N
    BY <1>2
  <2> QED
    BY <2>1
<1>3. P = 0 .. N
  <2>1. P \in SUBSET (0 .. N)
    OBVIOUS
  <2> HIDE DEF P
  <2> QED
    BY <1>1, <1>2, <2>1, UpTo
<1> QED
  BY <1>3

(* Induction over sequences: a set with the empty sequence and, with each  *)
(* of its sequences, those that are longer by an element has them all.     *)
LEMMA SeqInduct ==
  ASSUME NEW X, NEW P \in SUBSET Seq(X), <<>> \in P,
         \A s \in P : \A x \in X : Append(s, x) \in P
  PROVE  P = Seq(X)
<1> DEFINE M == {n \in Nat : \A s \in Seq(X) : Len(s) = n => s \in P}
<1>1. 0 \in M
  <2>1. \A s \in Seq(X) : Len(s) = 0 => s = <<>>
    OBVIOUS
  <2> QED
    BY <2>1
<1>2. ASSUME NEW n \in M PROVE n + 1 \in M
  <2>1. n \in Nat /\ n + 1 \in Nat /\ \A s \in Seq(X) : Len(s) = n => s \in P
    OBVIOUS
  <2>2. ASSUME NEW s \in Seq(X), Len(s) = n + 1 PROVE s \in P
    <3>1. s # <<>>
      BY <2>1, <2>2
    <3>2. PICK front \in Seq(X), x \in X : s = Append(front, x)
      BY <3>1, SequenceEmptyOrAppend
    <3>3. Len(front) = n
      BY <2>1, <2>2, <3>2
    <3>4. front \in P
      BY <2>1, <3>3
    <3> QED
      BY <3>2, <3>4
  <2> QED
    BY <2>1, <2>2
<1>3. M = Nat
  <2>1. M \in SUBSET Nat
    OBVIOUS
  <2> HIDE DEF M
  <2> QED
    BY <1>1, <1>2, <2>1, Induct
<1>4. ASSUME NEW s \in Seq(X) PROVE s \in P
  <2>1. Len(s) \in M /\ Len(s) = Len(s)
    BY <1>3
  <2> QED
    BY <2>1
<1> QED
  BY <1>4

-----------------------------------------------------------------------------
(* Paths                                                                   *)

(* The names of a path with a character more.                              *)
Cut(before, c, cuts) ==
  IF c \in cuts THEN Append(before, <<>>)
  ELSE Append(Front(before), Append(Last(before), c))

(* The rounds of the loops over the characters and the names of a path.    *)
LEMMA SplitRuns ==
  ASSUME NEW t, Len(t) \in Nat, NEW cuts
  PROVE  \E f : /\ f[0] = << <<>> >>
                /\ \A i \in 1 .. Len(t) : f[i] = Cut(f[i - 1], t[i], cuts)
                /\ Split(t, cuts) = f[Len(t)]
<1> DEFINE Rec(f, n) == f = [i \in 0 .. n |-> IF i = 0 THEN << <<>> >> ELSE Cut(f[i - 1], t[i], cuts)]
           P == {n \in 0 .. Len(t) : \E f : Rec(f, n)}
           F == CHOOSE f : Rec(f, Len(t))
<1>1. 0 \in P
  <2> DEFINE f == [i \in 0 .. 0 |-> << <<>> >>]
  <2>1. \A i \in 0 .. 0 : i = 0 /\ f[i] = << <<>> >>
    OBVIOUS
  <2>2. f = [i \in 0 .. 0 |-> f[i]] /\ 0 \in 0 .. Len(t)
    OBVIOUS
  <2> HIDE DEF f
  <2>3. Rec(f, 0)
    BY <2>1, <2>2
  <2> QED
    BY <2>2, <2>3
<1>2. ASSUME NEW n \in 1 .. Len(t), n - 1 \in P PROVE n \in P
  <2>1. PICK f : Rec(f, n - 1)
    BY <1>2
  <2>2. \A i \in 0 .. n - 1 : f[i] = IF i = 0 THEN << <<>> >> ELSE Cut(f[i - 1], t[i], cuts)
    BY <2>1, Zenon
  <2> DEFINE last == Cut(f[n - 1], t[n], cuts)
             g == [i \in 0 .. n |-> IF i <= n - 1 THEN f[i] ELSE last]
  <2>3. n - 1 \in 0 .. n /\ n - 1 <= n - 1 /\ n \in 0 .. n /\ ~ (n <= n - 1) /\ n # 0
    OBVIOUS
  <2>4. \A i \in 0 .. n - 1 : i \in 0 .. n /\ i <= n - 1 /\ (i # 0 => i - 1 \in 0 .. n - 1)
    OBVIOUS
  <2>5. g = [i \in 0 .. n |-> g[i]]
    OBVIOUS
  <2>6. g[n] = last
    <3> HIDE DEF last
    <3> QED
      BY <2>3
  <2>7. \A i \in 0 .. n - 1 : g[i] = f[i]
    <3> HIDE DEF last
    <3> QED
      BY <2>4
  <2> HIDE DEF g
  <2>8. g[n] = Cut(g[n - 1], t[n], cuts)
    <3>1. g[n - 1] = f[n - 1]
      BY <2>3, <2>7
    <3> QED
      BY <2>6, <3>1
  <2>9. ASSUME NEW i \in 0 .. n PROVE g[i] = IF i = 0 THEN << <<>> >> ELSE Cut(g[i - 1], t[i], cuts)
    <3>1. CASE i = n
      BY <2>3, <2>8, <3>1
    <3>2. CASE i # n
      <4>1. i \in 0 .. n - 1
        BY <3>2
      <4>2. g[i] = f[i] /\ (i # 0 => g[i - 1] = f[i - 1])
        BY <2>4, <2>7, <4>1
      <4>3. f[i] = IF i = 0 THEN << <<>> >> ELSE Cut(f[i - 1], t[i], cuts)
        BY <2>2, <4>1
      <4> QED
        BY <4>2, <4>3
    <3> QED
      BY <3>1, <3>2
  <2>10. Rec(g, n)
    BY <2>5, <2>9
  <2>11. n \in 0 .. Len(t)
    OBVIOUS
  <2> HIDE DEF Rec
  <2> QED
    BY <2>10, <2>11
<1>3. P = 0 .. Len(t)
  <2>1. P \in SUBSET (0 .. Len(t)) /\ Len(t) \in Nat
    OBVIOUS
  <2> HIDE DEF P
  <2> QED
    BY <1>1, <1>2, <2>1, UpTo
<1>4. Len(t) \in 0 .. Len(t) /\ 0 \in 0 .. Len(t) /\ \A i \in 1 .. Len(t) : i \in 0 .. Len(t) /\ i # 0
  OBVIOUS
<1>5. Rec(F, Len(t))
  <2>1. \E f : Rec(f, Len(t))
    BY <1>3, <1>4
  <2> QED
    BY <2>1, Zenon
<1>6. Split(t, cuts) = F[Len(t)]
  BY DEF Split, Cut
<1> HIDE DEF F
<1>7. \A i \in 0 .. Len(t) : F[i] = IF i = 0 THEN << <<>> >> ELSE Cut(F[i - 1], t[i], cuts)
  BY <1>5, Zenon
<1>8. F[0] = << <<>> >> /\ \A i \in 1 .. Len(t) : F[i] = Cut(F[i - 1], t[i], cuts)
  BY <1>4, <1>7
<1> QED
  BY <1>6, <1>8

(* Names are joined one after the other, each behind a slash.              *)
LEMMA JoinedRuns ==
  ASSUME NEW ps, Len(ps) - 1 \in Nat
  PROVE  \E f : /\ f[0] = ps[1]
                /\ \A i \in 1 .. Len(ps) - 1 : f[i] = f[i - 1] \o <<"/">> \o ps[i + 1]
                /\ Joined(ps) = f[Len(ps) - 1]
<1> DEFINE Rec(f, n) == f = [i \in 0 .. n |-> IF i = 0 THEN ps[1] ELSE f[i - 1] \o <<"/">> \o ps[i + 1]]
           P == {n \in 0 .. Len(ps) - 1 : \E f : Rec(f, n)}
           F == CHOOSE f : Rec(f, Len(ps) - 1)
<1>1. 0 \in P
  <2> DEFINE f == [i \in 0 .. 0 |-> ps[1]]
  <2>1. \A i \in 0 .. 0 : i = 0 /\ f[i] = ps[1]
    OBVIOUS
  <2>2. f = [i \in 0 .. 0 |-> f[i]] /\ 0 \in 0 .. Len(ps) - 1
    OBVIOUS
  <2> HIDE DEF f
  <2>3. Rec(f, 0)
    BY <2>1, <2>2
  <2> QED
    BY <2>2, <2>3
<1>2. ASSUME NEW n \in 1 .. Len(ps) - 1, n - 1 \in P PROVE n \in P
  <2>1. PICK f : Rec(f, n - 1)
    BY <1>2
  <2>2. \A i \in 0 .. n - 1 : f[i] = IF i = 0 THEN ps[1] ELSE f[i - 1] \o <<"/">> \o ps[i + 1]
    BY <2>1, Zenon
  <2> DEFINE last == f[n - 1] \o <<"/">> \o ps[n + 1]
             g == [i \in 0 .. n |-> IF i <= n - 1 THEN f[i] ELSE last]
  <2>3. n - 1 \in 0 .. n /\ n - 1 <= n - 1 /\ n \in 0 .. n /\ ~ (n <= n - 1) /\ n # 0
    OBVIOUS
  <2>4. \A i \in 0 .. n - 1 : i \in 0 .. n /\ i <= n - 1 /\ (i # 0 => i - 1 \in 0 .. n - 1)
    OBVIOUS
  <2>5. g = [i \in 0 .. n |-> g[i]]
    OBVIOUS
  <2>6. g[n] = last
    <3> HIDE DEF last
    <3> QED
      BY <2>3
  <2>7. \A i \in 0 .. n - 1 : g[i] = f[i]
    <3> HIDE DEF last
    <3> QED
      BY <2>4
  <2> HIDE DEF g
  <2>8. g[n] = g[n - 1] \o <<"/">> \o ps[n + 1]
    <3>1. g[n - 1] = f[n - 1]
      BY <2>3, <2>7
    <3> QED
      BY <2>6, <3>1
  <2>9. ASSUME NEW i \in 0 .. n PROVE g[i] = IF i = 0 THEN ps[1] ELSE g[i - 1] \o <<"/">> \o ps[i + 1]
    <3>1. CASE i = n
      BY <2>3, <2>8, <3>1
    <3>2. CASE i # n
      <4>1. i \in 0 .. n - 1
        BY <3>2
      <4>2. g[i] = f[i] /\ (i # 0 => g[i - 1] = f[i - 1])
        BY <2>4, <2>7, <4>1
      <4>3. f[i] = IF i = 0 THEN ps[1] ELSE f[i - 1] \o <<"/">> \o ps[i + 1]
        BY <2>2, <4>1
      <4> QED
        BY <4>2, <4>3
    <3> QED
      BY <3>1, <3>2
  <2>10. Rec(g, n)
    BY <2>5, <2>9
  <2>11. n \in 0 .. Len(ps) - 1
    OBVIOUS
  <2> HIDE DEF Rec
  <2> QED
    BY <2>10, <2>11
<1>3. P = 0 .. Len(ps) - 1
  <2>1. P \in SUBSET (0 .. Len(ps) - 1) /\ Len(ps) - 1 \in Nat
    OBVIOUS
  <2> HIDE DEF P
  <2> QED
    BY <1>1, <1>2, <2>1, UpTo
<1>4. Len(ps) - 1 \in 0 .. Len(ps) - 1 /\ 0 \in 0 .. Len(ps) - 1 /\ \A i \in 1 .. Len(ps) - 1 : i \in 0 .. Len(ps) - 1 /\ i # 0
  OBVIOUS
<1>5. Rec(F, Len(ps) - 1)
  <2>1. \E f : Rec(f, Len(ps) - 1)
    BY <1>3, <1>4
  <2> QED
    BY <2>1, Zenon
<1>6. Joined(ps) = F[Len(ps) - 1]
  BY DEF Joined
<1> HIDE DEF F
<1>7. \A i \in 0 .. Len(ps) - 1 : F[i] = IF i = 0 THEN ps[1] ELSE F[i - 1] \o <<"/">> \o ps[i + 1]
  BY <1>5, Zenon
<1>8. F[0] = ps[1] /\ \A i \in 1 .. Len(ps) - 1 : F[i] = F[i - 1] \o <<"/">> \o ps[i + 1]
  BY <1>4, <1>7
<1> QED
  BY <1>6, <1>8

(* The names behind the first one are taken as steps, one after the other. *)
LEMMA StepsRuns ==
  ASSUME NEW ns, Len(ns) - 1 \in Nat
  PROVE  \E f : /\ f[0] = [valid |-> TRUE, names |-> <<ns[1]>>]
                /\ \A i \in 1 .. Len(ns) - 1 : f[i] = Step(f[i - 1], ns[i + 1])
                /\ Steps(ns) = f[Len(ns) - 1]
<1> DEFINE Rec(f, n) == f = [i \in 0 .. n |-> IF i = 0 THEN [valid |-> TRUE, names |-> <<ns[1]>>] ELSE Step(f[i - 1], ns[i + 1])]
           P == {n \in 0 .. Len(ns) - 1 : \E f : Rec(f, n)}
           F == CHOOSE f : Rec(f, Len(ns) - 1)
<1>1. 0 \in P
  <2> DEFINE f == [i \in 0 .. 0 |-> [valid |-> TRUE, names |-> <<ns[1]>>]]
  <2>1. \A i \in 0 .. 0 : i = 0 /\ f[i] = [valid |-> TRUE, names |-> <<ns[1]>>]
    OBVIOUS
  <2>2. f = [i \in 0 .. 0 |-> f[i]] /\ 0 \in 0 .. Len(ns) - 1
    OBVIOUS
  <2> HIDE DEF f
  <2>3. Rec(f, 0)
    BY <2>1, <2>2
  <2> QED
    BY <2>2, <2>3
<1>2. ASSUME NEW n \in 1 .. Len(ns) - 1, n - 1 \in P PROVE n \in P
  <2>1. PICK f : Rec(f, n - 1)
    BY <1>2
  <2>2. \A i \in 0 .. n - 1 : f[i] = IF i = 0 THEN [valid |-> TRUE, names |-> <<ns[1]>>] ELSE Step(f[i - 1], ns[i + 1])
    BY <2>1, Zenon
  <2> DEFINE last == Step(f[n - 1], ns[n + 1])
             g == [i \in 0 .. n |-> IF i <= n - 1 THEN f[i] ELSE last]
  <2>3. n - 1 \in 0 .. n /\ n - 1 <= n - 1 /\ n \in 0 .. n /\ ~ (n <= n - 1) /\ n # 0
    OBVIOUS
  <2>4. \A i \in 0 .. n - 1 : i \in 0 .. n /\ i <= n - 1 /\ (i # 0 => i - 1 \in 0 .. n - 1)
    OBVIOUS
  <2>5. g = [i \in 0 .. n |-> g[i]]
    OBVIOUS
  <2>6. g[n] = last
    <3> HIDE DEF last
    <3> QED
      BY <2>3
  <2>7. \A i \in 0 .. n - 1 : g[i] = f[i]
    <3> HIDE DEF last
    <3> QED
      BY <2>4
  <2> HIDE DEF g
  <2>8. g[n] = Step(g[n - 1], ns[n + 1])
    <3>1. g[n - 1] = f[n - 1]
      BY <2>3, <2>7
    <3> QED
      BY <2>6, <3>1
  <2>9. ASSUME NEW i \in 0 .. n PROVE g[i] = IF i = 0 THEN [valid |-> TRUE, names |-> <<ns[1]>>] ELSE Step(g[i - 1], ns[i + 1])
    <3>1. CASE i = n
      BY <2>3, <2>8, <3>1
    <3>2. CASE i # n
      <4>1. i \in 0 .. n - 1
        BY <3>2
      <4>2. g[i] = f[i] /\ (i # 0 => g[i - 1] = f[i - 1])
        BY <2>4, <2>7, <4>1
      <4>3. f[i] = IF i = 0 THEN [valid |-> TRUE, names |-> <<ns[1]>>] ELSE Step(f[i - 1], ns[i + 1])
        BY <2>2, <4>1
      <4> QED
        BY <4>2, <4>3
    <3> QED
      BY <3>1, <3>2
  <2>10. Rec(g, n)
    BY <2>5, <2>9
  <2>11. n \in 0 .. Len(ns) - 1
    OBVIOUS
  <2> HIDE DEF Rec
  <2> QED
    BY <2>10, <2>11
<1>3. P = 0 .. Len(ns) - 1
  <2>1. P \in SUBSET (0 .. Len(ns) - 1) /\ Len(ns) - 1 \in Nat
    OBVIOUS
  <2> HIDE DEF P
  <2> QED
    BY <1>1, <1>2, <2>1, UpTo
<1>4. Len(ns) - 1 \in 0 .. Len(ns) - 1 /\ 0 \in 0 .. Len(ns) - 1 /\ \A i \in 1 .. Len(ns) - 1 : i \in 0 .. Len(ns) - 1 /\ i # 0
  OBVIOUS
<1>5. Rec(F, Len(ns) - 1)
  <2>1. \E f : Rec(f, Len(ns) - 1)
    BY <1>3, <1>4
  <2> QED
    BY <2>1, Zenon
<1>6. Steps(ns) = F[Len(ns) - 1]
  BY DEF Steps
<1> HIDE DEF F
<1>7. \A i \in 0 .. Len(ns) - 1 : F[i] = IF i = 0 THEN [valid |-> TRUE, names |-> <<ns[1]>>] ELSE Step(F[i - 1], ns[i + 1])
  BY <1>5, Zenon
<1>8. F[0] = [valid |-> TRUE, names |-> <<ns[1]>>] /\ \A i \in 1 .. Len(ns) - 1 : F[i] = Step(F[i - 1], ns[i + 1])
  BY <1>4, <1>7
<1> QED
  BY <1>6, <1>8

(* A walk that goes on with a name.                                        *)
Onward(at, name) ==
  IF name \in Nothing THEN at
  ELSE IF name = Up THEN IF at = <<>> THEN <<>> ELSE Front(at)
  ELSE Append(at, name)

(* A walk goes along the names one after the other.                        *)
LEMMA WalkRuns ==
  ASSUME NEW ns, Len(ns) \in Nat
  PROVE  \E f : /\ f[0] = <<>>
                /\ \A i \in 1 .. Len(ns) : f[i] = Onward(f[i - 1], ns[i])
                /\ Walk(ns) = f[Len(ns)]
<1> DEFINE Rec(f, n) == f = [i \in 0 .. n |-> IF i = 0 THEN <<>> ELSE Onward(f[i - 1], ns[i])]
           P == {n \in 0 .. Len(ns) : \E f : Rec(f, n)}
           F == CHOOSE f : Rec(f, Len(ns))
<1>1. 0 \in P
  <2> DEFINE f == [i \in 0 .. 0 |-> <<>>]
  <2>1. \A i \in 0 .. 0 : i = 0 /\ f[i] = <<>>
    OBVIOUS
  <2>2. f = [i \in 0 .. 0 |-> f[i]] /\ 0 \in 0 .. Len(ns)
    OBVIOUS
  <2> HIDE DEF f
  <2>3. Rec(f, 0)
    BY <2>1, <2>2
  <2> QED
    BY <2>2, <2>3
<1>2. ASSUME NEW n \in 1 .. Len(ns), n - 1 \in P PROVE n \in P
  <2>1. PICK f : Rec(f, n - 1)
    BY <1>2
  <2>2. \A i \in 0 .. n - 1 : f[i] = IF i = 0 THEN <<>> ELSE Onward(f[i - 1], ns[i])
    BY <2>1, Zenon
  <2> DEFINE last == Onward(f[n - 1], ns[n])
             g == [i \in 0 .. n |-> IF i <= n - 1 THEN f[i] ELSE last]
  <2>3. n - 1 \in 0 .. n /\ n - 1 <= n - 1 /\ n \in 0 .. n /\ ~ (n <= n - 1) /\ n # 0
    OBVIOUS
  <2>4. \A i \in 0 .. n - 1 : i \in 0 .. n /\ i <= n - 1 /\ (i # 0 => i - 1 \in 0 .. n - 1)
    OBVIOUS
  <2>5. g = [i \in 0 .. n |-> g[i]]
    OBVIOUS
  <2>6. g[n] = last
    <3> HIDE DEF last
    <3> QED
      BY <2>3
  <2>7. \A i \in 0 .. n - 1 : g[i] = f[i]
    <3> HIDE DEF last
    <3> QED
      BY <2>4
  <2> HIDE DEF g
  <2>8. g[n] = Onward(g[n - 1], ns[n])
    <3>1. g[n - 1] = f[n - 1]
      BY <2>3, <2>7
    <3> QED
      BY <2>6, <3>1
  <2>9. ASSUME NEW i \in 0 .. n PROVE g[i] = IF i = 0 THEN <<>> ELSE Onward(g[i - 1], ns[i])
    <3>1. CASE i = n
      BY <2>3, <2>8, <3>1
    <3>2. CASE i # n
      <4>1. i \in 0 .. n - 1
        BY <3>2
      <4>2. g[i] = f[i] /\ (i # 0 => g[i - 1] = f[i - 1])
        BY <2>4, <2>7, <4>1
      <4>3. f[i] = IF i = 0 THEN <<>> ELSE Onward(f[i - 1], ns[i])
        BY <2>2, <4>1
      <4> QED
        BY <4>2, <4>3
    <3> QED
      BY <3>1, <3>2
  <2>10. Rec(g, n)
    BY <2>5, <2>9
  <2>11. n \in 0 .. Len(ns)
    OBVIOUS
  <2> HIDE DEF Rec
  <2> QED
    BY <2>10, <2>11
<1>3. P = 0 .. Len(ns)
  <2>1. P \in SUBSET (0 .. Len(ns)) /\ Len(ns) \in Nat
    OBVIOUS
  <2> HIDE DEF P
  <2> QED
    BY <1>1, <1>2, <2>1, UpTo
<1>4. Len(ns) \in 0 .. Len(ns) /\ 0 \in 0 .. Len(ns) /\ \A i \in 1 .. Len(ns) : i \in 0 .. Len(ns) /\ i # 0
  OBVIOUS
<1>5. Rec(F, Len(ns))
  <2>1. \E f : Rec(f, Len(ns))
    BY <1>3, <1>4
  <2> QED
    BY <2>1, Zenon
<1>6. Walk(ns) = F[Len(ns)]
  BY DEF Walk, Onward
<1> HIDE DEF F
<1>7. \A i \in 0 .. Len(ns) : F[i] = IF i = 0 THEN <<>> ELSE Onward(F[i - 1], ns[i])
  BY <1>5, Zenon
<1>8. F[0] = <<>> /\ \A i \in 1 .. Len(ns) : F[i] = Onward(F[i - 1], ns[i])
  BY <1>4, <1>7
<1> QED
  BY <1>6, <1>8

(* The last element of a sequence and those before it.                     *)
LEMMA FrontLast ==
  ASSUME NEW S, NEW s \in Seq(S), NEW x \in S
  PROVE  /\ Front(Append(s, x)) = s
         /\ Last(Append(s, x)) = x
         /\ Append(s, x) # <<>>
<1> DEFINE longer == Append(s, x)
<1>1. /\ longer \in Seq(S) /\ Len(longer) = Len(s) + 1 /\ Len(s) \in Nat
      /\ longer[Len(s) + 1] = x /\ \A i \in 1 .. Len(s) : longer[i] = s[i]
  BY AppendProperties
<1> HIDE DEF longer
<1>2. SubSeq(longer, 1, Len(s)) = s
  <2>1. PICK front : front = SubSeq(longer, 1, Len(s))
    OBVIOUS
  <2>2. front \in Seq(S) /\ Len(front) = Len(s) /\ \A i \in 1 .. Len(s) : front[i] = s[i]
    BY <1>1, <2>1
  <2>3. front = s
    BY <2>2, SeqEqual
  <2> QED
    BY <2>1, <2>3
<1>3. Len(longer) - 1 = Len(s)
  BY <1>1
<1>4. Front(longer) = s /\ Last(longer) = x
  BY <1>1, <1>2, <1>3 DEF Front, Last
<1> QED
  BY <1>1, <1>4 DEF longer

(* What each loop does with one element more.                              *)
LEMMA SplitEmpty == ASSUME NEW cuts PROVE Split(<<>>, cuts) = << <<>> >>
<1>1. Len(<<>>) = 0 /\ Len(<<>>) \in Nat
  OBVIOUS
<1> QED
  BY <1>1, SplitRuns, Zenon

(* A character more.                                                       *)
LEMMA SplitAppend ==
  ASSUME NEW S, NEW t \in Seq(S), NEW c \in S, NEW cuts
  PROVE  Split(Append(t, c), cuts) = Cut(Split(t, cuts), c, cuts)
<1> DEFINE longer == Append(t, c)
<1>1. /\ Len(t) \in Nat /\ Len(longer) = Len(t) + 1 /\ longer[Len(t) + 1] = c
      /\ \A i \in 1 .. Len(t) : longer[i] = t[i]
  BY AppendProperties
<1> HIDE DEF longer
<1>2. Len(t) \in Nat /\ Len(longer) = (Len(t)) + 1
  BY <1>1
<1>3. PICK f : /\ f[0] = << <<>> >>
               /\ \A i \in 1 .. Len(t) : f[i] = Cut(f[i - 1], t[i], cuts)
               /\ Split(t, cuts) = f[Len(t)]
  BY <1>2, SplitRuns, Zenon
<1>4. PICK g : /\ g[0] = << <<>> >>
               /\ \A i \in 1 .. Len(longer) : g[i] = Cut(g[i - 1], longer[i], cuts)
               /\ Split(longer, cuts) = g[Len(longer)]
  <2>1. Len(longer) \in Nat
    BY <1>2
  <2> QED
    BY <2>1, SplitRuns, Zenon
<1>5. f[0] = g[0]
  <2>1. << <<>> >> = << <<>> >>
    OBVIOUS
  <2> QED
    BY <1>3, <1>4, <2>1, Zenon
<1>6. ASSUME NEW i \in 1 .. Len(t), f[i - 1] = g[i - 1] PROVE f[i] = g[i]
  <2>1. i \in 1 .. Len(longer)
    BY <1>2
  <2>2. Cut(g[i - 1], longer[i], cuts) = Cut(g[i - 1], t[i], cuts)
    <3>1. longer[i] = t[i]
      BY <1>1, <1>2
    <3> QED
      BY <3>1
  <2> QED
    BY <1>3, <1>4, <1>6, <2>1, <2>2
<1>7. f[Len(t)] = g[Len(t)]
  <2>1. \A i \in 0 .. Len(t) : f[i] = g[i]
    BY <1>2, <1>5, <1>6, Agree
  <2> QED
    BY <1>2, <2>1
<1>8. g[Len(longer)] = Cut(g[Len(t)], longer[(Len(t) + 1)], cuts)
  <2>1. Len(longer) \in 1 .. Len(longer) /\ (Len(longer)) - 1 = Len(t)
    BY <1>2
  <2>2. g[Len(longer)] = Cut(g[(Len(longer)) - 1], longer[(Len(longer))], cuts)
    BY <1>4, <2>1
  <2> QED
    BY <1>2, <2>1, <2>2
<1>9. longer[(Len(t) + 1)] = c
  <2>1. (Len(t) + 1) = Len(t) + 1
    BY <1>1, <1>2
  <2> QED
    BY <1>1, <2>1
<1>10. Split(t, cuts) = f[Len(t)] /\ Split(longer, cuts) = g[Len(longer)]
  BY <1>3, <1>4, Zenon
<1>11. Split(longer, cuts) = Cut(Split(t, cuts), c, cuts)
  BY <1>7, <1>8, <1>9, <1>10
<1> QED
  BY <1>11 DEF longer

(* A name is joined to itself.                                             *)
LEMMA JoinedSingle == ASSUME NEW p PROVE Joined(<<p>>) = p
<1>1. Len(<<p>>) - 1 = 0 /\ Len(<<p>>) - 1 \in Nat /\ <<p>>[1] = p
  OBVIOUS
<1> QED
  BY <1>1, JoinedRuns, Zenon

(* A name more.                                                            *)
LEMMA JoinedAppend ==
  ASSUME NEW S, NEW ps \in Seq(S), ps # <<>>, NEW p \in S
  PROVE  Joined(Append(ps, p)) = Joined(ps) \o <<"/">> \o p
<1> DEFINE longer == Append(ps, p)
<1>1. /\ Len(ps) \in Nat /\ Len(longer) = Len(ps) + 1 /\ longer[Len(ps) + 1] = p
      /\ \A i \in 1 .. Len(ps) : longer[i] = ps[i]
  BY AppendProperties
<1> HIDE DEF longer
<1>2. Len(ps) - 1 \in Nat /\ Len(longer) - 1 = (Len(ps) - 1) + 1
  BY <1>1
<1>3. PICK f : /\ f[0] = ps[1]
               /\ \A i \in 1 .. Len(ps) - 1 : f[i] = f[i - 1] \o <<"/">> \o ps[i + 1]
               /\ Joined(ps) = f[Len(ps) - 1]
  BY <1>2, JoinedRuns, Zenon
<1>4. PICK g : /\ g[0] = longer[1]
               /\ \A i \in 1 .. Len(longer) - 1 : g[i] = g[i - 1] \o <<"/">> \o longer[i + 1]
               /\ Joined(longer) = g[Len(longer) - 1]
  <2>1. Len(longer) - 1 \in Nat
    BY <1>2
  <2> QED
    BY <2>1, JoinedRuns, Zenon
<1>5. f[0] = g[0]
  <2>1. ps[1] = longer[1]
    <3>1. longer[1] = ps[1]
      BY <1>1, <1>2
    <3> QED
      BY <3>1, Zenon
  <2> QED
    BY <1>3, <1>4, <2>1, Zenon
<1>6. ASSUME NEW i \in 1 .. Len(ps) - 1, f[i - 1] = g[i - 1] PROVE f[i] = g[i]
  <2>1. i \in 1 .. Len(longer) - 1
    BY <1>2
  <2>2. g[i - 1] \o <<"/">> \o longer[i + 1] = g[i - 1] \o <<"/">> \o ps[i + 1]
    <3>1. longer[i + 1] = ps[i + 1]
      BY <1>1, <1>2
    <3> QED
      BY <3>1
  <2> QED
    BY <1>3, <1>4, <1>6, <2>1, <2>2
<1>7. f[Len(ps) - 1] = g[Len(ps) - 1]
  <2>1. \A i \in 0 .. Len(ps) - 1 : f[i] = g[i]
    BY <1>2, <1>5, <1>6, Agree
  <2> QED
    BY <1>2, <2>1
<1>8. g[Len(longer) - 1] = g[Len(ps) - 1] \o <<"/">> \o longer[(Len(ps) - 1 + 1) + 1]
  <2>1. Len(longer) - 1 \in 1 .. Len(longer) - 1 /\ (Len(longer) - 1) - 1 = Len(ps) - 1
    BY <1>2
  <2>2. g[Len(longer) - 1] = g[(Len(longer) - 1) - 1] \o <<"/">> \o longer[(Len(longer) - 1) + 1]
    BY <1>4, <2>1
  <2> QED
    BY <1>2, <2>1, <2>2
<1>9. longer[(Len(ps) - 1 + 1) + 1] = p
  <2>1. (Len(ps) - 1 + 1) + 1 = Len(ps) + 1
    BY <1>1, <1>2
  <2> QED
    BY <1>1, <2>1
<1>10. Joined(ps) = f[Len(ps) - 1] /\ Joined(longer) = g[Len(longer) - 1]
  BY <1>3, <1>4, Zenon
<1>11. Joined(longer) = Joined(ps) \o <<"/">> \o p
  BY <1>7, <1>8, <1>9, <1>10
<1> QED
  BY <1>11 DEF longer

(* The first name stays.                                                   *)
LEMMA StepsSingle == ASSUME NEW n PROVE Steps(<<n>>) = [valid |-> TRUE, names |-> <<n>>]
<1>1. Len(<<n>>) - 1 = 0 /\ Len(<<n>>) - 1 \in Nat /\ <<n>>[1] = n
  OBVIOUS
<1>2. PICK ns : ns = <<n>>
  OBVIOUS
<1>3. Len(ns) - 1 = 0 /\ Len(ns) - 1 \in Nat /\ ns[1] = n
  BY <1>1, <1>2
<1>4. PICK f : f[0] = [valid |-> TRUE, names |-> <<ns[1]>>] /\ Steps(ns) = f[Len(ns) - 1]
  BY <1>3, StepsRuns, Zenon
<1>5. Steps(ns) = [valid |-> TRUE, names |-> <<ns[1]>>]
  BY <1>3, <1>4, Zenon
<1> QED
  BY <1>2, <1>3, <1>5, Zenon

(* A step more.                                                            *)
LEMMA StepsAppend ==
  ASSUME NEW S, NEW ns \in Seq(S), ns # <<>>, NEW n \in S
  PROVE  Steps(Append(ns, n)) = Step(Steps(ns), n)
<1> DEFINE longer == Append(ns, n)
<1>1. /\ Len(ns) \in Nat /\ Len(longer) = Len(ns) + 1 /\ longer[Len(ns) + 1] = n
      /\ \A i \in 1 .. Len(ns) : longer[i] = ns[i]
  BY AppendProperties
<1> HIDE DEF longer
<1>2. Len(ns) - 1 \in Nat /\ Len(longer) - 1 = (Len(ns) - 1) + 1
  BY <1>1
<1>3. PICK f : /\ f[0] = [valid |-> TRUE, names |-> <<ns[1]>>]
               /\ \A i \in 1 .. Len(ns) - 1 : f[i] = Step(f[i - 1], ns[i + 1])
               /\ Steps(ns) = f[Len(ns) - 1]
  BY <1>2, StepsRuns, Zenon
<1>4. PICK g : /\ g[0] = [valid |-> TRUE, names |-> <<longer[1]>>]
               /\ \A i \in 1 .. Len(longer) - 1 : g[i] = Step(g[i - 1], longer[i + 1])
               /\ Steps(longer) = g[Len(longer) - 1]
  <2>1. Len(longer) - 1 \in Nat
    BY <1>2
  <2> QED
    BY <2>1, StepsRuns, Zenon
<1>5. f[0] = g[0]
  <2>1. [valid |-> TRUE, names |-> <<ns[1]>>] = [valid |-> TRUE, names |-> <<longer[1]>>]
    <3>1. longer[1] = ns[1]
      BY <1>1, <1>2
    <3> QED
      BY <3>1, Zenon
  <2> QED
    BY <1>3, <1>4, <2>1, Zenon
<1>6. ASSUME NEW i \in 1 .. Len(ns) - 1, f[i - 1] = g[i - 1] PROVE f[i] = g[i]
  <2>1. i \in 1 .. Len(longer) - 1
    BY <1>2
  <2>2. Step(g[i - 1], longer[i + 1]) = Step(g[i - 1], ns[i + 1])
    <3>1. longer[i + 1] = ns[i + 1]
      BY <1>1, <1>2
    <3> QED
      BY <3>1
  <2> QED
    BY <1>3, <1>4, <1>6, <2>1, <2>2
<1>7. f[Len(ns) - 1] = g[Len(ns) - 1]
  <2>1. \A i \in 0 .. Len(ns) - 1 : f[i] = g[i]
    BY <1>2, <1>5, <1>6, Agree
  <2> QED
    BY <1>2, <2>1
<1>8. g[Len(longer) - 1] = Step(g[Len(ns) - 1], longer[(Len(ns) - 1 + 1) + 1])
  <2>1. Len(longer) - 1 \in 1 .. Len(longer) - 1 /\ (Len(longer) - 1) - 1 = Len(ns) - 1
    BY <1>2
  <2>2. g[Len(longer) - 1] = Step(g[(Len(longer) - 1) - 1], longer[(Len(longer) - 1) + 1])
    BY <1>4, <2>1
  <2> QED
    BY <1>2, <2>1, <2>2
<1>9. longer[(Len(ns) - 1 + 1) + 1] = n
  <2>1. (Len(ns) - 1 + 1) + 1 = Len(ns) + 1
    BY <1>1, <1>2
  <2> QED
    BY <1>1, <2>1
<1>10. Steps(ns) = f[Len(ns) - 1] /\ Steps(longer) = g[Len(longer) - 1]
  BY <1>3, <1>4, Zenon
<1>11. Steps(longer) = Step(Steps(ns), n)
  BY <1>7, <1>8, <1>9, <1>10
<1> QED
  BY <1>11 DEF longer

(* A walk along no names goes nowhere.                                     *)
LEMMA WalkEmpty == Walk(<<>>) = <<>>
<1>1. Len(<<>>) = 0 /\ Len(<<>>) \in Nat
  OBVIOUS
<1>2. PICK f : f[0] = <<>> /\ Walk(<<>>) = f[Len(<<>>)]
  BY <1>1, WalkRuns
<1> QED
  BY <1>1, <1>2

(* A walk along a name more.                                               *)
LEMMA WalkAppend ==
  ASSUME NEW S, NEW ns \in Seq(S), NEW n \in S
  PROVE  Walk(Append(ns, n)) = Onward(Walk(ns), n)
<1> DEFINE longer == Append(ns, n)
<1>1. /\ Len(ns) \in Nat /\ Len(longer) = Len(ns) + 1 /\ longer[Len(ns) + 1] = n
      /\ \A i \in 1 .. Len(ns) : longer[i] = ns[i]
  BY AppendProperties
<1> HIDE DEF longer
<1>2. Len(ns) \in Nat /\ Len(longer) = (Len(ns)) + 1
  BY <1>1
<1>3. PICK f : /\ f[0] = <<>>
               /\ \A i \in 1 .. Len(ns) : f[i] = Onward(f[i - 1], ns[i])
               /\ Walk(ns) = f[Len(ns)]
  BY <1>2, WalkRuns, Zenon
<1>4. PICK g : /\ g[0] = <<>>
               /\ \A i \in 1 .. Len(longer) : g[i] = Onward(g[i - 1], longer[i])
               /\ Walk(longer) = g[Len(longer)]
  <2>1. Len(longer) \in Nat
    BY <1>2
  <2> QED
    BY <2>1, WalkRuns, Zenon
<1>5. f[0] = g[0]
  <2>1. <<>> = <<>>
    OBVIOUS
  <2> QED
    BY <1>3, <1>4, <2>1, Zenon
<1>6. ASSUME NEW i \in 1 .. Len(ns), f[i - 1] = g[i - 1] PROVE f[i] = g[i]
  <2>1. i \in 1 .. Len(longer)
    BY <1>2
  <2>2. Onward(g[i - 1], longer[i]) = Onward(g[i - 1], ns[i])
    <3>1. longer[i] = ns[i]
      BY <1>1, <1>2
    <3> QED
      BY <3>1
  <2> QED
    BY <1>3, <1>4, <1>6, <2>1, <2>2
<1>7. f[Len(ns)] = g[Len(ns)]
  <2>1. \A i \in 0 .. Len(ns) : f[i] = g[i]
    BY <1>2, <1>5, <1>6, Agree
  <2> QED
    BY <1>2, <2>1
<1>8. g[Len(longer)] = Onward(g[Len(ns)], longer[(Len(ns) + 1)])
  <2>1. Len(longer) \in 1 .. Len(longer) /\ (Len(longer)) - 1 = Len(ns)
    BY <1>2
  <2>2. g[Len(longer)] = Onward(g[(Len(longer)) - 1], longer[(Len(longer))])
    BY <1>4, <2>1
  <2> QED
    BY <1>2, <2>1, <2>2
<1>9. longer[(Len(ns) + 1)] = n
  <2>1. (Len(ns) + 1) = Len(ns) + 1
    BY <1>1, <1>2
  <2> QED
    BY <1>1, <2>1
<1>10. Walk(ns) = f[Len(ns)] /\ Walk(longer) = g[Len(longer)]
  BY <1>3, <1>4, Zenon
<1>11. Walk(longer) = Onward(Walk(ns), n)
  BY <1>7, <1>8, <1>9, <1>10
<1> QED
  BY <1>11 DEF longer

(* A sequence with an element more.                                        *)
LEMMA Longer ==
  ASSUME NEW S, NEW s \in Seq(S), NEW x \in S
  PROVE  /\ Append(s, x) \in Seq(S) /\ Append(s, x) # <<>>
         /\ Len(Append(s, x)) = Len(s) + 1 /\ Append(s, x)[Len(s) + 1] = x
         /\ \A i \in 1 .. Len(s) : Append(s, x)[i] = s[i]
  BY AppendProperties

(* How texts are put together.                                             *)
LEMMA ConcatAppend ==
  ASSUME NEW S, NEW a \in Seq(S), NEW b \in Seq(S), NEW x \in S
  PROVE  a \o Append(b, x) = Append(a \o b, x) /\ a \o b \in Seq(S) /\ Append(b, x) \in Seq(S)
<1>1. Append(b, x) = b \o <<x>> /\ <<x>> \in Seq(S) /\ a \o b \in Seq(S) /\ Append(b, x) \in Seq(S)
  BY AppendIsConcat, AppendProperties
<1>2. Append(a \o b, x) = (a \o b) \o <<x>>
  BY <1>1, AppendIsConcat
<1>3. a \o (b \o <<x>>) = (a \o b) \o <<x>>
  BY <1>1, ConcatAssociative
<1> QED
  BY <1>1, <1>2, <1>3

(* An element more leaves the first one alone.                             *)
LEMMA FirstAppend ==
  ASSUME NEW S, NEW s \in Seq(S), s # <<>>, NEW x \in S
  PROVE  Append(s, x)[1] = s[1]
<1>1. 1 \in 1 .. Len(s)
  BY EmptySeq
<1> QED
  BY <1>1, AppendProperties

(* A sequence with an element more is one, and is not empty.               *)
LEMMA LongerType ==
  ASSUME NEW S, NEW s \in Seq(S), NEW x \in S
  PROVE  Append(s, x) \in Seq(S) /\ Append(s, x) # <<>>
  BY AppendProperties

(* A character more for the last name, or a name more.                     *)
LEMMA CutName ==
  ASSUME NEW Y, NEW ns \in Seq(Seq(Y)), NEW n \in Seq(Y), NEW c \in Y, NEW cuts, c \notin cuts
  PROVE  Cut(Append(ns, n), c, cuts) = Append(ns, Append(n, c))
<1>1. Front(Append(ns, n)) = ns /\ Last(Append(ns, n)) = n
  BY FrontLast
<1> QED
  BY <1>1 DEF Cut

(* A character more leaves names that are names.                           *)
LEMMA CutNames ==
  ASSUME NEW N, NEW ns \in Seq(N), ns # <<>>, NEW c, NEW cuts,
         NEW none \in N, none = <<>>, NEW more, \A n \in N : c \notin cuts => more[n] \in N /\ more[n] = Append(n, c)
  PROVE  Cut(ns, c, cuts) \in Seq(N) /\ Cut(ns, c, cuts) # <<>>
<1>1. PICK front \in Seq(N), n \in N : ns = Append(front, n)
  BY SequenceEmptyOrAppend
<1>2. CASE c \in cuts
  <2>1. Cut(ns, c, cuts) = Append(ns, none)
    BY <1>2 DEF Cut
  <2> QED
    BY <2>1, LongerType
<1>3. CASE c \notin cuts
  <2>1. more[n] \in N /\ Cut(ns, c, cuts) = Append(front, more[n])
    <3>1. Front(Append(front, n)) = front /\ Last(Append(front, n)) = n
      BY FrontLast
    <3> QED
      BY <1>1, <1>3, <3>1 DEF Cut
  <2> QED
    BY <2>1, LongerType
<1> QED
  BY <1>2, <1>3

(* A character more leaves names without cuts.                             *)
LEMMA CutType ==
  ASSUME NEW X, NEW cuts, NEW ns \in Seq(Seq(X \ cuts)), ns # <<>>, NEW c \in X
  PROVE  Cut(ns, c, cuts) \in Seq(Seq(X \ cuts)) /\ Cut(ns, c, cuts) # <<>>
<1>1. PICK N : N = Seq(X \ cuts)
  OBVIOUS
<1>2. PICK more : more = [n \in N |-> Append(n, c)]
  OBVIOUS
<1>3. \A n \in N : c \notin cuts => more[n] \in N /\ more[n] = Append(n, c)
  BY <1>1, <1>2, AppendProperties
<1>40. PICK none : none = <<>>
  OBVIOUS
<1>4. none = <<>> /\ none \in N
  BY <1>1, <1>40
<1>5. ns \in Seq(N)
  BY <1>1
<1>6. Cut(ns, c, cuts) \in Seq(N) /\ Cut(ns, c, cuts) # <<>>
  BY <1>3, <1>4, <1>5, CutNames
<1> QED
  BY <1>1, <1>6

(* No name has a character at which the text was cut.                      *)
LEMMA SplitType ==
  ASSUME NEW X, NEW t \in Seq(X), NEW cuts
  PROVE  Split(t, cuts) \in Seq(Seq(X \ cuts)) /\ Split(t, cuts) # <<>>
<1> DEFINE P == {s \in Seq(X) : Split(s, cuts) \in Seq(Seq(X \ cuts)) /\ Split(s, cuts) # <<>>}
<1>1. <<>> \in P
  <2>1. << <<>> >> \in Seq(Seq(X \ cuts)) /\ << <<>> >> # <<>> /\ <<>> \in Seq(X)
    OBVIOUS
  <2> QED
    BY <2>1, SplitEmpty
<1>2. ASSUME NEW s \in P, NEW x \in X PROVE Append(s, x) \in P
  <2>1. s \in Seq(X) /\ Split(s, cuts) \in Seq(Seq(X \ cuts)) /\ Split(s, cuts) # <<>>
    BY <1>2
  <2>2. Append(s, x) \in Seq(X) /\ Split(Append(s, x), cuts) = Cut(Split(s, cuts), x, cuts)
    BY <2>1, SplitAppend, AppendProperties
  <2> QED
    BY <2>1, <2>2, CutType
<1>3. P = Seq(X)
  <2>1. P \in SUBSET Seq(X)
    OBVIOUS
  <2> HIDE DEF P
  <2> QED
    BY <1>1, <1>2, <2>1, SeqInduct
<1> QED
  BY <1>3

(* The names of a text are texts.                                          *)
LEMMA SplitNames ==
  ASSUME NEW X, NEW t \in Seq(X), NEW cuts
  PROVE  Split(t, cuts) \in Seq(Seq(X)) /\ Split(t, cuts) # <<>>
<1>1. Seq(X \ cuts) \subseteq Seq(X)
  BY SeqMonotonic
<1> QED
  BY <1>1, SplitType, SeqMonotonic

(* What has no cut in it goes to the last name.                            *)
LEMMA SplitPlain ==
  ASSUME NEW X, NEW cuts, NEW a \in Seq(X), NEW b \in Seq(X \ cuts),
         NEW ns \in Seq(Seq(X)), NEW n \in Seq(X), Split(a, cuts) = Append(ns, n)
  PROVE  Split(a \o b, cuts) = Append(ns, n \o b)
<1> DEFINE P == {s \in Seq(X \ cuts) : Split(a \o s, cuts) = Append(ns, n \o s)}
<1>1. <<>> \in P
  <2>1. a \o <<>> = a /\ n \o <<>> = n /\ <<>> \in Seq(X \ cuts)
    BY ConcatEmptySeq
  <2> QED
    BY <2>1
<1>2. ASSUME NEW s \in P, NEW x \in X \ cuts PROVE Append(s, x) \in P
  <2>1. s \in Seq(X \ cuts) /\ s \in Seq(X) /\ Split(a \o s, cuts) = Append(ns, n \o s)
    BY <1>2, SeqMonotonic
  <2>2. Append(s, x) \in Seq(X \ cuts)
    BY <2>1, AppendProperties
  <2>3. a \o Append(s, x) = Append(a \o s, x) /\ a \o s \in Seq(X)
    <3>1. x \in X /\ s \in Seq(X)
      BY <2>1
    <3> QED
      BY <3>1, ConcatAppend
  <2>3n. n \o Append(s, x) = Append(n \o s, x) /\ n \o s \in Seq(X)
    BY <2>1, ConcatAppend
  <2>4. Split(Append(a \o s, x), cuts) = Cut(Append(ns, n \o s), x, cuts)
    BY <2>1, <2>3, SplitAppend
  <2>5. Cut(Append(ns, n \o s), x, cuts) = Append(ns, Append(n \o s, x))
    <3>1. PICK m \in Seq(X) : m = n \o s
      BY <2>3n
    <3>2. Cut(Append(ns, m), x, cuts) = Append(ns, Append(m, x))
      BY CutName
    <3> QED
      BY <3>1, <3>2
  <2> QED
    BY <2>2, <2>3, <2>3n, <2>4, <2>5
<1>3. P = Seq(X \ cuts)
  <2>1. P \in SUBSET Seq(X \ cuts)
    OBVIOUS
  <2> HIDE DEF P
  <2> QED
    BY <1>1, <1>2, <2>1, SeqInduct
<1> QED
  BY <1>3

(* The names on both sides of a cut.                                       *)
LEMMA SplitConcat ==
  ASSUME NEW X, NEW cuts, NEW a \in Seq(X), NEW b \in Seq(X), NEW c \in X, c \in cuts
  PROVE  Split(Append(a, c) \o b, cuts) = Split(a, cuts) \o Split(b, cuts)
<1> DEFINE P == {s \in Seq(X) : Split(Append(a, c) \o s, cuts) = Split(a, cuts) \o Split(s, cuts)}
<1>1. Split(a, cuts) \in Seq(Seq(X)) /\ Append(a, c) \in Seq(X)
  BY SplitNames, AppendProperties
<1>2. <<>> \in P
  <2>1. Append(a, c) \o <<>> = Append(a, c)
    BY <1>1, ConcatEmptySeq
  <2>2. Split(Append(a, c), cuts) = Append(Split(a, cuts), <<>>)
    BY SplitAppend DEF Cut
  <2>3. Append(Split(a, cuts), <<>>) = Split(a, cuts) \o << <<>> >>
    BY <1>1, AppendIsConcat, EmptySeq
  <2>4. <<>> \in Seq(X)
    OBVIOUS
  <2> QED
    BY <2>1, <2>2, <2>3, <2>4, SplitEmpty
<1>3. ASSUME NEW s \in P, NEW x \in X PROVE Append(s, x) \in P
  <2>1. s \in Seq(X) /\ Split(Append(a, c) \o s, cuts) = Split(a, cuts) \o Split(s, cuts)
    BY <1>3
  <2>2. Append(s, x) \in Seq(X) /\ Append(a, c) \o s \in Seq(X)
        /\ Append(a, c) \o Append(s, x) = Append(Append(a, c) \o s, x)
    BY <1>1, <2>1, ConcatAppend
  <2>3. Split(Append(a, c) \o Append(s, x), cuts) = Cut(Split(a, cuts) \o Split(s, cuts), x, cuts)
    BY <2>1, <2>2, SplitAppend
  <2>4. Split(Append(s, x), cuts) = Cut(Split(s, cuts), x, cuts)
    BY <2>1, SplitAppend
  <2>5. PICK ns \in Seq(Seq(X)), n \in Seq(X) : Split(s, cuts) = Append(ns, n)
    <3>1. Split(s, cuts) \in Seq(Seq(X)) /\ Split(s, cuts) # <<>>
      BY <2>1, SplitNames
    <3> QED
      BY <3>1, SequenceEmptyOrAppend
  <2>6. Split(a, cuts) \o Append(ns, n) = Append(Split(a, cuts) \o ns, n)
        /\ Split(a, cuts) \o ns \in Seq(Seq(X)) /\ Append(ns, n) \in Seq(Seq(X))
    BY <1>1, <2>5, ConcatAppend
  <2>7. Cut(Split(a, cuts) \o Split(s, cuts), x, cuts) = Split(a, cuts) \o Cut(Split(s, cuts), x, cuts)
    <3>1. CASE x \in cuts
      <4>1. PICK r : r = Split(s, cuts) /\ r \in Seq(Seq(X))
        BY <2>5, <2>6
      <4>2. Split(a, cuts) \o Append(r, <<>>) = Append(Split(a, cuts) \o r, <<>>)
        BY <1>1, <4>1, ConcatAppend, EmptySeq
      <4> QED
        BY <3>1, <4>1, <4>2 DEF Cut
    <3>2. CASE x \notin cuts
      <4>1. Append(n, x) \in Seq(X)
        BY <2>5, AppendProperties
      <4>2. Cut(Append(ns, n), x, cuts) = Append(ns, Append(n, x))
        BY <3>2, CutName
      <4>3. Cut(Append(Split(a, cuts) \o ns, n), x, cuts) = Append(Split(a, cuts) \o ns, Append(n, x))
        <5>1. PICK more \in Seq(Seq(X)) : more = Split(a, cuts) \o ns
          BY <2>6
        <5>2. Cut(Append(more, n), x, cuts) = Append(more, Append(n, x))
          BY <3>2, CutName
        <5> QED
          BY <5>1, <5>2
      <4>4. Split(a, cuts) \o Append(ns, Append(n, x)) = Append(Split(a, cuts) \o ns, Append(n, x))
        BY <1>1, <4>1, ConcatAppend
      <4> QED
        BY <2>5, <2>6, <4>2, <4>3, <4>4
    <3> QED
      BY <3>1, <3>2
  <2> QED
    BY <2>2, <2>3, <2>4, <2>7
<1>4. P = Seq(X)
  <2>1. P \in SUBSET Seq(X)
    OBVIOUS
  <2> HIDE DEF P
  <2> QED
    BY <1>2, <1>3, <2>1, SeqInduct
<1> QED
  BY <1>4

(* The first character belongs to the first name.                          *)
Leads(c, ns, ms) ==
  /\ Len(ms) = Len(ns) /\ ms[1] = <<c>> \o ns[1]
  /\ \A i \in 2 .. Len(ns) : ms[i] = ns[i]
(* A text can grow at its end whatever is put before it.                   *)
Grows(N, c, x) == \A n \in N : Append(n, x) \in N /\ <<c>> \o Append(n, x) = Append(<<c>> \o n, x)

(* A character before a text and one behind it.                            *)
LEMMA ConcatOne ==
  ASSUME NEW S, NEW c \in S, NEW s \in Seq(S), NEW x \in S
  PROVE  Append(s, x) \in Seq(S) /\ <<c>> \o Append(s, x) = Append(<<c>> \o s, x)
<1>1. <<c>> \in Seq(S)
  OBVIOUS
<1> QED
  BY <1>1, ConcatAppend

(* So can all texts.                                                       *)
LEMMA TextsGrow ==
  ASSUME NEW S, NEW c \in S, NEW x \in S
  PROVE  Grows(Seq(S), c, x)
<1> SUFFICES ASSUME NEW s \in Seq(S)
             PROVE  Append(s, x) \in Seq(S) /\ <<c>> \o Append(s, x) = Append(<<c>> \o s, x)
  BY DEF Grows
<1> QED
  BY ConcatOne

(* A character more changes the names alike, whatever leads the first one. *)
LEMMA CutLikewise ==
  ASSUME NEW N, NEW ns \in Seq(N), ns # <<>>, NEW ms \in Seq(N), NEW none \in N, none = <<>>,
         NEW c, NEW x, NEW cuts, Grows(N, c, x), Leads(c, ns, ms)
  PROVE  Leads(c, Cut(ns, x, cuts), Cut(ms, x, cuts))
<1>1. /\ Len(ns) \in Nat /\ Len(ns) # 0 /\ 1 \in 1 .. Len(ns) /\ ms # <<>>
      /\ Len(ms) = Len(ns) /\ ms[1] = <<c>> \o ns[1] /\ \A i \in 2 .. Len(ns) : ms[i] = ns[i]
  BY EmptySeq DEF Leads
<1>4. PICK nf \in Seq(N), n \in N : ns = Append(nf, n)
  BY SequenceEmptyOrAppend
<1>5. PICK mf \in Seq(N), m \in N : ms = Append(mf, m)
  BY <1>1, SequenceEmptyOrAppend
<1>2. CASE x \in cuts
  <2>2. Cut(ns, x, cuts) = Append(ns, none) /\ Cut(ms, x, cuts) = Append(ms, none)
    BY <1>2 DEF Cut
  <2>3. /\ Len(Append(ns, none)) = Len(ns) + 1 /\ Append(ns, none)[Len(ns) + 1] = none
        /\ \A i \in 1 .. Len(ns) : Append(ns, none)[i] = ns[i]
    BY <1>1, Longer
  <2>4. /\ Len(Append(ms, none)) = Len(ns) + 1 /\ Append(ms, none)[Len(ns) + 1] = none
        /\ \A i \in 1 .. Len(ns) : Append(ms, none)[i] = ms[i]
    BY <1>1, Longer
  <2>5. \A i \in 2 .. Len(ns) + 1 : i = Len(ns) + 1 \/ i \in 2 .. Len(ns)
    BY <1>1
  <2>6. \A i \in 2 .. Len(ns) : i \in 1 .. Len(ns)
    BY <1>1
  <2>7. Leads(c, Append(ns, none), Append(ms, none))
    BY <1>1, <2>3, <2>4, <2>5, <2>6 DEF Leads
  <2> QED
    BY <2>2, <2>7
<1>3. CASE x \notin cuts
  <2>3. /\ Len(ns) = Len(nf) + 1 /\ ns[Len(nf) + 1] = n
        /\ \A i \in 1 .. Len(nf) : ns[i] = nf[i]
    BY <1>4, Longer
  <2>4. /\ Len(ms) = Len(mf) + 1 /\ ms[Len(mf) + 1] = m
        /\ \A i \in 1 .. Len(mf) : ms[i] = mf[i]
    BY <1>5, Longer
  <2>5. Len(mf) = Len(nf) /\ Len(nf) \in Nat
    BY <1>1, <2>3, <2>4
  <2>6. PICK nx : nx = Append(n, x) /\ nx \in N
    BY DEF Grows
  <2>7. PICK mx : mx = Append(m, x) /\ mx \in N
    BY DEF Grows
  <2>8. Cut(ns, x, cuts) = Append(nf, nx) /\ Cut(ms, x, cuts) = Append(mf, mx)
    <3>1. Front(Append(nf, n)) = nf /\ Last(Append(nf, n)) = n
      BY FrontLast
    <3>2. Front(Append(mf, m)) = mf /\ Last(Append(mf, m)) = m
      BY FrontLast
    <3> QED
      BY <1>3, <1>4, <1>5, <2>6, <2>7, <3>1, <3>2 DEF Cut
  <2>9. /\ Len(Append(nf, nx)) = Len(nf) + 1 /\ Append(nf, nx)[Len(nf) + 1] = nx
        /\ \A i \in 1 .. Len(nf) : Append(nf, nx)[i] = nf[i]
    BY <2>6, Longer
  <2>10. /\ Len(Append(mf, mx)) = Len(nf) + 1 /\ Append(mf, mx)[Len(nf) + 1] = mx
         /\ \A i \in 1 .. Len(nf) : Append(mf, mx)[i] = mf[i]
    BY <2>5, <2>7, Longer
  <2>11. CASE Len(nf) = 0
    <3>1. m = <<c>> \o n
      BY <1>1, <2>3, <2>4, <2>5, <2>11
    <3>2. mx = <<c>> \o nx
      <4>1. <<c>> \o Append(n, x) = Append(<<c>> \o n, x)
        BY DEF Grows
      <4> QED
        BY <2>6, <2>7, <3>1, <4>1
    <3>3. /\ Len(Append(nf, nx)) = 1 /\ Append(nf, nx)[1] = nx
          /\ Len(Append(mf, mx)) = 1 /\ Append(mf, mx)[1] = mx
      BY <2>9, <2>10, <2>11
    <3>4. \A i \in 2 .. 1 : FALSE
      OBVIOUS
    <3>5. Leads(c, Append(nf, nx), Append(mf, mx))
      BY <3>2, <3>3, <3>4 DEF Leads
    <3> QED
      BY <2>8, <3>5
  <2>12. CASE Len(nf) # 0
    <3>1. 1 \in 1 .. Len(nf) /\ \A i \in 2 .. Len(nf) : i \in 1 .. Len(nf) /\ i \in 2 .. Len(ns)
      BY <2>3, <2>5, <2>12
    <3>2. mf[1] = <<c>> \o nf[1] /\ \A i \in 2 .. Len(nf) : mf[i] = nf[i]
      BY <1>1, <2>3, <2>4, <2>5, <3>1
    <3>3. m = n
      <4>1. Len(nf) + 1 \in 2 .. Len(ns)
        BY <2>3, <2>5, <2>12
      <4> QED
        BY <1>1, <2>3, <2>4, <2>5, <4>1
    <3>4. PICK k \in Nat : k = Len(nf)
      BY <2>5
    <3>5. \A i \in 2 .. k + 1 : i = k + 1 \/ i \in 2 .. k
      OBVIOUS
    <3>6. Leads(c, Append(nf, nx), Append(mf, mx))
      BY <2>6, <2>7, <2>9, <2>10, <3>1, <3>2, <3>3, <3>4, <3>5 DEF Leads
    <3> QED
      BY <2>8, <3>6
  <2> QED
    BY <2>11, <2>12
<1> QED
  BY <1>2, <1>3

(* The same for names that are texts.                                      *)
LEMMA CutFirst ==
  ASSUME NEW Y, NEW ns \in Seq(Seq(Y)), ns # <<>>, NEW c \in Y, NEW x \in Y, NEW cuts,
         NEW ms \in Seq(Seq(Y)), Leads(c, ns, ms)
  PROVE  Leads(c, Cut(ns, x, cuts), Cut(ms, x, cuts))
<1>1. PICK N : N = Seq(Y)
  OBVIOUS
<1>2. ns \in Seq(N) /\ ms \in Seq(N)
  BY <1>1
<1>30. PICK none : none = <<>>
  OBVIOUS
<1>3. none = <<>> /\ none \in N
  BY <1>1, <1>30
<1>4. Grows(N, c, x)
  BY <1>1, TextsGrow
<1> QED
  BY <1>2, <1>3, <1>4, CutLikewise

(* A character put before a text comes before its first name.              *)
LEMMA SplitFirst ==
  ASSUME NEW X, NEW cuts, NEW c \in X, c \notin cuts, NEW t \in Seq(X)
  PROVE  Leads(c, Split(t, cuts), Split(<<c>> \o t, cuts))
<1> DEFINE P == {s \in Seq(X) : Leads(c, Split(s, cuts), Split(<<c>> \o s, cuts))}
<1>1. <<c>> \in Seq(X) /\ <<>> \in Seq(X)
  OBVIOUS
<1>2. <<>> \in P
  <2>1. <<c>> \o <<>> = Append(<<>>, c) /\ <<c>> \o <<>> = <<c>>
    OBVIOUS
  <2>2. Split(<<>>, cuts) = << <<>> >>
    BY SplitEmpty
  <2>3. Split(<<c>> \o <<>>, cuts) = Cut(<< <<>> >>, c, cuts)
    BY <1>1, <2>1, <2>2, SplitAppend
  <2>4. Cut(<< <<>> >>, c, cuts) = << <<c>> >>
    <3>1. << <<>> >> = Append(<<>>, <<>>) /\ <<>> \in Seq(Seq(X)) /\ <<>> \in Seq(X)
      OBVIOUS
    <3>2. Cut(Append(<<>>, <<>>), c, cuts) = Append(<<>>, Append(<<>>, c))
      <4>1. PICK ns \in Seq(Seq(X)), n \in Seq(X) : ns = <<>> /\ n = <<>>
        BY <3>1
      <4>2. Cut(Append(ns, n), c, cuts) = Append(ns, Append(n, c))
        BY CutName
      <4> QED
        BY <4>1, <4>2
    <3>3. Append(<<>>, Append(<<>>, c)) = << <<c>> >>
      OBVIOUS
    <3> QED
      BY <3>1, <3>2, <3>3
  <2>5. Leads(c, << <<>> >>, << <<c>> >>)
    BY <2>1 DEF Leads
  <2> QED
    BY <1>1, <2>2, <2>3, <2>4, <2>5
<1>3. ASSUME NEW s \in P, NEW x \in X PROVE Append(s, x) \in P
  <2>1. s \in Seq(X) /\ Leads(c, Split(s, cuts), Split(<<c>> \o s, cuts))
    BY <1>3
  <2>2. <<c>> \o Append(s, x) = Append(<<c>> \o s, x) /\ <<c>> \o s \in Seq(X)
        /\ Append(s, x) \in Seq(X)
    BY <1>1, <2>1, ConcatAppend
  <2>3. Split(Append(s, x), cuts) = Cut(Split(s, cuts), x, cuts)
    BY <2>1, SplitAppend
  <2>4. Split(Append(<<c>> \o s, x), cuts) = Cut(Split(<<c>> \o s, cuts), x, cuts)
    BY <2>2, SplitAppend
  <2>5. Split(s, cuts) \in Seq(Seq(X)) /\ Split(s, cuts) # <<>>
    BY <2>1, SplitNames
  <2>6. Split(<<c>> \o s, cuts) \in Seq(Seq(X))
    BY <2>2, SplitNames
  <2>7. Leads(c, Cut(Split(s, cuts), x, cuts), Cut(Split(<<c>> \o s, cuts), x, cuts))
    <3> HIDE DEF P
    <3> QED
      BY <2>1, <2>5, <2>6, CutFirst
  <2> QED
    BY <2>2, <2>3, <2>4, <2>7
<1>4. P = Seq(X)
  <2>1. P \in SUBSET Seq(X)
    OBVIOUS
  <2> HIDE DEF P
  <2> QED
    BY <1>2, <1>3, <2>1, SeqInduct
<1> QED
  BY <1>4

(* Backslashes made slashes.                                               *)
Forward(t) == ReplaceAll(t, "\\", "/")

(* A character more.                                                       *)
LEMMA ForwardAppend ==
  ASSUME NEW X, NEW t \in Seq(X), NEW c \in X
  PROVE  /\ Forward(t) \in Seq(X \cup {"/"})
         /\ Forward(Append(t, c)) = Append(Forward(t), IF c = "\\" THEN "/" ELSE c)
<1> DEFINE Y == X \cup {"/"}
           longer == Append(t, c)
           new == IF c = "\\" THEN "/" ELSE c
<1>1. /\ longer \in Seq(X) /\ Len(longer) = Len(t) + 1 /\ Len(t) \in Nat
      /\ longer[Len(t) + 1] = c /\ \A i \in 1 .. Len(t) : longer[i] = t[i]
  BY AppendProperties
<1>2. \A s \in Seq(X) : /\ Forward(s) \in Seq(Y) /\ Len(Forward(s)) = Len(s)
                        /\ \A i \in 1 .. Len(s) :
                             Forward(s)[i] = IF s[i] = "\\" THEN "/" ELSE s[i]
  <2> SUFFICES ASSUME NEW s \in Seq(X)
               PROVE  /\ Forward(s) \in Seq(Y) /\ Len(Forward(s)) = Len(s)
                      /\ \A i \in 1 .. Len(s) :
                           Forward(s)[i] = IF s[i] = "\\" THEN "/" ELSE s[i]
    OBVIOUS
  <2>1. \A i \in 1 .. Len(s) : (IF s[i] = "\\" THEN "/" ELSE s[i]) \in Y
    OBVIOUS
  <2>2. Len(s) \in Nat
    OBVIOUS
  <2> QED
    BY <2>1, <2>2 DEF Forward, ReplaceAll
<1>3. PICK before \in Seq(Y) : before = Forward(t)
  BY <1>2
<1>4. new \in Y
  OBVIOUS
<1>5. PICK after \in Seq(Y) : after = Append(before, new)
  BY <1>4, AppendProperties
<1>6. /\ Len(after) = Len(t) + 1 /\ after[Len(t) + 1] = new
      /\ \A i \in 1 .. Len(t) : after[i] = IF t[i] = "\\" THEN "/" ELSE t[i]
  <2>1. /\ Len(after) = Len(before) + 1 /\ after[Len(before) + 1] = new
        /\ \A i \in 1 .. Len(before) : after[i] = before[i]
    BY <1>4, <1>5, AppendProperties
  <2>2. Len(before) = Len(t) /\ \A i \in 1 .. Len(t) : before[i] = IF t[i] = "\\" THEN "/" ELSE t[i]
    BY <1>2, <1>3
  <2> HIDE DEF new
  <2> QED
    BY <2>1, <2>2
<1>7. PICK whole \in Seq(Y) : whole = Forward(longer)
  BY <1>1, <1>2
<1>8. whole = after
  <2>1. Len(whole) = Len(after) /\ Len(whole) = Len(t) + 1
    BY <1>1, <1>2, <1>6, <1>7
  <2>2. ASSUME NEW i \in 1 .. Len(t) + 1 PROVE whole[i] = after[i]
    <3>1. whole[i] = IF longer[i] = "\\" THEN "/" ELSE longer[i]
      BY <1>1, <1>2, <1>7
    <3>2. CASE i \in 1 .. Len(t)
      <4> HIDE DEF longer
      <4> QED
        BY <1>1, <1>6, <3>1, <3>2
    <3>3. CASE i = Len(t) + 1
      <4>1. longer[i] = c
        BY <1>1, <3>3
      <4> HIDE DEF longer
      <4> QED
        BY <1>6, <3>1, <3>3, <4>1
    <3>4. i \in 1 .. Len(t) \/ i = Len(t) + 1
      BY <1>1
    <3> QED
      BY <3>2, <3>3, <3>4
  <2> QED
    BY <2>1, <2>2, SeqEqual
<1> QED
  BY <1>2, <1>3, <1>5, <1>7, <1>8

(* Nothing has no slashes.                                                 *)
LEMMA ForwardEmpty == Forward(<<>>) = <<>>
  BY DEF Forward, ReplaceAll

(* A text without backslashes stays as it is.                              *)
LEMMA ForwardSame ==
  ASSUME NEW X, "\\" \notin X, NEW t \in Seq(X)
  PROVE  Forward(t) = t
<1>1. Len(t) \in Nat /\ \A i \in 1 .. Len(t) : t[i] \in X /\ t[i] # "\\"
  OBVIOUS
<1>2. Forward(t) = [i \in 1 .. Len(t) |-> t[i]]
  BY <1>1 DEF Forward, ReplaceAll
<1> QED
  BY <1>2

(* The direction of the slashes is nothing to the names.                   *)
LEMMA SplitForward ==
  ASSUME NEW X, NEW t \in Seq(X)
  PROVE  Split(Forward(t), Slashes) = Split(t, Slashes)
<1> DEFINE P == {s \in Seq(X) : Split(Forward(s), Slashes) = Split(s, Slashes)}
<1>1. <<>> \in P
  BY ForwardEmpty
<1>2. ASSUME NEW s \in P, NEW c \in X PROVE Append(s, c) \in P
  <2>1. s \in Seq(X) /\ Split(Forward(s), Slashes) = Split(s, Slashes)
    BY <1>2
  <2>2. Append(s, c) \in Seq(X)
    BY <2>1, AppendProperties
  <2>3. PICK new \in X \cup {"/"} : new = IF c = "\\" THEN "/" ELSE c
    OBVIOUS
  <2>4. Forward(s) \in Seq(X \cup {"/"}) /\ Forward(Append(s, c)) = Append(Forward(s), new)
    BY <2>1, <2>3, ForwardAppend
  <2>5. Split(Append(Forward(s), new), Slashes) = Cut(Split(Forward(s), Slashes), new, Slashes)
    BY <2>4, SplitAppend
  <2>6. Split(Append(s, c), Slashes) = Cut(Split(s, Slashes), c, Slashes)
    BY <2>1, SplitAppend
  <2>7. Cut(Split(s, Slashes), new, Slashes) = Cut(Split(s, Slashes), c, Slashes)
    BY <2>3 DEF Cut, Slashes
  <2> QED
    BY <2>1, <2>2, <2>4, <2>5, <2>6, <2>7
<1>3. P = Seq(X)
  <2>1. P \in SUBSET Seq(X)
    OBVIOUS
  <2> HIDE DEF P
  <2> QED
    BY <1>1, <1>2, <2>1, SeqInduct
<1> QED
  BY <1>3

(* Names joined are a text, and come apart as they were.                   *)
LEMMA JoinedType ==
  ASSUME NEW X, "/" \in X, NEW ns \in Seq(Seq(X)), ns # <<>>
  PROVE  Joined(ns) \in Seq(X)
<1>0. PICK N : N = Seq(X)
  OBVIOUS
<1> DEFINE P == {s \in Seq(N) : s # <<>> => Joined(s) \in N}
<1>1. <<>> \in P
  OBVIOUS
<1>2. ASSUME NEW s \in P, NEW n \in N PROVE Append(s, n) \in P
  <2>1. s \in Seq(N) /\ (s # <<>> => Joined(s) \in N)
    BY <1>2
  <2>2. Append(s, n) \in Seq(N)
    BY <2>1, LongerType
  <2>3. CASE s = <<>>
    <3>1. Append(s, n) = <<n>>
      BY <2>3
    <3> QED
      BY <2>2, <3>1, JoinedSingle
  <2>4. CASE s # <<>>
    <3>1. Joined(Append(s, n)) = Joined(s) \o <<"/">> \o n
      BY <2>1, <2>4, JoinedAppend
    <3>2. Joined(s) \o <<"/">> \o n \in Seq(X)
      <4>1. Joined(s) \in Seq(X) /\ <<"/">> \in Seq(X) /\ n \in Seq(X)
        BY <1>0, <2>1, <2>4
      <4>2. Joined(s) \o <<"/">> \in Seq(X)
        BY <4>1, ConcatProperties
      <4> QED
        BY <4>1, <4>2, ConcatProperties
    <3> QED
      BY <1>0, <2>2, <3>1, <3>2
  <2> QED
    BY <2>3, <2>4
<1>3. P = Seq(N)
  <2>1. P \in SUBSET Seq(N)
    OBVIOUS
  <2> HIDE DEF P
  <2> QED
    BY <1>1, <1>2, <2>1, SeqInduct
<1>4. ns \in Seq(N)
  BY <1>0
<1>5. ns \in P
  BY <1>3, <1>4
<1> QED
  BY <1>0, <1>5

(* A text without cuts is its own name.                                    *)
LEMMA OneName ==
  ASSUME NEW X, NEW cuts, NEW n \in Seq(X \ cuts)
  PROVE  Split(n, cuts) = <<n>>
<1>1. PICK none, nones : none = <<>> /\ nones = <<>>
  OBVIOUS
<1>2. none \in Seq(X) /\ nones \in Seq(Seq(X)) /\ Split(none, cuts) = Append(nones, none)
  BY <1>1, SplitEmpty
<1>3. Split(none \o n, cuts) = Append(nones, none \o n)
  BY <1>2, SplitPlain
<1>4. none \o n = n /\ Append(nones, n) = <<n>>
  BY <1>1, ConcatEmptySeq
<1> QED
  BY <1>3, <1>4

(* Names without slashes come apart as they were joined.                   *)
LEMMA SplitJoined ==
  ASSUME NEW X, "/" \in X, NEW ns \in Seq(Seq(X \ Slashes)), ns # <<>>
  PROVE  Split(Joined(ns), Slashes) = ns
<1>0. PICK N : N = Seq(X \ Slashes)
  OBVIOUS
<1> DEFINE P == {s \in Seq(N) : s # <<>> => Split(Joined(s), Slashes) = s}
<1>1. <<>> \in P
  OBVIOUS
<1>2. ASSUME NEW s \in P, NEW n \in N PROVE Append(s, n) \in P
  <2>1. s \in Seq(N) /\ (s # <<>> => Split(Joined(s), Slashes) = s)
    BY <1>2
  <2>2. Append(s, n) \in Seq(N)
    BY <2>1, LongerType
  <2>3. n \in Seq(X \ Slashes) /\ n \in Seq(X) /\ Split(n, Slashes) = <<n>>
    <3>1. n \in Seq(X \ Slashes)
      BY <1>0
    <3> QED
      BY <3>1, OneName, SeqMonotonic
  <2>4. CASE s = <<>>
    <3>1. Append(s, n) = <<n>>
      BY <2>4
    <3> QED
      BY <2>2, <2>3, <3>1, JoinedSingle
  <2>5. CASE s # <<>>
    <3>1. Joined(Append(s, n)) = Joined(s) \o <<"/">> \o n
      BY <2>1, <2>5, JoinedAppend
    <3>2. Joined(s) \in Seq(X)
      <4>1. Seq(X \ Slashes) \subseteq Seq(X)
        BY SeqMonotonic
      <4>2. PICK M : M = Seq(X)
        OBVIOUS
      <4>3. s \in Seq(M)
        BY <1>0, <2>1, <4>1, <4>2, SeqMonotonic
      <4> QED
        BY <2>5, <4>2, <4>3, JoinedType
    <3>3. Joined(s) \o <<"/">> \o n = Append(Joined(s), "/") \o n
      BY <3>2, AppendIsConcat
    <3>4. Split(Append(Joined(s), "/") \o n, Slashes) = Split(Joined(s), Slashes) \o Split(n, Slashes)
      <4>1. "/" \in Slashes /\ n \in Seq(X)
        BY <2>3 DEF Slashes
      <4> HIDE DEF P
      <4> QED
        BY <3>2, <4>1, SplitConcat
    <3>5. s \o <<n>> = Append(s, n)
      BY <2>1, AppendIsConcat
    <3> QED
      BY <2>1, <2>2, <2>3, <2>5, <3>1, <3>3, <3>4, <3>5
  <2> QED
    BY <2>4, <2>5
<1>3. P = Seq(N)
  <2>1. P \in SUBSET Seq(N)
    OBVIOUS
  <2> HIDE DEF P
  <2> QED
    BY <1>1, <1>2, <2>1, SeqInduct
<1>4. ns \in Seq(N)
  BY <1>0
<1>5. ns \in P
  BY <1>3, <1>4
<1> QED
  BY <1>5

(* The names of a text, joined, are the text with all its slashes forward. *)
LEMMA JoinedSplit ==
  ASSUME NEW X, "/" \in X, NEW t \in Seq(X)
  PROVE  Joined(Split(t, Slashes)) = Forward(t)
<1> DEFINE P == {s \in Seq(X) : Joined(Split(s, Slashes)) = Forward(s)}
<1>1. <<>> \in P
  <2>1. <<>> \in Seq(X)
    OBVIOUS
  <2>2. Joined(Split(<<>>, Slashes)) = <<>>
    <3>1. PICK none : none = <<>>
      OBVIOUS
    <3>2. Joined(<<none>>) = none
      BY JoinedSingle
    <3> QED
      BY <3>1, <3>2, SplitEmpty
  <2> QED
    BY <2>1, <2>2, ForwardEmpty
<1>2. ASSUME NEW s \in P, NEW c \in X PROVE Append(s, c) \in P
  <2>1. s \in Seq(X) /\ Joined(Split(s, Slashes)) = Forward(s)
    BY <1>2
  <2>2. Append(s, c) \in Seq(X)
    BY <2>1, AppendProperties
  <2>3. Split(Append(s, c), Slashes) = Cut(Split(s, Slashes), c, Slashes)
    BY <2>1, SplitAppend
  <2>4. Forward(Append(s, c)) = Append(Forward(s), IF c = "\\" THEN "/" ELSE c)
    BY <2>1, ForwardAppend
  <2>5. PICK N : N = Seq(X)
    OBVIOUS
  <2>6. Split(s, Slashes) \in Seq(N) /\ Split(s, Slashes) # <<>>
    BY <2>1, <2>5, SplitNames
  <2>7. Forward(s) \in Seq(X)
    <3>1. X \cup {"/"} = X
      OBVIOUS
    <3>2. Forward(s) \in Seq(X \cup {"/"})
      BY <2>1, ForwardAppend
    <3> QED
      BY <3>1, <3>2
  <2>8. CASE c \in Slashes
    <3>1. PICK none \in N : none = <<>>
      <4>1. <<>> \in N
        BY <2>5
      <4> QED
        BY <4>1
    <3>2. Cut(Split(s, Slashes), c, Slashes) = Append(Split(s, Slashes), none)
      BY <2>8, <3>1 DEF Cut
    <3>3. Joined(Append(Split(s, Slashes), none)) = Joined(Split(s, Slashes)) \o <<"/">> \o none
      BY <2>6, JoinedAppend
    <3>4. Forward(s) \o <<"/">> \o none = Append(Forward(s), "/")
      <4>1. Forward(s) \o <<"/">> = Append(Forward(s), "/") /\ Append(Forward(s), "/") \in Seq(X)
        BY <2>7, AppendIsConcat, AppendProperties
      <4> QED
        BY <3>1, <4>1, ConcatEmptySeq
    <3>5. c = "\\" \/ c = "/"
      BY <2>8 DEF Slashes
    <3>6. Forward(Append(s, c)) = Append(Forward(s), "/")
      BY <2>4, <3>5
    <3> QED
      BY <2>1, <2>2, <2>3, <3>2, <3>3, <3>4, <3>6
  <2>9. CASE c \notin Slashes
    <3>1. PICK front \in Seq(N), n \in N : Split(s, Slashes) = Append(front, n)
      BY <2>6, SequenceEmptyOrAppend
    <3>2. PICK longer \in N : longer = Append(n, c)
      <4>1. Append(n, c) \in Seq(X)
        BY <2>5, AppendProperties
      <4> QED
        BY <2>5, <4>1
    <3>3. Cut(Split(s, Slashes), c, Slashes) = Append(front, longer)
      <4>1. Front(Append(front, n)) = front /\ Last(Append(front, n)) = n
        BY FrontLast
      <4> QED
        BY <2>9, <3>1, <3>2, <4>1 DEF Cut
    <3>4. Joined(Append(front, longer)) = Append(Forward(s), c)
      <4>1. CASE front = <<>>
        <5>1. Append(front, longer) = <<longer>> /\ Append(front, n) = <<n>>
          BY <4>1
        <5>2. Joined(<<longer>>) = longer /\ Joined(<<n>>) = n
          BY JoinedSingle
        <5> QED
          BY <2>1, <3>1, <3>2, <5>1, <5>2
      <4>2. CASE front # <<>>
        <5>1. Joined(Append(front, longer)) = Joined(front) \o <<"/">> \o longer
              /\ Joined(Append(front, n)) = Joined(front) \o <<"/">> \o n
          BY <4>2, JoinedAppend
        <5>2. Joined(front) \o <<"/">> \in Seq(X)
          <6>1. Joined(front) \in Seq(X) /\ <<"/">> \in Seq(X)
            BY <2>5, <4>2, JoinedType
          <6> QED
            BY <6>1, ConcatProperties
        <5>3. (Joined(front) \o <<"/">>) \o Append(n, c) = Append((Joined(front) \o <<"/">>) \o n, c)
          BY <2>5, <5>2, ConcatAppend
        <5> QED
          BY <2>1, <3>1, <3>2, <5>1, <5>3
      <4> QED
        BY <4>1, <4>2
    <3>5. c # "\\"
      BY <2>9 DEF Slashes
    <3> QED
      BY <2>2, <2>3, <2>4, <3>3, <3>4, <3>5
  <2> QED
    BY <2>8, <2>9
<1>3. P = Seq(X)
  <2>1. P \in SUBSET Seq(X)
    OBVIOUS
  <2> HIDE DEF P
  <2> QED
    BY <1>1, <1>2, <2>1, SeqInduct
<1> QED
  BY <1>3

(* Names without a step back stay, and none is left that is one.           *)
LEMMA StepsSafe ==
  ASSUME NEW N, NEW ns \in Seq(N), ns # <<>>, \A i \in 2 .. Len(ns) : ~StepsBack(ns[i])
  PROVE  Steps(ns) = [valid |-> TRUE, names |-> ns]
<1> DEFINE Forth(s) == \A i \in 2 .. Len(s) : ~StepsBack(s[i])
           P == {s \in Seq(N) : s # <<>> /\ Forth(s) => Steps(s) = [valid |-> TRUE, names |-> s]}
<1>1. <<>> \in P
  OBVIOUS
<1>2. ASSUME NEW s \in P, NEW n \in N PROVE Append(s, n) \in P
  <2>1. s \in Seq(N) /\ (s # <<>> /\ Forth(s) => Steps(s) = [valid |-> TRUE, names |-> s])
    BY <1>2
  <2>2. Append(s, n) \in Seq(N)
    BY <2>1, LongerType
  <2>3. CASE s = <<>>
    <3>1. Append(s, n) = <<n>>
      BY <2>3
    <3> QED
      BY <2>2, <3>1, StepsSingle
  <2>4. ASSUME s # <<>>, Forth(Append(s, n)) PROVE Steps(Append(s, n)) = [valid |-> TRUE, names |-> Append(s, n)]
    <3>1. /\ Len(Append(s, n)) = Len(s) + 1 /\ Append(s, n)[Len(s) + 1] = n
          /\ \A i \in 1 .. Len(s) : Append(s, n)[i] = s[i]
      BY <2>1, Longer
    <3>2. Len(s) \in Nat \ {0}
      BY <2>1, <2>4, EmptySeq
    <3>3. ~StepsBack(n)
      <4>1. Len(s) + 1 \in 2 .. Len(s) + 1
        BY <3>2
      <4> QED
        BY <2>4, <3>1, <4>1
    <3>4. Forth(s)
      <4>1. \A i \in 2 .. Len(s) : i \in 1 .. Len(s) /\ i \in 2 .. Len(s) + 1
        BY <3>2
      <4> QED
        BY <2>4, <3>1, <4>1
    <3>5. Steps(Append(s, n)) = Step([valid |-> TRUE, names |-> s], n)
      BY <2>1, <2>4, <3>4, StepsAppend
    <3> QED
      BY <3>3, <3>5 DEF Step
  <2> QED
    BY <2>2, <2>3, <2>4
<1>3. P = Seq(N)
  <2>1. P \in SUBSET Seq(N)
    OBVIOUS
  <2> HIDE DEF P
  <2> QED
    BY <1>1, <1>2, <2>1, SeqInduct
<1> QED
  BY <1>3

(* All but the last element of a sequence.                                 *)
LEMMA FrontType ==
  ASSUME NEW S, NEW s \in Seq(S), s # <<>>
  PROVE  Front(s) \in Seq(S)
<1>1. PICK front \in Seq(S), x \in S : s = Append(front, x)
  BY SequenceEmptyOrAppend
<1> QED
  BY <1>1, FrontLast

(* What the stack keeps is the first name or a name that is no step back.  *)
LEMMA StepsMembers ==
  ASSUME NEW N, NEW ns \in Seq(N), ns # <<>>, NEW S, ns[1] \in S,
         \A n \in N : ~StepsBack(n) => n \in S
  PROVE  Steps(ns) \in [valid : BOOLEAN, names : Seq(S)]
<1> DEFINE Stacks == [valid : BOOLEAN, names : Seq(S)]
           P == {s \in Seq(N) : s # <<>> /\ s[1] \in S => Steps(s) \in Stacks}
<1>0. ASSUME NEW stack \in Stacks, NEW n \in N PROVE Step(stack, n) \in Stacks
  <2>1. stack.names \in Seq(S) /\ stack.valid \in BOOLEAN
    OBVIOUS
  <2>2. CASE ~stack.valid
    BY <2>2 DEF Step
  <2>3. CASE stack.valid /\ StepsBack(n)
    <3>1. PICK names : names = IF stack.names = <<>> THEN <<>> ELSE Front(stack.names)
      OBVIOUS
    <3>2. names \in Seq(S)
      <4>1. CASE stack.names = <<>>
        BY <3>1, <4>1, EmptySeq
      <4>2. CASE stack.names # <<>>
        BY <2>1, <3>1, <4>2, FrontType
      <4> QED
        BY <4>1, <4>2
    <3>3. Step(stack, n) = [valid |-> stack.names # <<>>, names |-> names]
      BY <2>3, <3>1 DEF Step
    <3>4. (stack.names # <<>>) \in BOOLEAN
      OBVIOUS
    <3> QED
      BY <3>2, <3>3, <3>4
  <2>4. CASE stack.valid /\ ~StepsBack(n)
    <3>1. Append(stack.names, n) \in Seq(S)
      BY <2>1, <2>4, LongerType
    <3>2. Step(stack, n) = [stack EXCEPT !.names = Append(@, n)]
      BY <2>4 DEF Step
    <3> QED
      BY <3>1, <3>2
  <2> QED
    BY <2>2, <2>3, <2>4
<1>1. <<>> \in P
  OBVIOUS
<1>2. ASSUME NEW s \in P, NEW n \in N PROVE Append(s, n) \in P
  <2>1. s \in Seq(N) /\ (s # <<>> /\ s[1] \in S => Steps(s) \in Stacks)
    BY <1>2
  <2>2. Append(s, n) \in Seq(N)
    BY <2>1, LongerType
  <2>3. CASE s = <<>>
    <3>1. Append(s, n) = <<n>> /\ <<n>>[1] = n
      BY <2>3
    <3>2. Steps(<<n>>) = [valid |-> TRUE, names |-> <<n>>]
      BY StepsSingle
    <3>3. n \in S => <<n>> \in Seq(S)
      OBVIOUS
    <3>4. ASSUME n \in S PROVE Steps(<<n>>) \in Stacks
      <4>1. PICK names : names = <<n>> /\ names \in Seq(S)
        BY <3>3, <3>4
      <4>2. Steps(<<n>>) = [valid |-> TRUE, names |-> names]
        BY <3>2, <4>1
      <4>3. [valid |-> TRUE, names |-> names] \in [valid : BOOLEAN, names : Seq(S)]
        <5>1. PICK all : all = Seq(S)
          OBVIOUS
        <5>2. names \in all /\ TRUE \in BOOLEAN
          BY <4>1, <5>1
        <5>3. [valid |-> TRUE, names |-> names] \in [valid : BOOLEAN, names : all]
          BY <5>2, Zenon
        <5> QED
          BY <5>1, <5>3
      <4> QED
        BY <4>2, <4>3 DEF Stacks
    <3> HIDE DEF Stacks
    <3> QED
      BY <2>2, <3>1, <3>4
  <2>4. CASE s # <<>>
    <3>1. Append(s, n)[1] = s[1]
      BY <2>1, <2>4, FirstAppend
    <3>2. Steps(Append(s, n)) = Step(Steps(s), n)
      BY <2>1, <2>4, StepsAppend
    <3> HIDE DEF Stacks
    <3> QED
      BY <1>0, <2>1, <2>2, <2>4, <3>1, <3>2
  <2> QED
    BY <2>3, <2>4
<1>3. P = Seq(N)
  <2>1. P \in SUBSET Seq(N)
    OBVIOUS
  <2> HIDE DEF P
  <2> QED
    BY <1>1, <1>2, <2>1, SeqInduct
<1> QED
  BY <1>3

(* The first character of a text and the rest.                             *)
LEMMA FirstRest ==
  ASSUME NEW X, NEW t \in Seq(X), t # <<>>
  PROVE  /\ t[1] \in X /\ Tail(t) \in Seq(X) /\ t = <<t[1]>> \o Tail(t)
         /\ Len(Tail(t)) = Len(t) - 1 /\ \A i \in 1 .. Len(t) - 1 : Tail(t)[i] = t[i + 1]
<1>1. Len(t) \in Nat \ {0}
  BY EmptySeq
<1>2. /\ t[1] \in X /\ Tail(t) \in Seq(X) /\ Len(Tail(t)) = Len(t) - 1
      /\ \A i \in 1 .. Len(t) - 1 : Tail(t)[i] = t[i + 1]
  BY <1>1
<1>3. PICK one \in Seq(X), rest \in Seq(X) : one = <<t[1]>> /\ rest = Tail(t)
  <2>1. <<t[1]>> \in Seq(X) /\ Tail(t) \in Seq(X)
    BY <1>2
  <2> QED
    BY <2>1, Zenon
<1>4. Len(one) = 1 /\ one[1] = t[1] /\ Len(rest) = Len(t) - 1
      /\ \A i \in 1 .. Len(t) - 1 : rest[i] = t[i + 1]
  BY <1>2, <1>3
<1>5. /\ one \o rest \in Seq(X) /\ Len(one \o rest) = Len(one) + Len(rest)
      /\ \A i \in 1 .. Len(one) + Len(rest) :
           (one \o rest)[i] = IF i <= Len(one) THEN one[i] ELSE rest[i - Len(one)]
  BY ConcatProperties
<1>6. PICK whole \in Seq(X) : whole = one \o rest
  BY <1>5
<1>7. Len(whole) = Len(t)
  BY <1>1, <1>4, <1>5, <1>6
<1>8. ASSUME NEW i \in 1 .. Len(t) PROVE whole[i] = t[i]
  <2>1. whole[i] = IF i <= 1 THEN one[i] ELSE rest[i - 1]
    BY <1>1, <1>4, <1>5, <1>6
  <2>2. CASE i = 1
    BY <1>4, <2>1, <2>2
  <2>3. CASE i # 1
    <3>1. i - 1 \in 1 .. Len(t) - 1 /\ (i - 1) + 1 = i /\ ~(i <= 1)
      BY <1>1, <2>3
    <3> QED
      BY <1>4, <2>1, <3>1
  <2> QED
    BY <2>2, <2>3
<1>9. whole = t
  BY <1>7, <1>8, SeqEqual
<1> QED
  BY <1>2, <1>3, <1>6, <1>9

(* The letters of drives.  No sign of a path is one.                       *)
Letters == DOMAIN Upper \cup Range(Upper)

LEMMA LettersNoSigns == \A c \in Letters : c # "." /\ c # ":" /\ c \notin Slashes
  BY PathsAssumption DEF Letters, Slashes

(* A step back begins with two dots.                                       *)
LEMMA StepBackSigns ==
  ASSUME NEW X, NEW n \in Seq(X), StepsBack(n)
  PROVE  Len(n) >= 2 /\ n[1] = "." /\ n[2] = "."
<1>1. 2 <= Len(n) /\ SubSeq(Up, 1, 2) = SubSeq(n, 1, 2)
  BY DEF StepsBack, IsPrefix, Up
<1>2. SubSeq(Up, 1, 2)[1] = "." /\ SubSeq(Up, 1, 2)[2] = "."
  BY DEF Up
<1>3. SubSeq(n, 1, 2)[1] = n[1] /\ SubSeq(n, 1, 2)[2] = n[2]
  BY <1>1
<1> QED
  BY <1>1, <1>2, <1>3

(* A name that begins with a letter is a name like any other.              *)
LEMMA LetterNoStep ==
  ASSUME NEW X, NEW n \in Seq(X), NEW c \in Letters
  PROVE  ~StepsBack(<<c>> \o n) /\ <<c>> \o n # <<>> /\ <<c>> \o n # Up /\ <<c>> \o n # <<".">>
<1>1. PICK w \in Seq(X \cup Letters) : w = <<c>> \o n
  <2>1. n \in Seq(X \cup Letters) /\ <<c>> \in Seq(X \cup Letters)
    BY SeqMonotonic
  <2> QED
    BY <2>1, ConcatProperties
<1>2. Len(w) >= 1 /\ w[1] = c
  BY <1>1
<1>3. c # "."
  BY LettersNoSigns
<1>4. ~StepsBack(w)
  BY <1>2, <1>3, StepBackSigns
<1>5. w # <<>> /\ w # Up /\ w # <<".">>
  BY <1>2, <1>3 DEF Up
<1> QED
  BY <1>1, <1>4, <1>5

(* The drive of a path in upper case changes its first name only.          *)
LEMMA UpperDrive ==
  ASSUME NEW X, Range(Upper) \subseteq X, NEW t \in Seq(X)
  PROVE  /\ WithUpperDrive(t) \in Seq(X) /\ Len(WithUpperDrive(t)) = Len(t)
         /\ \/ WithUpperDrive(t) = t
            \/ \E a \in Letters \cap X, b \in Letters \cap X, rest \in Seq(X) :
                 t = <<a>> \o rest /\ WithUpperDrive(t) = <<b>> \o rest
<1>1. CASE is_windows_drive(t) /\ t[1] \in DOMAIN Upper
  <2>1. Len(t) \in Nat /\ Len(t) >= 3 /\ 1 \in 1 .. Len(t) /\ t # <<>>
    BY <1>1 DEF is_windows_drive
  <2>2. PICK b : b = Upper[t[1]]
    OBVIOUS
  <2>3. b \in Range(Upper) /\ b \in X /\ t[1] \in X
    BY <1>1, <2>1, <2>2 DEF Range
  <2>4. PICK u : u = [t EXCEPT ![1] = b]
    OBVIOUS
  <2>5. u = WithUpperDrive(t)
    BY <1>1, <2>2, <2>4 DEF WithUpperDrive
  <2>6. /\ u \in Seq(X) /\ Len(u) = Len(t)
        /\ \A j \in 1 .. Len(t) : u[j] = IF j = 1 THEN b ELSE t[j]
    BY <2>1, <2>3, <2>4, ExceptSeq
  <2>7. PICK rest \in Seq(X) : rest = Tail(t)
    BY <2>1, FirstRest
  <2>8. t = <<t[1]>> \o rest
    BY <2>1, <2>7, FirstRest
  <2>9. u # <<>> /\ u[1] = b
    BY <2>1, <2>6
  <2>10. u = <<b>> \o Tail(u) /\ Tail(u) \in Seq(X)
    BY <2>6, <2>9, FirstRest
  <2>11. Tail(u) = rest
    <3>1. PICK other \in Seq(X) : other = Tail(u)
      BY <2>10
    <3>2. /\ Len(rest) = Len(t) - 1 /\ \A i \in 1 .. Len(t) - 1 : rest[i] = t[i + 1]
      BY <2>1, <2>7, FirstRest
    <3>3. /\ Len(other) = Len(t) - 1 /\ \A i \in 1 .. Len(t) - 1 : other[i] = u[i + 1]
      BY <2>6, <2>9, <3>1, FirstRest
    <3>4. ASSUME NEW i \in 1 .. Len(other) PROVE other[i] = rest[i]
      <4>1. i + 1 \in 1 .. Len(t) /\ i + 1 # 1 /\ i \in 1 .. Len(t) - 1
        BY <2>1, <3>3
      <4> QED
        BY <2>6, <3>2, <3>3, <4>1
    <3> QED
      BY <3>1, <3>2, <3>3, <3>4, SeqEqual
  <2>12. t[1] \in Letters \cap X /\ b \in Letters \cap X
    BY <1>1, <2>3 DEF Letters
  <2> QED
    BY <2>5, <2>6, <2>8, <2>10, <2>11, <2>12
<1>2. CASE ~ (is_windows_drive(t) /\ t[1] \in DOMAIN Upper)
  BY <1>2 DEF WithUpperDrive
<1> QED
  BY <1>1, <1>2

(* The names of a path and of its drive in upper case.                     *)
SameSteps(ns, us) ==
  /\ Len(us) = Len(ns) /\ \A i \in 2 .. Len(ns) : us[i] = ns[i]
  /\ \/ us[1] = ns[1]
     \/ \A n \in {ns[1], us[1]} : ~StepsBack(n) /\ n # <<>> /\ n # Up /\ n # <<".">>

(* The names of a path and of its drive in upper case are the same steps.  *)
LEMMA UpperNames ==
  ASSUME NEW X, Range(Upper) \subseteq X, NEW t \in Seq(X)
  PROVE  SameSteps(Split(t, Slashes), Split(WithUpperDrive(t), Slashes))
<1>1. CASE WithUpperDrive(t) = t
  BY <1>1 DEF SameSteps
<1>2. CASE WithUpperDrive(t) # t
  <2>1. PICK a \in Letters \cap X, b \in Letters \cap X, rest \in Seq(X) :
          t = <<a>> \o rest /\ WithUpperDrive(t) = <<b>> \o rest
    BY <1>2, UpperDrive
  <2>2. a \notin Slashes /\ b \notin Slashes
    BY LettersNoSigns
  <2>3. PICK ns, as, bs : /\ ns = Split(rest, Slashes) /\ as = Split(t, Slashes)
                          /\ bs = Split(WithUpperDrive(t), Slashes)
    OBVIOUS
  <2>4. Leads(a, ns, as) /\ Leads(b, ns, bs)
    BY <2>1, <2>2, <2>3, SplitFirst
  <2>5. ns[1] \in Seq(X)
    <3>1. PICK N : N = Seq(X)
      OBVIOUS
    <3>2. ns \in Seq(N) /\ ns # <<>>
      BY <2>3, <3>1, SplitNames
    <3>3. ns[1] \in N
      BY <3>2, FirstRest
    <3> QED
      BY <3>1, <3>3
  <2>6. \A n \in {as[1], bs[1]} : ~StepsBack(n) /\ n # <<>> /\ n # Up /\ n # <<".">>
    <3>1. as[1] = <<a>> \o ns[1] /\ bs[1] = <<b>> \o ns[1] /\ a \in Letters /\ b \in Letters
      BY <2>4 DEF Leads
    <3> QED
      BY <2>5, <3>1, LetterNoStep
  <2>7. Len(as) = Len(bs) /\ \A i \in 2 .. Len(as) : bs[i] = as[i]
    BY <2>4 DEF Leads
  <2>8. SameSteps(as, bs)
    BY <2>6, <2>7 DEF SameSteps
  <2> QED
    BY <2>3, <2>8
<1> QED
  BY <1>1, <1>2

(* A path that begins with a slash has an empty first name.                *)
LEMMA SlashFirst ==
  ASSUME NEW X, NEW c \in X, c \in Slashes, NEW rest \in Seq(X)
  PROVE  Split(<<c>> \o rest, Slashes) = << <<>> >> \o Split(rest, Slashes)
<1>1. PICK none : none = <<>>
  OBVIOUS
<1>2. none \in Seq(X)
  BY <1>1
<1>3. Split(Append(none, c) \o rest, Slashes) = Split(none, Slashes) \o Split(rest, Slashes)
  BY <1>2, SplitConcat
<1>4. Append(none, c) = <<c>> /\ Split(none, Slashes) = << <<>> >>
  BY <1>1, SplitEmpty
<1> QED
  BY <1>3, <1>4

(* The first name of an absolute path is no step back.                     *)
LEMMA AbsoluteFirst ==
  ASSUME NEW X, NEW t \in Seq(X), is_absolute_path(t)
  PROVE  t # <<>> /\ ~StepsBack(Split(t, Slashes)[1])
<1>1. Len(t) \in Nat /\ t # <<>>
  BY DEF is_absolute_path, is_windows_drive
<1>2. PICK rest \in Seq(X) : t = <<t[1]>> \o rest /\ t[1] \in X
  BY <1>1, FirstRest
<1>3. PICK N, ns, one : N = Seq(X) /\ ns = Split(rest, Slashes) /\ one = <<>>
  OBVIOUS
<1>4. ns \in Seq(N) /\ ns # <<>> /\ one \in Seq(X)
  BY <1>3, SplitNames
<1>5. ns[1] \in Seq(X)
  <2>1. ns[1] \in N
    BY <1>4, FirstRest
  <2> QED
    BY <1>3, <2>1
<1>6. CASE t[1] = "/"
  <2>1. t[1] \in Slashes
    BY <1>6 DEF Slashes
  <2>3. Split(t, Slashes) = <<one>> \o ns
    <3>1. PICK c : c = t[1]
      OBVIOUS
    <3>2. c \in X /\ c \in Slashes /\ t = <<c>> \o rest
      BY <1>2, <2>1, <3>1
    <3>3. Split(<<c>> \o rest, Slashes) = << <<>> >> \o Split(rest, Slashes)
      BY <3>2, SlashFirst
    <3> QED
      BY <1>3, <3>2, <3>3
  <2>5. (<<one>> \o ns)[1] = one
    <3>1. one \in N /\ <<one>> \in Seq(N)
      BY <1>3, <1>4
    <3>2. PICK ones \in Seq(N) : ones = <<one>>
      BY <3>1
    <3>3. Len(ones) = 1 /\ ones[1] = one
      BY <3>2
    <3>4. 1 \in 1 .. Len(ones) + Len(ns)
      BY <1>4, <3>3
    <3>5. (ones \o ns)[1] = IF 1 <= Len(ones) THEN ones[1] ELSE ns[1 - Len(ones)]
      BY <1>4, <3>4, ConcatProperties
    <3> QED
      BY <3>2, <3>3, <3>5
  <2>6. ~StepsBack(one)
    <3>1. ~ (Len(one) >= 2)
      BY <1>3
    <3> QED
      BY <1>4, <3>1, StepBackSigns
  <2> QED
    BY <1>1, <2>3, <2>5, <2>6
<1>7. CASE t[1] # "/"
  <2>1. t[1] \in Letters
    BY <1>7 DEF is_absolute_path, is_windows_drive, Letters
  <2>2. t[1] \notin Slashes
    BY <2>1, LettersNoSigns
  <2>3. Leads(t[1], ns, Split(<<t[1]>> \o rest, Slashes))
    BY <1>2, <1>3, <2>2, SplitFirst
  <2>4. Split(t, Slashes)[1] = <<t[1]>> \o ns[1]
    BY <1>2, <2>3 DEF Leads
  <2> QED
    BY <1>1, <1>5, <2>1, <2>4, LetterNoStep
<1> QED
  BY <1>6, <1>7

(* A path whose names have no step back but the first is normal but for    *)
(* its slashes and its drive.                                              *)
Forwards(t) == \A i \in 2 .. Len(Split(t, Slashes)) : ~StepsBack(Split(t, Slashes)[i])

(* So its normal form is itself, with its slashes forward and its drive in *)
(* upper case.                                                             *)
LEMMA NormalSafe ==
  ASSUME NEW X, "/" \in X, Range(Upper) \subseteq X, NEW t \in Seq(X), Forwards(t)
  PROVE  /\ normalize_path(t) = Path(Forward(WithUpperDrive(t)))
         /\ Forward(WithUpperDrive(t)) \in Seq(X) /\ Len(Forward(WithUpperDrive(t))) = Len(t)
<1>1. PICK u \in Seq(X) : u = WithUpperDrive(t) /\ Len(u) = Len(t)
  BY UpperDrive
<1>2. PICK N, ns, us : N = Seq(X) /\ ns = Split(t, Slashes) /\ us = Split(u, Slashes)
  OBVIOUS
<1>3. us \in Seq(N) /\ us # <<>>
  BY <1>2, SplitNames
<1>4. SameSteps(ns, us)
  BY <1>1, <1>2, UpperNames
<1>5. \A i \in 2 .. Len(us) : ~StepsBack(us[i])
  BY <1>2, <1>4 DEF Forwards, SameSteps
<1>6. Steps(us) = [valid |-> TRUE, names |-> us]
  BY <1>3, <1>5, StepsSafe
<1>7. Split(Forward(u), Slashes) = us /\ Joined(us) = Forward(u)
  BY <1>2, SplitForward, JoinedSplit
<1>8. Forward(u) \in Seq(X) /\ Len(Forward(u)) = Len(u)
  <2>1. X \cup {"/"} = X
    OBVIOUS
  <2>2. Forward(u) \in Seq(X)
    BY <2>1, ForwardAppend, EmptySeq
  <2> QED
    BY <2>2 DEF Forward, ReplaceAll
<1>9. normalize_path(t) = path_remove_redundant_steps(Forward(u))
  BY <1>1 DEF normalize_path, Forward
<1>10. path_remove_redundant_steps(Forward(u)) = Path(Forward(u))
  BY <1>3, <1>6, <1>7 DEF path_remove_redundant_steps
<1> QED
  BY <1>1, <1>8, <1>9, <1>10

(* What comes of an absolute path.                                         *)
LEMMA NormalForwards ==
  ASSUME NEW X, "/" \in X, Range(Upper) \subseteq X, NEW t \in Seq(X), is_absolute_path(t),
         normalize_path(t).outcome = "path"
  PROVE  /\ normalize_path(t).path \in Seq(X)
         /\ \/ Len(normalize_path(t).path) <= 2 /\ is_absolute_path(normalize_path(t).path)
            \/ \A i \in 1 .. Len(Split(normalize_path(t).path, Slashes)) :
                 ~StepsBack(Split(normalize_path(t).path, Slashes)[i])
<1>1. PICK u \in Seq(X) : u = WithUpperDrive(t) /\ Len(u) = Len(t)
  BY UpperDrive
<1>2. PICK N, ns, us : /\ N = Seq(X \ Slashes) /\ ns = Split(t, Slashes)
                       /\ us = Split(u, Slashes)
  OBVIOUS
<1>3. us \in Seq(N) /\ us # <<>>
  BY <1>2, SplitType
<1>4. ~StepsBack(us[1])
  <2>1. ~StepsBack(ns[1])
    BY <1>2, AbsoluteFirst
  <2>2. SameSteps(ns, us)
    BY <1>1, <1>2, UpperNames
  <2> QED
    BY <2>1, <2>2 DEF SameSteps
<1>5. PICK f : f = Forward(u)
  OBVIOUS
<1>6. Split(f, Slashes) = us
  BY <1>2, <1>5, SplitForward
<1>7. f \in Seq(X) /\ Len(f) = Len(u)
  <2>1. X \cup {"/"} = X
    OBVIOUS
  <2>2. Forward(u) \in Seq(X)
    BY <2>1, ForwardAppend, EmptySeq
  <2> QED
    BY <1>5, <2>2 DEF Forward, ReplaceAll
<1>8. normalize_path(t) = path_remove_redundant_steps(f)
  BY <1>1, <1>5 DEF normalize_path, Forward
<1>9. CASE Len(f) <= 2
  <2>1. normalize_path(t) = Path(f)
    BY <1>8, <1>9 DEF path_remove_redundant_steps
  <2>2. t[1] = "/" /\ t # <<>> /\ u = t /\ Len(t) \in Nat \ {0}
    <3>1. ~is_windows_drive(t)
      BY <1>1, <1>7, <1>9 DEF is_windows_drive
    <3>2. u = t
      BY <1>1, <3>1 DEF WithUpperDrive
    <3>3. t # <<>>
      BY AbsoluteFirst
    <3> QED
      BY <3>1, <3>2, <3>3, EmptySeq DEF is_absolute_path
  <2>3. f[1] = "/" /\ f # <<>>
    <3>1. f = [i \in 1 .. Len(t) |-> IF t[i] = "\\" THEN "/" ELSE t[i]]
      BY <1>5, <2>2 DEF Forward, ReplaceAll
    <3>2. 1 \in 1 .. Len(t)
      BY <2>2
    <3>3. f[1] = "/"
      BY <2>2, <3>1, <3>2
    <3> QED
      BY <1>1, <1>7, <2>2, <3>3
  <2>4. is_absolute_path(f)
    BY <2>3 DEF is_absolute_path
  <2>5. normalize_path(t).path = f
    BY <2>1 DEF Path
  <2> QED
    BY <1>7, <1>9, <2>4, <2>5
<1>10. CASE ~ (Len(f) <= 2)
  <2>1. PICK S : S = {n \in N : ~StepsBack(n)}
    OBVIOUS
  <2>2. Steps(us) \in [valid : BOOLEAN, names : Seq(S)]
    <3>1. us[1] \in S
      BY <1>3, <1>4, <2>1, FirstRest
    <3>2. \A n \in N : ~StepsBack(n) => n \in S
      BY <2>1
    <3> QED
      BY <1>3, <3>1, <3>2, StepsMembers
  <2>3. PICK names \in Seq(S) : names = Steps(us).names
    BY <2>2
  <2>4. names # <<>> /\ normalize_path(t) = Path(Joined(names))
    BY <1>6, <1>8, <1>10, <2>3 DEF path_remove_redundant_steps, Path, Invalid, AssertFails
  <2>5. normalize_path(t).path = Joined(names)
    BY <2>4 DEF Path
  <2>6. names \in Seq(N)
    BY <2>1, SeqMonotonic
  <2>7. names \in Seq(Seq(X \ Slashes))
    BY <1>2, <2>6
  <2>8. Split(Joined(names), Slashes) = names
    BY <2>4, <2>7, SplitJoined
  <2>9. Joined(names) \in Seq(X)
    <3>1. Seq(X \ Slashes) \subseteq Seq(X)
      BY SeqMonotonic
    <3>2. PICK M : M = Seq(X)
      OBVIOUS
    <3>3. names \in Seq(M)
      BY <1>2, <2>6, <3>1, <3>2, SeqMonotonic
    <3> QED
      BY <2>4, <3>2, <3>3, JoinedType
  <2>10. \A i \in 1 .. Len(names) : ~StepsBack(names[i])
    BY <2>1
  <2> QED
    BY <2>5, <2>8, <2>9, <2>10
<1> QED
  BY <1>9, <1>10

(* Two sequences without steps back, one behind the other, have none.      *)
LEMMA ConcatForwards ==
  ASSUME NEW N, NEW as \in Seq(N), NEW bs \in Seq(N),
         \A i \in 1 .. Len(as) : ~StepsBack(as[i]), \A i \in 1 .. Len(bs) : ~StepsBack(bs[i])
  PROVE  \A i \in 1 .. Len(as \o bs) : ~StepsBack((as \o bs)[i])
<1>1. PICK all, k, l : all = as \o bs /\ k = Len(as) /\ l = Len(bs)
  OBVIOUS
<1>2. k \in Nat /\ l \in Nat
  BY <1>1, LenProperties
<1>3. Len(all) = k + l
  BY <1>1, ConcatProperties
<1>4. \A i \in 1 .. k + l : all[i] = IF i <= k THEN as[i] ELSE bs[i - k]
  BY <1>1, ConcatProperties
<1>5. ASSUME NEW i \in 1 .. Len(all) PROVE ~StepsBack(all[i])
  <2>1. i \in 1 .. k + l /\ (i <= k => i \in 1 .. k) /\ (~ (i <= k) => i - k \in 1 .. l)
    BY <1>2, <1>3
  <2>2. all[i] = IF i <= k THEN as[i] ELSE bs[i - k]
    BY <1>4, <2>1
  <2> QED
    BY <1>1, <2>1, <2>2
<1> QED
  BY <1>1, <1>5

(* The names on both sides of a slash.                                     *)
LEMMA SlashConcat ==
  ASSUME NEW X, NEW a \in Seq(X), NEW b \in Seq(X), NEW c \in X, c \in Slashes
  PROVE  Split(Append(a, c) \o b, Slashes) = Split(a, Slashes) \o Split(b, Slashes)
  BY SplitConcat

(* Behind the working directory no step back comes out of nothing.         *)
LEMMA UnderCwd ==
  ASSUME NEW X, "/" \in X, Range(Upper) \subseteq X, Range(cwd) \subseteq X, NEW t \in Seq(X),
         \A i \in 1 .. Len(Split(t, Slashes)) : ~StepsBack(Split(t, Slashes)[i])
  PROVE  absolute_path(t, cwd).path \in Seq(X) /\ absolute_path(t, cwd).path # <<>>
<1>1. CASE is_absolute_path(t)
  <2>1. t # <<>> /\ Forwards(t)
    <3>1. Split(t, Slashes) \in Seq(Seq(X))
      BY SplitNames
    <3>2. \A i \in 2 .. Len(Split(t, Slashes)) : i \in 1 .. Len(Split(t, Slashes))
      BY <3>1
    <3> QED
      BY <1>1, <3>2, AbsoluteFirst DEF Forwards
  <2>2. PICK f \in Seq(X) : normalize_path(t) = Path(f) /\ Len(f) = Len(t)
    BY <2>1, NormalSafe
  <2>3. absolute_path(t, cwd).path = f
    BY <1>1, <2>2 DEF absolute_path, Path
  <2>4. Len(t) # 0
    BY <2>1, EmptySeq
  <2> QED
    BY <2>2, <2>3, <2>4, EmptySeq
<1>2. CASE ~is_absolute_path(t)
  <2>1. cwd \in Seq(X) /\ cwd # <<>>
    <3>1. cwd \in Seq(X) /\ is_absolute_path(cwd)
      BY PathsAssumption, SeqMonotonic
    <3> QED
      BY <3>1, AbsoluteFirst
  <2>2. PICK N, ns, ds : N = Seq(X) /\ ns = Split(t, Slashes) /\ ds = Split(cwd, Slashes)
    OBVIOUS
  <2>3. ns \in Seq(N) /\ ds \in Seq(N)
    BY <2>1, <2>2, SplitNames
  <2>4. \A i \in 1 .. Len(ds) : ~StepsBack(ds[i])
    <3>1. \A i \in 1 .. Len(ds) : ds[i] \in ToSet(ds)
      BY <2>3 DEF ToSet
    <3> QED
      BY <2>2, <3>1, PathsAssumption
  <2>5. \A i \in 1 .. Len(ns) : ~StepsBack(ns[i])
    BY <2>2
  <2>6. PICK q \in Seq(X) : /\ absolute_path(t, cwd) = normalize_path(q) /\ q # <<>>
                            /\ \A i \in 1 .. Len(Split(q, Slashes)) : ~StepsBack(Split(q, Slashes)[i])
    <3>1. PICK dir \in Seq(X), c \in X : cwd = Append(dir, c)
      BY <2>1, SequenceEmptyOrAppend
    <3>2. Last(cwd) = c
      BY <3>1, FrontLast
    <3>3. CASE c \in Slashes
      <4>1. absolute_path(t, cwd) = normalize_path((Append(dir, c) \o <<>>) \o t)
        BY <1>2, <3>1, <3>2, <3>3 DEF absolute_path, is_path_slash
      <4>2. Append(dir, c) \o <<>> = Append(dir, c)
        BY <2>1, <3>1, ConcatEmptySeq
      <4>3. Split(Append(dir, c) \o t, Slashes) = Split(dir, Slashes) \o ns
        <5>1. PICK before \in Seq(X), d \in X : before = dir /\ d = c
          OBVIOUS
        <5>2. d \in Slashes /\ Split(Append(before, d) \o t, Slashes) = Split(before, Slashes) \o Split(t, Slashes)
          BY <3>3, <5>1, SlashConcat
        <5> QED
          BY <2>2, <5>1, <5>2
      <4>4. PICK rs : rs = Split(dir, Slashes) /\ rs \in Seq(N)
        BY <2>2, SplitNames
      <4>5. \A i \in 1 .. Len(rs) : ~StepsBack(rs[i])
        <5>1. PICK none \in N : none = <<>>
          <6>1. <<>> \in N
            BY <2>2
          <6> QED
            BY <6>1
        <5>2. ds = Append(rs, none)
          <6>1. Split(Append(dir, c), Slashes) = Cut(rs, c, Slashes)
            BY <4>4, SplitAppend
          <6> QED
            BY <2>2, <3>1, <3>3, <5>1, <6>1 DEF Cut
        <5>3. \A i \in 1 .. Len(rs) : ds[i] = rs[i] /\ i \in 1 .. Len(ds)
          <6>1. Len(ds) = Len(rs) + 1 /\ Len(rs) \in Nat /\ \A i \in 1 .. Len(rs) : ds[i] = rs[i]
            BY <4>4, <5>2, Longer
          <6> QED
            BY <6>1
        <5> QED
          BY <2>4, <5>3
      <4>6. Append(dir, c) \o t \in Seq(X) /\ Append(dir, c) \o t # <<>>
        <5>1. Append(dir, c) \in Seq(X) /\ Append(dir, c) # <<>>
          BY LongerType
        <5> QED
          BY <5>1, ConcatProperties, ConcatEqualIffEmpty
      <4>7. \A i \in 1 .. Len(rs \o ns) : ~StepsBack((rs \o ns)[i])
        BY <2>3, <2>5, <4>4, <4>5, ConcatForwards
      <4> QED
        BY <4>1, <4>2, <4>3, <4>4, <4>6, <4>7
    <3>4. CASE c \notin Slashes
      <4>1. absolute_path(t, cwd) = normalize_path((cwd \o <<"/">>) \o t)
        BY <1>2, <3>2, <3>4 DEF absolute_path, is_path_slash
      <4>2. cwd \o <<"/">> = Append(cwd, "/")
        BY <2>1, AppendIsConcat
      <4>3. Split(Append(cwd, "/") \o t, Slashes) = ds \o ns
        <5>1. "/" \in Slashes /\ "/" \in X
          BY DEF Slashes
        <5> QED
          BY <2>1, <2>2, <5>1, SlashConcat
      <4>4. Append(cwd, "/") \o t \in Seq(X) /\ Append(cwd, "/") \o t # <<>>
        <5>1. Append(cwd, "/") \in Seq(X) /\ Append(cwd, "/") # <<>>
          BY <2>1, LongerType
        <5> QED
          BY <5>1, ConcatProperties, ConcatEqualIffEmpty
      <4>5. \A i \in 1 .. Len(ds \o ns) : ~StepsBack((ds \o ns)[i])
        BY <2>3, <2>4, <2>5, ConcatForwards
      <4> QED
        BY <4>1, <4>2, <4>3, <4>4, <4>5
    <3> QED
      BY <3>3, <3>4
  <2>7. Forwards(q)
    <3>1. Split(q, Slashes) \in Seq(Seq(X))
      BY SplitNames
    <3>2. \A i \in 2 .. Len(Split(q, Slashes)) : i \in 1 .. Len(Split(q, Slashes))
      BY <3>1
    <3> QED
      BY <2>6, <3>2 DEF Forwards
  <2>8. PICK f \in Seq(X) : normalize_path(q) = Path(f) /\ Len(f) = Len(q)
    BY <2>7, NormalSafe
  <2>9. absolute_path(t, cwd).path = f
    BY <2>6, <2>8 DEF Path
  <2>10. Len(q) # 0
    BY <2>6, EmptySeq
  <2> QED
    BY <2>8, <2>9, <2>10, EmptySeq
<1> QED
  BY <1>1, <1>2

(* A path stays absolute whatever comes behind it.                         *)
LEMMA AbsoluteConcat ==
  ASSUME NEW X, NEW a \in Seq(X), NEW b \in Seq(X), is_absolute_path(a)
  PROVE  is_absolute_path(a \o b)
<1>1. PICK whole : whole = a \o b
  OBVIOUS
<1>2. Len(a) \in Nat /\ Len(b) \in Nat /\ Len(whole) = Len(a) + Len(b)
  BY <1>1, ConcatProperties
<1>3. \A i \in 1 .. Len(a) : whole[i] = a[i]
  <2>1. \A i \in 1 .. Len(a) : i \in 1 .. Len(a) + Len(b) /\ i <= Len(a)
    BY <1>2
  <2> QED
    BY <1>1, <2>1, ConcatProperties
<1>4. a # <<>> /\ Len(a) # 0
  BY AbsoluteFirst, EmptySeq
<1>5. whole # <<>> /\ whole[1] = a[1]
  <2>1. 1 \in 1 .. Len(a)
    BY <1>2, <1>4
  <2> QED
    BY <1>1, <1>3, <1>4, <2>1, ConcatEqualIffEmpty
<1>6. is_windows_drive(a) => is_windows_drive(whole)
  <2>1. SUFFICES ASSUME is_windows_drive(a) PROVE is_windows_drive(whole)
    OBVIOUS
  <2>2. Len(a) >= 3
    BY <2>1 DEF is_windows_drive
  <2>3. 1 \in 1 .. Len(a) /\ 2 \in 1 .. Len(a) /\ 3 \in 1 .. Len(a) /\ Len(whole) >= 3
    BY <1>2, <2>2
  <2>4. whole[1] = a[1] /\ whole[2] = a[2] /\ whole[3] = a[3]
    BY <1>3, <2>3
  <2> QED
    BY <2>1, <2>3, <2>4 DEF is_windows_drive
<1> QED
  BY <1>1, <1>5, <1>6 DEF is_absolute_path


(* The names that headers and sources are compared by.                     *)
LEMMA NameText ==
  ASSUME NEW X, NEW t \in Seq(X)
  PROVE  path_filename_no_ext(t) \in Seq(X)
<1>1. PICK N : N = Seq(X)
  OBVIOUS
<1>2. path_filename(t) \in Seq(X)
  <2>1. Split(t, {"/"}) \in Seq(N) /\ Split(t, {"/"}) # <<>>
    BY <1>1, SplitNames
  <2>2. PICK front \in Seq(N), n \in N : Split(t, {"/"}) = Append(front, n)
    BY <2>1, SequenceEmptyOrAppend
  <2>3. path_filename(t) = n
    BY <2>2, FrontLast DEF path_filename
  <2> QED
    BY <1>1, <2>3
<1>3. Split(path_filename(t), {"."}) \in Seq(N) /\ Split(path_filename(t), {"."}) # <<>>
  BY <1>1, <1>2, SplitNames
<1>4. Head(Split(path_filename(t), {"."})) \in N
  BY <1>3
<1> QED
  BY <1>1, <1>4 DEF path_filename_no_ext

(* Of two names that are equally long, one is within the other only if     *)
(* they are the same.                                                      *)
LEMMA WithinSame ==
  ASSUME NEW X, NEW h \in Seq(X), NEW s \in Seq(X), Len(h) = Len(s)
  PROVE  /\ Within(h, s) => h = s
         /\ h = s => Within(h, s)
<1>1. Len(h) \in Nat /\ Len(s) - Len(s) = 0
  OBVIOUS
<1>2. SubSeq(h, 1, Len(h)) = h
  BY SubSeqFull
<1>3. Within(h, s) => h = s
  <2>1. SUFFICES ASSUME NEW i \in 0 .. Len(h) - Len(s), SubSeq(h, i + 1, i + Len(s)) = s PROVE h = s
    BY DEF Within
  <2>2. i = 0 /\ i + 1 = 1 /\ i + Len(s) = Len(h)
    BY <1>1
  <2> QED
    BY <1>2, <2>1, <2>2
<1>4. h = s => Within(h, s)
  <2>1. 0 \in 0 .. Len(h) - Len(s) /\ 0 + 1 = 1 /\ 0 + Len(s) = Len(h)
    BY <1>1
  <2> QED
    BY <1>2, <2>1 DEF Within
<1> QED
  BY <1>3, <1>4

(* The score, but for the tie breaker.                                     *)
NameScore(h, s) ==
  IF Len(h) = Len(s) THEN IF h = s THEN SAME_NAME ELSE 0
  ELSE IF Within(h, s) \/ Within(s, h) THEN SUBSTRING ELSE 0

(* What each score says of the names.                                      *)
LEMMA ScoreByName ==
  ASSUME NEW X, NEW h \in Seq(X), NEW s \in Seq(X)
  PROVE  /\ NameScore(h, s) \in {0, SUBSTRING, SAME_NAME}
         /\ NameScore(h, s) # 0 <=> Within(h, s) \/ Within(s, h)
         /\ NameScore(h, s) = SAME_NAME <=> h = s
<1>1. SAME_NAME = 16384 /\ SUBSTRING = 512
  BY DEF SAME_NAME, SUBSTRING
<1>2. CASE Len(h) = Len(s)
  <2>1. Within(h, s) \/ Within(s, h) <=> h = s
    BY <1>2, WithinSame
  <2> QED
    BY <1>1, <1>2, <2>1 DEF NameScore
<1>3. CASE Len(h) # Len(s)
  <2>1. h # s
    BY <1>3
  <2> QED
    BY <1>1, <1>3, <2>1 DEF NameScore
<1> QED
  BY <1>2, <1>3

(* Only the name of a header makes it a main header: the tie breaker is a  *)
(* single character, because a normalized path is absolute, or has no step *)
(* back to lose behind the working directory (path_pair_score,             *)
(* index_included_file).                                                   *)
LEMMA PairScore ==
  ASSUME NEW path, Text(path), NEW source, Text(source), absolute_path(path, cwd).outcome = "path",
         ~path_equals(absolute_path(path, cwd).path, source)
  PROVE  /\ Rank(absolute_path(path, cwd).path, source) \in 0 .. 2
         /\ path_pair_score(absolute_path(path, cwd).path, source) =
              IF Rank(absolute_path(path, cwd).path, source) = 2 THEN SAME_NAME + 1
              ELSE IF Rank(absolute_path(path, cwd).path, source) = 1 THEN SUBSTRING + 1 ELSE 1
<1>1. PICK X : X = Range(path) \cup Range(cwd) \cup Range(source) \cup Range(Upper) \cup {"/"}
  OBVIOUS
<1>2. /\ "/" \in X /\ Range(Upper) \subseteq X /\ Range(cwd) \subseteq X
      /\ path \in Seq(X) /\ cwd \in Seq(X) /\ source \in Seq(X)
  <2>1. Text(path) /\ Text(source) /\ Text(cwd)
    BY PathsAssumption DEF Text
  <2> QED
    BY <1>1, <2>1, SeqMonotonic DEF Text
<1>3. PICK q \in Seq(X) : is_absolute_path(q) /\ absolute_path(path, cwd) = normalize_path(q)
  <2>1. CASE is_absolute_path(path)
    BY <1>2, <2>1 DEF absolute_path
  <2>2. CASE ~is_absolute_path(path)
    <3>1. PICK slash \in Seq(X) : slash = IF is_path_slash(Last(cwd)) THEN <<>> ELSE <<"/">>
      <4>1. <<>> \in Seq(X) /\ <<"/">> \in Seq(X)
        BY <1>2
      <4> QED
        BY <4>1
    <3>2. PICK rest \in Seq(X) : rest = slash \o path
      BY <1>2, ConcatProperties
    <3>3. (cwd \o slash) \o path = cwd \o rest /\ cwd \o rest \in Seq(X)
      <4>1. (cwd \o slash) \o path = cwd \o (slash \o path)
        <5>1. cwd \in Seq(X) /\ slash \in Seq(X) /\ path \in Seq(X)
          BY <1>2, <3>1
        <5> QED
          BY <5>1, ConcatAssociative, SMT
      <4> QED
        BY <1>2, <3>2, <4>1, ConcatProperties
    <3>4. is_absolute_path(cwd \o rest)
      BY <1>2, AbsoluteConcat, PathsAssumption
    <3> QED
      BY <2>2, <3>1, <3>3, <3>4 DEF absolute_path
  <2> QED
    BY <2>1, <2>2
<1>4. PICK p \in Seq(X) : /\ p = absolute_path(path, cwd).path
                          /\ \/ Len(p) <= 2 /\ is_absolute_path(p)
                             \/ \A i \in 1 .. Len(Split(p, Slashes)) : ~StepsBack(Split(p, Slashes)[i])
  BY <1>2, <1>3, NormalForwards
<1>5. PICK r \in Seq(X) : r = absolute_path(p, cwd).path /\ r # <<>>
  <2>1. CASE \A i \in 1 .. Len(Split(p, Slashes)) : ~StepsBack(Split(p, Slashes)[i])
    BY <1>2, <2>1, UnderCwd
  <2>2. CASE Len(p) <= 2 /\ is_absolute_path(p)
    <3>1. PICK u \in Seq(X) : u = WithUpperDrive(p) /\ Len(u) = Len(p)
      BY <1>2, UpperDrive
    <3>2. Forward(u) \in Seq(X) /\ Len(Forward(u)) = Len(u)
      <4>1. X \cup {"/"} = X
        BY <1>2
      <4>2. Forward(u) \in Seq(X)
        BY <1>2, <4>1, ForwardAppend
      <4> QED
        BY <4>2 DEF Forward, ReplaceAll
    <3>3. normalize_path(p) = Path(Forward(u))
      BY <2>2, <3>1, <3>2 DEF normalize_path, path_remove_redundant_steps, Forward
    <3>4. absolute_path(p, cwd).path = Forward(u)
      BY <2>2, <3>3 DEF absolute_path, Path
    <3>5. p # <<>> /\ Len(p) # 0
      BY <2>2, AbsoluteFirst, EmptySeq
    <3> QED
      BY <3>1, <3>2, <3>4, <3>5, EmptySeq
  <2> QED
    BY <1>4, <2>1, <2>2
<1>6. path_closest_common_ancestor(p, source) = SubSeq(r, 1, 1)
  BY <1>4, <1>5 DEF path_closest_common_ancestor
<1>7. Len(SubSeq(r, 1, 1)) = 1
  BY <1>5, EmptySeq
<1>8. PICK h \in Seq(X), s \in Seq(X) : h = path_filename_no_ext(p) /\ s = path_filename_no_ext(source)
  BY <1>2, <1>4, NameText
<1>9. path_pair_score(p, source) = NameScore(h, s) + 1
  BY <1>6, <1>7, <1>8 DEF path_pair_score, NameScore
<1>10. SAME_NAME = 16384 /\ SUBSTRING = 512
  BY DEF SAME_NAME, SUBSTRING
<1>11. Rank(p, source) = IF h = s THEN 2 ELSE IF Within(h, s) \/ Within(s, h) THEN 1 ELSE 0
  BY <1>8 DEF Rank
<1>12. /\ NameScore(h, s) \in {0, SUBSTRING, SAME_NAME}
       /\ NameScore(h, s) # 0 <=> Within(h, s) \/ Within(s, h)
       /\ NameScore(h, s) = SAME_NAME <=> h = s
  BY ScoreByName
<1>13. CASE h = s
  BY <1>4, <1>9, <1>11, <1>12, <1>13
<1>14. CASE h # s /\ (Within(h, s) \/ Within(s, h))
  <2>1. Rank(p, source) = 1 /\ NameScore(h, s) = SUBSTRING
    BY <1>11, <1>12, <1>14
  <2> QED
    BY <1>4, <1>9, <2>1
<1>15. CASE h # s /\ ~ (Within(h, s) \/ Within(s, h))
  <2>1. Rank(p, source) = 0 /\ NameScore(h, s) = 0
    BY <1>10, <1>11, <1>12, <1>15
  <2> QED
    BY <1>4, <1>9, <2>1
<1> QED
  BY <1>13, <1>14, <1>15

(* So the score takes the place of another exactly when the rank does.     *)
LEMMA HeaderByName == TextTyped => MainHeaderByName
<1> SUFFICES ASSUME TextTyped, kind = "path", NEW source \in Sources,
                    absolute_path(text, cwd).outcome = "path",
                    ~path_equals(absolute_path(text, cwd).path, source)
             PROVE  LET header == absolute_path(text, cwd)
                    IN  /\ Takes(header.path, source, TranslatedScore) =
                             (Rank(header.path, source) > 0)
                        /\ Takes(header.path, source, IndexedScore)
                        /\ \A other \in {absolute_path(path, cwd) : path \in Sources \ {source}} :
                             other.outcome = "path" /\ ~path_equals(other.path, source) =>
                               Takes(header.path, source, path_pair_score(other.path, source)) =
                                 (Rank(header.path, source) > Rank(other.path, source))
  BY DEF MainHeaderByName
<1>1. PICK p : p = absolute_path(text, cwd).path
  OBVIOUS
<1>2. Text(text) /\ Text(source) /\ \A path \in Sources : Text(path)
  BY KindsAssumption DEF TextTyped
<1>3. SAME_NAME = 16384 /\ SUBSTRING = 512
  BY DEF SAME_NAME, SUBSTRING
<1>4. /\ Rank(p, source) \in 0 .. 2
      /\ path_pair_score(p, source) = IF Rank(p, source) = 2 THEN SAME_NAME + 1
                                      ELSE IF Rank(p, source) = 1 THEN SUBSTRING + 1 ELSE 1
  BY <1>1, <1>2, PairScore
<1>5. \A score : Takes(p, source, score) = (path_pair_score(p, source) > score)
  BY <1>1 DEF Takes
<1>6. Takes(p, source, TranslatedScore) = (Rank(p, source) > 0) /\ Takes(p, source, IndexedScore)
  <2>1. /\ (path_pair_score(p, source) > 512) = (Rank(p, source) > 0)
        /\ path_pair_score(p, source) > 0
    BY <1>3, <1>4
  <2>2. TranslatedScore = 512 /\ IndexedScore = 0
    BY <1>3 DEF TranslatedScore, IndexedScore
  <2>3. /\ Takes(p, source, 512) = (path_pair_score(p, source) > 512)
        /\ Takes(p, source, 0) = (path_pair_score(p, source) > 0)
    BY <1>5, Zenon
  <2> QED
    BY <2>1, <2>2, <2>3, Zenon
<1>7. ASSUME NEW path \in Sources, absolute_path(path, cwd).outcome = "path",
             ~path_equals(absolute_path(path, cwd).path, source)
      PROVE  Takes(p, source, path_pair_score(absolute_path(path, cwd).path, source)) =
               (Rank(p, source) > Rank(absolute_path(path, cwd).path, source))
  <2>1. PICK o : o = absolute_path(path, cwd).path
    OBVIOUS
  <2>2. /\ Rank(o, source) \in 0 .. 2
        /\ path_pair_score(o, source) = IF Rank(o, source) = 2 THEN SAME_NAME + 1
                                        ELSE IF Rank(o, source) = 1 THEN SUBSTRING + 1 ELSE 1
    BY <1>2, <1>7, <2>1, PairScore
  <2>3. (path_pair_score(p, source) > path_pair_score(o, source))
          = (Rank(p, source) > Rank(o, source))
    BY <1>3, <1>4, <2>2
  <2> QED
    BY <1>5, <2>1, <2>3
<1> QED
  BY <1>1, <1>6, <1>7

(* Steps back that are what they say.                                      *)
Counted(ns, n) == /\ Cardinality({i \in 1 .. n : ns[i] = Up}) \in Nat
                  /\ Cardinality({i \in 1 .. n : ns[i] # Up}) \in Nat
                  /\ Cardinality({i \in 1 .. n : ns[i] = Up}) < Cardinality({i \in 1 .. n : ns[i] # Up})
Straight(ns) ==
  /\ \A i \in 1 .. Len(ns) : StepsBack(ns[i]) => ns[i] = Up
  /\ \A i, j \in 1 .. Len(ns) : i <= j /\ ns[j] = Up => ns[i] # <<".">>
  /\ \A i, j \in 1 .. Len(ns) : i <= j /\ i # 1 /\ ns[j] = Up => ns[i] # <<>>
  /\ \A n \in 1 .. Len(ns) : Counted(ns, n)

(* How many of the first places are in a set, and with a place more.       *)
LEMMA FiniteCount ==
  ASSUME NEW C, NEW n \in Nat
  PROVE  /\ IsFiniteSet({i \in 1 .. n : i \in C}) /\ Cardinality({i \in 1 .. n : i \in C}) \in Nat
         /\ Cardinality({i \in 1 .. n + 1 : i \in C}) =
              IF n + 1 \in C THEN Cardinality({i \in 1 .. n : i \in C}) + 1
              ELSE Cardinality({i \in 1 .. n : i \in C})
<1> DEFINE S == {i \in 1 .. n : i \in C}
           T == {i \in 1 .. n + 1 : i \in C}
<1>1. IsFiniteSet(1 .. n)
  BY FS_Interval
<1>2. IsFiniteSet(S) /\ Cardinality(S) \in Nat
  <2>1. S \in SUBSET (1 .. n)
    OBVIOUS
  <2> QED
    BY <1>1, <2>1, FS_Subset, FS_CardinalityType
<1>3. CASE n + 1 \in C
  <2>1. T = S \cup {n + 1} /\ n + 1 \notin S
    BY <1>3
  <2>2. Cardinality(S \cup {n + 1}) = Cardinality(S) + 1
    <3> HIDE DEF S, T
    <3> QED
      BY <1>2, <2>1, FS_AddElement
  <2> QED
    BY <1>2, <1>3, <2>1, <2>2
<1>4. CASE n + 1 \notin C
  <2>1. T = S
    BY <1>4
  <2> QED
    BY <1>2, <1>4, <2>1
<1> QED
  BY <1>3, <1>4

(* How many of the first names are steps back, and how many are not.       *)
Ups(ns, n) == Cardinality({i \in 1 .. n : ns[i] = Up})
Others(ns, n) == Cardinality({i \in 1 .. n : ns[i] # Up})

(* A name more is counted as one or the other.                             *)
LEMMA CountUps ==
  ASSUME NEW ns, NEW n \in Nat
  PROVE  /\ Ups(ns, n) \in Nat /\ Others(ns, n) \in Nat
         /\ Ups(ns, n + 1) = IF ns[n + 1] = Up THEN Ups(ns, n) + 1 ELSE Ups(ns, n)
         /\ Others(ns, n + 1) = IF ns[n + 1] = Up THEN Others(ns, n) ELSE Others(ns, n) + 1
<1> DEFINE C == {i \in Nat : ns[i] = Up}
           D == {i \in Nat : ns[i] # Up}
<1>1. \A m \in Nat : /\ {i \in 1 .. m : i \in C} = {i \in 1 .. m : ns[i] = Up}
                     /\ {i \in 1 .. m : i \in D} = {i \in 1 .. m : ns[i] # Up}
  OBVIOUS
<1>2. n + 1 \in Nat /\ (n + 1 \in C <=> ns[n + 1] = Up) /\ (n + 1 \in D <=> ns[n + 1] # Up)
  OBVIOUS
<1> HIDE DEF C, D
<1>3. /\ Cardinality({i \in 1 .. n : i \in C}) \in Nat
      /\ Cardinality({i \in 1 .. n + 1 : i \in C}) =
           IF n + 1 \in C THEN Cardinality({i \in 1 .. n : i \in C}) + 1
           ELSE Cardinality({i \in 1 .. n : i \in C})
  BY FiniteCount
<1>4. /\ Cardinality({i \in 1 .. n : i \in D}) \in Nat
      /\ Cardinality({i \in 1 .. n + 1 : i \in D}) =
           IF n + 1 \in D THEN Cardinality({i \in 1 .. n : i \in D}) + 1
           ELSE Cardinality({i \in 1 .. n : i \in D})
  BY FiniteCount
<1>5. /\ {i \in 1 .. n : i \in C} = {i \in 1 .. n : ns[i] = Up}
      /\ {i \in 1 .. n : i \in D} = {i \in 1 .. n : ns[i] # Up}
      /\ {i \in 1 .. n + 1 : i \in C} = {i \in 1 .. n + 1 : ns[i] = Up}
      /\ {i \in 1 .. n + 1 : i \in D} = {i \in 1 .. n + 1 : ns[i] # Up}
  BY <1>1, <1>2
<1> QED
  BY <1>2, <1>3, <1>4, <1>5, Zenon DEF Ups, Others

(* Of no names nothing is counted.                                         *)
LEMMA CountNone ==
  ASSUME NEW ns
  PROVE  Ups(ns, 0) = 0 /\ Others(ns, 0) = 0
<1>1. {i \in 1 .. 0 : ns[i] = Up} = {} /\ {i \in 1 .. 0 : ns[i] # Up} = {}
  OBVIOUS
<1> QED
  BY <1>1, FS_EmptySet DEF Ups, Others

(* Names that are not odd are straight.                                    *)
LEMMA NotOdd ==
  ASSUME NEW N, NEW ns \in Seq(N), ~Odd(ns)
  PROVE  Straight(ns)
<1>1. DOMAIN ns = 1 .. Len(ns) /\ Len(ns) \in Nat
  OBVIOUS
<1>2. \A i \in 1 .. Len(ns) : StepsBack(ns[i]) => ns[i] = Up
  BY <1>1 DEF Odd, StepsBack, Up
<1>3. ASSUME NEW i \in 1 .. Len(ns), NEW j \in 1 .. Len(ns), i <= j, ns[j] = Up
      PROVE  Up \in ToSet(SubSeq(ns, i, Len(ns)))
  <2>1. PICK part : part = SubSeq(ns, i, Len(ns))
    OBVIOUS
  <2>2. DOMAIN part = 1 .. Len(ns) - i + 1 /\ \A k \in 1 .. Len(ns) - i + 1 : part[k] = ns[i + k - 1]
    BY <1>1, <2>1
  <2>3. j - i + 1 \in 1 .. Len(ns) - i + 1 /\ i + (j - i + 1) - 1 = j
    BY <1>1, <1>3
  <2>4. part[j - i + 1] = Up
    BY <1>3, <2>2, <2>3
  <2> QED
    BY <2>1, <2>2, <2>3, <2>4 DEF ToSet
<1>4. \A i, j \in 1 .. Len(ns) : i <= j /\ ns[j] = Up => ns[i] # <<".">>
  BY <1>1, <1>3 DEF Odd
<1>5. \A i, j \in 1 .. Len(ns) : i <= j /\ i # 1 /\ ns[j] = Up => ns[i] # <<>>
  <2>1. \A i \in 1 .. Len(ns) : i # 1 => i \in 2 .. Len(ns)
    BY <1>1
  <2> QED
    BY <1>1, <1>3, <2>1 DEF Odd
<1>6. ASSUME NEW n \in 1 .. Len(ns) PROVE Counted(ns, n)
  <2>1. Ups(ns, n) \in Nat /\ Others(ns, n) \in Nat
    <3>1. n \in Nat
      BY <1>1
    <3> QED
      BY <3>1, CountUps
  <2>2. ~ (Ups(ns, n) >= Others(ns, n))
    BY <1>1 DEF Odd, Ups, Others
  <2>3. Ups(ns, n) < Others(ns, n)
    BY <2>1, <2>2
  <2> QED
    BY <2>1, <2>3 DEF Counted, Ups, Others
<1> QED
  BY <1>2, <1>4, <1>5, <1>6 DEF Straight

(* Whether names are straight is not changed by the case of the drive.     *)
LEMMA StraightSame ==
  ASSUME NEW N, NEW ns \in Seq(N), ns # <<>>, NEW us, SameSteps(ns, us), Straight(ns)
  PROVE  Straight(us)
<1>1. Len(us) = Len(ns) /\ Len(ns) \in Nat /\ 1 \in 1 .. Len(ns)
  BY EmptySeq DEF SameSteps
<1>2. ASSUME NEW i \in 1 .. Len(ns)
      PROVE  /\ (StepsBack(us[i]) => us[i] = Up) /\ (us[i] = Up <=> ns[i] = Up)
             /\ (us[i] = <<".">> <=> ns[i] = <<".">>) /\ (us[i] = <<>> <=> ns[i] = <<>>)
  <2>1. StepsBack(ns[i]) => ns[i] = Up
    BY DEF Straight
  <2>2. CASE us[i] = ns[i]
    BY <2>1, <2>2
  <2>3. CASE us[i] # ns[i]
    <3>1. i = 1
      <4>1. i \in 2 .. Len(ns) \/ i = 1
        BY <1>1
      <4> QED
        BY <2>3, <4>1 DEF SameSteps
    <3>2. \A n \in {ns[1], us[1]} : ~StepsBack(n) /\ n # <<>> /\ n # Up /\ n # <<".">>
      BY <2>3, <3>1 DEF SameSteps
    <3> QED
      BY <3>1, <3>2
  <2> QED
    BY <2>2, <2>3
<1>3. ASSUME NEW n \in 1 .. Len(ns) PROVE Counted(us, n)
  <2>1. Counted(ns, n)
    BY DEF Straight
  <2>2. \A i \in 1 .. n : us[i] = Up <=> ns[i] = Up
    <3>1. \A i \in 1 .. n : i \in 1 .. Len(ns)
      BY <1>1
    <3> QED
      BY <1>2, <3>1
  <2>3. {i \in 1 .. n : us[i] = Up} = {i \in 1 .. n : ns[i] = Up}
        /\ {i \in 1 .. n : us[i] # Up} = {i \in 1 .. n : ns[i] # Up}
    BY <2>2
  <2> QED
    BY <2>1, <2>3 DEF Counted
<1>4. \A i, j \in 1 .. Len(ns) : i <= j /\ us[j] = Up => us[i] # <<".">>
  BY <1>2 DEF Straight
<1>5. \A i, j \in 1 .. Len(ns) : i <= j /\ i # 1 /\ us[j] = Up => us[i] # <<>>
  BY <1>2 DEF Straight
<1> QED
  BY <1>1, <1>2, <1>3, <1>4, <1>5 DEF Straight

(* A walk ends at names it has gone along.                                 *)
LEMMA WalkType ==
  ASSUME NEW N, NEW ns \in Seq(N)
  PROVE  Walk(ns) \in Seq(N)
<1> DEFINE P == {s \in Seq(N) : Walk(s) \in Seq(N)}
<1>1. <<>> \in P
  BY WalkEmpty, EmptySeq
<1>2. ASSUME NEW s \in P, NEW n \in N PROVE Append(s, n) \in P
  <2>1. s \in Seq(N) /\ Walk(s) \in Seq(N)
    BY <1>2
  <2>2. Append(s, n) \in Seq(N) /\ Append(Walk(s), n) \in Seq(N)
    BY <2>1, LongerType
  <2>3. Walk(s) # <<>> => Front(Walk(s)) \in Seq(N)
    BY <2>1, FrontType
  <2>4. Walk(Append(s, n)) = Onward(Walk(s), n)
    BY <2>1, WalkAppend
  <2>5. Onward(Walk(s), n) \in Seq(N)
    BY <2>1, <2>2, <2>3, EmptySeq DEF Onward
  <2> QED
    BY <2>2, <2>4, <2>5
<1>3. P = Seq(N)
  <2>1. P \in SUBSET Seq(N)
    OBVIOUS
  <2> HIDE DEF P
  <2> QED
    BY <1>1, <1>2, <2>1, SeqInduct
<1> QED
  BY <1>3

(* The stack after the names up to n, and where a walk along them ends.    *)
Follows(stack, ns, n, at) ==
  /\ stack = [valid |-> TRUE, names |-> stack.names]
  /\ stack.names # <<>> /\ stack.names[1] = ns[1]
  /\ Len(stack.names) + Ups(ns, n) = Others(ns, n) /\ Len(stack.names) <= n
  /\ \A i \in 1 .. Len(stack.names) : ~StepsBack(stack.names[i])
  /\ \A i \in 2 .. Len(stack.names) : \E j \in 2 .. n : stack.names[i] = ns[j]
  /\ Walk(stack.names) = at

(* One name more.                                                          *)
LEMMA FollowsOn ==
  ASSUME NEW N, NEW ns \in Seq(N), Straight(ns), NEW n \in 1 .. Len(ns) - 1,
         NEW stack, stack.names \in Seq(N), NEW at, Follows(stack, ns, n, at)
  PROVE  /\ Step(stack, ns[n + 1]).names \in Seq(N)
         /\ Follows(Step(stack, ns[n + 1]), ns, n + 1, Onward(at, ns[n + 1]))
<1>1. /\ Len(ns) \in Nat /\ n \in Nat /\ n + 1 \in 1 .. Len(ns) /\ n \in 1 .. Len(ns)
      /\ ns[n + 1] \in N
  OBVIOUS
<1>2. PICK names \in Seq(N), name \in N : names = stack.names /\ name = ns[n + 1]
  BY <1>1
<1>3. /\ names # <<>> /\ names[1] = ns[1]
      /\ Len(names) + Ups(ns, n) = Others(ns, n) /\ Len(names) <= n
      /\ \A i \in 1 .. Len(names) : ~StepsBack(names[i])
      /\ \A i \in 2 .. Len(names) : \E j \in 2 .. n : names[i] = ns[j]
      /\ Walk(names) = at /\ stack.valid
      /\ stack = [valid |-> TRUE, names |-> names]
  BY <1>2 DEF Follows
<1>4. /\ Ups(ns, n) \in Nat /\ Others(ns, n) \in Nat
      /\ Ups(ns, n + 1) = IF name = Up THEN Ups(ns, n) + 1 ELSE Ups(ns, n)
      /\ Others(ns, n + 1) = IF name = Up THEN Others(ns, n) ELSE Others(ns, n) + 1
  BY <1>1, <1>2, CountUps
<1>5. Len(names) \in Nat \ {0}
  BY <1>3, EmptySeq
<1>6. CASE name # Up
  <2>1. ~StepsBack(name)
    BY <1>1, <1>2, <1>6 DEF Straight
  <2>2. PICK longer : longer = Append(names, name)
    OBVIOUS
  <2>3. /\ longer \in Seq(N) /\ longer # <<>> /\ Len(longer) = Len(names) + 1
        /\ longer[Len(names) + 1] = name /\ \A i \in 1 .. Len(names) : longer[i] = names[i]
    BY <2>2, Longer
  <2>4. Step(stack, name) = [valid |-> TRUE, names |-> longer]
    BY <1>3, <2>1, <2>2 DEF Step
  <2>5. longer[1] = ns[1]
    <3>1. 1 \in 1 .. Len(names)
      BY <1>5
    <3> QED
      BY <1>3, <2>3, <3>1
  <2>6. \A i \in 1 .. Len(longer) : ~StepsBack(longer[i])
    <3>1. \A i \in 1 .. Len(longer) : i \in 1 .. Len(names) \/ i = Len(names) + 1
      BY <1>5, <2>3
    <3> QED
      BY <1>3, <2>1, <2>3, <3>1
  <2>7. \A i \in 2 .. Len(longer) : \E j \in 2 .. n + 1 : longer[i] = ns[j]
    <3>1. SUFFICES ASSUME NEW i \in 2 .. Len(longer) PROVE \E j \in 2 .. n + 1 : longer[i] = ns[j]
      OBVIOUS
    <3>2. CASE i = Len(names) + 1
      <4>1. n + 1 \in 2 .. n + 1
        BY <1>1
      <4> QED
        BY <1>2, <2>3, <3>2, <4>1
    <3>3. CASE i # Len(names) + 1
      <4>1. i \in 2 .. Len(names) /\ i \in 1 .. Len(names)
        BY <1>5, <2>3, <3>3
      <4>2. PICK j \in 2 .. n : names[i] = ns[j]
        BY <1>3, <4>1
      <4>3. j \in 2 .. n + 1
        BY <1>1
      <4> QED
        BY <2>3, <4>1, <4>2, <4>3
    <3> QED
      BY <3>2, <3>3
  <2>8. Walk(longer) = Onward(at, name)
    BY <1>3, <2>2, WalkAppend
  <2>9. Len(longer) + Ups(ns, n + 1) = Others(ns, n + 1) /\ Len(longer) <= n + 1
    BY <1>1, <1>3, <1>4, <1>5, <1>6, <2>3
  <2>10. PICK next : next = Step(stack, name)
    OBVIOUS
  <2>11. next = [valid |-> TRUE, names |-> next.names] /\ next.names = longer
    BY <2>4, <2>10
  <2>12. Follows(next, ns, n + 1, Onward(at, name))
    BY <2>3, <2>5, <2>6, <2>7, <2>8, <2>9, <2>11 DEF Follows
  <2> QED
    BY <1>2, <2>3, <2>10, <2>11, <2>12
<1>7. CASE name = Up
  <2>1. StepsBack(name)
    <3>1. StepsBack(<<".", ".">>)
      BY DEF StepsBack, IsPrefix
    <3> QED
      BY <1>7, <3>1 DEF Up
  <2>2. PICK front \in Seq(N), last \in N : names = Append(front, last)
    BY <1>3, SequenceEmptyOrAppend
  <2>3. /\ Len(names) = Len(front) + 1 /\ names[Len(front) + 1] = last
        /\ \A i \in 1 .. Len(front) : names[i] = front[i]
    BY <2>2, Longer
  <2>4. Step(stack, name) = [valid |-> TRUE, names |-> front]
    <3>1. Front(names) = front
      BY <2>2, FrontLast
    <3> QED
      BY <1>3, <2>1, <3>1 DEF Step
  <2>5. Len(front) + Ups(ns, n + 1) = Others(ns, n + 1) /\ Len(front) <= n + 1 /\ Len(front) \in Nat
    BY <1>1, <1>3, <1>4, <1>5, <1>7, <2>3
  <2>6. Len(front) # 0
    <3>1. Counted(ns, n + 1)
      BY <1>1 DEF Straight
    <3>2. Ups(ns, n + 1) \in Nat /\ Others(ns, n + 1) \in Nat /\ Ups(ns, n + 1) < Others(ns, n + 1)
      BY <3>1 DEF Counted, Ups, Others
    <3> QED
      BY <2>5, <3>2
  <2>7. front # <<>> /\ front[1] = ns[1]
    <3>1. 1 \in 1 .. Len(front)
      BY <2>5, <2>6
    <3>2. front # <<>>
      BY <2>6
    <3> QED
      BY <1>3, <2>3, <3>1, <3>2
  <2>8. \A i \in 1 .. Len(front) : i \in 1 .. Len(names) /\ ~StepsBack(front[i])
    <3>1. \A i \in 1 .. Len(front) : i \in 1 .. Len(names)
      BY <2>3, <2>5
    <3> QED
      BY <1>3, <2>3, <3>1
  <2>9. ASSUME NEW i \in 2 .. Len(front) PROVE \E j \in 2 .. n + 1 : front[i] = ns[j]
    <3>1. i \in 2 .. Len(names) /\ i \in 1 .. Len(front)
      BY <2>3, <2>5
    <3>2. PICK j \in 2 .. n : names[i] = ns[j]
      BY <1>3, <3>1
    <3>3. j \in 2 .. n + 1
      BY <1>1
    <3> QED
      BY <2>3, <3>1, <3>2, <3>3
  <2>10. last \notin Nothing /\ last # Up
    <3>1. Len(front) + 1 \in 2 .. Len(names) /\ Len(front) + 1 \in 1 .. Len(names)
      BY <2>3, <2>5, <2>6
    <3>2. PICK j \in 2 .. n : last = ns[j]
      BY <1>3, <2>3, <3>1
    <3>3. j \in 1 .. Len(ns) /\ j # 1 /\ j <= n + 1
      BY <1>1
    <3>4. ns[j] # <<".">> /\ ns[j] # <<>>
      BY <1>1, <1>2, <1>7, <3>3 DEF Straight
    <3>5. ~StepsBack(last)
      BY <1>3, <2>3, <3>1
    <3> QED
      BY <1>7, <2>1, <3>2, <3>4, <3>5 DEF Nothing
  <2>11. Walk(front) = Onward(at, name)
    <3>1. PICK before \in Seq(N) : before = Walk(front)
      BY WalkType
    <3>2. at = Append(before, last)
      <4>1. Walk(Append(front, last)) = Onward(Walk(front), last)
        BY WalkAppend
      <4> QED
        BY <1>3, <2>2, <2>10, <3>1, <4>1 DEF Onward
    <3>3. at # <<>> /\ Front(at) = before
      BY <3>2, FrontLast
    <3>4. name \notin Nothing
      BY <1>7 DEF Nothing, Up
    <3> QED
      BY <1>7, <3>1, <3>3, <3>4 DEF Onward
  <2>12. PICK next : next = Step(stack, name)
    OBVIOUS
  <2>13. next = [valid |-> TRUE, names |-> next.names] /\ next.names = front
    BY <2>4, <2>12
  <2>14. Follows(next, ns, n + 1, Onward(at, name))
    BY <2>5, <2>7, <2>8, <2>9, <2>11, <2>13 DEF Follows
  <2> QED
    BY <1>2, <2>12, <2>13, <2>14
<1> QED
  BY <1>6, <1>7

(* The steps along straight names end where the walk along them does.      *)
LEMMA SameWalk ==
  ASSUME NEW N, NEW ns \in Seq(N), ns # <<>>, Straight(ns)
  PROVE  Steps(ns).names \in Seq(N) /\ Follows(Steps(ns), ns, Len(ns), Walk(ns))
<1>1. PICK k \in Nat : Len(ns) = k + 1
  <2>1. Len(ns) \in Nat \ {0}
    BY EmptySeq
  <2>2. Len(ns) - 1 \in Nat /\ Len(ns) = (Len(ns) - 1) + 1
    BY <2>1
  <2> QED
    BY <2>2
<1>2. Len(ns) - 1 = k /\ Len(ns) \in Nat
  BY <1>1
<1>3. PICK f : /\ f[0] = [valid |-> TRUE, names |-> <<ns[1]>>]
               /\ \A i \in 1 .. k : f[i] = Step(f[i - 1], ns[i + 1])
               /\ Steps(ns) = f[k]
  <2>1. Len(ns) - 1 \in Nat
    BY <1>2
  <2>2. \E f : /\ f[0] = [valid |-> TRUE, names |-> <<ns[1]>>]
               /\ \A i \in 1 .. Len(ns) - 1 : f[i] = Step(f[i - 1], ns[i + 1])
               /\ Steps(ns) = f[Len(ns) - 1]
    BY <2>1, StepsRuns
  <2> QED
    BY <1>2, <2>2
<1>4. PICK g : /\ g[0] = <<>>
               /\ \A i \in 1 .. k + 1 : g[i] = Onward(g[i - 1], ns[i])
               /\ Walk(ns) = g[k + 1]
  <2>2. \E g : /\ g[0] = <<>>
               /\ \A i \in 1 .. Len(ns) : g[i] = Onward(g[i - 1], ns[i])
               /\ Walk(ns) = g[Len(ns)]
    BY <1>2, WalkRuns
  <2> QED
    BY <1>1, <2>2
<1> DEFINE P == {i \in 0 .. k : f[i].names \in Seq(N) /\ Follows(f[i], ns, i + 1, g[i + 1])}
<1>5. 0 \in P
  <2>1. 1 \in 1 .. Len(ns) /\ 1 \in 1 .. k + 1 /\ ns[1] \in N
    BY <1>1
  <2>2. Ups(ns, 0 + 1) = 0 /\ Others(ns, 0 + 1) = 1 /\ ns[1] # Up
    <3>1. /\ Ups(ns, 0 + 1) = IF ns[0 + 1] = Up THEN Ups(ns, 0) + 1 ELSE Ups(ns, 0)
          /\ Others(ns, 0 + 1) = IF ns[0 + 1] = Up THEN Others(ns, 0) ELSE Others(ns, 0) + 1
      BY CountUps
    <3>2. Counted(ns, 1)
      BY <2>1 DEF Straight
    <3>3. Ups(ns, 1) < Others(ns, 1)
      BY <3>2 DEF Counted, Ups, Others
    <3> QED
      BY <3>1, <3>3, CountNone
  <2>3. ~StepsBack(ns[1])
    BY <2>1, <2>2 DEF Straight
  <2>4. PICK names : names = <<ns[1]>>
    OBVIOUS
  <2>5. names \in Seq(N) /\ Len(names) = 1 /\ names[1] = ns[1] /\ names # <<>>
    BY <2>1, <2>4
  <2>6. Walk(names) = g[1]
    <3>1. PICK none \in Seq(N) : none = <<>>
      BY EmptySeq
    <3>2. names = Append(none, ns[1])
      BY <2>4, <3>1
    <3>3. Walk(names) = Onward(Walk(none), ns[1])
      BY <2>1, <3>2, WalkAppend
    <3>4. g[1] = Onward(g[1 - 1], ns[1])
      BY <1>4, <2>1
    <3> QED
      BY <1>4, <3>1, <3>3, <3>4, WalkEmpty
  <2>7. f[0] = [valid |-> TRUE, names |-> f[0].names] /\ f[0].names = names
    BY <1>3, <2>4
  <2>8. (\A i \in 1 .. 1 : i = 1) /\ (\A i \in 2 .. 1 : FALSE) /\ 0 + 1 = 1 /\ 1 + 0 = 1 /\ 1 <= 1
    OBVIOUS
  <2>9. Follows(f[0], ns, 0 + 1, g[0 + 1])
    BY <2>2, <2>3, <2>5, <2>6, <2>7, <2>8 DEF Follows
  <2>10. 0 \in 0 .. k
    OBVIOUS
  <2> QED
    BY <2>5, <2>7, <2>9, <2>10
<1>6. ASSUME NEW i \in 1 .. k, i - 1 \in P PROVE i \in P
  <2>1. f[i - 1].names \in Seq(N) /\ Follows(f[i - 1], ns, i, g[i])
    <3>1. f[i - 1].names \in Seq(N) /\ Follows(f[i - 1], ns, (i - 1) + 1, g[(i - 1) + 1])
      BY <1>6
    <3>2. (i - 1) + 1 = i
      OBVIOUS
    <3> QED
      BY <3>1, <3>2
  <2>2. i \in 1 .. Len(ns) - 1
    BY <1>2
  <2>3. /\ Step(f[i - 1], ns[i + 1]).names \in Seq(N)
        /\ Follows(Step(f[i - 1], ns[i + 1]), ns, i + 1, Onward(g[i], ns[i + 1]))
    BY <2>1, <2>2, FollowsOn
  <2>4. g[i + 1] = Onward(g[i], ns[i + 1])
    <3>1. i + 1 \in 1 .. k + 1 /\ (i + 1) - 1 = i
      OBVIOUS
    <3> QED
      BY <1>4, <3>1
  <2>5. f[i] = Step(f[i - 1], ns[i + 1])
    BY <1>3
  <2> QED
    BY <2>3, <2>4, <2>5
<1>7. P = 0 .. k
  <2>1. P \in SUBSET (0 .. k)
    OBVIOUS
  <2> HIDE DEF P
  <2> QED
    BY <1>5, <1>6, <2>1, UpTo
<1>8. k \in 0 .. k
  OBVIOUS
<1>9. k \in P
  <2> HIDE DEF P
  <2> QED
    BY <1>7, <1>8
<1> QED
  BY <1>1, <1>3, <1>4, <1>9

(* The first name of a text and that of its rest.                          *)
FirstName(t) == Split(t, Slashes)[1]
Names(t) == Len(Split(t, Slashes))

(* The first name has the characters up to the first slash.                *)
LEMMA FirstNameOf ==
  ASSUME NEW X, NEW t \in Seq(X)
  PROVE  /\ FirstName(t) \in Seq(X) /\ Names(t) \in Nat
         /\ t = <<>> => Names(t) = 1 /\ Len(FirstName(t)) = 0
         /\ t # <<>> /\ t[1] \in Slashes => Names(t) >= 2 /\ Len(FirstName(t)) = 0
         /\ t # <<>> /\ t[1] \notin Slashes =>
              /\ Names(t) = Names(Tail(t)) /\ Len(FirstName(t)) = Len(FirstName(Tail(t))) + 1
              /\ FirstName(t)[1] = t[1]
              /\ \A i \in 1 .. Len(FirstName(Tail(t))) : FirstName(t)[i + 1] = FirstName(Tail(t))[i]
<1>1. ASSUME NEW s \in Seq(X)
      PROVE  /\ Split(s, Slashes) \in Seq(Seq(X)) /\ Split(s, Slashes)[1] \in Seq(X)
             /\ Names(s) \in Nat \ {0}
  <2>1. PICK N : N = Seq(X)
    OBVIOUS
  <2>2. Split(s, Slashes) \in Seq(N) /\ Split(s, Slashes) # <<>>
    BY <2>1, SplitNames
  <2>3. Split(s, Slashes)[1] \in N
    BY <2>2, FirstRest
  <2>4. Len(Split(s, Slashes)) \in Nat \ {0}
    BY <2>2, EmptySeq
  <2> QED
    BY <2>1, <2>2, <2>3, <2>4 DEF Names
<1>2. FirstName(t) \in Seq(X) /\ Names(t) \in Nat
  BY <1>1 DEF FirstName
<1>3. ASSUME t = <<>> PROVE Names(t) = 1 /\ Len(FirstName(t)) = 0
  <2>1. Split(t, Slashes) = << <<>> >>
    BY <1>3, SplitEmpty
  <2> QED
    BY <2>1 DEF Names, FirstName
<1>4. ASSUME t # <<>>, t[1] \in Slashes PROVE Names(t) >= 2 /\ Len(FirstName(t)) = 0
  <2>1. PICK rest, c : rest = Tail(t) /\ c = t[1]
    OBVIOUS
  <2>2. rest \in Seq(X) /\ c \in X /\ c \in Slashes /\ t = <<c>> \o rest
    BY <1>4, <2>1, FirstRest
  <2>3. PICK N, ns : N = Seq(X) /\ ns = Split(rest, Slashes)
    OBVIOUS
  <2>4. ns \in Seq(N) /\ Len(ns) \in Nat \ {0}
    BY <1>1, <2>2, <2>3 DEF Names
  <2>5. PICK one \in Seq(N) : one = << <<>> >>
    <3>1. << <<>> >> \in Seq(N)
      BY <2>3
    <3> QED
      BY <3>1
  <2>6. Len(one) = 1 /\ one[1] = <<>>
    BY <2>5
  <2>7. Len(one \o ns) = Len(one) + Len(ns) /\
        \A i \in 1 .. Len(one) + Len(ns) :
          (one \o ns)[i] = IF i <= Len(one) THEN one[i] ELSE ns[i - Len(one)]
    BY <2>4, ConcatProperties
  <2>8. Split(t, Slashes) = one \o ns
    BY <2>2, <2>3, <2>5, SlashFirst
  <2>9. 1 \in 1 .. Len(one) + Len(ns) /\ Len(one) + Len(ns) >= 2
    BY <2>4, <2>6
  <2>10. Names(t) >= 2 /\ FirstName(t) = <<>>
    BY <2>6, <2>7, <2>8, <2>9 DEF Names, FirstName
  <2> QED
    BY <2>10
<1>5. ASSUME t # <<>>, t[1] \notin Slashes
      PROVE  /\ Names(t) = Names(Tail(t)) /\ Len(FirstName(t)) = Len(FirstName(Tail(t))) + 1
             /\ FirstName(t)[1] = t[1]
             /\ \A i \in 1 .. Len(FirstName(Tail(t))) : FirstName(t)[i + 1] = FirstName(Tail(t))[i]
  <2>1. PICK rest, c : rest = Tail(t) /\ c = t[1]
    OBVIOUS
  <2>2. rest \in Seq(X) /\ c \in X /\ c \notin Slashes /\ t = <<c>> \o rest
    BY <1>5, <2>1, FirstRest
  <2>3. Leads(c, Split(rest, Slashes), Split(t, Slashes))
    BY <2>2, SplitFirst
  <2>4. PICK n, m : n = FirstName(t) /\ m = FirstName(rest)
    OBVIOUS
  <2>5. n = <<c>> \o m /\ m \in Seq(X) /\ Names(t) = Names(rest)
    BY <1>1, <2>2, <2>3, <2>4 DEF Leads, FirstName, Names
  <2>6. PICK one \in Seq(X) : one = <<c>>
    <3>1. <<c>> \in Seq(X)
      BY <2>2
    <3> QED
      BY <3>1
  <2>7. Len(one) = 1 /\ one[1] = c /\ Len(m) \in Nat
    BY <2>5, <2>6
  <2>8. Len(one \o m) = Len(one) + Len(m) /\
        \A i \in 1 .. Len(one) + Len(m) :
          (one \o m)[i] = IF i <= Len(one) THEN one[i] ELSE m[i - Len(one)]
    BY <2>5, ConcatProperties
  <2>9. Len(n) = Len(m) + 1 /\ \A i \in 1 .. Len(m) + 1 : n[i] = IF i <= 1 THEN one[i] ELSE m[i - 1]
    BY <2>5, <2>6, <2>7, <2>8
  <2>10. n[1] = c
    BY <2>7, <2>9
  <2>11. ASSUME NEW i \in 1 .. Len(m) PROVE n[i + 1] = m[i]
    <3>1. i + 1 \in 1 .. Len(m) + 1 /\ ~ (i + 1 <= 1) /\ (i + 1) - 1 = i
      BY <2>7
    <3>2. n[i + 1] = IF i + 1 <= 1 THEN one[i + 1] ELSE m[(i + 1) - 1]
      BY <2>9, <3>1
    <3> QED
      BY <3>1, <3>2
  <2> QED
    BY <2>1, <2>4, <2>5, <2>9, <2>10, <2>11
<1> QED
  BY <1>2, <1>3, <1>4, <1>5

(* A path has a drive if its first name is one and others follow.          *)
DriveFirst(t, a) ==
  /\ Names(t) >= 2 /\ Len(FirstName(t)) = 2 /\ FirstName(t)[1] = a /\ FirstName(t)[2] = ":"

(* A path with a drive.                                                    *)
LEMMA DriveName ==
  ASSUME NEW X, NEW t \in Seq(X), is_windows_drive(t)
  PROVE  DriveFirst(t, t[1])
<1>1. /\ Len(t) \in Nat /\ Len(t) >= 3 /\ t # <<>> /\ t[1] \in Letters /\ t[2] = ":"
      /\ t[3] \in Slashes
  BY DEF is_windows_drive, is_path_slash, Letters
<1>2. PICK r : r = Tail(t)
  OBVIOUS
<1>3. r \in Seq(X) /\ Len(r) = Len(t) - 1 /\ \A i \in 1 .. Len(t) - 1 : r[i] = t[i + 1]
  BY <1>1, <1>2, FirstRest
<1>4. Len(r) >= 2 /\ r # <<>> /\ r[1] = ":" /\ r[2] = t[3] /\ Len(r) \in Nat
  <2>1. 1 \in 1 .. Len(t) - 1 /\ 2 \in 1 .. Len(t) - 1 /\ Len(r) >= 2
    BY <1>1, <1>3
  <2>2. r[1] = t[1 + 1] /\ r[2] = t[2 + 1]
    BY <1>3, <2>1
  <2> QED
    BY <1>1, <1>3, <2>1, <2>2
<1>5. PICK q : q = Tail(r)
  OBVIOUS
<1>6. q \in Seq(X) /\ Len(q) = Len(r) - 1 /\ \A i \in 1 .. Len(r) - 1 : q[i] = r[i + 1]
  BY <1>3, <1>4, <1>5, FirstRest
<1>7. q # <<>> /\ q[1] \in Slashes
  <2>1. 1 \in 1 .. Len(r) - 1 /\ Len(q) >= 1
    BY <1>4, <1>6
  <2>2. q[1] = r[1 + 1]
    BY <1>6, <2>1
  <2> QED
    BY <1>1, <1>4, <2>1, <2>2
<1>8. Names(q) >= 2 /\ Len(FirstName(q)) = 0
  BY <1>6, <1>7, FirstNameOf
<1>9. ":" \notin Slashes /\ t[1] \notin Slashes
  BY <1>1, LettersNoSigns DEF Slashes
<1>10. Names(r) >= 2 /\ Len(FirstName(r)) = 1 /\ FirstName(r)[1] = ":"
  <2>1. r[1] \notin Slashes
    BY <1>4, <1>9
  <2>2. Names(r) = Names(q) /\ Len(FirstName(r)) = Len(FirstName(q)) + 1 /\ FirstName(r)[1] = r[1]
    BY <1>3, <1>4, <1>5, <2>1, FirstNameOf
  <2>3. Len(FirstName(q)) + 1 = 1
    BY <1>8
  <2> QED
    BY <1>4, <1>8, <2>2, <2>3
<1>11. /\ Names(t) = Names(r) /\ Len(FirstName(t)) = Len(FirstName(r)) + 1
       /\ FirstName(t)[1] = t[1]
       /\ \A i \in 1 .. Len(FirstName(r)) : FirstName(t)[i + 1] = FirstName(r)[i]
  BY <1>1, <1>2, <1>9, FirstNameOf
<1>12. FirstName(t)[1 + 1] = FirstName(r)[1]
  BY <1>10, <1>11
<1> QED
  BY <1>10, <1>11, <1>12 DEF DriveFirst

(* The other way round: such a first name is a drive.                      *)
LEMMA NameDrive ==
  ASSUME NEW X, NEW t \in Seq(X), NEW a \in Letters, DriveFirst(t, a)
  PROVE  is_windows_drive(t) /\ t[1] = a
<1>1. /\ Names(t) >= 2 /\ Len(FirstName(t)) = 2 /\ FirstName(t)[1] = a
      /\ FirstName(t)[2] = ":"
  BY DEF DriveFirst
<1>2. t # <<>> /\ t[1] \notin Slashes
  <2>1. Len(FirstName(t)) # 0
    BY <1>1
  <2> QED
    BY <2>1, FirstNameOf
<1>3. PICK r : r = Tail(t)
  OBVIOUS
<1>4. r \in Seq(X) /\ Len(r) = Len(t) - 1 /\ \A i \in 1 .. Len(t) - 1 : r[i] = t[i + 1]
  BY <1>2, <1>3, FirstRest
<1>5. /\ Names(t) = Names(r) /\ Len(FirstName(t)) = Len(FirstName(r)) + 1
      /\ FirstName(t)[1] = t[1]
      /\ \A i \in 1 .. Len(FirstName(r)) : FirstName(t)[i + 1] = FirstName(r)[i]
  BY <1>2, <1>3, FirstNameOf
<1>6. Len(FirstName(r)) = 1 /\ FirstName(r)[1] = ":" /\ Names(r) >= 2
  <2>1. FirstName(r) \in Seq(X)
    BY <1>4, FirstNameOf
  <2>2. PICK k \in Nat : k = Len(FirstName(r))
    BY <2>1, LenProperties
  <2>5. k + 1 = 2
    BY <1>1, <1>5, <2>2
  <2>3. Len(FirstName(r)) = 1
    BY <2>2, <2>5
  <2>4. FirstName(t)[1 + 1] = FirstName(r)[1]
    BY <1>5, <2>3
  <2> QED
    BY <1>1, <1>5, <2>3, <2>4
<1>7. r # <<>> /\ r[1] \notin Slashes
  <2>1. Len(FirstName(r)) # 0
    BY <1>6
  <2> QED
    BY <1>4, <2>1, FirstNameOf
<1>8. PICK q : q = Tail(r)
  OBVIOUS
<1>9. q \in Seq(X) /\ Len(q) = Len(r) - 1 /\ \A i \in 1 .. Len(r) - 1 : q[i] = r[i + 1]
  BY <1>4, <1>7, <1>8, FirstRest
<1>10. /\ Names(r) = Names(q) /\ Len(FirstName(r)) = Len(FirstName(q)) + 1
       /\ FirstName(r)[1] = r[1]
  BY <1>4, <1>7, <1>8, FirstNameOf
<1>11. Len(FirstName(q)) = 0 /\ Names(q) >= 2
  <2>1. FirstName(q) \in Seq(X)
    BY <1>9, FirstNameOf
  <2>2. Len(FirstName(q)) \in Nat
    BY <2>1
  <2> QED
    BY <1>6, <1>10, <2>2
<1>12. q # <<>>
  <2>1. Names(q) # 1
    BY <1>11
  <2> QED
    BY <1>9, <2>1, FirstNameOf
<1>13. q[1] \in Slashes
  <2>1. SUFFICES ASSUME q[1] \notin Slashes PROVE FALSE
    OBVIOUS
  <2>2. Len(FirstName(q)) = Len(FirstName(Tail(q))) + 1
    BY <1>9, <1>12, <2>1, FirstNameOf
  <2>3. Tail(q) \in Seq(X)
    BY <1>9, <1>12, FirstRest
  <2>4. FirstName(Tail(q)) \in Seq(X)
    BY <2>3, FirstNameOf
  <2>5. PICK k \in Nat : k = Len(FirstName(Tail(q)))
    BY <2>4, LenProperties
  <2>6. k + 1 = 0
    BY <1>11, <2>2, <2>5
  <2> QED
    BY <2>6
<1>14. Len(t) >= 3 /\ t[2] = ":" /\ t[3] = q[1]
  <2>1. Len(q) \in Nat \ {0} /\ Len(t) \in Nat /\ Len(r) \in Nat
    BY <1>4, <1>9, <1>12, EmptySeq
  <2>2. Len(t) >= 3 /\ 1 \in 1 .. Len(t) - 1 /\ 2 \in 1 .. Len(t) - 1 /\ 1 \in 1 .. Len(r) - 1
    BY <1>4, <1>9, <2>1
  <2>3. r[1] = t[1 + 1] /\ r[2] = t[2 + 1] /\ q[1] = r[1 + 1]
    BY <1>4, <1>9, <2>2
  <2> QED
    BY <1>6, <1>10, <2>2, <2>3
<1> QED
  BY <1>1, <1>5, <1>13, <1>14 DEF is_windows_drive, is_path_slash, Letters

(* A path that is straight keeps its place, and is normal from then on     *)
(* (path_remove_redundant_steps, normalize_path).                          *)
LEMMA StraightNormal == TextTyped => NormalPathSame
<1> SUFFICES ASSUME TextTyped, kind = "path", Len(text) > 2, ~Odd(Split(text, Slashes))
             PROVE  /\ normalize_path(text).outcome = "path"
                    /\ normalize_path(normalize_path(text).path) = normalize_path(text)
                    /\ Walk(Split(normalize_path(text).path, Slashes)) =
                         Walk(Split(Forward(WithUpperDrive(text)), Slashes))
  BY DEF NormalPathSame, Forward
<1>1. PICK X : X = Range(text) \cup Range(Upper) \cup {"/"}
  OBVIOUS
<1>2. "/" \in X /\ Range(Upper) \subseteq X /\ text \in Seq(X)
  <2>1. Text(text)
    BY DEF TextTyped
  <2> QED
    BY <1>1, <2>1, SeqMonotonic DEF Text
<1>3. PICK u \in Seq(X) : u = WithUpperDrive(text) /\ Len(u) = Len(text)
  BY <1>2, UpperDrive
<1>4. PICK N, ns, us : /\ N = Seq(X \ Slashes) /\ ns = Split(text, Slashes)
                       /\ us = Split(u, Slashes)
  OBVIOUS
<1>5. us \in Seq(N) /\ us # <<>> /\ ns \in Seq(N) /\ ns # <<>>
  BY <1>2, <1>4, SplitType
<1>6. Straight(us)
  <2>1. SameSteps(ns, us)
    BY <1>2, <1>3, <1>4, UpperNames
  <2>2. Straight(ns)
    BY <1>4, <1>5, NotOdd
  <2> QED
    BY <1>5, <2>1, <2>2, StraightSame
<1>7. PICK f : f = Forward(u)
  OBVIOUS
<1>8. Split(f, Slashes) = us
  BY <1>4, <1>7, SplitForward
<1>9. Len(f) = Len(u)
  BY <1>7, LenProperties DEF Forward, ReplaceAll
<1>10. normalize_path(text) = path_remove_redundant_steps(f)
  BY <1>3, <1>7 DEF normalize_path, Forward
<1>11. PICK names \in Seq(N) : /\ Steps(us) = [valid |-> TRUE, names |-> names]
                               /\ names # <<>> /\ names[1] = us[1] /\ Len(names) <= Len(us)
                               /\ \A i \in 1 .. Len(names) : ~StepsBack(names[i])
                               /\ Walk(names) = Walk(us)
  <2>1. Steps(us).names \in Seq(N) /\ Follows(Steps(us), us, Len(us), Walk(us))
    BY <1>5, <1>6, SameWalk
  <2> QED
    BY <2>1 DEF Follows
<1>12. PICK p : p = Joined(names)
  OBVIOUS
<1>13. normalize_path(text) = Path(p)
  <2>1. ~ (Len(f) <= 2)
    <3>1. Len(text) \in Nat
      BY <1>2
    <3> QED
      BY <1>3, <1>9, <3>1
  <2> QED
    BY <1>8, <1>10, <1>11, <1>12, <2>1 DEF path_remove_redundant_steps
<1>14. Split(p, Slashes) = names
  BY <1>2, <1>4, <1>11, <1>12, SplitJoined
<1>15. p \in Seq(X) /\ Forward(p) = p
  <2>1. PICK Z : Z = X \ {"\\"}
    OBVIOUS
  <2>2. "/" \in Z /\ "\\" \notin Z /\ X \ Slashes \subseteq Z /\ Z \subseteq X
    BY <1>2, <2>1 DEF Slashes
  <2>3. Seq(X \ Slashes) \subseteq Seq(Z)
    BY <2>2, SeqMonotonic
  <2>4. PICK M : M = Seq(Z)
    OBVIOUS
  <2>5. names \in Seq(M)
    BY <1>4, <2>3, <2>4, SeqMonotonic
  <2>6. p \in Seq(Z)
    BY <1>11, <1>12, <2>2, <2>4, <2>5, JoinedType
  <2> QED
    BY <2>2, <2>6, ForwardSame, SeqMonotonic
<1>16. WithUpperDrive(p) = p
  <2>1. SUFFICES ASSUME is_windows_drive(p), p[1] \in DOMAIN Upper PROVE FALSE
    BY DEF WithUpperDrive
  <2>2. DriveFirst(p, p[1])
    BY <1>15, <2>1, DriveName
  <2>3. p[1] \in Letters
    BY <2>1 DEF Letters
  <2>4. DriveFirst(u, p[1])
    <3>1. Len(names) \in Nat /\ Len(us) \in Nat
      BY <1>5
    <3> QED
      BY <1>4, <1>11, <1>14, <2>2, <3>1 DEF DriveFirst, Names, FirstName
  <2>5. is_windows_drive(u) /\ u[1] = p[1]
    BY <2>3, <2>4, NameDrive
  <2>6. CASE is_windows_drive(text) /\ text[1] \in DOMAIN Upper
    <3>1. u = [text EXCEPT ![1] = Upper[text[1]]]
      BY <1>3, <2>6 DEF WithUpperDrive
    <3>2. 1 \in DOMAIN text
      BY <1>2, <2>6 DEF is_windows_drive
    <3>3. u[1] = Upper[text[1]]
      BY <1>2, <3>1, <3>2
    <3>4. u[1] \in Range(Upper)
      BY <2>6, <3>3 DEF Range
    <3> QED
      BY <2>1, <2>5, <3>4, PathsAssumption
  <2>7. CASE ~ (is_windows_drive(text) /\ text[1] \in DOMAIN Upper)
    <3>1. u = text
      BY <1>3, <2>7 DEF WithUpperDrive
    <3> QED
      BY <2>1, <2>5, <2>7, <3>1
  <2> QED
    BY <2>6, <2>7
<1>17. normalize_path(p) = Path(p)
  <2>1. \A i \in 2 .. Len(names) : i \in 1 .. Len(names)
    BY <1>11
  <2>2. Forwards(p)
    BY <1>11, <1>14, <2>1 DEF Forwards
  <2> QED
    BY <1>2, <1>15, <1>16, <2>2, NormalSafe
<1>18. normalize_path(text).path = p /\ normalize_path(text).outcome = "path"
  BY <1>13 DEF Path
<1> QED
  BY <1>3, <1>7, <1>8, <1>11, <1>13, <1>14, <1>17, <1>18

(* Normalizing a path neither fails nor changes where it leads, and what   *)
(* it gives is its own normal form, for a path of any length with any      *)
(* steps that is not odd (normalize_path, path_remove_redundant_steps).    *)
THEOREM NormalPathAlwaysSame == Spec => []NormalPathSame
<1>1. TextTyped => NormalPathSame
  BY StraightNormal
<1> QED
  BY <1>1, TypedText, PTL

(* A header in quotes takes the place of another as main header of a       *)
(* source exactly when its name has more of that of the source, wherever   *)
(* they are: the tie breaker lifts no score to the next.  In a unit that   *)
(* is translated one of the names is within the other; in one that is only *)
(* indexed the first header has any name (path_pair_score,                 *)
(* index_included_file, clear_included_files, index_source_file).          *)
THEOREM MainHeaderAlwaysByName == Spec => []MainHeaderByName
<1>1. TextTyped => MainHeaderByName
  BY HeaderByName
<1> QED
  BY <1>1, TypedText, PTL

-----------------------------------------------------------------------------
(* The URI of a file                                                       *)

(* Names of which, from the first on, fewer are steps back than not.       *)
Level(ns) ==
  /\ \A i \in 1 .. Len(ns) : StepsBack(ns[i]) => ns[i] = Up
  /\ \A n \in 1 .. Len(ns) : Ups(ns, n) < Others(ns, n)

(* Straight names are level, and so are they with the drive in upper case. *)
LEMMA StraightLevel ==
  ASSUME NEW ns, Straight(ns)
  PROVE  Level(ns)
<1>1. \A n \in 1 .. Len(ns) : Counted(ns, n)
  BY DEF Straight
<1>2. \A n \in 1 .. Len(ns) : Ups(ns, n) < Others(ns, n)
  BY <1>1 DEF Counted, Ups, Others
<1> QED
  BY <1>2 DEF Straight, Level

(* The names with the drive in upper case are level with the others.       *)
LEMMA LevelSame ==
  ASSUME NEW N, NEW ns \in Seq(N), ns # <<>>, NEW us, SameSteps(ns, us), Level(ns)
  PROVE  Level(us)
<1>1. Len(us) = Len(ns) /\ Len(ns) \in Nat /\ 1 \in 1 .. Len(ns)
  BY EmptySeq DEF SameSteps
<1>2. ASSUME NEW i \in 1 .. Len(ns)
      PROVE  (StepsBack(us[i]) => us[i] = Up) /\ (us[i] = Up <=> ns[i] = Up)
  <2>1. StepsBack(ns[i]) => ns[i] = Up
    BY DEF Level
  <2>2. CASE us[i] = ns[i]
    BY <2>1, <2>2
  <2>3. CASE us[i] # ns[i]
    <3>1. i = 1
      <4>1. i \in 2 .. Len(ns) \/ i = 1
        BY <1>1
      <4> QED
        BY <2>3, <4>1 DEF SameSteps
    <3>2. \A n \in {ns[1], us[1]} : ~StepsBack(n) /\ n # <<>> /\ n # Up /\ n # <<".">>
      BY <2>3, <3>1 DEF SameSteps
    <3> QED
      BY <3>1, <3>2
  <2> QED
    BY <2>2, <2>3
<1>3. ASSUME NEW n \in 1 .. Len(ns) PROVE Ups(us, n) < Others(us, n)
  <2>1. Ups(ns, n) < Others(ns, n)
    BY DEF Level
  <2>2. \A i \in 1 .. n : us[i] = Up <=> ns[i] = Up
    <3>1. \A i \in 1 .. n : i \in 1 .. Len(ns)
      BY <1>1
    <3> QED
      BY <1>2, <3>1
  <2>3. {i \in 1 .. n : us[i] = Up} = {i \in 1 .. n : ns[i] = Up}
        /\ {i \in 1 .. n : us[i] # Up} = {i \in 1 .. n : ns[i] # Up}
    BY <2>2
  <2> QED
    BY <2>1, <2>3 DEF Ups, Others
<1> QED
  BY <1>1, <1>2, <1>3 DEF Level

(* Names that are no steps back are counted as others.                     *)
LEMMA CountOthers ==
  ASSUME NEW ns, NEW n \in Nat, \A i \in 1 .. n : ns[i] # Up
  PROVE  Ups(ns, n) = 0 /\ Others(ns, n) = n
<1>1. {i \in 1 .. n : ns[i] = Up} = {} /\ {i \in 1 .. n : ns[i] # Up} = 1 .. n
  OBVIOUS
<1>2. Cardinality(1 .. n) = n
  BY FS_Interval
<1>3. Cardinality({}) = 0
  BY FS_EmptySet
<1> QED
  BY <1>1, <1>2, <1>3 DEF Ups, Others

(* Level names behind a directory without steps back are level.            *)
LEMMA LevelConcat ==
  ASSUME NEW N, NEW ds \in Seq(N), NEW ns \in Seq(N), Level(ns),
         \A i \in 1 .. Len(ds) : ~StepsBack(ds[i])
  PROVE  Level(ds \o ns)
<1>1. PICK ws \in Seq(N) : ws = ds \o ns
  BY ConcatProperties
<1>2. PICK k \in Nat, m \in Nat : k = Len(ds) /\ m = Len(ns)
  OBVIOUS
<1>3. /\ Len(ws) = k + m
      /\ \A i \in 1 .. k : ws[i] = ds[i]
      /\ \A i \in 1 .. m : ws[k + i] = ns[i]
  <2>1. /\ Len(ws) = k + m
        /\ \A i \in 1 .. k + m : ws[i] = IF i <= k THEN ds[i] ELSE ns[i - k]
    BY <1>1, <1>2, ConcatProperties
  <2>2. \A i \in 1 .. k : i \in 1 .. k + m /\ i <= k
    OBVIOUS
  <2>3. \A i \in 1 .. m : k + i \in 1 .. k + m /\ ~ (k + i <= k) /\ (k + i) - k = i
    OBVIOUS
  <2> QED
    BY <2>1, <2>2, <2>3
<1>4. StepsBack(Up)
  <2>1. StepsBack(<<".", ".">>)
    BY DEF StepsBack, IsPrefix
  <2> QED
    BY <2>1 DEF Up
<1>5. \A i \in 1 .. k : ~StepsBack(ws[i]) /\ ws[i] # Up
  BY <1>2, <1>3, <1>4
<1>6. ASSUME NEW n \in 0 .. k PROVE Ups(ws, n) = 0 /\ Others(ws, n) = n
  <2>1. n \in Nat /\ \A i \in 1 .. n : i \in 1 .. k
    OBVIOUS
  <2> QED
    BY <1>5, <2>1, CountOthers
<1> DEFINE P == {n \in 0 .. m : /\ Ups(ws, k + n) = Ups(ns, n)
                                /\ Others(ws, k + n) = k + Others(ns, n)}
<1>7. 0 \in P
  <2>1. k + 0 = k /\ k \in 0 .. k /\ 0 \in 0 .. m
    OBVIOUS
  <2>2. Ups(ns, 0) = 0 /\ Others(ns, 0) = 0
    BY CountNone
  <2>3. Ups(ws, k + 0) = 0 /\ Others(ws, k + 0) = k
    BY <1>6, <2>1
  <2> QED
    BY <2>1, <2>2, <2>3
<1>8. ASSUME NEW i \in 1 .. m, i - 1 \in P PROVE i \in P
  <2>1. PICK n \in Nat : i = n + 1
    <3>1. i - 1 \in Nat /\ i = (i - 1) + 1
      OBVIOUS
    <3> QED
      BY <3>1
  <2>2. i - 1 = n /\ k + n \in Nat /\ (k + n) + 1 = k + (n + 1) /\ n + 1 \in 0 .. m /\ n + 1 \in 1 .. m
    BY <2>1
  <2>3. Ups(ws, k + n) = Ups(ns, n) /\ Others(ws, k + n) = k + Others(ns, n)
    BY <1>8, <2>2
  <2>4. /\ Ups(ns, n) \in Nat /\ Others(ns, n) \in Nat
        /\ Ups(ns, n + 1) = IF ns[n + 1] = Up THEN Ups(ns, n) + 1 ELSE Ups(ns, n)
        /\ Others(ns, n + 1) = IF ns[n + 1] = Up THEN Others(ns, n) ELSE Others(ns, n) + 1
    BY CountUps
  <2>5. /\ Ups(ws, (k + n) + 1) = IF ws[(k + n) + 1] = Up THEN Ups(ws, k + n) + 1 ELSE Ups(ws, k + n)
        /\ Others(ws, (k + n) + 1) =
             IF ws[(k + n) + 1] = Up THEN Others(ws, k + n) ELSE Others(ws, k + n) + 1
    BY <2>2, CountUps
  <2>6. ws[k + (n + 1)] = ns[n + 1]
    BY <1>3, <2>2
  <2>7. Ups(ws, k + (n + 1)) = Ups(ns, n + 1) /\ Others(ws, k + (n + 1)) = k + Others(ns, n + 1)
    BY <2>2, <2>3, <2>4, <2>5, <2>6
  <2> QED
    BY <2>1, <2>2, <2>7
<1>9. P = 0 .. m
  <2>1. P \in SUBSET (0 .. m)
    OBVIOUS
  <2> HIDE DEF P
  <2> QED
    BY <1>7, <1>8, <2>1, UpTo
<1>10. ASSUME NEW n \in 1 .. m PROVE Ups(ws, k + n) < Others(ws, k + n)
  <2>1. n \in P
    <3>1. n \in 0 .. m
      OBVIOUS
    <3> HIDE DEF P
    <3> QED
      BY <1>9, <3>1
  <2>2. Ups(ns, n) < Others(ns, n)
    BY <1>2 DEF Level
  <2>3. Ups(ns, n) \in Nat /\ Others(ns, n) \in Nat
    <3>1. n \in Nat
      OBVIOUS
    <3> QED
      BY <3>1, CountUps
  <2> QED
    BY <2>1, <2>2, <2>3
<1>11. ASSUME NEW i \in 1 .. Len(ws)
       PROVE  (StepsBack(ws[i]) => ws[i] = Up) /\ Ups(ws, i) < Others(ws, i)
  <2>1. CASE i <= k
    <3>1. i \in 1 .. k /\ i \in 0 .. k /\ 0 < i
      BY <2>1
    <3> QED
      BY <1>5, <1>6, <3>1
  <2>2. CASE ~ (i <= k)
    <3>1. PICK n \in 1 .. m : i = k + n
      <4>1. i - k \in 1 .. m /\ i = k + (i - k)
        BY <1>3, <2>2
      <4> QED
        BY <4>1
    <3>2. ws[i] = ns[n] /\ (StepsBack(ns[n]) => ns[n] = Up)
      BY <1>2, <1>3, <3>1 DEF Level
    <3> QED
      BY <1>10, <3>1, <3>2
  <2> QED
    BY <2>1, <2>2
<1> QED
  BY <1>1, <1>11 DEF Level

(* The stack after the first n of such names.                              *)
Stacked(stack, ns, n) ==
  /\ stack = [valid |-> TRUE, names |-> stack.names]
  /\ stack.names # <<>> /\ stack.names[1] = ns[1]
  /\ Len(stack.names) + Ups(ns, n) = Others(ns, n)
  /\ \A i \in 1 .. Len(stack.names) : ~StepsBack(stack.names[i])

LEMMA StackedOn ==
  ASSUME NEW N, NEW ns \in Seq(N), Level(ns), NEW n \in 1 .. Len(ns) - 1,
         NEW stack, stack.names \in Seq(N), Stacked(stack, ns, n)
  PROVE  /\ Step(stack, ns[n + 1]).names \in Seq(N)
         /\ Stacked(Step(stack, ns[n + 1]), ns, n + 1)
<1>1. n \in Nat /\ n + 1 \in 1 .. Len(ns) /\ ns[n + 1] \in N
  OBVIOUS
<1>2. PICK names \in Seq(N), name \in N : names = stack.names /\ name = ns[n + 1]
  BY <1>1
<1>3. /\ names # <<>> /\ names[1] = ns[1]
      /\ Len(names) + Ups(ns, n) = Others(ns, n)
      /\ \A i \in 1 .. Len(names) : ~StepsBack(names[i])
      /\ stack.valid /\ stack = [valid |-> TRUE, names |-> names]
  BY <1>2 DEF Stacked
<1>4. /\ Ups(ns, n) \in Nat /\ Others(ns, n) \in Nat
      /\ Ups(ns, n + 1) = IF name = Up THEN Ups(ns, n) + 1 ELSE Ups(ns, n)
      /\ Others(ns, n + 1) = IF name = Up THEN Others(ns, n) ELSE Others(ns, n) + 1
  BY <1>1, <1>2, CountUps
<1>5. Len(names) \in Nat \ {0}
  BY <1>3, EmptySeq
<1>6. CASE name # Up
  <2>1. ~StepsBack(name)
    BY <1>1, <1>2, <1>6 DEF Level
  <2>2. PICK longer : longer = Append(names, name)
    OBVIOUS
  <2>3. /\ longer \in Seq(N) /\ longer # <<>> /\ Len(longer) = Len(names) + 1
        /\ longer[Len(names) + 1] = name /\ \A i \in 1 .. Len(names) : longer[i] = names[i]
    BY <2>2, Longer
  <2>4. Step(stack, name) = [valid |-> TRUE, names |-> longer]
    BY <1>3, <2>1, <2>2 DEF Step
  <2>5. longer[1] = ns[1]
    <3>1. 1 \in 1 .. Len(names)
      BY <1>5
    <3> QED
      BY <1>3, <2>3, <3>1
  <2>6. \A i \in 1 .. Len(longer) : ~StepsBack(longer[i])
    <3>1. \A i \in 1 .. Len(longer) : i \in 1 .. Len(names) \/ i = Len(names) + 1
      BY <1>5, <2>3
    <3> QED
      BY <1>3, <2>1, <2>3, <3>1
  <2>7. Len(longer) + Ups(ns, n + 1) = Others(ns, n + 1)
    BY <1>3, <1>4, <1>5, <1>6, <2>3
  <2>8. PICK next : next = Step(stack, name)
    OBVIOUS
  <2>9. next = [valid |-> TRUE, names |-> next.names] /\ next.names = longer
    BY <2>4, <2>8
  <2>10. Stacked(next, ns, n + 1)
    BY <2>3, <2>5, <2>6, <2>7, <2>9 DEF Stacked
  <2> QED
    BY <1>2, <2>3, <2>8, <2>9, <2>10
<1>7. CASE name = Up
  <2>1. StepsBack(name)
    <3>1. StepsBack(<<".", ".">>)
      BY DEF StepsBack, IsPrefix
    <3> QED
      BY <1>7, <3>1 DEF Up
  <2>2. PICK front \in Seq(N), last \in N : names = Append(front, last)
    BY <1>3, SequenceEmptyOrAppend
  <2>3. /\ Len(names) = Len(front) + 1 /\ \A i \in 1 .. Len(front) : names[i] = front[i]
    BY <2>2, Longer
  <2>4. Step(stack, name) = [valid |-> TRUE, names |-> front]
    <3>1. Front(names) = front
      BY <2>2, FrontLast
    <3> QED
      BY <1>3, <2>1, <3>1 DEF Step
  <2>5. Len(front) + Ups(ns, n + 1) = Others(ns, n + 1) /\ Len(front) \in Nat
    BY <1>3, <1>4, <1>5, <1>7, <2>3
  <2>6. Len(front) # 0
    <3>1. Ups(ns, n + 1) < Others(ns, n + 1)
      BY <1>1 DEF Level
    <3>2. Ups(ns, n + 1) \in Nat
      BY <1>4, <1>7
    <3> QED
      BY <2>5, <3>1, <3>2
  <2>7. front # <<>> /\ front[1] = ns[1]
    <3>1. 1 \in 1 .. Len(front)
      BY <2>5, <2>6
    <3>2. front # <<>>
      BY <2>6
    <3> QED
      BY <1>3, <2>3, <3>1, <3>2
  <2>8. \A i \in 1 .. Len(front) : ~StepsBack(front[i])
    <3>1. \A i \in 1 .. Len(front) : i \in 1 .. Len(names)
      BY <2>3, <2>5
    <3> QED
      BY <1>3, <2>3, <3>1
  <2>9. PICK next : next = Step(stack, name)
    OBVIOUS
  <2>10. next = [valid |-> TRUE, names |-> next.names] /\ next.names = front
    BY <2>4, <2>9
  <2>11. Stacked(next, ns, n + 1)
    BY <2>5, <2>7, <2>8, <2>10 DEF Stacked
  <2> QED
    BY <1>2, <2>9, <2>10, <2>11
<1> QED
  BY <1>6, <1>7

(* Level names leave a stack without steps back on their first name.       *)
LEMMA LevelSteps ==
  ASSUME NEW N, NEW ns \in Seq(N), ns # <<>>, Level(ns)
  PROVE  \E names \in Seq(N) :
           /\ Steps(ns) = [valid |-> TRUE, names |-> names]
           /\ names # <<>> /\ names[1] = ns[1]
           /\ \A i \in 1 .. Len(names) : ~StepsBack(names[i])
<1>1. PICK k \in Nat : Len(ns) = k + 1
  <2>1. Len(ns) \in Nat \ {0}
    BY EmptySeq
  <2>2. Len(ns) - 1 \in Nat /\ Len(ns) = (Len(ns) - 1) + 1
    BY <2>1
  <2> QED
    BY <2>2
<1>2. Len(ns) - 1 = k /\ Len(ns) \in Nat
  BY <1>1
<1>3. PICK f : /\ f[0] = [valid |-> TRUE, names |-> <<ns[1]>>]
               /\ \A i \in 1 .. k : f[i] = Step(f[i - 1], ns[i + 1])
               /\ Steps(ns) = f[k]
  <2>1. Len(ns) - 1 \in Nat
    BY <1>2
  <2>2. \E f : /\ f[0] = [valid |-> TRUE, names |-> <<ns[1]>>]
               /\ \A i \in 1 .. Len(ns) - 1 : f[i] = Step(f[i - 1], ns[i + 1])
               /\ Steps(ns) = f[Len(ns) - 1]
    BY <2>1, StepsRuns
  <2> QED
    BY <1>2, <2>2
<1> DEFINE P == {i \in 0 .. k : f[i].names \in Seq(N) /\ Stacked(f[i], ns, i + 1)}
<1>4. 0 \in P
  <2>1. 1 \in 1 .. Len(ns) /\ ns[1] \in N
    BY <1>1
  <2>2. Ups(ns, 0 + 1) = 0 /\ Others(ns, 0 + 1) = 1 /\ ns[1] # Up
    <3>1. /\ Ups(ns, 0 + 1) = IF ns[0 + 1] = Up THEN Ups(ns, 0) + 1 ELSE Ups(ns, 0)
          /\ Others(ns, 0 + 1) = IF ns[0 + 1] = Up THEN Others(ns, 0) ELSE Others(ns, 0) + 1
      BY CountUps
    <3>2. Ups(ns, 1) < Others(ns, 1)
      BY <2>1 DEF Level
    <3> QED
      BY <3>1, <3>2, CountNone
  <2>3. ~StepsBack(ns[1])
    BY <2>1, <2>2 DEF Level
  <2>4. PICK names : names = <<ns[1]>>
    OBVIOUS
  <2>5. names \in Seq(N) /\ Len(names) = 1 /\ names[1] = ns[1] /\ names # <<>>
    BY <2>1, <2>4
  <2>6. f[0] = [valid |-> TRUE, names |-> f[0].names] /\ f[0].names = names
    BY <1>3, <2>4
  <2>7. (\A i \in 1 .. 1 : i = 1) /\ 0 + 1 = 1 /\ 1 + 0 = 1
    OBVIOUS
  <2>8. Stacked(f[0], ns, 0 + 1)
    BY <2>2, <2>3, <2>5, <2>6, <2>7 DEF Stacked
  <2>9. 0 \in 0 .. k
    OBVIOUS
  <2> QED
    BY <2>5, <2>6, <2>8, <2>9
<1>5. ASSUME NEW i \in 1 .. k, i - 1 \in P PROVE i \in P
  <2>1. f[i - 1].names \in Seq(N) /\ Stacked(f[i - 1], ns, i)
    <3>1. f[i - 1].names \in Seq(N) /\ Stacked(f[i - 1], ns, (i - 1) + 1)
      BY <1>5
    <3>2. (i - 1) + 1 = i
      OBVIOUS
    <3> QED
      BY <3>1, <3>2
  <2>2. i \in 1 .. Len(ns) - 1
    BY <1>2
  <2>3. Step(f[i - 1], ns[i + 1]).names \in Seq(N) /\ Stacked(Step(f[i - 1], ns[i + 1]), ns, i + 1)
    BY <2>1, <2>2, StackedOn
  <2>4. f[i] = Step(f[i - 1], ns[i + 1])
    BY <1>3
  <2> QED
    BY <2>3, <2>4
<1>6. P = 0 .. k
  <2>1. P \in SUBSET (0 .. k)
    OBVIOUS
  <2> HIDE DEF P
  <2> QED
    BY <1>4, <1>5, <2>1, UpTo
<1>7. k \in P
  <2>1. k \in 0 .. k
    OBVIOUS
  <2> HIDE DEF P
  <2> QED
    BY <1>6, <2>1
<1>8. f[k].names \in Seq(N) /\ Stacked(f[k], ns, k + 1)
  BY <1>7
<1> QED
  BY <1>3, <1>8 DEF Stacked

(* What a normalized path is whose names are level: it has no step back,   *)
(* begins with a slash or a drive in upper case, and is normal.            *)
Normal(p) ==
  /\ Forward(p) = p /\ Forwards(p)
  /\ \/ p # <<>> /\ p[1] = "/"
     \/ is_windows_drive(p) /\ p[1] \in Range(Upper)

(* And it is what comes of an absolute path with level names.              *)
LEMMA LevelNormal ==
  ASSUME NEW X, "/" \in X, Range(Upper) \subseteq X, NEW q \in Seq(X), is_absolute_path(q),
         Level(Split(q, Slashes)), Len(normalize_path(q).path) > 2
  PROVE  \E p \in Seq(X) : normalize_path(q) = Path(p) /\ Normal(p)
<1>1. PICK u \in Seq(X) : u = WithUpperDrive(q) /\ Len(u) = Len(q)
  BY UpperDrive
<1>2. PICK N, ns, us : N = Seq(X \ Slashes) /\ ns = Split(q, Slashes) /\ us = Split(u, Slashes)
  OBVIOUS
<1>3. us \in Seq(N) /\ us # <<>> /\ ns \in Seq(N) /\ ns # <<>>
  BY <1>2, SplitType
<1>4. SameSteps(ns, us)
  BY <1>1, <1>2, UpperNames
<1>5. PICK names \in Seq(N) : /\ Steps(us) = [valid |-> TRUE, names |-> names]
                              /\ names # <<>> /\ names[1] = us[1]
                              /\ \A i \in 1 .. Len(names) : ~StepsBack(names[i])
  <2>1. Level(us)
    BY <1>2, <1>3, <1>4, LevelSame
  <2> QED
    BY <1>3, <2>1, LevelSteps
<1>6. PICK f : f = Forward(u)
  OBVIOUS
<1>7. Split(f, Slashes) = us /\ normalize_path(q) = path_remove_redundant_steps(f)
  BY <1>1, <1>2, <1>6, SplitForward DEF normalize_path, Forward
<1>8. PICK p : p = Joined(names)
  OBVIOUS
<1>9. normalize_path(q) = Path(p)
  <2>1. CASE Len(f) <= 2
    <3>1. normalize_path(q) = Path(f)
      BY <1>7, <2>1 DEF path_remove_redundant_steps
    <3>2. Len(f) > 2
      BY <3>1 DEF Path
    <3>3. Len(f) \in Nat
      <4>1. Len(f) = Len(u)
        BY <1>6, LenProperties DEF Forward, ReplaceAll
      <4> QED
        BY <4>1
    <3> QED
      BY <2>1, <3>2, <3>3
  <2>2. CASE ~ (Len(f) <= 2)
    BY <1>5, <1>7, <1>8, <2>2 DEF path_remove_redundant_steps
  <2> QED
    BY <2>1, <2>2
<1>10. Len(p) > 2
  BY <1>9 DEF Path
<1>11. Split(p, Slashes) = names
  BY <1>2, <1>5, <1>8, SplitJoined
<1>12. p \in Seq(X) /\ Forward(p) = p
  <2>1. PICK Z : Z = X \ {"\\"}
    OBVIOUS
  <2>2. "/" \in Z /\ "\\" \notin Z /\ X \ Slashes \subseteq Z /\ Z \subseteq X
    BY <2>1 DEF Slashes
  <2>3. Seq(X \ Slashes) \subseteq Seq(Z)
    BY <2>2, SeqMonotonic
  <2>4. PICK M : M = Seq(Z)
    OBVIOUS
  <2>5. names \in Seq(M)
    BY <1>2, <2>3, <2>4, SeqMonotonic
  <2>6. p \in Seq(Z)
    BY <1>5, <1>8, <2>2, <2>4, <2>5, JoinedType
  <2> QED
    BY <2>2, <2>6, ForwardSame, SeqMonotonic
<1>13. Forwards(p)
  <2>1. \A i \in 2 .. Len(names) : i \in 1 .. Len(names)
    BY <1>5
  <2> QED
    BY <1>5, <1>11, <2>1 DEF Forwards
<1>14. Len(names) \in Nat /\ Len(names) >= 1
  BY <1>5, EmptySeq
<1>15. Len(names) = 1 => p = us[1]
  <2>1. SUFFICES ASSUME Len(names) = 1 PROVE p = us[1]
    OBVIOUS
  <2>2. names = <<us[1]>>
    BY <1>5, <2>1
  <2> QED
    BY <1>8, <2>2, JoinedSingle
<1>16. FirstName(p) = FirstName(u) /\ Names(p) = Len(names)
  BY <1>2, <1>5, <1>11 DEF FirstName, Names
<1>17. p # <<>> /\ Len(p) \in Nat
  BY <1>10, <1>12
<1>18. CASE is_windows_drive(q)
  <2>1. is_windows_drive(u) /\ u[1] \in Range(Upper)
    <3>1. /\ Len(q) \in Nat /\ Len(q) >= 3 /\ q[1] \in DOMAIN Upper \cup Range(Upper)
          /\ q[2] = ":" /\ is_path_slash(q[3])
      BY <1>18 DEF is_windows_drive
    <3>2. CASE q[1] \in DOMAIN Upper
      <4>1. u = [q EXCEPT ![1] = Upper[q[1]]]
        BY <1>1, <1>18, <3>2 DEF WithUpperDrive
      <4>2. 1 \in DOMAIN q /\ 2 \in DOMAIN q /\ 3 \in DOMAIN q
        BY <3>1
      <4>3. u[1] = Upper[q[1]] /\ u[2] = q[2] /\ u[3] = q[3]
        BY <4>1, <4>2
      <4>4. u[1] \in Range(Upper)
        BY <3>2, <4>3 DEF Range
      <4> QED
        BY <1>1, <3>1, <4>3, <4>4 DEF is_windows_drive
    <3>3. CASE q[1] \notin DOMAIN Upper
      <4>1. u = q
        BY <1>1, <3>3 DEF WithUpperDrive
      <4> QED
        BY <1>18, <3>1, <3>3, <4>1
    <3> QED
      BY <3>2, <3>3
  <2>2. DriveFirst(u, u[1])
    BY <2>1, DriveName
  <2>3. u[1] \in Letters
    BY <2>1 DEF Letters
  <2>4. Len(names) # 1
    <3>1. SUFFICES ASSUME Len(names) = 1 PROVE FALSE
      OBVIOUS
    <3>2. p = FirstName(u)
      BY <1>2, <1>15, <3>1 DEF FirstName
    <3>3. Len(p) = 2
      BY <2>2, <3>2 DEF DriveFirst
    <3> QED
      BY <1>10, <3>3
  <2>5. DriveFirst(p, u[1])
    BY <1>14, <1>16, <2>2, <2>4 DEF DriveFirst
  <2>6. is_windows_drive(p) /\ p[1] = u[1]
    BY <1>12, <2>3, <2>5, NameDrive
  <2> QED
    BY <1>9, <1>12, <1>13, <2>1, <2>6 DEF Normal
<1>19. CASE ~is_windows_drive(q)
  <2>1. q # <<>> /\ q[1] = "/" /\ u = q
    BY <1>1, <1>19 DEF is_absolute_path, WithUpperDrive
  <2>2. "/" \in Slashes
    BY DEF Slashes
  <2>3. Len(FirstName(u)) = 0
    BY <2>1, <2>2, FirstNameOf
  <2>4. p[1] \in Slashes
    <3>1. SUFFICES ASSUME p[1] \notin Slashes PROVE FALSE
      OBVIOUS
    <3>2. Tail(p) \in Seq(X)
      BY <1>12, <1>17
    <3>3. FirstName(Tail(p)) \in Seq(X)
      BY <3>2, FirstNameOf
    <3>4. Len(FirstName(p)) = Len(FirstName(Tail(p))) + 1
      BY <1>12, <1>17, <3>1, FirstNameOf
    <3>5. Len(FirstName(Tail(p))) \in Nat
      BY <3>3
    <3>6. Len(FirstName(p)) = 0
      BY <1>16, <2>3
    <3>7. PICK n \in Nat : n = Len(FirstName(Tail(p)))
      BY <3>5
    <3>8. n + 1 = 0
      BY <3>4, <3>6, <3>7
    <3> QED
      BY <3>8
  <2>5. p[1] = "/"
    <3>1. SUFFICES ASSUME p[1] = "\\" PROVE FALSE
      BY <2>4 DEF Slashes
    <3>2. 1 \in 1 .. Len(p)
      BY <1>10, <1>17
    <3>3. Forward(p)[1] = "/"
      <4>1. Forward(p) = [i \in 1 .. Len(p) |-> IF p[i] = "\\" THEN "/" ELSE p[i]]
        BY DEF Forward, ReplaceAll
      <4> QED
        BY <3>1, <3>2, <4>1
    <3>4. p[1] = "/"
      BY <1>12, <3>3
    <3>5. "/" # "\\"
      OBVIOUS
    <3> QED
      BY <3>1, <3>4, <3>5
  <2> QED
    BY <1>9, <1>12, <1>13, <1>17, <2>5 DEF Normal
<1> QED
  BY <1>18, <1>19

(* The drive of a normal path in lower case is that of the same path.      *)
Lowered(p) ==
  IF Len(p) >= 2 /\ p[2] = ":" /\ p[1] \in Range(Upper)
    THEN [p EXCEPT ![1] = CHOOSE d \in DOMAIN Upper : Upper[d] = p[1]]
    ELSE p

LEMMA LowerDrive ==
  ASSUME NEW X, "/" \in X, DOMAIN Upper \cup Range(Upper) \subseteq X, NEW p \in Seq(X), Normal(p),
         NEW q, q = Lowered(p)
  PROVE  /\ q \in Seq(X) /\ Len(q) = Len(p) /\ normalize_path(q) = Path(p)
         /\ \A i \in 1 .. Len(q) : q[i] = p[i] \/ q[i] \in DOMAIN Upper
<1>1. Range(Upper) \subseteq X /\ Len(p) \in Nat
  OBVIOUS
<1>2. CASE is_windows_drive(p) /\ p[1] \in Range(Upper)
  <2>0. PICK c : c = CHOOSE d \in DOMAIN Upper : Upper[d] = p[1]
    OBVIOUS
  <2>1. Len(p) >= 3 /\ p[2] = ":" /\ is_path_slash(p[3])
    BY <1>2 DEF is_windows_drive
  <2>2. q = [p EXCEPT ![1] = c]
    BY <1>1, <1>2, <2>0, <2>1 DEF Lowered
  <2>3. \E d \in DOMAIN Upper : Upper[d] = p[1]
    BY <1>2 DEF Range
  <2>4. c \in DOMAIN Upper /\ Upper[c] = p[1]
    BY <2>0, <2>3
  <2>5. 1 \in 1 .. Len(p) /\ 2 \in 1 .. Len(p) /\ 3 \in 1 .. Len(p)
    BY <1>1, <2>1
  <2>6. /\ q \in Seq(X) /\ Len(q) = Len(p) /\ q[1] = c
        /\ \A i \in 1 .. Len(p) : i # 1 => q[i] = p[i]
    BY <2>2, <2>4, <2>5
  <2>7. is_windows_drive(q)
    BY <2>1, <2>4, <2>5, <2>6 DEF is_windows_drive
  <2>8. WithUpperDrive(q) = p
    <3>1. WithUpperDrive(q) = [q EXCEPT ![1] = Upper[c]]
      BY <2>4, <2>6, <2>7 DEF WithUpperDrive
    <3>2. [q EXCEPT ![1] = Upper[c]] = p
      <4>1. PICK z : z = [q EXCEPT ![1] = Upper[c]]
        OBVIOUS
      <4>2. Upper[c] \in X
        BY <2>4, <2>5
      <4>3. z \in Seq(X) /\ Len(z) = Len(p) /\ z[1] = Upper[c]
            /\ \A i \in 1 .. Len(p) : i # 1 => z[i] = q[i]
        BY <2>5, <2>6, <4>1, <4>2
      <4>4. \A i \in 1 .. Len(p) : z[i] = p[i]
        BY <2>4, <2>6, <4>3
      <4>5. z = p
        BY <4>3, <4>4, SeqEqual
      <4> QED
        BY <4>1, <4>5
    <3> QED
      BY <3>1, <3>2
  <2>9. Forwards(q)
    <3>1. SameSteps(Split(q, Slashes), Split(p, Slashes))
      <4>1. PICK t \in Seq(X) : t = q
        BY <2>6
      <4>2. SameSteps(Split(t, Slashes), Split(WithUpperDrive(t), Slashes))
        BY <1>1, UpperNames
      <4> QED
        BY <2>8, <4>1, <4>2
    <3>2. Forwards(p)
      BY DEF Normal
    <3> QED
      BY <3>1, <3>2 DEF SameSteps, Forwards
  <2>10. normalize_path(q) = Path(Forward(WithUpperDrive(q)))
    <3>1. PICK t \in Seq(X) : t = q
      BY <2>6
    <3>2. Forwards(t)
      BY <2>9, <3>1
    <3>3. normalize_path(t) = Path(Forward(WithUpperDrive(t)))
      BY <1>1, <3>2, NormalSafe
    <3> QED
      BY <3>1, <3>3
  <2>11. \A i \in 1 .. Len(q) : q[i] = p[i] \/ q[i] \in DOMAIN Upper
    BY <2>4, <2>6
  <2> QED
    BY <2>6, <2>8, <2>10, <2>11 DEF Normal
<1>3. CASE p # <<>> /\ p[1] = "/"
  <2>1. p[1] \notin Letters
    BY <1>3, LettersNoSigns DEF Slashes
  <2>2. p[1] \notin Range(Upper) /\ p[1] \notin DOMAIN Upper
    BY <2>1 DEF Letters
  <2>3. q = p
    BY <2>2 DEF Lowered
  <2>4. WithUpperDrive(p) = p
    BY <2>2 DEF WithUpperDrive
  <2>5. normalize_path(p) = Path(Forward(WithUpperDrive(p)))
    <3>1. Forwards(p)
      BY DEF Normal
    <3> QED
      BY <1>1, <3>1, NormalSafe
  <2> QED
    BY <2>3, <2>4, <2>5 DEF Normal
<1> QED
  BY <1>2, <1>3 DEF Normal

(* The names of a path behind the working directory.                       *)
LEMMA CwdNames ==
  ASSUME NEW X, "/" \in X, Range(cwd) \subseteq X, NEW t \in Seq(X), ~is_absolute_path(t)
  PROVE  \E q \in Seq(X) :
           /\ absolute_path(t, cwd) = normalize_path(q) /\ is_absolute_path(q)
           /\ \E rs \in Seq(Seq(X)) : /\ Split(q, Slashes) = rs \o Split(t, Slashes)
                                      /\ \A i \in 1 .. Len(rs) : ~StepsBack(rs[i])
<1>1. cwd \in Seq(X) /\ cwd # <<>> /\ is_absolute_path(cwd)
  <2>1. cwd \in Seq(X) /\ is_absolute_path(cwd)
    BY PathsAssumption, SeqMonotonic
  <2> QED
    BY <2>1, AbsoluteFirst
<1>2. PICK N, ns, ds : N = Seq(X) /\ ns = Split(t, Slashes) /\ ds = Split(cwd, Slashes)
  OBVIOUS
<1>3. ns \in Seq(N) /\ ds \in Seq(N)
  BY <1>1, <1>2, SplitNames
<1>4. \A i \in 1 .. Len(ds) : ~StepsBack(ds[i])
  <2>1. \A i \in 1 .. Len(ds) : ds[i] \in ToSet(ds)
    BY <1>3 DEF ToSet
  <2> QED
    BY <1>2, <2>1, PathsAssumption
<1>5. PICK dir \in Seq(X), c \in X : cwd = Append(dir, c)
  BY <1>1, SequenceEmptyOrAppend
<1>6. Last(cwd) = c
  BY <1>5, FrontLast
<1>7. CASE c \in Slashes
  <2>1. PICK q : q = cwd \o t
    OBVIOUS
  <2>2. absolute_path(t, cwd) = normalize_path(q)
    <3>1. absolute_path(t, cwd) = normalize_path((cwd \o <<>>) \o t)
      BY <1>6, <1>7 DEF absolute_path, is_path_slash
    <3>2. cwd \o <<>> = cwd
      BY <1>1, ConcatEmptySeq
    <3> QED
      BY <2>1, <3>1, <3>2
  <2>3. q \in Seq(X) /\ is_absolute_path(q)
    BY <1>1, <2>1, ConcatProperties, AbsoluteConcat
  <2>4. PICK rs \in Seq(N) : rs = Split(dir, Slashes)
    BY <1>2, SplitNames
  <2>5. Split(q, Slashes) = rs \o ns
    <3>1. PICK before \in Seq(X), d \in X : before = dir /\ d = c
      OBVIOUS
    <3>2. /\ d \in Slashes
          /\ Split(Append(before, d) \o t, Slashes) = Split(before, Slashes) \o Split(t, Slashes)
      BY <1>7, <3>1, SlashConcat
    <3> QED
      BY <1>2, <1>5, <2>1, <2>4, <3>1, <3>2
  <2>6. \A i \in 1 .. Len(rs) : ~StepsBack(rs[i])
    <3>1. PICK none \in N : none = <<>>
      <4>1. <<>> \in N
        BY <1>2
      <4> QED
        BY <4>1
    <3>2. ds = Append(rs, none)
      <4>1. Split(Append(dir, c), Slashes) = Cut(rs, c, Slashes)
        BY <2>4, SplitAppend
      <4> QED
        BY <1>2, <1>5, <1>7, <3>1, <4>1 DEF Cut
    <3>3. \A i \in 1 .. Len(rs) : ds[i] = rs[i] /\ i \in 1 .. Len(ds)
      <4>1. Len(ds) = Len(rs) + 1 /\ Len(rs) \in Nat /\ \A i \in 1 .. Len(rs) : ds[i] = rs[i]
        BY <2>4, <3>2, Longer
      <4> QED
        BY <4>1
    <3> QED
      BY <1>4, <3>3
  <2> QED
    BY <1>2, <2>2, <2>3, <2>4, <2>5, <2>6
<1>8. CASE c \notin Slashes
  <2>1. PICK a : a = Append(cwd, "/")
    OBVIOUS
  <2>2. a = cwd \o <<"/">> /\ a \in Seq(X)
    BY <1>1, <2>1, AppendIsConcat, AppendProperties
  <2>3. PICK q : q = a \o t
    OBVIOUS
  <2>4. absolute_path(t, cwd) = normalize_path(q)
    BY <1>6, <1>8, <2>2, <2>3 DEF absolute_path, is_path_slash
  <2>5. is_absolute_path(a)
    <3>1. <<"/">> \in Seq(X)
      OBVIOUS
    <3> QED
      BY <1>1, <2>2, <3>1, AbsoluteConcat
  <2>6. q \in Seq(X) /\ is_absolute_path(q)
    BY <2>2, <2>3, <2>5, ConcatProperties, AbsoluteConcat
  <2>7. Split(q, Slashes) = ds \o ns
    <3>1. "/" \in Slashes
      BY DEF Slashes
    <3> QED
      BY <1>1, <1>2, <2>1, <2>3, <3>1, SlashConcat
  <2> QED
    BY <1>2, <1>3, <1>4, <2>4, <2>6, <2>7
<1> QED
  BY <1>7, <1>8

(* The absolute path of a path whose names are level.                      *)
LEMMA OwnPath ==
  ASSUME NEW X, "/" \in X, Range(Upper) \subseteq X, Range(cwd) \subseteq X, NEW t \in Seq(X),
         Level(Split(t, Slashes)), Len(absolute_path(t, cwd).path) > 2
  PROVE  \E p \in Seq(X) : absolute_path(t, cwd) = Path(p) /\ Normal(p)
<1>1. CASE is_absolute_path(t)
  <2>1. absolute_path(t, cwd) = normalize_path(t)
    BY <1>1 DEF absolute_path
  <2>2. Len(normalize_path(t).path) > 2
    BY <2>1
  <2> QED
    BY <1>1, <2>1, <2>2, LevelNormal
<1>2. CASE ~is_absolute_path(t)
  <2>1. PICK q \in Seq(X), rs \in Seq(Seq(X)) :
          /\ absolute_path(t, cwd) = normalize_path(q) /\ is_absolute_path(q)
          /\ Split(q, Slashes) = rs \o Split(t, Slashes)
          /\ \A i \in 1 .. Len(rs) : ~StepsBack(rs[i])
    BY <1>2, CwdNames
  <2>2. PICK N, ns : N = Seq(X) /\ ns = Split(t, Slashes)
    OBVIOUS
  <2>3. ns \in Seq(N) /\ rs \in Seq(N)
    BY <2>2, SplitNames
  <2>4. Level(rs \o ns)
    BY <2>1, <2>2, <2>3, LevelConcat
  <2>5. Level(Split(q, Slashes)) /\ Len(normalize_path(q).path) > 2
    BY <2>1, <2>2, <2>4
  <2> QED
    BY <2>1, <2>5, LevelNormal
<1> QED
  BY <1>1, <1>2

-----------------------------------------------------------------------------
(* Escapes: a text is encoded piece by piece, and decoded to what it was.  *)

(* The recursion has a solution for every length.                          *)
LEMMA FlattenExists ==
  ASSUME NEW s
  PROVE  \A n \in Nat : \E g : g = [i \in 1..n |-> IF i = 1 THEN s[i] ELSE g[i-1] \o s[i]]
<1> DEFINE Rec(g, n) == g = [i \in 1..n |-> IF i = 1 THEN s[i] ELSE g[i-1] \o s[i]]
           N == {n \in Nat : \E g : Rec(g, n)}
<1>1. 0 \in N
  <2>1. Rec([i \in 1..0 |-> i], 0)
    OBVIOUS
  <2> QED
    BY <2>1
<1>2. ASSUME NEW n \in N PROVE n + 1 \in N
  <2>1. PICK g : Rec(g, n)
    OBVIOUS
  <2> DEFINE h == [i \in 1..n+1 |-> IF i <= n THEN g[i]
                                   ELSE IF i = 1 THEN s[i] ELSE g[i-1] \o s[i]]
  <2>2. ASSUME NEW i \in 1..n+1 PROVE h[i] = IF i = 1 THEN s[i] ELSE h[i-1] \o s[i]
    <3>0. n \in Nat
      OBVIOUS
    <3>1. CASE i <= n
      <4>0. i \in 1..n
        BY <3>0, <3>1
      <4>1. g[i] = IF i = 1 THEN s[i] ELSE g[i-1] \o s[i]
        BY <2>1, <4>0
      <4>2. i # 1 => h[i-1] = g[i-1]
        BY <3>0, <3>1
      <4> QED
        BY <4>1, <4>2, <3>1
    <3>2. CASE i = n + 1
      <4>2. i # 1 => h[i-1] = g[i-1]
        BY <3>0, <3>2
      <4> QED
        BY <4>2, <3>2
    <3> QED
      BY <3>1, <3>2
  <2>3. Rec(h, n+1)
    <3>1. h = [i \in 1..n+1 |-> h[i]]
      OBVIOUS
    <3> HIDE DEF h
    <3> QED
      BY <3>1, <2>2
  <2> HIDE DEF h
  <2>4. n + 1 \in Nat
    OBVIOUS
  <2>5. \E f : Rec(f, n + 1)
    BY <2>3
  <2> QED
    BY <2>4, <2>5
<1> HIDE DEF N
<1>3. N = Nat
  <2>1. N \in SUBSET Nat
    BY DEF N
  <2> QED
    BY <1>1, <1>2, <2>1, Induct
<1> QED
  BY <1>3 DEF N

(* So FlattenSeq is the last value of one.                                 *)
LEMMA FlattenDef ==
  ASSUME NEW s, Len(s) \in Nat \ {0}
  PROVE  \E g : /\ \A i \in 1..Len(s) : g[i] = IF i = 1 THEN s[i] ELSE g[i-1] \o s[i]
                /\ FlattenSeq(s) = g[Len(s)]
<1> DEFINE Rec(g) == g = [i \in 1..Len(s) |-> IF i = 1 THEN s[i] ELSE g[i-1] \o s[i]]
           F == CHOOSE g : Rec(g)
<1>1. \E g : Rec(g)
  BY FlattenExists
<1>2. Rec(F)
  BY <1>1, Zenon
<1>3. FlattenSeq(s) = F[Len(s)]
  BY DEF FlattenSeq
<1>4. ASSUME NEW i \in 1..Len(s) PROVE F[i] = IF i = 1 THEN s[i] ELSE F[i-1] \o s[i]
  <2> HIDE DEF F
  <2>1. ASSUME NEW G, Rec(G) PROVE G[i] = IF i = 1 THEN s[i] ELSE G[i-1] \o s[i]
    BY <2>1, Zenon
  <2> QED
    BY <1>2, <2>1
<1> HIDE DEF F
<1> QED
  BY <1>3, <1>4

(* What it returns for no sequence, its type, and for one sequence more.   *)
LEMMA FlattenEmpty == FlattenSeq(<<>>) = <<>>
BY DEF FlattenSeq

(* What is made of texts is a text.                                        *)
LEMMA FlattenType ==
  ASSUME NEW X, NEW s \in Seq(Seq(X))
  PROVE  FlattenSeq(s) \in Seq(X)
<1>1. CASE Len(s) = 0
  <2>1. s = <<>>
    BY <1>1
  <2>2. FlattenSeq(s) = <<>>
    BY <2>1, FlattenEmpty, Zenon
  <2> QED
    BY <2>2
<1>2. CASE Len(s) # 0
  <2>0. Len(s) \in Nat \ {0}
    BY <1>2
  <2>1. PICK g : /\ \A i \in 1..Len(s) : g[i] = IF i = 1 THEN s[i] ELSE g[i-1] \o s[i]
                 /\ FlattenSeq(s) = g[Len(s)]
    BY <2>0, FlattenDef
  <2> DEFINE N == {n \in Nat : n \in 1..Len(s) => g[n] \in Seq(X)}
  <2>2. 0 \in N
    OBVIOUS
  <2>3. ASSUME NEW n \in N PROVE n + 1 \in N
    <3>1. SUFFICES ASSUME n + 1 \in 1..Len(s) PROVE g[n+1] \in Seq(X)
      OBVIOUS
    <3>2. g[n+1] = IF n + 1 = 1 THEN s[n+1] ELSE g[n+1-1] \o s[n+1]
      BY <2>1, <3>1
    <3>3. s[n+1] \in Seq(X)
      BY <3>1
    <3>4. CASE n = 0
      BY <3>2, <3>3, <3>4
    <3>5. CASE n # 0
      <4>1. g[n] \in Seq(X)
        BY <3>1, <3>5
      <4>2. n + 1 - 1 = n /\ n + 1 # 1
        BY <3>5
      <4> QED
        BY <3>2, <3>3, <4>1, <4>2
    <3> QED
      BY <3>4, <3>5
  <2>4. N = Nat
    <3>1. N \in SUBSET Nat
      OBVIOUS
    <3> HIDE DEF N
    <3> QED
      BY <2>2, <2>3, <3>1, Induct
  <2>5. Len(s) \in N
    BY <2>0, <2>4
  <2> QED
    BY <2>0, <2>1, <2>5
<1> QED
  BY <1>1, <1>2

(* And one text more goes behind the others.                               *)
LEMMA FlattenAppend ==
  ASSUME NEW X, NEW s \in Seq(Seq(X)), NEW e \in Seq(X)
  PROVE  FlattenSeq(Append(s, e)) = FlattenSeq(s) \o e
<1> DEFINE t == Append(s, e)
<1>0. /\ t \in Seq(Seq(X)) /\ Len(t) = Len(s) + 1 /\ Len(s) \in Nat
      /\ \A i \in 1..Len(s) : t[i] = s[i]
      /\ t[Len(s) + 1] = e
  OBVIOUS
<1>1. PICK h : /\ \A i \in 1..Len(t) : h[i] = IF i = 1 THEN t[i] ELSE h[i-1] \o t[i]
               /\ FlattenSeq(t) = h[Len(t)]
  <2> HIDE DEF t
  <2>1. Len(t) \in Nat \ {0}
    BY <1>0
  <2> QED
    BY <2>1, FlattenDef
<1> HIDE DEF t
<1>2. CASE Len(s) = 0
  <2>1. s = <<>>
    BY <1>2
  <2>2. h[1] = e
    BY <1>0, <1>1, <1>2
  <2>3. FlattenSeq(t) = e
    BY <1>0, <1>1, <1>2, <2>2
  <2> QED
    BY <2>1, <2>3, FlattenEmpty DEF t
<1>3. CASE Len(s) # 0
  <2>1. PICK g : /\ \A i \in 1..Len(s) : g[i] = IF i = 1 THEN s[i] ELSE g[i-1] \o s[i]
                 /\ FlattenSeq(s) = g[Len(s)]
    BY <1>0, <1>3, FlattenDef
  <2> DEFINE N == {n \in Nat : n \in 1..Len(s) => g[n] = h[n]}
  <2>2. 0 \in N
    OBVIOUS
  <2>3. ASSUME NEW n \in N PROVE n + 1 \in N
    <3>1. SUFFICES ASSUME n + 1 \in 1..Len(s) PROVE g[n+1] = h[n+1]
      OBVIOUS
    <3>2. g[n+1] = IF n + 1 = 1 THEN s[n+1] ELSE g[n+1-1] \o s[n+1]
      BY <2>1, <3>1
    <3>3. h[n+1] = IF n + 1 = 1 THEN t[n+1] ELSE h[n+1-1] \o t[n+1]
      <4>1. n + 1 \in 1..Len(t)
        BY <3>1, <1>0
      <4> QED
        BY <1>1, <4>1
    <3>4. t[n+1] = s[n+1]
      BY <1>0, <3>1
    <3>5. n # 0 => g[n+1-1] = h[n+1-1] /\ n + 1 # 1
      BY <3>1
    <3> QED
      BY <3>2, <3>3, <3>4, <3>5
  <2>4. N = Nat
    <3>1. N \in SUBSET Nat
      OBVIOUS
    <3> HIDE DEF N
    <3> QED
      BY <2>2, <2>3, <3>1, Induct
  <2>5. g[Len(s)] = h[Len(s)]
    BY <1>0, <1>3, <2>4
  <2>6. h[Len(s)+1] = h[Len(s)] \o e
    <3> DEFINE k == Len(s) + 1
    <3>1. k \in 1..Len(t) /\ k # 1 /\ k - 1 = Len(s)
      BY <1>0, <1>3
    <3> HIDE DEF k
    <3>2. h[k] = h[k - 1] \o t[k]
      BY <1>1, <3>1
    <3> QED
      BY <1>0, <3>1, <3>2 DEF k
  <2> QED
    BY <1>0, <1>1, <2>1, <2>5, <2>6 DEF t
<1> QED
  BY <1>2, <1>3

(* What is written for a character, and for each one of a text.            *)
Piece(c) == IF c \in Reserved THEN <<"%">> \o Hex(c) ELSE <<c>>
Pieces(t) == [i \in DOMAIN t |-> Piece(t[i])]
Signs(X) == Hexadecimal \cup {"%"} \cup (X \ Reserved)

(* A sign and two digits behind it.                                        *)
LEMMA AndTwo ==
  ASSUME NEW x, NEW a, NEW b
  PROVE  <<x>> \o <<a, b>> = <<x, a, b>>
<1>1. PICK X : X = {x, a, b}
  OBVIOUS
<1>2. <<x>> \in Seq(X) /\ <<a, b>> \in Seq(X) /\ Len(<<x>>) = 1 /\ Len(<<a, b>>) = 2
  BY <1>1
<1>3. PICK w : w = <<x>> \o <<a, b>>
  OBVIOUS
<1>4. w \in Seq(X) /\ Len(w) = 3
  BY <1>2, <1>3, ConcatProperties
<1>5. w[1] = x /\ w[2] = a /\ w[3] = b
  BY <1>3
<1>6. PICK v : v = <<x, a, b>>
  OBVIOUS
<1>7. v \in Seq(X) /\ Len(v) = 3 /\ v[1] = x /\ v[2] = a /\ v[3] = b
  BY <1>1, <1>6
<1>8. ASSUME NEW i \in 1 .. 3 PROVE w[i] = v[i]
  <2>1. i = 1 \/ i = 2 \/ i = 3
    OBVIOUS
  <2> QED
    BY <1>5, <1>7, <2>1
<1>9. w = v
  BY <1>4, <1>7, <1>8, SeqEqual
<1> QED
  BY <1>3, <1>6, <1>9

(* Every reserved character has its two digits.                            *)
LEMMA HexOf ==
  ASSUME NEW c \in Reserved
  PROVE  /\ Hex(c) \in DOMAIN Bytes /\ Bytes[Hex(c)] = c
         /\ \E a, b \in Hexadecimal : Hex(c) = <<a, b>> /\ Piece(c) = <<"%", a, b>>
<1>1. \E digits \in DOMAIN Bytes : Bytes[digits] = c
  BY UrisAssumption DEF Range
<1>2. Hex(c) \in DOMAIN Bytes /\ Bytes[Hex(c)] = c
  BY <1>1 DEF Hex
<1>3. PICK a \in Hexadecimal, b \in Hexadecimal : Hex(c) = <<a, b>>
  BY <1>2, UrisAssumption
<1>4. Piece(c) = <<"%", a, b>>
  <2>1. <<"%">> \o <<a, b>> = <<"%", a, b>>
    BY AndTwo
  <2> QED
    BY <1>3, <2>1 DEF Piece
<1> QED
  BY <1>2, <1>3, <1>4

(* What is written for a character is of one length or the other.          *)
LEMMA PieceType ==
  ASSUME NEW X, NEW c \in X
  PROVE  /\ Piece(c) \in Seq(Signs(X))
         /\ Len(Piece(c)) = IF c \in Reserved THEN 3 ELSE 1
<1>1. CASE c \in Reserved
  <2>1. PICK a \in Hexadecimal, b \in Hexadecimal : Piece(c) = <<"%", a, b>>
    BY <1>1, HexOf
  <2>2. "%" \in Signs(X) /\ a \in Signs(X) /\ b \in Signs(X)
    BY DEF Signs
  <2> QED
    BY <1>1, <2>1, <2>2
<1>2. CASE c \notin Reserved
  <2>1. c \in Signs(X) /\ Piece(c) = <<c>>
    BY <1>2 DEF Signs, Piece
  <2> QED
    BY <1>2, <2>1
<1> QED
  BY <1>1, <1>2

(* The encoding of a text with a character more.                           *)
LEMMA Encoded ==
  ASSUME NEW X, NEW t \in Seq(X)
  PROVE  /\ strcpy_encoded(t) \in Seq(Signs(X)) /\ strcpy_encoded(<<>>) = <<>>
         /\ \A c \in X : strcpy_encoded(Append(t, c)) = strcpy_encoded(t) \o Piece(c)
<1>1. \A s : strcpy_encoded(s) = FlattenSeq(Pieces(s))
  BY DEF strcpy_encoded, Pieces, Piece
<1>2. PICK Y, Z : Y = Signs(X) /\ Z = Seq(Y)
  OBVIOUS
<1>3. ASSUME NEW c \in X PROVE Piece(c) \in Z
  BY <1>2, PieceType
<1>4. Pieces(t) \in Seq(Z)
  <2>1. \A i \in 1 .. Len(t) : Piece(t[i]) \in Z
    BY <1>3
  <2>2. Pieces(t) = [i \in 1 .. Len(t) |-> Piece(t[i])]
    BY DEF Pieces
  <2> QED
    BY <2>1, <2>2
<1>5. FlattenSeq(Pieces(t)) \in Seq(Y)
  BY <1>2, <1>4, FlattenType
<1>6. strcpy_encoded(<<>>) = <<>>
  <2>1. Pieces(<<>>) = <<>>
    BY DEF Pieces
  <2> QED
    BY <1>1, <2>1, FlattenEmpty
<1>7. ASSUME NEW c \in X PROVE strcpy_encoded(Append(t, c)) = strcpy_encoded(t) \o Piece(c)
  <2>1. Pieces(Append(t, c)) = Append(Pieces(t), Piece(c))
    <3>1. PICK n \in Nat : n = Len(t)
      OBVIOUS
    <3>2. PICK u : u = Append(t, c)
      OBVIOUS
    <3>3. Len(u) = n + 1 /\ DOMAIN u = 1 .. n + 1 /\ u[n + 1] = c /\ \A i \in 1 .. n : u[i] = t[i]
      BY <3>1, <3>2
    <3>4. PICK a : a = Pieces(t)
      OBVIOUS
    <3>5. DOMAIN a = 1 .. n /\ a \in Seq(Z) /\ Len(a) = n /\ \A i \in 1 .. n : a[i] = Piece(t[i])
      <4>1. DOMAIN a = 1 .. n /\ \A i \in 1 .. n : a[i] = Piece(t[i])
        BY <3>1, <3>4 DEF Pieces
      <4> QED
        BY <1>4, <3>1, <3>4, <4>1
    <3>6. PICK b : b = Append(a, Piece(c))
      OBVIOUS
    <3>7. /\ DOMAIN b = 1 .. n + 1 /\ b[n + 1] = Piece(c) /\ \A i \in 1 .. n : b[i] = a[i]
          /\ b = [i \in 1 .. n + 1 |-> b[i]]
      <4>1. PICK q \in Z : q = Piece(c)
        BY <1>3
      <4>2. a \in Seq(Z) /\ Len(a) = n /\ b = Append(a, q)
        BY <3>5, <3>6, <4>1
      <4>3. b \in Seq(Z) /\ Len(b) = n + 1 /\ b[n + 1] = q /\ \A i \in 1 .. n : b[i] = a[i]
        BY <4>2
      <4> QED
        BY <4>1, <4>3
    <3>8. ASSUME NEW i \in 1 .. n + 1 PROVE b[i] = Piece(u[i])
      <4>1. i \in 1 .. n \/ i = n + 1
        BY <3>1
      <4> QED
        BY <3>3, <3>5, <3>7, <4>1
    <3>9. Pieces(u) = [i \in 1 .. n + 1 |-> Piece(u[i])]
      BY <3>3 DEF Pieces
    <3>10. Pieces(u) = b
      BY <3>7, <3>8, <3>9
    <3> QED
      BY <3>2, <3>4, <3>6, <3>10
  <2>2. Piece(c) \in Seq(Y)
    BY <1>2, <1>3
  <2>3. FlattenSeq(Append(Pieces(t), Piece(c))) = FlattenSeq(Pieces(t)) \o Piece(c)
    BY <1>2, <1>4, <2>2, FlattenAppend
  <2> QED
    BY <1>1, <2>1, <2>3
<1> QED
  BY <1>1, <1>2, <1>5, <1>6, <1>7

(* What has no reserved character is encoded as it is.                     *)
LEMMA EncodedPlain ==
  ASSUME NEW X, X \cap Reserved = {}, NEW t \in Seq(X)
  PROVE  strcpy_encoded(t) = t
<1> DEFINE P == {s \in Seq(X) : strcpy_encoded(s) = s}
<1>1. <<>> \in P
  <2>1. <<>> \in Seq(X)
    OBVIOUS
  <2> QED
    BY <2>1, Encoded
<1>2. ASSUME NEW s \in P, NEW c \in X PROVE Append(s, c) \in P
  <2>1. s \in Seq(X) /\ strcpy_encoded(s) = s /\ Append(s, c) \in Seq(X)
    OBVIOUS
  <2>2. Piece(c) = <<c>>
    BY DEF Piece
  <2>3. strcpy_encoded(Append(s, c)) = s \o <<c>>
    BY <2>1, <2>2, Encoded
  <2>4. s \o <<c>> = Append(s, c)
    BY <2>1
  <2> QED
    BY <2>1, <2>3, <2>4
<1>3. P = Seq(X)
  <2>1. P \in SUBSET Seq(X)
    OBVIOUS
  <2> HIDE DEF P
  <2> QED
    BY <1>1, <1>2, <2>1, SeqInduct
<1>4. t \in P
  BY <1>3
<1> QED
  BY <1>4

(* Where in its encoding the characters of a text end: behind one that is  *)
(* not reserved or behind three, of which the last two are its digits.     *)
Ends(t, e, ends) ==
  /\ ends[0] = 0 /\ ends[Len(t)] = Len(e)
  /\ \A k \in 0 .. Len(t) : ends[k] \in k .. Len(e)
  /\ \A k \in 1 .. Len(t) :
       LET i == ends[k - 1] + 1
       IN  IF t[k] \in Reserved
             THEN /\ ends[k] = i + 2 /\ e[i] = "%" /\ <<e[i + 1], e[i + 2]>> = Hex(t[k])
             ELSE ends[k] = i /\ e[i] = t[k]

(* Every text has them.                                                    *)
LEMMA EndsExist ==
  ASSUME NEW X, NEW t \in Seq(X)
  PROVE  \E ends : Ends(t, strcpy_encoded(t), ends)
<1> DEFINE P == {s \in Seq(X) : \E ends : Ends(s, strcpy_encoded(s), ends)}
<1>1. <<>> \in P
  <2>1. <<>> \in Seq(X)
    OBVIOUS
  <2>2. strcpy_encoded(<<>>) = <<>>
    BY <2>1, Encoded
  <2>3. Ends(<<>>, <<>>, [k \in {0} |-> 0])
    BY DEF Ends
  <2>4. \E ends : Ends(<<>>, strcpy_encoded(<<>>), ends)
    BY <2>2, <2>3
  <2> QED
    BY <2>1, <2>4
<1>2. ASSUME NEW s \in P, NEW c \in X PROVE Append(s, c) \in P
  <2>1. s \in Seq(X) /\ Append(s, c) \in Seq(X)
    OBVIOUS
  <2>2. PICK e : e = strcpy_encoded(s)
    OBVIOUS
  <2>3. PICK ends : Ends(s, e, ends)
    BY <2>2
  <2>4. PICK Y : Y = Signs(X)
    OBVIOUS
  <2>5. e \in Seq(Y) /\ strcpy_encoded(Append(s, c)) = e \o Piece(c)
    BY <2>1, <2>2, <2>4, Encoded
  <2>6. PICK p : p = Piece(c)
    OBVIOUS
  <2>7. p \in Seq(Y) /\ Len(p) = IF c \in Reserved THEN 3 ELSE 1
    BY <2>4, <2>6, PieceType
  <2>8. PICK w : w = e \o p
    OBVIOUS
  <2>9. PICK n \in Nat, l \in Nat : n = Len(s) /\ l = Len(e)
    BY <2>1, <2>5
  <2>10. /\ Len(w) = l + Len(p) /\ \A i \in 1 .. l : w[i] = e[i]
         /\ \A i \in 1 .. Len(p) : w[l + i] = p[i]
    <3>1. /\ Len(w) = l + Len(p)
          /\ \A i \in 1 .. l + Len(p) : w[i] = IF i <= l THEN e[i] ELSE p[i - l]
      BY <2>5, <2>7, <2>8, <2>9, ConcatProperties
    <3>2. ASSUME NEW i \in 1 .. l PROVE w[i] = e[i]
      <4>1. Len(p) \in Nat
        BY <2>7
      <4>2. i \in 1 .. l + Len(p) /\ i <= l
        BY <4>1
      <4> QED
        BY <3>1, <4>2
    <3>3. ASSUME NEW i \in 1 .. Len(p) PROVE w[l + i] = p[i]
      <4>1. Len(p) \in Nat
        BY <2>7
      <4>2. l + i \in 1 .. l + Len(p) /\ ~ (l + i <= l) /\ (l + i) - l = i
        BY <4>1
      <4> QED
        BY <3>1, <4>2
    <3> QED
      BY <3>1, <3>2, <3>3
  <2>11. PICK u : u = Append(s, c)
    OBVIOUS
  <2>12. Len(u) = n + 1 /\ u[n + 1] = c /\ \A i \in 1 .. n : u[i] = s[i]
    BY <2>1, <2>9, <2>11
  <2>13. PICK all : all = [k \in 0 .. n + 1 |-> IF k <= n THEN ends[k] ELSE Len(w)]
    OBVIOUS
  <2>14. /\ all[n + 1] = Len(w) /\ \A k \in 0 .. n : all[k] = ends[k]
    <3>1. n + 1 \in 0 .. n + 1 /\ ~ (n + 1 <= n)
      OBVIOUS
    <3>2. \A k \in 0 .. n : k \in 0 .. n + 1 /\ k <= n
      OBVIOUS
    <3> QED
      BY <2>13, <3>1, <3>2
  <2>15. ends[0] = 0 /\ ends[n] = l /\ \A k \in 0 .. n : ends[k] \in k .. l
    BY <2>3, <2>9 DEF Ends
  <2>16. \A k \in 0 .. n + 1 : all[k] \in k .. Len(w)
    <3>1. ASSUME NEW k \in 0 .. n PROVE all[k] \in k .. Len(w)
      <4>1. ends[k] \in k .. l /\ l <= Len(w) /\ Len(w) \in Nat
        BY <2>7, <2>9, <2>10, <2>15
      <4> QED
        BY <2>14, <4>1
    <3>2. all[n + 1] \in n + 1 .. Len(w)
      <4>1. n <= l
        <5>1. n \in 0 .. n
          OBVIOUS
        <5>2. ends[n] \in n .. l
          BY <2>15, <5>1
        <5> QED
          BY <2>15, <5>2
      <4> QED
        BY <2>7, <2>10, <2>14, <4>1
    <3>3. \A k \in 0 .. n + 1 : k \in 0 .. n \/ k = n + 1
      OBVIOUS
    <3> QED
      BY <3>1, <3>2, <3>3
  <2>17. ASSUME NEW k \in 1 .. n + 1
         PROVE  LET i == all[k - 1] + 1
                IN  IF u[k] \in Reserved
                      THEN /\ all[k] = i + 2 /\ w[i] = "%" /\ <<w[i + 1], w[i + 2]>> = Hex(u[k])
                      ELSE all[k] = i /\ w[i] = u[k]
    <3>1. CASE k \in 1 .. n
      <4>1. PICK i : i = ends[k - 1] + 1
        OBVIOUS
      <4>2. IF s[k] \in Reserved
              THEN /\ ends[k] = i + 2 /\ e[i] = "%" /\ <<e[i + 1], e[i + 2]>> = Hex(s[k])
              ELSE ends[k] = i /\ e[i] = s[k]
        BY <2>3, <2>9, <3>1, <4>1 DEF Ends
      <4>3. k \in 0 .. n /\ k - 1 \in 0 .. n
        BY <3>1
      <4>4. all[k] = ends[k] /\ all[k - 1] = ends[k - 1] /\ u[k] = s[k]
        BY <2>12, <2>14, <3>1, <4>3
      <4>5. i \in Nat /\ i >= 1 /\ ends[k] <= l
        <5>1. ends[k - 1] \in k - 1 .. l /\ ends[k] \in k .. l
          BY <2>15, <4>3
        <5> QED
          BY <3>1, <4>1, <5>1
      <4>6. CASE s[k] \in Reserved
        <5>1. i \in 1 .. l /\ i + 1 \in 1 .. l /\ i + 2 \in 1 .. l
          BY <4>2, <4>5, <4>6
        <5>2. w[i] = e[i] /\ w[i + 1] = e[i + 1] /\ w[i + 2] = e[i + 2]
          BY <2>10, <5>1
        <5> QED
          BY <4>1, <4>2, <4>4, <4>6, <5>2
      <4>7. CASE s[k] \notin Reserved
        <5>1. i \in 1 .. l
          BY <4>2, <4>5, <4>7
        <5>2. w[i] = e[i]
          BY <2>10, <5>1
        <5> QED
          BY <4>1, <4>2, <4>4, <4>7, <5>2
      <4> QED
        BY <4>6, <4>7
    <3>2. CASE k = n + 1
      <4>1. k - 1 = n /\ n \in 0 .. n
        BY <3>2
      <4>2. all[k - 1] + 1 = l + 1 /\ u[k] = c /\ all[k] = l + Len(p)
        BY <2>10, <2>12, <2>14, <2>15, <3>2, <4>1
      <4>3. CASE c \in Reserved
        <5>1. PICK a \in Hexadecimal, b \in Hexadecimal : Hex(c) = <<a, b>> /\ p = <<"%", a, b>>
          BY <2>6, <4>3, HexOf
        <5>2. Len(p) = 3
          BY <2>7, <4>3
        <5>3. w[l + 1] = "%" /\ w[l + 2] = a /\ w[l + 3] = b
          BY <2>10, <5>1, <5>2
        <5>4. (l + 1) + 1 = l + 2 /\ (l + 1) + 2 = l + 3
          OBVIOUS
        <5>5. <<w[(l + 1) + 1], w[(l + 1) + 2]>> = Hex(c)
          BY <5>1, <5>3, <5>4
        <5> QED
          BY <4>2, <4>3, <5>2, <5>3, <5>4, <5>5
      <4>4. CASE c \notin Reserved
        <5>1. p = <<c>> /\ Len(p) = 1
          BY <2>6, <2>7, <4>4 DEF Piece
        <5>2. w[l + 1] = c
          BY <2>10, <5>1
        <5> QED
          BY <4>2, <4>4, <5>1, <5>2
      <4> QED
        BY <4>3, <4>4
    <3> QED
      BY <3>1, <3>2
  <2>18. Ends(u, w, all)
    <3>1. all[0] = 0 /\ all[n + 1] = Len(w)
      <4>1. 0 \in 0 .. n
        OBVIOUS
      <4> QED
        BY <2>14, <2>15, <4>1
    <3> QED
      BY <2>12, <2>16, <2>17, <3>1, Zenon DEF Ends
  <2> QED
    BY <2>1, <2>5, <2>6, <2>8, <2>11, <2>18
<1>3. P = Seq(X)
  <2>1. P \in SUBSET Seq(X)
    OBVIOUS
  <2> HIDE DEF P
  <2> QED
    BY <1>1, <1>2, <2>1, SeqInduct
<1>4. t \in P
  BY <1>3
<1> QED
  BY <1>4

(* The digits behind a percent sign are read from where they are.          *)
LEMMA DigitsRead ==
  ASSUME NEW Y, NEW e \in Seq(Y), NEW i \in Nat \ {0}, i + 2 <= Len(e)
  PROVE  /\ SubSeq(e, i + 1, Min({i + 2, Len(e)})) = <<e[i + 1], e[i + 2]>>
         /\ SubSeq(e, i + 1, i + 2) = <<e[i + 1], e[i + 2]>>
<1>1. Len(e) \in Nat /\ i + 1 \in 1 .. Len(e) /\ i + 2 \in 1 .. Len(e)
  OBVIOUS
<1>2. Min({i + 2, Len(e)}) = i + 2
  <2>1. PICK m \in Nat, l \in Nat : m = i + 2 /\ l = Len(e)
    BY <1>1
  <2>2. \A x \in {m, l} : (\A y \in {m, l} : x <= y) <=> x = m
    BY <2>1
  <2>3. Min({m, l}) = m
    BY <2>2 DEF Min
  <2> QED
    BY <2>1, <2>3
<1>3. PICK d : d = SubSeq(e, i + 1, i + 2)
  OBVIOUS
<1>4. d \in Seq(Y) /\ Len(d) = 2 /\ d[1] = e[i + 1] /\ d[2] = e[i + 2]
  BY <1>1, <1>3
<1>5. d = <<e[i + 1], e[i + 2]>>
  <2>1. PICK v : v = <<e[i + 1], e[i + 2]>>
    OBVIOUS
  <2>2. v \in Seq(Y) /\ Len(v) = 2 /\ v[1] = e[i + 1] /\ v[2] = e[i + 2]
    BY <1>1, <2>1
  <2>3. \A k \in 1 .. 2 : d[k] = v[k]
    <3>1. \A k \in 1 .. 2 : k = 1 \/ k = 2
      OBVIOUS
    <3> QED
      BY <1>4, <2>2, <3>1
  <2>4. d = v
    BY <1>4, <2>2, <2>3, SeqEqual
  <2> QED
    BY <2>1, <2>4
<1> QED
  BY <1>2, <1>3, <1>5

(* A text without percent signs comes back from its encoding.              *)
LEMMA BackAgain ==
  ASSUME NEW X, "%" \notin X, NEW t \in Seq(X)
  PROVE  decode_escape(strcpy_encoded(t), Len(strcpy_encoded(t))) = t
<1>1. PICK Y, e : Y = Signs(X) /\ e = strcpy_encoded(t) /\ e \in Seq(Y)
  BY Encoded
<1>2. PICK room \in Nat, n \in Nat : room = Len(e) /\ n = Len(t)
  BY <1>1
<1>3. PICK ends : Ends(t, e, ends)
  BY <1>1, EndsExist
<1> DEFINE Rec(f) == f = [left \in 0 .. room |-> Written(f[left - 1], e, left)]
           F == CHOOSE f : Rec(f)
<1>4. Rec(F)
  <2>1. \E f : Rec(f)
    BY WrittenExists
  <2> QED
    BY <2>1, Zenon
<1>5. decode_escape(e, room) = F[room][1]
  BY DEF decode_escape, Written
<1> HIDE DEF F
<1>6. \A left \in 0 .. room : F[left] = Written(F[left - 1], e, left)
  BY <1>4, Zenon
<1>7. /\ ends[0] = 0 /\ ends[n] = room /\ \A k \in 0 .. n : ends[k] \in k .. room
  BY <1>2, <1>3 DEF Ends
<1> DEFINE P == {j \in 0 .. n : \A left \in j .. room :
                   F[left][ends[n - j] + 1] = SubSeq(t, (n - j) + 1, n)}
<1>8. 0 \in P
  <2>1. 0 \in 0 .. n /\ n - 0 = n
    OBVIOUS
  <2>2. SubSeq(t, n + 1, n) = <<>>
    <3>1. n + 1 \in Int /\ n \in Int /\ n + 1 > n
      OBVIOUS
    <3> QED
      BY <3>1, SubSeqEmpty
  <2>3. ASSUME NEW left \in 0 .. room PROVE F[left][room + 1] = <<>>
    <3>1. F[left] = Written(F[left - 1], e, left)
      BY <1>6
    <3>2. room + 1 \in 1 .. Len(e) + 1 /\ room + 1 > Len(e)
      BY <1>2
    <3> QED
      BY <3>1, <3>2 DEF Written
  <2> QED
    BY <1>7, <2>1, <2>2, <2>3
<1>9. ASSUME NEW j \in 1 .. n, j - 1 \in P PROVE j \in P
  <2>1. PICK k \in 1 .. n : k = n - j + 1
    OBVIOUS
  <2>2. /\ n - j = k - 1 /\ n - (j - 1) = k /\ j \in 0 .. n
        /\ k \in 0 .. n /\ k - 1 \in 0 .. n
    BY <2>1
  <2>3. \A left \in j - 1 .. room : F[left][ends[k] + 1] = SubSeq(t, k + 1, n)
    BY <1>9, <2>2
  <2>4. PICK i \in Nat \ {0} : i = ends[k - 1] + 1
    BY <1>7, <2>2
  <2>5. PICK c \in X : c = t[k]
    BY <1>2
  <2>6. IF c \in Reserved
          THEN /\ ends[k] = i + 2 /\ e[i] = "%" /\ <<e[i + 1], e[i + 2]>> = Hex(c)
          ELSE ends[k] = i /\ e[i] = c
    BY <1>2, <1>3, <2>4, <2>5 DEF Ends
  <2>7. ends[k] \in k .. room
    BY <1>7, <2>2
  <2>8. <<c>> \o SubSeq(t, k + 1, n) = SubSeq(t, k, n)
    BY <1>2, <2>5
  <2>9. ASSUME NEW left \in j .. room PROVE F[left][i] = SubSeq(t, k, n)
    <3>1. left \in 0 .. room /\ left - 1 \in j - 1 .. room /\ left # 0
      OBVIOUS
    <3>2. PICK less, now : less = F[left - 1] /\ now = F[left]
      OBVIOUS
    <3>3. now = Written(less, e, left)
      BY <1>6, <3>1, <3>2
    <3>4. less[ends[k] + 1] = SubSeq(t, k + 1, n)
      BY <2>3, <3>1, <3>2
    <3>5. i \in 1 .. Len(e) + 1 /\ ~ (left = 0 \/ i > Len(e))
      BY <1>2, <2>6, <2>7, <3>1
    <3>6. CASE c \notin Reserved
      <4>1. e[i] # "%" /\ e[i] = c /\ ends[k] = i
        BY <2>6, <3>6
      <4>2. now[i] = <<e[i]>> \o less[i + 1]
        BY <3>3, <3>5, <4>1 DEF Written
      <4> QED
        BY <2>8, <3>2, <3>4, <4>1, <4>2
    <3>7. CASE c \in Reserved
      <4>1. e[i] = "%" /\ <<e[i + 1], e[i + 2]>> = Hex(c) /\ ends[k] = i + 2
        BY <2>6, <3>7
      <4>2. i + 2 <= Len(e)
        BY <1>2, <2>7, <4>1
      <4>3. PICK digits : digits = Hex(c) /\ digits \in DOMAIN Bytes /\ Bytes[digits] = c
        BY <3>7, HexOf
      <4>4. /\ SubSeq(e, i + 1, Min({i + 2, Len(e)})) = digits
            /\ SubSeq(e, i + 1, i + 2) = digits
        BY <1>1, <4>1, <4>2, <4>3, DigitsRead
      <4>5. now[i] = <<Bytes[SubSeq(e, i + 1, i + 2)]>> \o less[i + 3]
        BY <3>3, <3>5, <4>1, <4>3, <4>4 DEF Written
      <4>6. i + 3 = (i + 2) + 1
        OBVIOUS
      <4>7. now[i] = <<c>> \o less[ends[k] + 1]
        BY <4>1, <4>3, <4>4, <4>5, <4>6
      <4> QED
        BY <2>8, <3>2, <3>4, <4>7
    <3> QED
      BY <3>6, <3>7
  <2>10. (n - j) + 1 = k /\ ends[n - j] + 1 = i
    BY <2>1, <2>2, <2>4
  <2> QED
    BY <2>2, <2>9, <2>10
<1>10. P = 0 .. n
  <2>1. P \in SUBSET (0 .. n)
    OBVIOUS
  <2> HIDE DEF P
  <2> QED
    BY <1>8, <1>9, <2>1, UpTo
<1>11. F[room][1] = SubSeq(t, 1, n)
  <2>1. n \in P
    <3>1. n \in 0 .. n
      OBVIOUS
    <3> HIDE DEF P
    <3> QED
      BY <1>10, <3>1
  <2>2. room \in n .. room
    <3>1. n \in 0 .. n
      OBVIOUS
    <3> QED
      BY <1>7, <3>1
  <2>3. F[room][ends[n - n] + 1] = SubSeq(t, (n - n) + 1, n)
    BY <2>1, <2>2
  <2>4. n - n = 0 /\ ends[0] + 1 = 1 /\ 0 + 1 = 1
    BY <1>7
  <2> QED
    BY <2>3, <2>4
<1>12. SubSeq(t, 1, n) = t
  BY <1>2
<1> QED
  BY <1>1, <1>2, <1>5, <1>11, <1>12

(* The one element of a set, and the none of the empty one.                *)
LEMMA OnlyOne ==
  ASSUME NEW X, NEW x \in Seq(X)
  PROVE  FlattenSeq(SetToSeq({x})) = x /\ FlattenSeq(SetToSeq({})) = <<>>
<1>1. Cardinality({x}) = 1 /\ Cardinality({}) = 0
  BY FS_EmptySet, FS_Singleton
<1>2. SetToSeq({x}) = <<x>>
  <2>1. PICK S : S = {x}
    OBVIOUS
  <2>2. SetToSeq(S) = CHOOSE f \in [1 .. 1 -> S] : IsInjective(f)
    BY <1>1, <2>1 DEF SetToSeq
  <2>3. PICK one : one = [i \in 1 .. 1 |-> x]
    OBVIOUS
  <2>4. one \in [1 .. 1 -> S] /\ \A f \in [1 .. 1 -> S] : f = one
    BY <2>1, <2>3
  <2>5. IsInjective(one)
    BY <2>3 DEF IsInjective
  <2>6. SetToSeq(S) = one
    BY <2>2, <2>4, <2>5
  <2>7. one = <<x>>
    BY <2>3
  <2> QED
    BY <2>1, <2>6, <2>7
<1>3. SetToSeq({}) = <<>>
  <2>1. PICK S : S = {}
    OBVIOUS
  <2>2. SetToSeq(S) = CHOOSE f \in [1 .. 0 -> S] : IsInjective(f)
    BY <1>1, <2>1 DEF SetToSeq
  <2>3. <<>> \in [1 .. 0 -> S] /\ \A f \in [1 .. 0 -> S] : f = <<>>
    OBVIOUS
  <2>4. IsInjective(<<>>)
    BY DEF IsInjective
  <2>5. SetToSeq(S) = <<>>
    BY <2>2, <2>3, <2>4
  <2> QED
    BY <2>1, <2>5
<1>4. FlattenSeq(<<x>>) = x
  <2>0. PICK Z : Z = Seq(X)
    OBVIOUS
  <2>1. PICK none \in Seq(Z) : none = <<>>
    <3>1. <<>> \in Seq(Z)
      OBVIOUS
    <3> QED
      BY <3>1
  <2>2. FlattenSeq(Append(none, x)) = FlattenSeq(none) \o x
    BY <2>0, FlattenAppend
  <2>3. FlattenSeq(none) = <<>>
    BY <2>1, FlattenEmpty
  <2>4. <<>> \o x = x /\ Append(none, x) = <<x>>
    BY <2>1
  <2> QED
    BY <2>2, <2>3, <2>4
<1> QED
  BY <1>2, <1>3, <1>4, FlattenEmpty

(* Two texts, one behind the other.                                        *)
LEMMA InTwo ==
  ASSUME NEW Y, NEW a \in Seq(Y), NEW b \in Seq(Y)
  PROVE  /\ a \o b \in Seq(Y) /\ Len(a \o b) = Len(a) + Len(b)
         /\ \A i \in 1 .. Len(a) : (a \o b)[i] = a[i]
         /\ \A i \in 1 .. Len(b) : (a \o b)[Len(a) + i] = b[i]
<1>0. PICK k \in Nat, m \in Nat : k = Len(a) /\ m = Len(b)
  OBVIOUS
<1>1. PICK w : w = a \o b
  OBVIOUS
<1>2. /\ w \in Seq(Y) /\ Len(w) = k + m
      /\ \A i \in 1 .. k + m : w[i] = IF i <= k THEN a[i] ELSE b[i - k]
  BY <1>0, <1>1, ConcatProperties
<1>3. \A i \in 1 .. k : i \in 1 .. k + m /\ i <= k
  OBVIOUS
<1>4. \A i \in 1 .. m : k + i \in 1 .. k + m /\ ~ (k + i <= k) /\ (k + i) - k = i
  OBVIOUS
<1>5. \A i \in 1 .. k : w[i] = a[i]
  BY <1>2, <1>3
<1>6. \A i \in 1 .. m : w[k + i] = b[i]
  BY <1>2, <1>4
<1> QED
  BY <1>0, <1>1, <1>2, <1>5, <1>6

(* The scheme of the server's URIs, and one of them: its first eight       *)
(* characters, and the path behind them.                                   *)
Scheme == <<"f", "i", "l", "e">>
FileUri(u, e) ==
  /\ Len(u) = 8 + Len(e) /\ \A i \in 1 .. Len(e) : u[8 + i] = e[i]
  /\ u[1] = "f" /\ u[2] = "i" /\ u[3] = "l" /\ u[4] = "e"
  /\ u[5] = ":" /\ u[6] = "/" /\ u[7] = "/" /\ u[8] = "/"

ElementText(uri, i) == FlattenSeq(SetToSeq({strcpy_encoded(t) : t \in uri[Elements[i]]}))
ElementEnd(uri, i) ==
  IF i <= 2 \/ (i < 5 /\ uri[Elements[i + 1]] # {}) THEN Terminators[i] ELSE <<>>

(* That is what uri_encode writes for one.                                 *)
LEMMA UriWritten ==
  ASSUME NEW X, NEW q \in Seq(X), NEW uri,
         uri["scheme"] = {Scheme}, uri["authority"] = {}, uri["path"] = {q},
         uri["query"] = {}, uri["fragment"] = {}
  PROVE  /\ FileUri(uri_encode(uri), strcpy_encoded(q))
         /\ Text(uri_encode(uri))
<1> DEFINE parts == [i \in 1 .. 5 |-> ElementText(uri, i) \o ElementEnd(uri, i)]
<1>1. PICK e : e = strcpy_encoded(q)
  OBVIOUS
<1>2. PICK Y : Y = Signs(X) \cup {"f", "i", "l", "e", ":", "/"}
  OBVIOUS
<1>3. e \in Seq(Y) /\ Scheme \in Seq(Y)
  <2>1. e \in Seq(Signs(X)) /\ Signs(X) \subseteq Y
    BY <1>1, <1>2, Encoded
  <2>2. e \in Seq(Y)
    BY <2>1, SeqMonotonic
  <2> QED
    BY <1>2, <2>2 DEF Scheme
<1>4. strcpy_encoded(Scheme) = Scheme
  <2>1. Scheme \in Seq({"f", "i", "l", "e"})
    BY DEF Scheme
  <2>2. {"f", "i", "l", "e"} \cap Reserved = {}
    BY UrisAssumption
  <2> QED
    BY <2>1, <2>2, EncodedPlain
<1>5. /\ Elements[1] = "scheme" /\ Elements[2] = "authority" /\ Elements[3] = "path"
      /\ Elements[4] = "query" /\ Elements[5] = "fragment"
  BY DEF Elements
<1>6. /\ ElementText(uri, 1) = Scheme /\ ElementText(uri, 2) = <<>> /\ ElementText(uri, 3) = e
      /\ ElementText(uri, 4) = <<>> /\ ElementText(uri, 5) = <<>>
  <2>1. {strcpy_encoded(t) : t \in uri[Elements[1]]} = {Scheme}
    BY <1>4, <1>5
  <2>2. {strcpy_encoded(t) : t \in uri[Elements[3]]} = {e}
    BY <1>1, <1>5
  <2>3. \A i \in {2, 4, 5} : {strcpy_encoded(t) : t \in uri[Elements[i]]} = {}
    BY <1>5
  <2>4. /\ FlattenSeq(SetToSeq({Scheme})) = Scheme /\ FlattenSeq(SetToSeq({e})) = e
        /\ FlattenSeq(SetToSeq({})) = <<>>
    BY <1>3, OnlyOne
  <2> QED
    BY <2>1, <2>2, <2>3, <2>4 DEF ElementText
<1>7. /\ ElementEnd(uri, 1) = <<":", "/", "/">> /\ ElementEnd(uri, 2) = <<"/">> /\ ElementEnd(uri, 3) = <<>>
      /\ ElementEnd(uri, 4) = <<>> /\ ElementEnd(uri, 5) = <<>>
  BY <1>5 DEF Terminators, ElementEnd
<1>8. uri_encode(uri) = FlattenSeq(parts)
  BY DEF uri_encode, ElementText, ElementEnd
<1>9. PICK a, b \in Seq(Y) : a = <<":", "/", "/">> /\ b = <<"/">>
  <2>1. <<":", "/", "/">> \in Seq(Y) /\ <<"/">> \in Seq(Y)
    BY <1>2
  <2> QED
    BY <2>1
<1>10. PICK none \in Seq(Y) : none = <<>>
  <2>1. <<>> \in Seq(Y)
    OBVIOUS
  <2> QED
    BY <2>1
<1>11. PICK all : all = parts
  OBVIOUS
<1>12. /\ Len(all) = 5 /\ all[1] = Scheme \o a /\ all[2] = none \o b /\ all[3] = e \o none
       /\ all[4] = none \o none /\ all[5] = none \o none
  <2>1. Len(all) = 5 /\ \A i \in 1 .. 5 : all[i] = ElementText(uri, i) \o ElementEnd(uri, i)
    <3>1. DOMAIN all = 1 .. 5 /\ \A i \in 1 .. 5 : all[i] = ElementText(uri, i) \o ElementEnd(uri, i)
      BY <1>11, Zenon
    <3>2. Len(all) = 5
      <4>1. all = [i \in 1 .. 5 |-> all[i]]
        BY <1>11, <3>1, Zenon
      <4>2. Len([i \in 1 .. 5 |-> all[i]]) = 5
        OBVIOUS
      <4> QED
        BY <4>1, <4>2
    <3> QED
      BY <3>1, <3>2
  <2>2. /\ all[1] = ElementText(uri, 1) \o ElementEnd(uri, 1) /\ all[2] = ElementText(uri, 2) \o ElementEnd(uri, 2)
        /\ all[3] = ElementText(uri, 3) \o ElementEnd(uri, 3) /\ all[4] = ElementText(uri, 4) \o ElementEnd(uri, 4)
        /\ all[5] = ElementText(uri, 5) \o ElementEnd(uri, 5)
    <3>1. 1 \in 1 .. 5 /\ 2 \in 1 .. 5 /\ 3 \in 1 .. 5 /\ 4 \in 1 .. 5 /\ 5 \in 1 .. 5
      OBVIOUS
    <3> QED
      BY <2>1, <3>1, Zenon
  <2> QED
    BY <1>6, <1>7, <1>9, <1>10, <2>1, <2>2, Zenon
<1>13. all[2] = b /\ all[3] = e /\ all[4] = none /\ all[5] = none
  BY <1>3, <1>9, <1>10, <1>12
<1>14. PICK g : /\ \A i \in 1 .. Len(all) : g[i] = IF i = 1 THEN all[i] ELSE g[i - 1] \o all[i]
                /\ FlattenSeq(all) = g[Len(all)]
  <2>1. Len(all) \in Nat \ {0}
    BY <1>12
  <2> QED
    BY <2>1, FlattenDef
<1>15. /\ g[1] = all[1] /\ g[2] = g[1] \o all[2] /\ g[3] = g[2] \o all[3]
       /\ g[4] = g[3] \o all[4] /\ g[5] = g[4] \o all[5] /\ FlattenSeq(all) = g[5]
  <2>1. \A i \in 1 .. 5 : g[i] = IF i = 1 THEN all[i] ELSE g[i - 1] \o all[i]
    BY <1>12, <1>14
  <2>2. /\ g[1] = all[1] /\ g[2] = g[2 - 1] \o all[2] /\ g[3] = g[3 - 1] \o all[3]
        /\ g[4] = g[4 - 1] \o all[4] /\ g[5] = g[5 - 1] \o all[5]
    <3>1. /\ 1 \in 1 .. 5 /\ 2 \in 1 .. 5 /\ 3 \in 1 .. 5 /\ 4 \in 1 .. 5 /\ 5 \in 1 .. 5
          /\ 2 # 1 /\ 3 # 1 /\ 4 # 1 /\ 5 # 1
      OBVIOUS
    <3> QED
      BY <2>1, <3>1, Zenon
  <2>3. 2 - 1 = 1 /\ 3 - 1 = 2 /\ 4 - 1 = 3 /\ 5 - 1 = 4
    OBVIOUS
  <2> QED
    BY <1>12, <1>14, <2>2, <2>3
<1>16. g[1] \in Seq(Y) /\ g[2] \in Seq(Y) /\ g[3] \in Seq(Y)
  BY <1>3, <1>9, <1>12, <1>13, <1>15, ConcatProperties
<1>17. g[5] = g[3]
  BY <1>10, <1>13, <1>15, <1>16
<1>18. /\ Len(g[1]) = 7 /\ g[1][1] = "f" /\ g[1][2] = "i" /\ g[1][3] = "l" /\ g[1][4] = "e"
       /\ g[1][5] = ":" /\ g[1][6] = "/" /\ g[1][7] = "/"
  <2>1. PICK s \in Seq(Y) : s = Scheme
    BY <1>3
  <2>2. /\ s \in Seq(Y) /\ Len(s) = 4 /\ s[1] = "f" /\ s[2] = "i" /\ s[3] = "l" /\ s[4] = "e"
    BY <1>3, <2>1 DEF Scheme
  <2>3. Len(a) = 3 /\ a[1] = ":" /\ a[2] = "/" /\ a[3] = "/"
    BY <1>9
  <2>4. g[1] = s \o a
    BY <1>12, <1>15, <2>1
  <2>5. /\ Len(s \o a) = 4 + 3 /\ \A i \in 1 .. 4 : (s \o a)[i] = s[i]
        /\ \A i \in 1 .. 3 : (s \o a)[4 + i] = a[i]
    <3>1. /\ Len(s \o a) = Len(s) + Len(a) /\ \A i \in 1 .. Len(s) : (s \o a)[i] = s[i]
          /\ \A i \in 1 .. Len(a) : (s \o a)[Len(s) + i] = a[i]
      BY <1>9, InTwo
    <3> QED
      BY <2>2, <2>3, <3>1
  <2>6. g[1][4 + 1] = a[1] /\ g[1][4 + 2] = a[2] /\ g[1][4 + 3] = a[3]
    BY <2>4, <2>5
  <2>7. g[1][1] = s[1] /\ g[1][2] = s[2] /\ g[1][3] = s[3] /\ g[1][4] = s[4]
    <3>1. 1 \in 1 .. 4 /\ 2 \in 1 .. 4 /\ 3 \in 1 .. 4 /\ 4 \in 1 .. 4
      OBVIOUS
    <3>2. PICK h : h = g[1]
      OBVIOUS
    <3>3. \A i \in 1 .. 4 : h[i] = s[i]
      BY <2>4, <2>5, <3>2
    <3>4. h[1] = s[1] /\ h[2] = s[2] /\ h[3] = s[3] /\ h[4] = s[4]
      BY <3>1, <3>3, Zenon
    <3> QED
      BY <3>2, <3>4, Zenon
  <2>8. 4 + 1 = 5 /\ 4 + 2 = 6 /\ 4 + 3 = 7
    OBVIOUS
  <2>9. Len(g[1]) = 7
    BY <2>4, <2>5, <2>8
  <2>10. g[1][5] = a[1] /\ g[1][6] = a[2] /\ g[1][7] = a[3]
    BY <2>6, <2>8
  <2> QED
    BY <2>2, <2>3, <2>7, <2>9, <2>10
<1>19. /\ Len(g[2]) = 8 /\ g[2][8] = "/" /\ \A i \in 1 .. 7 : g[2][i] = g[1][i]
  <2>1. Len(b) = 1 /\ b[1] = "/"
    BY <1>9
  <2>2. g[2] = g[1] \o b
    BY <1>13, <1>15
  <2>3. PICK h \in Seq(Y) : h = g[1]
    BY <1>16
  <2>4. /\ Len(h \o b) = 7 + 1 /\ \A i \in 1 .. 7 : (h \o b)[i] = h[i]
        /\ \A i \in 1 .. 1 : (h \o b)[7 + i] = b[i]
    <3>1. /\ Len(h \o b) = Len(h) + Len(b) /\ \A i \in 1 .. Len(h) : (h \o b)[i] = h[i]
          /\ \A i \in 1 .. Len(b) : (h \o b)[Len(h) + i] = b[i]
      BY InTwo
    <3> QED
      BY <1>18, <2>1, <2>3, <3>1
  <2>5. 7 + 1 = 8 /\ 1 \in 1 .. 1
    OBVIOUS
  <2>6. (h \o b)[8] = b[1]
    BY <2>4, <2>5
  <2> QED
    BY <2>1, <2>2, <2>3, <2>4, <2>5, <2>6
<1>20. PICK n \in Nat : n = Len(e)
  BY <1>3
<1>21. /\ Len(g[3]) = 8 + n /\ \A i \in 1 .. 8 : g[3][i] = g[2][i]
       /\ \A i \in 1 .. n : g[3][8 + i] = e[i]
  <2>1. g[3] = g[2] \o e
    BY <1>13, <1>15
  <2>2. PICK h \in Seq(Y) : h = g[2]
    BY <1>16
  <2>3. /\ Len(h \o e) = 8 + n /\ \A i \in 1 .. 8 : (h \o e)[i] = h[i]
        /\ \A i \in 1 .. n : (h \o e)[8 + i] = e[i]
    <3>1. /\ Len(h \o e) = Len(h) + Len(e) /\ \A i \in 1 .. Len(h) : (h \o e)[i] = h[i]
          /\ \A i \in 1 .. Len(e) : (h \o e)[Len(h) + i] = e[i]
      BY <1>3, InTwo
    <3> QED
      BY <1>19, <1>20, <2>2, <3>1
  <2> QED
    BY <2>1, <2>2, <2>3
<1>22. uri_encode(uri) = g[3]
  BY <1>8, <1>11, <1>15, <1>17
<1>23. Text(g[3])
  BY <1>16, IsText
<1>24. FileUri(g[3], e)
  <2>1. \A i \in 1 .. 7 : i \in 1 .. 8 /\ g[3][i] = g[1][i]
    <3>1. \A i \in 1 .. 7 : i \in 1 .. 8
      OBVIOUS
    <3> QED
      BY <1>19, <1>21, <3>1
  <2>2. /\ 1 \in 1 .. 7 /\ 2 \in 1 .. 7 /\ 3 \in 1 .. 7 /\ 4 \in 1 .. 7 /\ 5 \in 1 .. 7
        /\ 6 \in 1 .. 7 /\ 7 \in 1 .. 7 /\ 8 \in 1 .. 8
    OBVIOUS
  <2>3. g[3][8] = "/"
    BY <1>19, <1>21, <2>2, Zenon
  <2>4. /\ g[3][1] = "f" /\ g[3][2] = "i" /\ g[3][3] = "l" /\ g[3][4] = "e"
        /\ g[3][5] = ":" /\ g[3][6] = "/" /\ g[3][7] = "/"
    BY <1>18, <2>1, <2>2, Zenon
  <2> QED
    BY <1>20, <1>21, <2>3, <2>4, Zenon DEF FileUri
<1> QED
  BY <1>1, <1>22, <1>23, <1>24

(* A terminator at a place of a text, and where it is found.               *)
LEMMA BeginsAt ==
  ASSUME NEW S, NEW t \in Seq(S), NEW i \in 1 .. Len(t), NEW m, NEW n \in Nat, Len(m) = n,
         DOMAIN m = 1 .. n
  PROVE  IsPrefix(m, SubSeq(t, i, Len(t))) <=>
           i + n - 1 <= Len(t) /\ \A j \in 1 .. n : t[i + j - 1] = m[j]
<1>1. PICK l \in Nat : l = Len(t) /\ i \in 1 .. l
  OBVIOUS
<1>2. PICK s : s = SubSeq(t, i, l)
  OBVIOUS
<1>3. Len(s) = l - i + 1 /\ \A j \in 1 .. l - i + 1 : s[j] = t[i + j - 1]
  BY <1>1, <1>2
<1>4. n <= Len(s) <=> i + n - 1 <= l
  BY <1>1, <1>3
<1>5. ASSUME n <= Len(s)
      PROVE  \A j \in 1 .. n : s[j] = t[i + j - 1]
  <2>1. \A j \in 1 .. n : j \in 1 .. l - i + 1
    BY <1>1, <1>3, <1>5
  <2> QED
    BY <1>3, <2>1
<1>6. IsPrefix(m, s) <=> n <= Len(s) /\ \A j \in 1 .. n : s[j] = m[j]
  BY DEF IsPrefix
<1> QED
  BY <1>1, <1>2, <1>4, <1>5, <1>6

(* What begins at a place begins with the character there.                 *)
LEMMA BeginsWith ==
  ASSUME NEW S, NEW t \in Seq(S), NEW i \in 1 .. Len(t), NEW m, NEW n \in Nat, n >= 1, Len(m) = n,
         DOMAIN m = 1 .. n, IsPrefix(m, SubSeq(t, i, Len(t)))
  PROVE  t[i] = m[1]
<1>1. \A j \in 1 .. n : t[i + j - 1] = m[j]
  BY BeginsAt
<1>2. 1 \in 1 .. n /\ i + 1 - 1 = i
  OBVIOUS
<1> QED
  BY <1>1, <1>2

(* A terminator is found at the first place where it begins.               *)
LEMMA FoundAt ==
  ASSUME NEW S, NEW t \in Seq(S), NEW m, NEW p \in 1 .. Len(t),
         IsPrefix(m, SubSeq(t, p, Len(t))),
         \A i \in 1 .. Len(t) : IsPrefix(m, SubSeq(t, i, Len(t))) => p <= i
  PROVE  Find(t, m) = p
<1> DEFINE places == {i \in 1 .. Len(t) : IsPrefix(m, SubSeq(t, i, Len(t)))}
<1>1. p \in places /\ \A i \in places : p <= i
  OBVIOUS
<1>2. Find(t, m) = CHOOSE i \in places : \A j \in places : i <= j
  BY <1>1 DEF Find
<1>3. \A i \in places : i \in Int
  OBVIOUS
<1>4. p \in Int
  OBVIOUS
<1> HIDE DEF places
<1>5. \A i \in places : (\A j \in places : i <= j) <=> i = p
  BY <1>1, <1>3, <1>4
<1> QED
  BY <1>1, <1>2, <1>5

(* And not at all when it begins nowhere.                                  *)
LEMMA FoundNowhere ==
  ASSUME NEW t, NEW m, \A i \in 1 .. Len(t) : ~IsPrefix(m, SubSeq(t, i, Len(t)))
  PROVE  Find(t, m) = 0
  BY DEF Find

(* What such a URI is decoded to.                                          *)
LEMMA FileDecoded ==
  ASSUME NEW Y, "?" \notin Y, NEW e \in Seq(Y), e # <<>>, NEW u, Text(u), FileUri(u, e)
  PROVE  /\ uri_decode(u).outcome = IF Len(e) < ELEMENT_MAX THEN "uri" ELSE "assert"
         /\ Len(e) < ELEMENT_MAX =>
              /\ uri_decode(u).uri["scheme"] = {Scheme} /\ uri_decode(u).uri["authority"] = {<<>>}
              /\ uri_decode(u).uri["path"] = {decode_escape(e, Len(e))}
<1>1. PICK n \in Nat : n = Len(e) /\ n >= 1
  <2>1. Len(e) \in Nat /\ Len(e) # 0
    OBVIOUS
  <2> QED
    BY <2>1
<1>2. PICK S : S = Range(u)
  OBVIOUS
<1>3. u \in Seq(S)
  BY <1>2 DEF Text
<1>4. /\ Len(u) = 8 + n /\ \A i \in 1 .. n : u[8 + i] = e[i]
      /\ u[1] = "f" /\ u[2] = "i" /\ u[3] = "l" /\ u[4] = "e"
      /\ u[5] = ":" /\ u[6] = "/" /\ u[7] = "/" /\ u[8] = "/"
  BY <1>1 DEF FileUri
<1>5. PICK l \in Nat : l = 8 + n /\ l = Len(u)
  BY <1>4
<1>6. Find(u, Terminators[1]) = 5
  <2>1. PICK m : m = Terminators[1]
    OBVIOUS
  <2>2. Len(m) = 3 /\ DOMAIN m = 1 .. 3 /\ m[1] = ":" /\ m[2] = "/" /\ m[3] = "/"
    BY <2>1 DEF Terminators
  <2>3. 5 \in 1 .. Len(u) /\ 3 \in Nat
    BY <1>5
  <2>4. IsPrefix(m, SubSeq(u, 5, Len(u)))
    <3>1. \A j \in 1 .. 3 : u[5 + j - 1] = m[j]
      <4>1. 5 + 1 - 1 = 5 /\ 5 + 2 - 1 = 6 /\ 5 + 3 - 1 = 7
        OBVIOUS
      <4>2. \A j \in 1 .. 3 : j = 1 \/ j = 2 \/ j = 3
        OBVIOUS
      <4> QED
        BY <1>4, <2>2, <4>1, <4>2
    <3>2. 5 + 3 - 1 <= Len(u)
      BY <1>5
    <3> QED
      BY <1>3, <2>2, <2>3, <3>1, <3>2, BeginsAt
  <2>5. ASSUME NEW i \in 1 .. Len(u), IsPrefix(m, SubSeq(u, i, Len(u))) PROVE 5 <= i
    <3>1. u[i] = m[1]
      <4>1. PICK k \in Nat : k = 3 /\ k >= 1
        OBVIOUS
      <4>2. Len(m) = k /\ DOMAIN m = 1 .. k
        BY <2>2, <4>1
      <4>3. PICK j \in 1 .. Len(u) : j = i /\ IsPrefix(m, SubSeq(u, j, Len(u)))
        BY <2>5
      <4>4. u[j] = m[1]
        BY <1>3, <4>1, <4>2, <4>3, BeginsWith
      <4> QED
        BY <4>3, <4>4
    <3>2. u[i] = ":" /\ i \in Nat /\ i # 0
      BY <1>5, <2>2, <3>1
    <3>3. i # 1 /\ i # 2 /\ i # 3 /\ i # 4
      BY <1>4, <3>2
    <3> QED
      BY <3>2, <3>3
  <2> QED
    BY <1>3, <2>1, <2>3, <2>4, <2>5, FoundAt
<1>7. PICK raw : raw = SubSeq(u, 8, Len(u))
  OBVIOUS
<1>8. raw \in Seq(S) /\ Len(raw) = n + 1 /\ raw[1] = "/" /\ Text(raw)
  <2>1. raw \in Seq(S) /\ Len(raw) = n + 1 /\ raw[1] = u[8]
    BY <1>3, <1>5, <1>7
  <2> QED
    BY <1>4, <2>1, IsText
<1>9. Find(raw, Terminators[2]) = 1
  <2>1. PICK m : m = Terminators[2]
    OBVIOUS
  <2>2. Len(m) = 1 /\ DOMAIN m = 1 .. 1 /\ m[1] = "/"
    BY <2>1 DEF Terminators
  <2>3. 1 \in 1 .. Len(raw) /\ 1 \in Nat
    BY <1>1, <1>8
  <2>4. IsPrefix(m, SubSeq(raw, 1, Len(raw)))
    <3>1. \A j \in 1 .. 1 : raw[1 + j - 1] = m[j]
      <4>1. \A j \in 1 .. 1 : 1 + j - 1 = 1 /\ j = 1
        OBVIOUS
      <4> QED
        BY <1>8, <2>2, <4>1
    <3>2. 1 + 1 - 1 <= Len(raw)
      BY <2>3
    <3> QED
      BY <1>8, <2>2, <2>3, <3>1, <3>2, BeginsAt
  <2>5. \A i \in 1 .. Len(raw) : 1 <= i
    BY <1>8
  <2> QED
    BY <1>8, <2>1, <2>3, <2>4, <2>5, FoundAt
<1>10. SubSeq(u, 9, Len(u)) = e
  <2>1. PICK rest : rest = SubSeq(u, 9, Len(u))
    OBVIOUS
  <2>2. rest \in Seq(S) /\ Len(rest) = n /\ \A i \in 1 .. n : rest[i] = u[9 + i - 1]
    BY <1>3, <1>5, <2>1
  <2>3. \A i \in 1 .. n : rest[i] = e[i]
    <3>1. \A i \in 1 .. n : 9 + i - 1 = 8 + i
      OBVIOUS
    <3> QED
      BY <1>4, <2>2, <3>1
  <2>4. e \in Seq(Y \cup S) /\ rest \in Seq(Y \cup S)
    BY <2>2, SeqMonotonic
  <2>5. rest = e
    BY <1>1, <2>2, <2>3, <2>4, SeqEqual
  <2> QED
    BY <2>1, <2>5
<1>11. Find(e, Terminators[3]) = 0
  <2>1. PICK m : m = Terminators[3]
    OBVIOUS
  <2>2. Len(m) = 1 /\ DOMAIN m = 1 .. 1 /\ m[1] = "?" /\ 1 \in Nat
    BY <2>1 DEF Terminators
  <2>3. ASSUME NEW i \in 1 .. Len(e), IsPrefix(m, SubSeq(e, i, Len(e))) PROVE FALSE
    <3>3. e[i] = "?"
      <4>1. PICK k \in Nat : k = 1 /\ k >= 1
        OBVIOUS
      <4>2. Len(m) = k /\ DOMAIN m = 1 .. k
        BY <2>2, <4>1
      <4>3. PICK j \in 1 .. Len(e) : j = i /\ IsPrefix(m, SubSeq(e, j, Len(e)))
        BY <2>3
      <4>4. e[j] = m[1]
        BY <4>1, <4>2, <4>3, BeginsWith
      <4> QED
        BY <2>2, <4>3, <4>4
    <3>4. e[i] \in Y
      OBVIOUS
    <3> QED
      BY <3>3, <3>4
  <2> QED
    BY <2>1, <2>3, FoundNowhere
<1>12. /\ Len(Terminators[1]) = 3 /\ Len(Terminators[2]) = 1
       /\ Elements[1] = "scheme" /\ Elements[2] = "authority" /\ Elements[3] = "path"
  BY DEF Terminators, Elements
<1>13. SubSeq(u, 1, Len(u)) = u
  BY <1>3
<1>14. Begin(u)[1] = 1 /\ Begin(u)[2] = 8 /\ Begin(u)[3] = 9 /\ Begin(u)[4] = 0
  <2>1. Begin(u)[1] = 1
    BY BeginDef
  <2>2. \A i \in 1 .. 4 : Begin(u)[i + 1] = NextBegin(u, Begin(u)[i], i)
    BY BeginDef
  <2>3. NextBegin(u, 1, 1) = 8
    <3>1. 1 + 5 - 1 + 3 = 8 /\ ~ (8 > Len(u)) /\ 1 # 0 /\ 5 # 0
      BY <1>5
    <3> QED
      BY <1>6, <1>12, <1>13, <3>1 DEF NextBegin
  <2>4. NextBegin(u, 8, 2) = 9
    <3>1. 8 + 1 - 1 + 1 = 9 /\ ~ (9 > Len(u)) /\ 8 # 0 /\ 1 # 0
      BY <1>1, <1>5
    <3> QED
      BY <1>7, <1>9, <1>12, <3>1 DEF NextBegin
  <2>6. NextBegin(u, 9, 3) = 0
    <3>1. 9 # 0
      OBVIOUS
    <3> QED
      BY <1>10, <1>11, <3>1 DEF NextBegin
  <2>5. 1 \in 1 .. 4 /\ 2 \in 1 .. 4 /\ 3 \in 1 .. 4 /\ 1 + 1 = 2 /\ 2 + 1 = 3 /\ 3 + 1 = 4
    OBVIOUS
  <2>7. Begin(u)[2] = 8
    BY <2>1, <2>2, <2>3, <2>5
  <2>8. Begin(u)[3] = 9
    BY <2>2, <2>4, <2>5, <2>7
  <2>9. Begin(u)[4] = 0
    BY <2>2, <2>5, <2>6, <2>8
  <2> QED
    BY <2>1, <2>7, <2>8, <2>9
<1>20. Stretch(u, 1) = 4
  <2>1. 5 - 1 = 4 /\ 5 # 0
    OBVIOUS
  <2> QED
    BY <1>6, <2>1 DEF Stretch
<1>21. Stretch(raw, 2) = 0
  <2>1. 1 - 1 = 0 /\ 1 # 0
    OBVIOUS
  <2> QED
    BY <1>9, <2>1 DEF Stretch
<1>22. Stretch(e, 3) = Len(e)
  BY <1>11 DEF Stretch
<1>19. (\A i \in 1 .. 4 : Short(u, Begin(u)[i], i)) <=> Len(e) < ELEMENT_MAX
  <2>1. Short(u, Begin(u)[1], 1)
    BY <1>13, <1>14, <1>20, UrisAssumption DEF Short
  <2>2. Short(u, Begin(u)[2], 2)
    <3>1. 0 < ELEMENT_MAX
      BY UrisAssumption
    <3> QED
      BY <1>7, <1>14, <1>21, <3>1 DEF Short
  <2>3. Short(u, Begin(u)[3], 3) <=> Len(e) < ELEMENT_MAX
    <3>1. 9 # 0
      OBVIOUS
    <3> QED
      BY <1>10, <1>14, <1>22, <3>1 DEF Short
  <2>4. Short(u, Begin(u)[4], 4)
    BY <1>14 DEF Short
  <2>5. /\ \A i \in 1 .. 4 : i = 1 \/ i = 2 \/ i = 3 \/ i = 4
        /\ 3 \in 1 .. 4
    OBVIOUS
  <2> QED
    BY <2>1, <2>2, <2>3, <2>4, <2>5
<1>15. ASSUME Len(e) < ELEMENT_MAX
       PROVE  /\ uri_decode(u).uri["scheme"] = Element(u, 1, 1)
              /\ uri_decode(u).uri["authority"] = Element(u, 8, 2)
              /\ uri_decode(u).uri["path"] = Element(u, 9, 3)
  <2>1. \A i \in 1 .. 4 : uri_decode(u).uri[Elements[i]] = Element(u, Begin(u)[i], i)
    BY <1>15, <1>19, UriElements
  <2>2. 1 \in 1 .. 4 /\ 2 \in 1 .. 4 /\ 3 \in 1 .. 4
    OBVIOUS
  <2> QED
    BY <1>12, <1>14, <2>1, <2>2
<1>16. Element(u, 1, 1) = {Scheme}
  <2>1. Element(u, 1, 1) = {decode_escape(u, 4)}
    <3>2. 1 # 0
      OBVIOUS
    <3> QED
      BY <1>13, <1>20, <3>2, Zenon DEF Element
  <2>2. 4 \in 0 .. Len(u) /\ \A i \in 1 .. 4 : u[i] # "%"
    <3>1. \A i \in 1 .. 4 : i = 1 \/ i = 2 \/ i = 3 \/ i = 4
      OBVIOUS
    <3>2. 4 \in 0 .. Len(u)
      BY <1>5
    <3> QED
      BY <1>4, <3>1, <3>2
  <2>3. decode_escape(u, 4) = SubSeq(u, 1, 4)
    BY <2>2, DecodedPlain
  <2>4. SubSeq(u, 1, 4) = Scheme
    <3>1. PICK s : s = SubSeq(u, 1, 4)
      OBVIOUS
    <3>2. s \in Seq(S) /\ Len(s) = 4 /\ s[1] = u[1] /\ s[2] = u[2] /\ s[3] = u[3] /\ s[4] = u[4]
      BY <1>3, <1>5, <3>1
    <3>3. PICK v : v = Scheme
      OBVIOUS
    <3>4. v \in Seq({"f", "i", "l", "e"}) /\ Len(v) = 4 /\ v[1] = "f" /\ v[2] = "i" /\ v[3] = "l" /\ v[4] = "e"
      BY <3>3 DEF Scheme
    <3>5. PICK Z : Z = S \cup {"f", "i", "l", "e"}
      OBVIOUS
    <3>6. s \in Seq(Z) /\ v \in Seq(Z)
      BY <3>2, <3>4, <3>5, SeqMonotonic
    <3>7. \A i \in 1 .. 4 : s[i] = v[i]
      <4>1. \A i \in 1 .. 4 : i = 1 \/ i = 2 \/ i = 3 \/ i = 4
        OBVIOUS
      <4> QED
        BY <1>4, <3>2, <3>4, <4>1
    <3>8. s = v
      BY <3>2, <3>4, <3>6, <3>7, SeqEqual
    <3> QED
      BY <3>1, <3>3, <3>8
  <2> QED
    BY <2>1, <2>3, <2>4
<1>17. Element(u, 8, 2) = {<<>>}
  <2>1. Element(u, 8, 2) = {decode_escape(raw, 0)}
    BY <1>7, <1>21 DEF Element
  <2>2. 0 \in 0 .. Len(raw) /\ \A i \in 1 .. 0 : raw[i] # "%"
    BY <1>8
  <2>3. decode_escape(raw, 0) = SubSeq(raw, 1, 0)
    BY <1>8, <2>2, DecodedPlain
  <2>4. SubSeq(raw, 1, 0) = <<>>
    BY <1>8
  <2> QED
    BY <2>1, <2>3, <2>4
<1>18. Element(u, 9, 3) = {decode_escape(e, Len(e))}
  <2>1. 9 # 0
    OBVIOUS
  <2> QED
    BY <1>10, <1>22, <2>1, Zenon DEF Element
<1>23. uri_decode(u).outcome = IF Len(e) < ELEMENT_MAX THEN "uri" ELSE "assert"
  BY <1>19, UriElements
<1> QED
  BY <1>15, <1>16, <1>17, <1>18, <1>23

(* The URI of a file and what it is decoded to.                            *)
LEMMA OwnUriBack == TextTyped => OwnUriComesBack
<1> SUFFICES ASSUME TextTyped, kind = "path", ~Odd(Split(text, Slashes)),
                    "%" \notin ToSet(absolute_path(text, cwd).path),
                    Len(absolute_path(text, cwd).path) > 2
             PROVE  LET back == uri_decode(uri_file_encode(text))
                        fits == \A path \in uri_file(text).path :
                                  Len(strcpy_encoded(path)) < ELEMENT_MAX
                    IN  /\ back.outcome = IF fits THEN "uri" ELSE "assert"
                        /\ fits =>
                             /\ back.uri.scheme = {<<"f", "i", "l", "e">>}
                             /\ back.uri.authority = {<<>>}
                             /\ {normalize_path(path) : path \in back.uri.path}
                                  = {absolute_path(text, cwd)}
  BY DEF OwnUriComesBack
<1>1. PICK X : X = Range(text) \cup Letters \cup Range(cwd) \cup {"/"}
  OBVIOUS
<1>2. /\ "/" \in X /\ Letters \subseteq X /\ Range(cwd) \subseteq X /\ text \in Seq(X)
      /\ Range(Upper) \subseteq X /\ DOMAIN Upper \cup Range(Upper) \subseteq X
  <2>1. Text(text)
    BY DEF TextTyped
  <2> QED
    BY <1>1, <2>1, SeqMonotonic DEF Text, Letters
<1>3. Level(Split(text, Slashes))
  <2>1. PICK N, ns : N = Seq(X) /\ ns = Split(text, Slashes)
    OBVIOUS
  <2>2. ns \in Seq(N)
    BY <1>2, <2>1, SplitNames
  <2>3. Straight(ns)
    BY <2>1, <2>2, NotOdd
  <2> QED
    BY <2>1, <2>3, StraightLevel
<1>4. PICK p \in Seq(X) : absolute_path(text, cwd) = Path(p) /\ Normal(p)
  BY <1>2, <1>3, OwnPath
<1>5. Len(p) > 2 /\ Len(p) \in Nat /\ "%" \notin ToSet(p)
  BY <1>4 DEF Path
<1>6. PICK q : q = Lowered(p)
  OBVIOUS
<1>7. /\ q \in Seq(X) /\ Len(q) = Len(p) /\ normalize_path(q) = Path(p)
      /\ \A i \in 1 .. Len(q) : q[i] = p[i] \/ q[i] \in DOMAIN Upper
  BY <1>2, <1>4, <1>6, LowerDrive
<1>8. PICK Z : Z = X \ {"%"}
  OBVIOUS
<1>9. q \in Seq(Z)
  <2>1. ASSUME NEW i \in 1 .. Len(q) PROVE q[i] \in Z
    <3>1. q[i] \in X
      BY <1>7
    <3>2. p[i] # "%"
      <4>1. p[i] \in ToSet(p)
        BY <1>7 DEF ToSet
      <4> QED
        BY <1>5, <4>1
    <3>3. "%" \notin DOMAIN Upper
      BY PathsAssumption
    <3> QED
      BY <1>7, <1>8, <3>1, <3>2, <3>3
  <2>2. Len(q) \in Nat /\ q = [i \in 1 .. Len(q) |-> q[i]]
    BY <1>7
  <2> QED
    BY <2>1, <2>2
<1>10. PICK uri : uri = uri_file(text)
  OBVIOUS
<1>11. /\ uri["scheme"] = {Scheme} /\ uri["authority"] = {} /\ uri["path"] = {q}
       /\ uri["query"] = {} /\ uri["fragment"] = {}
  <2>1. ReplaceAll(absolute_path(text, cwd).path, "\\", "/") = p
    <3>1. absolute_path(text, cwd).path = p
      BY <1>4 DEF Path
    <3>2. Forward(p) = p
      BY <1>4 DEF Normal
    <3> QED
      BY <3>1, <3>2 DEF Forward
  <2>2. uri = [NoUri EXCEPT !.scheme = {Scheme}, !.path = {q}]
    BY <1>6, <1>10, <2>1 DEF uri_file, Scheme, Lowered
  <2>3. Range(Elements) = {"scheme", "authority", "path", "query", "fragment"}
    <3>1. DOMAIN Elements = 1 .. 5
      BY DEF Elements
    <3>2. /\ Elements[1] = "scheme" /\ Elements[2] = "authority" /\ Elements[3] = "path"
          /\ Elements[4] = "query" /\ Elements[5] = "fragment"
      BY DEF Elements
    <3>3. \A i : i \in 1 .. 5 <=> i = 1 \/ i = 2 \/ i = 3 \/ i = 4 \/ i = 5
      OBVIOUS
    <3> QED
      BY <3>1, <3>2, <3>3 DEF Range
  <2> QED
    BY <2>2, <2>3 DEF NoUri
<1>12. PICK u, e : u = uri_encode(uri) /\ e = strcpy_encoded(q)
  OBVIOUS
<1>13. FileUri(u, e) /\ Text(u)
  BY <1>9, <1>11, <1>12, UriWritten
<1>14. e \in Seq(Signs(Z)) /\ "?" \notin Signs(Z)
  <2>1. "?" \notin Hexadecimal
    BY DEF Hexadecimal
  <2>2. "?" \notin Signs(Z)
    BY <2>1, UrisAssumption DEF Signs
  <2> QED
    BY <1>9, <1>12, <2>2, Encoded
<1>15. e # <<>>
  <2>1. PICK ends : Ends(q, e, ends)
    BY <1>9, <1>12, EndsExist
  <2>2. ends[Len(q)] \in Len(q) .. Len(e)
    <3>1. Len(q) \in 0 .. Len(q)
      BY <1>5, <1>7
    <3> QED
      BY <2>1, <3>1 DEF Ends
  <2>3. Len(e) # 0
    BY <1>5, <1>7, <1>14, <2>2
  <2> QED
    BY <1>14, <2>3, EmptySeq
<1>16. decode_escape(e, Len(e)) = q
  BY <1>8, <1>9, <1>12, BackAgain
<1>17. /\ uri_decode(u).outcome = IF Len(e) < ELEMENT_MAX THEN "uri" ELSE "assert"
       /\ Len(e) < ELEMENT_MAX =>
            /\ uri_decode(u).uri["scheme"] = {Scheme} /\ uri_decode(u).uri["authority"] = {<<>>}
            /\ uri_decode(u).uri["path"] = {q}
  BY <1>13, <1>14, <1>15, <1>16, FileDecoded
<1>19. (\A path \in uri_file(text).path : Len(strcpy_encoded(path)) < ELEMENT_MAX)
         <=> Len(e) < ELEMENT_MAX
  BY <1>10, <1>11, <1>12
<1>18. uri_file_encode(text) = u
  BY <1>10, <1>12 DEF uri_file_encode
<1> QED
  BY <1>4, <1>7, <1>17, <1>18, <1>19 DEF Scheme

(* The URI of a file comes back as the path of the same unit, wherever the *)
(* file is and however long its name, up to the limit of an element,       *)
(* whatever steps are in it that are not odd and whatever the case of its  *)
(* drive (uri_file, uri_encode, uri_decode, normalize_path).               *)
THEOREM OwnUriAlwaysComesBack == Spec => []OwnUriComesBack
<1>1. TextTyped => OwnUriComesBack
  BY OwnUriBack
<1> QED
  BY <1>1, TypedText, PTL

=============================================================================
