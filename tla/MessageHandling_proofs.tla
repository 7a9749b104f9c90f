------------------------ MODULE MessageHandling_proofs ------------------------
(***************************************************************************)
(* Proofs about MessageHandling, for whatever params the client sends.     *)
(***************************************************************************)
EXTENDS MessageHandling, SequencesExt, SequenceTheorems, FiniteSetTheorems,
        WellFoundedInduction, TLAPS

-----------------------------------------------------------------------------
(* Induction, with the set of the numbers for which the formula holds      *)

(* A set of natural numbers has a smallest one.                            *)
LEMMA Least ==
  ASSUME NEW S \in SUBSET Nat, S # {}
  PROVE  \E m \in S : \A n \in S : m <= n
<1> DEFINE R == {pair \in Nat \X Nat : pair[1] < pair[2]}
<1>1. IsWellFoundedOn(R, Nat)
  BY NatLessThanWellFounded DEF OpToRel
<1>2. PICK m \in S : \A n \in S : <<n, m>> \notin R
  <2> HIDE DEF R
  <2>1. \E m \in S : \A n \in S : ~ (<<n, m>> \in R)
    BY <1>1, WFMin
  <2> QED
    BY <2>1
<1>3. ASSUME NEW n \in S PROVE m <= n
  <2>1. ~ (<<n, m>> \in R) /\ m \in Nat /\ n \in Nat
    BY <1>2
  <2> QED
    BY <2>1
<1> QED
  BY <1>3

(* Induction: a set with 0 and the successor of each of its numbers has    *)
(* them all.                                                               *)
LEMMA Induct ==
  ASSUME NEW S \in SUBSET Nat, 0 \in S, \A n \in S : n + 1 \in S
  PROVE  S = Nat
<1> SUFFICES ASSUME Nat \ S # {} PROVE FALSE
  OBVIOUS
<1>1. PICK m \in Nat \ S : \A n \in Nat \ S : m <= n
  BY Least
<1>2. m - 1 \in S
  BY <1>1
<1> QED
  BY <1>1, <1>2

-----------------------------------------------------------------------------
(* Sums                                                                    *)

(* The sum is taken by recursion over the subsets, an element chosen at a  *)
(* time.                                                                   *)
SumStep(f, g, s) == IF s = {} THEN 0
                    ELSE LET x == CHOOSE x \in s : TRUE IN f[x] + g[s \ {x}]

LEMMA SumExists ==
  ASSUME NEW f, NEW D, IsFiniteSet(D)
  PROVE  \E g : g = [s \in SUBSET D |-> SumStep(f, g, s)]
<1> DEFINE Small(n) == {s \in SUBSET D : Cardinality(s) <= n}
           Rec(g, n) == g = [s \in Small(n) |-> SumStep(f, g, s)]
           N == {n \in Nat : \E g : Rec(g, n)}
<1>1. \A s \in SUBSET D : IsFiniteSet(s) /\ Cardinality(s) \in Nat
  BY FS_Subset, FS_CardinalityType
<1>2. 0 \in N
  <2>1. \A s \in Small(0) : s = {}
    BY <1>1, FS_EmptySet
  <2>2. Rec([s \in Small(0) |-> 0], 0)
    BY <2>1 DEF SumStep
  <2> QED
    BY <2>2
<1>3. ASSUME NEW n \in N PROVE n + 1 \in N
  <2>1. PICK g : Rec(g, n)
    OBVIOUS
  <2>2. n \in Nat
    OBVIOUS
  <2> HIDE DEF N
  <2> DEFINE h == [s \in Small(n + 1) |-> IF Cardinality(s) <= n THEN g[s] ELSE SumStep(f, g, s)]
  <2>3. ASSUME NEW s \in Small(n + 1) PROVE h[s] = SumStep(f, h, s)
    <3>1. h[s] = SumStep(f, g, s)
      <4>1. CASE Cardinality(s) <= n
        <5>1. s \in Small(n)
          BY <4>1
        <5> HIDE DEF Small
        <5>2. g[s] = SumStep(f, g, s)
          BY <2>1, <5>1
        <5> QED
          BY <4>1, <5>2
      <4>2. CASE ~(Cardinality(s) <= n)
        BY <4>2
      <4> QED
        BY <4>1, <4>2
    <3>2. ASSUME NEW x \in s PROVE h[s \ {x}] = g[s \ {x}]
      <4>1. Cardinality(s \ {x}) = Cardinality(s) - 1
        BY <1>1, FS_RemoveElement
      <4>2. s \ {x} \in SUBSET D /\ Cardinality(s) <= n + 1 /\ Cardinality(s) \in Nat
        BY <1>1
      <4>3. Cardinality(s \ {x}) <= n /\ s \ {x} \in Small(n + 1)
        BY <2>2, <4>1, <4>2
      <4> QED
        BY <4>3
    <3> HIDE DEF h
    <3>3. SumStep(f, h, s) = SumStep(f, g, s)
      <4>1. CASE s = {}
        BY <4>1 DEF SumStep
      <4>2. CASE s # {}
        <5>1. (CHOOSE x \in s : TRUE) \in s
          BY <4>2
        <5> QED
          BY <3>2, <5>1 DEF SumStep
      <4> QED
        BY <4>1, <4>2
    <3> QED
      BY <3>1, <3>3
  <2>4. Rec(h, n + 1)
    <3>1. h = [s \in Small(n + 1) |-> h[s]]
      OBVIOUS
    <3> HIDE DEF h, Small
    <3> QED
      BY <2>3, <3>1
  <2> HIDE DEF h, Rec
  <2>5. \E g2 : Rec(g2, n + 1)
    BY <2>4
  <2> QED
    BY <2>2, <2>5 DEF N
<1>4. Cardinality(D) \in N
  <2>1. N \in SUBSET Nat
    OBVIOUS
  <2>2. Cardinality(D) \in Nat
    BY <1>1
  <2> HIDE DEF N
  <2> QED
    BY <1>2, <1>3, <2>1, <2>2, Induct
<1>5. SUBSET D = Small(Cardinality(D))
  BY FS_Subset
<1>6. PICK g : Rec(g, Cardinality(D))
  BY <1>4
<1> HIDE DEF Small
<1> QED
  BY <1>5, <1>6

LEMMA SumDef ==
  ASSUME NEW f, IsFiniteSet(DOMAIN f)
  PROVE  \E g : /\ \A s \in SUBSET (DOMAIN f) : g[s] = SumStep(f, g, s)
                /\ SumFunction(f) = g[DOMAIN f]
<1> DEFINE Rec(g) == g = [s \in SUBSET (DOMAIN f) |->
                            IF s = {} THEN 0
                            ELSE LET x == CHOOSE x \in s : TRUE IN f[x] + g[s \ {x}]]
           F == CHOOSE g : Rec(g)
<1>1. \E g : Rec(g)
  <2>1. PICK g : g = [s \in SUBSET (DOMAIN f) |-> SumStep(f, g, s)]
    BY SumExists
  <2>2. Rec(g)
    BY <2>1, Zenon DEF SumStep
  <2> QED
    BY <2>2
<1>2. Rec(F)
  BY <1>1, Zenon
<1>3. SumFunction(f) = F[DOMAIN f]
  BY DEF SumFunction, SumFunctionOnSet, FoldFunctionOnSet, MapThenFoldSet
<1>4. ASSUME NEW s \in SUBSET (DOMAIN f) PROVE F[s] = SumStep(f, F, s)
  <2> HIDE DEF F
  <2> QED
    BY <1>2 DEF SumStep
<1> HIDE DEF F
<1> QED
  BY <1>3, <1>4

(* Induction over the subsets of a finite set, an element more at a time.  *)
LEMMA InductSubsets ==
  ASSUME NEW D, IsFiniteSet(D), NEW P \in SUBSET (SUBSET D), {} \in P,
         \A s \in SUBSET D : s # {} /\ (\A x \in s : s \ {x} \in P) => s \in P
  PROVE  P = SUBSET D
<1> DEFINE N == {n \in Nat : \A s \in SUBSET D : Cardinality(s) = n => s \in P}
<1>1. ASSUME NEW s \in SUBSET D PROVE IsFiniteSet(s) /\ Cardinality(s) \in Nat
  BY FS_Subset, FS_CardinalityType
<1>2. 0 \in N
  <2>1. ASSUME NEW s \in SUBSET D, Cardinality(s) = 0 PROVE s \in P
    <3>1. s = {}
      BY <1>1, <2>1, FS_EmptySet
    <3> QED
      BY <3>1
  <2> QED
    BY <2>1
<1>3. ASSUME NEW n \in N PROVE n + 1 \in N
  <2>1. n \in Nat /\ \A r \in SUBSET D : Cardinality(r) = n => r \in P
    OBVIOUS
  <2>2. ASSUME NEW s \in SUBSET D, Cardinality(s) = n + 1 PROVE s \in P
    <3> HIDE DEF N
    <3>0. IsFiniteSet(s) /\ Cardinality(s) \in Nat
      BY <1>1
    <3>1. ASSUME NEW x \in s PROVE s \ {x} \in P
      <4>1. Cardinality(s \ {x}) = Cardinality(s) - 1
        BY <3>0, FS_RemoveElement
      <4>2. Cardinality(s \ {x}) = n /\ s \ {x} \in SUBSET D
        BY <2>1, <2>2, <3>0, <4>1
      <4> QED
        BY <2>1, <4>2
    <3>2. s # {}
      <4>1. Cardinality({}) = 0
        BY FS_EmptySet
      <4> QED
        BY <2>1, <2>2, <4>1
    <3> QED
      BY <3>1, <3>2
  <2>3. n + 1 \in Nat
    BY <2>1
  <2> QED
    BY <2>2, <2>3
<1>4. N = Nat
  <2>1. N \in SUBSET Nat
    OBVIOUS
  <2> HIDE DEF N
  <2> QED
    BY <1>2, <1>3, <2>1, Induct
<1>5. ASSUME NEW s \in SUBSET D PROVE s \in P
  <2>1. Cardinality(s) \in N
    <3>1. Cardinality(s) \in Nat
      BY <1>1
    <3> HIDE DEF N
    <3> QED
      BY <1>4, <3>1
  <2> QED
    BY <2>1
<1> QED
  BY <1>5

(* F gives the sum over each subset of D, whichever element comes first.   *)
Sums(F, f, D) ==
  /\ F \in [SUBSET D -> Nat]
  /\ F[{}] = 0
  /\ \A s \in SUBSET D : \A x \in s : F[s] = f[x] + F[s \ {x}]

LEMMA SumSums ==
  ASSUME NEW D, IsFiniteSet(D), NEW f \in [D -> Nat]
  PROVE  \E F : Sums(F, f, D) /\ SumFunction(f) = F[D]
<1>1. PICK g : /\ \A s \in SUBSET D : g[s] = SumStep(f, g, s)
               /\ SumFunction(f) = g[D]
  BY SumDef
<1>3. g[{}] = 0
  BY <1>1 DEF SumStep
<1> DEFINE Right(s) == g[s] \in Nat /\ \A x \in s : g[s] = f[x] + g[s \ {x}]
           P == {s \in SUBSET D : \A r \in SUBSET s : Right(r)}
<1>4. {} \in P
  BY <1>3
<1>5. ASSUME NEW s \in SUBSET D, s # {}, \A x \in s : s \ {x} \in P PROVE s \in P
  <2>1. ASSUME NEW x \in s, NEW r \in SUBSET (s \ {x}) PROVE Right(r)
    BY <1>5, <2>1
  <2> HIDE DEF P, Right
  <2>2. ASSUME NEW x \in s PROVE Right(s \ {x})
    BY <2>1
  <2>3. PICK c \in s : g[s] = f[c] + g[s \ {c}]
    <3>1. g[s] = SumStep(f, g, s)
      BY <1>1
    <3>2. (CHOOSE x \in s : TRUE) \in s
      BY <1>5
    <3> QED
      BY <1>5, <3>1, <3>2 DEF SumStep
  <2>4. ASSUME NEW x \in s PROVE g[s \ {x}] \in Nat
    BY <2>2 DEF Right
  <2>5. g[s] \in Nat
    <3>1. f[c] \in Nat /\ g[s \ {c}] \in Nat
      BY <2>4
    <3> QED
      BY <2>3, <3>1
  <2>6. ASSUME NEW x \in s PROVE g[s] = f[x] + g[s \ {x}]
    <3>1. CASE x = c
      BY <2>3, <3>1
    <3>2. CASE x # c
      <4> DEFINE rest == (s \ {c}) \ {x}
      <4>1. g[s \ {c}] = f[x] + g[rest]
        BY <2>2, <3>2 DEF Right
      <4>2. g[s \ {x}] = f[c] + g[(s \ {x}) \ {c}]
        BY <2>2, <3>2 DEF Right
      <4>3. (s \ {x}) \ {c} = rest
        OBVIOUS
      <4>4. g[rest] \in Nat
        <5>1. rest \in SUBSET (s \ {c})
          OBVIOUS
        <5> HIDE DEF rest
        <5>2. Right(rest)
          BY <2>1, <5>1
        <5> QED
          BY <5>2 DEF Right
      <4>5. f[x] \in Nat /\ f[c] \in Nat
        OBVIOUS
      <4> HIDE DEF rest, P, Right
      <4>6. g[s \ {x}] = f[c] + g[rest]
        BY <4>2, <4>3
      <4>7. \A i, j, r, a, b, t \in Int :
               t = j + a /\ a = i + r /\ b = j + r => t = i + b
        OBVIOUS
      <4>8. g[s \ {c}] \in Nat /\ g[s \ {x}] \in Nat
        BY <2>4
      <4> QED
        BY <2>3, <2>5, <4>1, <4>4, <4>5, <4>6, <4>7, <4>8
    <3> QED
      BY <3>1, <3>2
  <2>7. Right(s)
    BY <2>5, <2>6 DEF Right
  <2>8. ASSUME NEW r \in SUBSET s PROVE Right(r)
    <3>1. CASE r = s
      BY <2>7, <3>1
    <3>2. CASE r # s
      <4>1. PICK x \in s : r \in SUBSET (s \ {x})
        BY <3>2
      <4> QED
        BY <2>1, <4>1
    <3> QED
      BY <3>1, <3>2
  <2> QED
    BY <2>8 DEF P
<1>6. P = SUBSET D
  <2>1. P \in SUBSET (SUBSET D)
    OBVIOUS
  <2> HIDE DEF P
  <2> QED
    BY <1>4, <1>5, <2>1, InductSubsets
<1>7. ASSUME NEW s \in SUBSET D PROVE Right(s)
  <2>1. s \in P
    BY <1>6
  <2> QED
    BY <2>1
<1> DEFINE F == [s \in SUBSET D |-> g[s]]
<1>8. Sums(F, f, D) /\ SumFunction(f) = F[D]
  <2>1. \A s \in SUBSET D : \A x \in s : F[s] = f[x] + F[s \ {x}]
    BY <1>7
  <2>2. F \in [SUBSET D -> Nat]
    BY <1>7
  <2>3. F[{}] = 0
    BY <1>3
  <2>4. SumFunction(f) = F[D]
    BY <1>1
  <2> HIDE DEF F
  <2> QED
    BY <2>1, <2>2, <2>3, <2>4 DEF Sums
<1> HIDE DEF F
<1> QED
  BY <1>8

(* The sum over a subset is the same for functions that agree there.       *)
LEMMA SumsAgree ==
  ASSUME NEW D, IsFiniteSet(D), NEW S \in SUBSET D, NEW f \in [D -> Nat], NEW e \in [S -> Nat],
         \A x \in S : e[x] = f[x],
         NEW F, Sums(F, f, D), NEW E, Sums(E, e, S)
  PROVE  E[S] = F[S]
<1> DEFINE P == {s \in SUBSET S : E[s] = F[s]}
<1>1. IsFiniteSet(S)
  BY FS_Subset
<1>2. {} \in P
  BY DEF Sums
<1>3. ASSUME NEW s \in SUBSET S, s # {}, \A x \in s : s \ {x} \in P PROVE s \in P
  <2>1. PICK x : x \in s
    BY <1>3
  <2>2. E[s \ {x}] = F[s \ {x}]
    BY <1>3, <2>1
  <2>3. E[s] = e[x] + E[s \ {x}] /\ F[s] = f[x] + F[s \ {x}]
    BY <2>1 DEF Sums
  <2>4. e[x] = f[x]
    BY <2>1
  <2> QED
    BY <2>2, <2>3, <2>4
<1>4. P = SUBSET S
  <2>1. P \in SUBSET (SUBSET S)
    OBVIOUS
  <2> HIDE DEF P
  <2> QED
    BY <1>1, <1>2, <1>3, <2>1, InductSubsets
<1>5. S \in P
  BY <1>4
<1> QED
  BY <1>5

(* What is left out of the sum is 0.                                       *)
LEMMA SumsRest ==
  ASSUME NEW D, IsFiniteSet(D), NEW f \in [D -> Nat], NEW F, Sums(F, f, D),
         NEW S \in SUBSET D, \A x \in D \ S : f[x] = 0
  PROVE  F[D] = F[S]
<1> DEFINE P == {s \in SUBSET (D \ S) : F[S \cup s] = F[S]}
<1>1. IsFiniteSet(D \ S)
  BY FS_Subset
<1>2. {} \in P
  OBVIOUS
<1>3. ASSUME NEW s \in SUBSET (D \ S), s # {}, \A x \in s : s \ {x} \in P PROVE s \in P
  <2>1. PICK x : x \in s
    BY <1>3
  <2>2. F[S \cup (s \ {x})] = F[S]
    BY <1>3, <2>1
  <2>3. (S \cup s) \ {x} = S \cup (s \ {x}) /\ S \cup s \in SUBSET D /\ x \in S \cup s
    BY <2>1
  <2>4. F[S \cup s] = f[x] + F[(S \cup s) \ {x}]
    BY <2>3 DEF Sums
  <2>5. f[x] = 0 /\ F[S] \in Nat
    BY <2>1 DEF Sums
  <2>6. F[S \cup s] = F[S]
    BY <2>2, <2>3, <2>4, <2>5
  <2> QED
    BY <2>6
<1>4. P = SUBSET (D \ S)
  <2>1. P \in SUBSET (SUBSET (D \ S))
    OBVIOUS
  <2> HIDE DEF P
  <2> QED
    BY <1>1, <1>2, <1>3, <2>1, InductSubsets
<1>5. D \ S \in P
  BY <1>4
<1>6. S \cup (D \ S) = D
  OBVIOUS
<1> QED
  BY <1>5, <1>6

(* A sum of natural numbers is one; one element can be taken out of it,    *)
(* and so can everything that is 0.                                        *)
LEMMA SumType ==
  ASSUME NEW D, IsFiniteSet(D), NEW f \in [D -> Nat]
  PROVE  SumFunction(f) \in Nat
<1>1. PICK F : Sums(F, f, D) /\ SumFunction(f) = F[D]
  BY SumSums
<1> QED
  BY <1>1 DEF Sums

LEMMA SumEmpty ==
  ASSUME NEW f, DOMAIN f = {}
  PROVE  SumFunction(f) = 0
<1>1. IsFiniteSet({})
  BY FS_EmptySet
<1> QED
  BY <1>1, SumDef DEF SumStep

LEMMA SumPeel ==
  ASSUME NEW D, IsFiniteSet(D), NEW f \in [D -> Nat], NEW x \in D
  PROVE  SumFunction(f) = f[x] + SumFunction([y \in D \ {x} |-> f[y]])
<1> DEFINE S == D \ {x}
           e == [y \in S |-> f[y]]
<1>1. PICK F : Sums(F, f, D) /\ SumFunction(f) = F[D]
  BY SumSums
<1>2. e \in [S -> Nat] /\ IsFiniteSet(S) /\ S \in SUBSET D
  BY FS_Subset
<1>3. \A y \in S : e[y] = f[y]
  OBVIOUS
<1>4. F[D] = f[x] + F[S]
  BY <1>1 DEF Sums
<1> HIDE DEF S, e
<1>5. PICK E : Sums(E, e, S) /\ SumFunction(e) = E[S]
  BY <1>2, SumSums
<1>6. E[S] = F[S]
  BY <1>1, <1>2, <1>3, <1>5, SumsAgree
<1>7. SumFunction(f) = f[x] + SumFunction(e)
  BY <1>1, <1>4, <1>5, <1>6
<1> QED
  BY <1>7 DEF S, e

LEMMA SumWithin ==
  ASSUME NEW D, IsFiniteSet(D), NEW f \in [D -> Nat],
         NEW S \in SUBSET D, \A x \in D \ S : f[x] = 0
  PROVE  SumFunction(f) = SumFunction([y \in S |-> f[y]])
<1> DEFINE e == [y \in S |-> f[y]]
<1>1. PICK F : Sums(F, f, D) /\ SumFunction(f) = F[D]
  BY SumSums
<1>2. e \in [S -> Nat] /\ IsFiniteSet(S)
  BY FS_Subset
<1>3. \A y \in S : e[y] = f[y]
  OBVIOUS
<1>4. F[D] = F[S]
  BY <1>1, SumsRest
<1> HIDE DEF e
<1>5. PICK E : Sums(E, e, S) /\ SumFunction(e) = E[S]
  BY <1>2, SumSums
<1>6. E[S] = F[S]
  BY <1>1, <1>2, <1>3, <1>5, SumsAgree
<1>7. SumFunction(f) = SumFunction(e)
  BY <1>1, <1>4, <1>5, <1>6
<1> QED
  BY <1>7 DEF e

-----------------------------------------------------------------------------
(* Structures                                                              *)

(* A structure decoded without an error has every member that is required, *)
(* and none of those it has was decoded with an error.                     *)
LEMMA StructureComplete ==
  ASSUME NEW required, NEW fields, ~Structure(required, fields).error
  PROVE  /\ required \subseteq DOMAIN Structure(required, fields).value
         /\ \A m \in DOMAIN Structure(required, fields).value :
              /\ m \in DOMAIN fields /\ fields[m].set /\ ~fields[m].error
              /\ Structure(required, fields).value[m] = fields[m].value
<1> DEFINE valid == {m \in DOMAIN fields : fields[m].set}
<1>1. ~(~(required \subseteq valid) \/ \E m \in valid : fields[m].error)
  BY Zenon DEF Structure
<1>2. Structure(required, fields).value = [m \in valid |-> fields[m].value]
  BY DEF Structure
<1> QED
  BY <1>1, <1>2

(* The members that are not required may be missing, but nothing else.     *)
LEMMA IdentifierDecoded ==
  ASSUME NEW json, ~decode_text_document_identifier(json).error
  PROVE  "uri" \in DOMAIN decode_text_document_identifier(json).value
BY StructureComplete DEF decode_text_document_identifier, TEXT_DOCUMENT_IDENTIFIER_FIELD_REQUIRED

LEMMA PositionDecoded ==
  ASSUME NEW json, ~decode_position(json).error
  PROVE  {"line", "character"} \subseteq DOMAIN decode_position(json).value
BY StructureComplete DEF decode_position, POSITION_FIELD_REQUIRED

LEMMA RangeDecoded ==
  ASSUME NEW json, ~decode_range(json).error
  PROVE  \A end \in {"start", "end"} :
           /\ end \in DOMAIN decode_range(json).value
           /\ {"line", "character"} \subseteq DOMAIN decode_range(json).value[end]
<1> DEFINE fields == [start |-> ObjectField(json, "start", decode_position),
                      end |-> ObjectField(json, "end", decode_position)]
           range == Structure(RANGE_FIELD_REQUIRED, fields)
<1>1. decode_range(json) = range
  BY DEF decode_range
<1> HIDE DEF fields
<1>2. /\ RANGE_FIELD_REQUIRED \subseteq DOMAIN range.value
      /\ \A m \in DOMAIN range.value :
           fields[m].set /\ ~fields[m].error /\ range.value[m] = fields[m].value
  BY <1>1, StructureComplete
<1>3. TAKE end \in {"start", "end"}
<1>4. end \in DOMAIN range.value
  BY <1>2 DEF RANGE_FIELD_REQUIRED
<1>5. fields[end] = ObjectField(json, end, decode_position)
  BY <1>3 DEF fields
<1>6. /\ ~decode_position(json_object_get(json, end)).error
      /\ range.value[end] = decode_position(json_object_get(json, end)).value
  BY <1>2, <1>4, <1>5 DEF ObjectField, Field, Unset
<1> QED
  BY <1>1, <1>4, <1>6, PositionDecoded

(* A structure that requires a document has its URI.                       *)
LEMMA DocumentDecoded ==
  ASSUME NEW json, NEW required, NEW fields, "text_document" \in required,
         fields["text_document"] =
           ObjectField(json, "textDocument", decode_text_document_identifier),
         ~Structure(required, fields).error
  PROVE  Decoded(Structure(required, fields).value, <<"text_document", "uri">>)
<1> DEFINE value == Structure(required, fields).value
<1>1. /\ "text_document" \in DOMAIN value
      /\ fields["text_document"].set /\ ~fields["text_document"].error
      /\ value["text_document"] = fields["text_document"].value
  BY StructureComplete
<1>2. /\ ~decode_text_document_identifier(json_object_get(json, "textDocument")).error
      /\ value["text_document"] =
           decode_text_document_identifier(json_object_get(json, "textDocument")).value
  BY <1>1 DEF ObjectField, Field, Unset
<1> QED
  BY <1>1, <1>2, IdentifierDecoded DEF Decoded

-----------------------------------------------------------------------------
(* The params of each request                                              *)

LEMMA PositionParamsDecoded ==
  ASSUME NEW json, ~decode_text_document_position_params(json).error
  PROVE  \A path \in PositionReads :
           Decoded(decode_text_document_position_params(json).value, path)
<1> DEFINE fields ==
             [text_document |->
                ObjectField(json, "textDocument", decode_text_document_identifier),
              position |-> ObjectField(json, "position", decode_position)]
           params == Structure(TEXT_DOCUMENT_POSITION_PARAMS_FIELD_REQUIRED, fields)
<1>1. decode_text_document_position_params(json) = params
  BY DEF decode_text_document_position_params
<1>2. /\ fields["text_document"] =
           ObjectField(json, "textDocument", decode_text_document_identifier)
      /\ fields["position"] = ObjectField(json, "position", decode_position)
  OBVIOUS
<1> HIDE DEF fields
<1>3. Decoded(params.value, <<"text_document", "uri">>)
  BY <1>1, <1>2, DocumentDecoded DEF TEXT_DOCUMENT_POSITION_PARAMS_FIELD_REQUIRED
<1>4. /\ "position" \in DOMAIN params.value
      /\ fields["position"].set /\ ~fields["position"].error
      /\ params.value["position"] = fields["position"].value
  BY <1>1, StructureComplete DEF TEXT_DOCUMENT_POSITION_PARAMS_FIELD_REQUIRED
<1>5. /\ ~decode_position(json_object_get(json, "position")).error
      /\ params.value["position"] =
           decode_position(json_object_get(json, "position")).value
  BY <1>2, <1>4 DEF ObjectField, Field, Unset
<1>6. {"line", "character"} \subseteq DOMAIN params.value["position"]
  BY <1>5, PositionDecoded
<1>7. \A member \in {"line", "character"} : Decoded(params.value, <<"position", member>>)
  BY <1>4, <1>6 DEF Decoded
<1> QED
  BY <1>1, <1>3, <1>7 DEF PositionReads

LEMMA DocumentSymbolParamsDecoded ==
  ASSUME NEW json, ~decode_document_symbol_params(json).error
  PROVE  Decoded(decode_document_symbol_params(json).value, <<"text_document", "uri">>)
BY DocumentDecoded
DEF decode_document_symbol_params, DOCUMENT_SYMBOL_PARAMS_FIELD_REQUIRED

LEMMA CodeActionParamsDecoded ==
  ASSUME NEW json, ~decode_code_action_params(json).error
  PROVE  \A path \in Reads["codeAction"] :
           Decoded(decode_code_action_params(json).value, path)
<1> DEFINE fields ==
             [text_document |->
                ObjectField(json, "textDocument", decode_text_document_identifier),
              range |-> ObjectField(json, "range", decode_range),
              context |-> ObjectField(json, "context", decode_code_action_context)]
           params == Structure(CODE_ACTION_PARAMS_FIELD_REQUIRED, fields)
<1>1. decode_code_action_params(json) = params
  BY DEF decode_code_action_params
<1>2. /\ fields["text_document"] =
           ObjectField(json, "textDocument", decode_text_document_identifier)
      /\ fields["range"] = ObjectField(json, "range", decode_range)
  OBVIOUS
<1> HIDE DEF fields
<1>3. Decoded(params.value, <<"text_document", "uri">>)
  BY <1>1, <1>2, DocumentDecoded DEF CODE_ACTION_PARAMS_FIELD_REQUIRED
<1>4. /\ "range" \in DOMAIN params.value
      /\ fields["range"].set /\ ~fields["range"].error
      /\ params.value["range"] = fields["range"].value
  BY <1>1, StructureComplete DEF CODE_ACTION_PARAMS_FIELD_REQUIRED
<1>5. /\ ~decode_range(json_object_get(json, "range")).error
      /\ params.value["range"] = decode_range(json_object_get(json, "range")).value
  BY <1>2, <1>4 DEF ObjectField, Field, Unset
<1>6. \A end \in {"start", "end"}, member \in {"line", "character"} :
        Decoded(params.value, <<"range", end, member>>)
  BY <1>4, <1>5, RangeDecoded DEF Decoded
<1>7. Reads["codeAction"] =
        {<<"text_document", "uri">>,
         <<"range", "start", "line">>, <<"range", "start", "character">>,
         <<"range", "end", "line">>, <<"range", "end", "character">>}
  BY DEF Reads, Requests
<1> QED
  BY <1>1, <1>3, <1>6, <1>7

(* The databases lie two structures down, in members that may be missing.  *)
LEMMA InitializeParamsDecoded ==
  ASSUME NEW json, ~decode_initialize_params(json).error
  PROVE  LET databases == Databases(decode_initialize_params(json).value)
         IN  \A i \in DOMAIN databases : "path" \in DOMAIN databases[i]
<1> DEFINE value == decode_initialize_params(json).value
           inner == json_object_get(json, "initializationOptions")
           options == decode_initialization_options(inner)
           items == Payload(json_object_get(inner, "compilationDatabase"))
<1>1. SUFFICES ASSUME "initialization_options" \in DOMAIN value,
                      "compilation_database" \in DOMAIN value.initialization_options,
                      NEW i \in DOMAIN value.initialization_options.compilation_database
               PROVE  "path" \in
                        DOMAIN value.initialization_options.compilation_database[i]
  BY DEF Databases
<1>2. value["initialization_options"] = options.value /\ ~options.error
  <2>1. /\ ObjectField(json, "initializationOptions", decode_initialization_options).set
        /\ ~ObjectField(json, "initializationOptions", decode_initialization_options).error
        /\ value["initialization_options"] =
             ObjectField(json, "initializationOptions", decode_initialization_options).value
    BY <1>1, StructureComplete DEF decode_initialize_params
  <2> QED
    BY <2>1 DEF ObjectField, Field, Unset
<1>3. LET field == ArrayField(inner, "compilationDatabase", decode_compilation_database_params)
      IN  /\ field.set /\ ~field.error
          /\ options.value["compilation_database"] = field.value
  BY <1>1, <1>2, StructureComplete DEF decode_initialization_options
<1>4. /\ options.value["compilation_database"] =
           [n \in DOMAIN items |-> decode_compilation_database_params(items[n]).value]
      /\ \A n \in DOMAIN items : ~decode_compilation_database_params(items[n]).error
  BY <1>3 DEF ArrayField, Field, Unset
<1>5. \A n \in DOMAIN items : "path" \in DOMAIN decode_compilation_database_params(items[n]).value
  BY <1>4, StructureComplete
  DEF decode_compilation_database_params, COMPILATION_DATABASE_PARAMS_FIELD_REQUIRED
<1> QED
  BY <1>1, <1>2, <1>4, <1>5

-----------------------------------------------------------------------------
(* Messages                                                                *)

(* What a step hands over is the decoded params, and only those of a       *)
(* notification may have an error.                                         *)
LEMMA HandedWhole ==
  ASSUME NEW method, NEW params, NEW released, HandOver(method, params, released),
         last'.handed # Nothing
  PROVE  last'.method = method /\ last'.handed[1] = params.value /\ ~params.error
BY DEF HandOver, Raised

LEMMA PositionRequest ==
  ASSUME NEW method \in {"completion", "signatureHelp", "definition", "hover"}, NEW json,
         NEW released,
         HandOver(method, decode_text_document_position_params(json), released)
  PROVE  RequestReadsDecoded'
<1>1. Reads[method] = PositionReads /\ method # "initialize"
  BY DEF Reads, Requests
<1>2. last'.method = method
  BY DEF HandOver
<1> QED
  BY <1>1, <1>2, HandedWhole, PositionParamsDecoded DEF RequestReadsDecoded

LEMMA NotificationStep ==
  ASSUME NEW method \in Notifications, NEW params, NEW released,
         Notify(method, params, released)
  PROVE  RequestReadsDecoded'
BY DEF Notify, RequestReadsDecoded, Notifications, Requests

LEMMA StepReadsDecoded ==
  ASSUME RequestReadsDecoded, [Next]_vars
  PROVE  RequestReadsDecoded'
<1>1. CASE UNCHANGED vars
  BY <1>1 DEF RequestReadsDecoded, vars
<1>2. CASE Await
  BY <1>2 DEF Await, NoMessage, RequestReadsDecoded, Requests
<1>3. ASSUME NEW json, request_handler_initialize(json)
      PROVE  RequestReadsDecoded'
  <2>1. last'.method = "initialize" /\ Reads["initialize"] = {}
    BY <1>3 DEF request_handler_initialize, HandOver, Reads, Requests
  <2> QED
    BY <1>3, <2>1, HandedWhole, InitializeParamsDecoded
    DEF request_handler_initialize, RequestReadsDecoded
<1>4. ASSUME NEW json, request_handler_text_document_document_symbol(json)
      PROVE  RequestReadsDecoded'
  <2>1. /\ last'.method = "documentSymbol"
        /\ Reads["documentSymbol"] = {<<"text_document", "uri">>}
    BY <1>4 DEF request_handler_text_document_document_symbol, HandOver, Reads, Requests
  <2> QED
    BY <1>4, <2>1, HandedWhole, DocumentSymbolParamsDecoded
    DEF request_handler_text_document_document_symbol, RequestReadsDecoded
<1>5. ASSUME NEW json, request_handler_text_document_code_action(json)
      PROVE  RequestReadsDecoded'
  <2>1. last'.method = "codeAction"
    BY <1>5 DEF request_handler_text_document_code_action, HandOver
  <2> QED
    BY <1>5, <2>1, HandedWhole, CodeActionParamsDecoded
    DEF request_handler_text_document_code_action, RequestReadsDecoded
<1>6. ASSUME NEW json,
             \/ request_handler_text_document_completion(json)
             \/ request_handler_text_document_signature_help(json)
             \/ request_handler_text_document_definition(json)
             \/ request_handler_text_document_hover(json)
      PROVE  RequestReadsDecoded'
  BY <1>6, PositionRequest
  DEF request_handler_text_document_completion, request_handler_text_document_signature_help,
      request_handler_text_document_definition, request_handler_text_document_hover
<1>7. ASSUME NEW json,
             \/ notification_handler_text_document_did_open(json)
             \/ notification_handler_text_document_did_change(json)
             \/ notification_handler_text_document_did_save(json)
             \/ notification_handler_text_document_did_close(json)
      PROVE  RequestReadsDecoded'
  BY <1>7, NotificationStep
  DEF notification_handler_text_document_did_open,
      notification_handler_text_document_did_change,
      notification_handler_text_document_did_save,
      notification_handler_text_document_did_close, Notifications
<1> QED
  BY <1>1, <1>2, <1>3, <1>4, <1>5, <1>6, <1>7 DEF Next

(* A request handler (command_handler.c 131-452) is never handed params in *)
(* which a member it reads unseen was not decoded, whatever JSON the       *)
(* client sends and whatever error an earlier message has left.            *)
THEOREM RequestsReadDecoded == Spec => []RequestReadsDecoded
<1>1. Init => RequestReadsDecoded
  BY DEF Init, NoMessage, RequestReadsDecoded, Requests
<1> QED
  BY <1>1, StepReadsDecoded, PTL DEF Spec

-----------------------------------------------------------------------------
(* What is allocated and released                                         *)

(* The fields a structure is made of: a member that was not decoded        *)
(* allocated nothing.                                                      *)
FieldOK(field) ==
  /\ field.set \in BOOLEAN
  /\ field.heap \in Nat
  /\ ~field.set => field.heap = 0
FieldsOK(fields) ==
  /\ IsFiniteSet(DOMAIN fields)
  /\ \A m \in DOMAIN fields : FieldOK(fields[m])

(* The blocks a structure allocates are those of the members that may      *)
(* allocate any.                                                           *)
LEMMA StructureHeap ==
  ASSUME NEW required, NEW fields, FieldsOK(fields), NEW S \in SUBSET (DOMAIN fields),
         \A m \in DOMAIN fields \ S : fields[m].heap = 0
  PROVE  Structure(required, fields).heap = SumFunction([m \in S |-> fields[m].heap])
<1> DEFINE D == DOMAIN fields
           valid == {m \in D : fields[m].set}
           f == [m \in D |-> fields[m].heap]
<1>1. IsFiniteSet(D) /\ f \in [D -> Nat]
  BY DEF FieldsOK, FieldOK
<1>2. \A m \in D \ valid : f[m] = 0
  BY DEF FieldsOK, FieldOK
<1>3. \A m \in D \ S : f[m] = 0
  OBVIOUS
<1>4. [m \in valid |-> f[m]] = [m \in valid |-> fields[m].heap]
      /\ [m \in S |-> f[m]] = [m \in S |-> fields[m].heap]
  OBVIOUS
<1>5. Structure(required, fields).heap = SumFunction([m \in valid |-> fields[m].heap])
  BY DEF Structure
<1>6. valid \in SUBSET D /\ S \in SUBSET D
  OBVIOUS
<1> HIDE DEF D, valid, f
<1>7. SumFunction(f) = SumFunction([m \in valid |-> f[m]])
  BY <1>1, <1>2, <1>6, SumWithin
<1>8. SumFunction(f) = SumFunction([m \in S |-> f[m]])
  BY <1>1, <1>3, <1>6, SumWithin
<1> QED
  BY <1>4, <1>5, <1>7, <1>8

LEMMA StructureNone ==
  ASSUME NEW required, NEW fields, FieldsOK(fields),
         \A m \in DOMAIN fields : fields[m].heap = 0
  PROVE  Structure(required, fields).heap = 0
<1>1. Structure(required, fields).heap = SumFunction([m \in {} |-> fields[m].heap])
  BY StructureHeap
<1>2. DOMAIN [m \in {} |-> fields[m].heap] = {}
  OBVIOUS
<1> QED
  BY <1>1, <1>2, SumEmpty

(* One more of them.                                                       *)
LEMMA HeapPeel ==
  ASSUME NEW fields, FieldsOK(fields), NEW S \in SUBSET (DOMAIN fields), NEW a \in S,
         NEW T, T = S \ {a}
  PROVE  /\ SumFunction([m \in S |-> fields[m].heap])
              = fields[a].heap + SumFunction([m \in T |-> fields[m].heap])
         /\ fields[a].heap \in Nat
<1> DEFINE f == [m \in S |-> fields[m].heap]
<1>1. IsFiniteSet(S) /\ f \in [S -> Nat]
  BY FS_Subset DEF FieldsOK, FieldOK
<1>2. [m \in S \ {a} |-> f[m]] = [m \in S \ {a} |-> fields[m].heap] /\ f[a] = fields[a].heap
  OBVIOUS
<1>3. f[a] \in Nat
  BY <1>1
<1> HIDE DEF f
<1>4. SumFunction(f) = f[a] + SumFunction([m \in S \ {a} |-> f[m]])
  BY <1>1, SumPeel
<1>5. SumFunction(f) = fields[a].heap + SumFunction([m \in S \ {a} |-> fields[m].heap])
  BY <1>2, <1>4
<1> QED
  BY <1>2, <1>3, <1>5 DEF f

LEMMA HeapOne ==
  ASSUME NEW fields, FieldsOK(fields), NEW a \in DOMAIN fields
  PROVE  /\ SumFunction([m \in {a} |-> fields[m].heap]) = fields[a].heap
         /\ fields[a].heap \in Nat
<1>1. {a} \in SUBSET (DOMAIN fields) /\ a \in {a} /\ {a} \ {a} = {}
  OBVIOUS
<1>2. SumFunction([m \in {} |-> fields[m].heap]) = 0
  <2>1. DOMAIN [m \in {} |-> fields[m].heap] = {}
    OBVIOUS
  <2> QED
    BY <2>1, SumEmpty
<1>3. /\ SumFunction([m \in {a} |-> fields[m].heap])
           = fields[a].heap + SumFunction([m \in {} |-> fields[m].heap])
      /\ fields[a].heap \in Nat
  BY <1>1, HeapPeel
<1> QED
  BY <1>2, <1>3

LEMMA HeapTwo ==
  ASSUME NEW fields, FieldsOK(fields), NEW a \in DOMAIN fields, NEW b \in DOMAIN fields, a # b
  PROVE  /\ SumFunction([m \in {a, b} |-> fields[m].heap]) = fields[a].heap + fields[b].heap
         /\ fields[a].heap \in Nat /\ fields[b].heap \in Nat
<1>1. {a, b} \in SUBSET (DOMAIN fields) /\ a \in {a, b} /\ {a, b} \ {a} = {b}
  OBVIOUS
<1>2. /\ SumFunction([m \in {a, b} |-> fields[m].heap])
           = fields[a].heap + SumFunction([m \in {b} |-> fields[m].heap])
      /\ fields[a].heap \in Nat
  BY <1>1, HeapPeel
<1> QED
  BY <1>2, HeapOne

LEMMA HeapThree ==
  ASSUME NEW fields, FieldsOK(fields), NEW a \in DOMAIN fields, NEW b \in DOMAIN fields,
         NEW c \in DOMAIN fields, a # b, a # c, b # c
  PROVE  /\ SumFunction([m \in {a, b, c} |-> fields[m].heap])
              = fields[a].heap + (fields[b].heap + fields[c].heap)
         /\ fields[a].heap \in Nat /\ fields[b].heap \in Nat /\ fields[c].heap \in Nat
<1>1. {a, b, c} \in SUBSET (DOMAIN fields) /\ a \in {a, b, c} /\ {a, b, c} \ {a} = {b, c}
  OBVIOUS
<1>2. /\ SumFunction([m \in {a, b, c} |-> fields[m].heap])
           = fields[a].heap + SumFunction([m \in {b, c} |-> fields[m].heap])
      /\ fields[a].heap \in Nat
  BY <1>1, HeapPeel
<1> QED
  BY <1>2, HeapTwo

LEMMA HeapFour ==
  ASSUME NEW fields, FieldsOK(fields), NEW a \in DOMAIN fields, NEW b \in DOMAIN fields,
         NEW c \in DOMAIN fields, NEW d \in DOMAIN fields,
         a \notin {b, c, d}, b # c, b # d, c # d
  PROVE  /\ SumFunction([m \in {a, b, c, d} |-> fields[m].heap])
              = fields[a].heap + (fields[b].heap + (fields[c].heap + fields[d].heap))
         /\ fields[a].heap \in Nat /\ fields[b].heap \in Nat
         /\ fields[c].heap \in Nat /\ fields[d].heap \in Nat
<1>1. PICK S : S = {a, b, c, d}
  OBVIOUS
<1>2. S \in SUBSET (DOMAIN fields) /\ a \in S /\ S \ {a} = {b, c, d}
  BY <1>1
<1>3. /\ SumFunction([m \in S |-> fields[m].heap])
           = fields[a].heap + SumFunction([m \in {b, c, d} |-> fields[m].heap])
      /\ fields[a].heap \in Nat
  BY <1>2, HeapPeel
<1> QED
  BY <1>1, <1>3, HeapThree

LEMMA HeapFive ==
  ASSUME NEW fields, FieldsOK(fields), NEW a \in DOMAIN fields, NEW b \in DOMAIN fields,
         NEW c \in DOMAIN fields, NEW d \in DOMAIN fields, NEW e \in DOMAIN fields,
         a \notin {b, c, d, e}, b \notin {c, d, e}, c # d, c # e, d # e,
         NEW S, S = {a, b, c, d, e}
  PROVE  /\ SumFunction([m \in S |-> fields[m].heap])
              = fields[a].heap + (fields[b].heap
                  + (fields[c].heap + (fields[d].heap + fields[e].heap)))
         /\ fields[a].heap \in Nat /\ fields[b].heap \in Nat /\ fields[c].heap \in Nat
         /\ fields[d].heap \in Nat /\ fields[e].heap \in Nat
<1>1. PICK T : T = {b, c, d, e}
  OBVIOUS
<1>2. S \in SUBSET (DOMAIN fields) /\ a \in S /\ T = S \ {a}
  BY <1>1
<1>3. /\ SumFunction([m \in S |-> fields[m].heap])
           = fields[a].heap + SumFunction([m \in T |-> fields[m].heap])
      /\ fields[a].heap \in Nat
  BY <1>2, HeapPeel
<1> QED
  BY <1>1, <1>3, HeapFour

(* What was decoded of a structure.                                        *)
LEMMA StructureValue ==
  ASSUME NEW required, NEW fields, NEW m \in DOMAIN fields
  PROVE  /\ m \in DOMAIN Structure(required, fields).value <=> fields[m].set
         /\ fields[m].set => Structure(required, fields).value[m] = fields[m].value
BY DEF Structure

(* What a decoder is called with: the params, or what is within them.      *)
Decodable == JsonValues \cup {Absent}

LEMMA GetType ==
  ASSUME NEW json \in Decodable, NEW name
  PROVE  json_object_get(json, name) \in Decodable
<1>1. CASE json \in JsonValues
  BY <1>1, JsonAssumption DEF Decodable, json_object_get, Parts, Kind, Payload, Range
<1>2. CASE json = Absent
  BY <1>2 DEF Decodable, json_object_get, Absent, Kind
<1> QED
  BY <1>1, <1>2 DEF Decodable

LEMMA ItemType ==
  ASSUME NEW json \in Decodable, Kind(json) = "array"
  PROVE  /\ Payload(json) \in Seq(JsonValues)
         /\ IsFiniteSet(DOMAIN Payload(json))
<1>1. json \in JsonValues
  BY DEF Decodable, Kind, Absent
<1> DEFINE R == Range(Payload(json))
<1>2. Payload(json) \in Seq(R)
  BY <1>1, JsonAssumption
<1>3. R \in SUBSET JsonValues
  BY <1>1, JsonAssumption DEF Parts
<1>4. Payload(json) \in Seq(JsonValues)
  <2> HIDE DEF R
  <2>1. PICK s : s = Payload(json)
    OBVIOUS
  <2>2. s \in Seq(R)
    BY <1>2, <2>1
  <2>3. s \in Seq(JsonValues)
    BY <1>3, <2>2
  <2> QED
    BY <2>1, <2>3
<1>5. DOMAIN Payload(json) = 1..Len(Payload(json)) /\ Len(Payload(json)) \in Nat
  BY <1>4
<1>6. IsFiniteSet(1..Len(Payload(json)))
  BY <1>5, FS_Interval
<1> QED
  BY <1>4, <1>5, <1>6

(* The fields that hold one block when they are set, and those that hold   *)
(* none.                                                                   *)
BlockField(field) == field.set \in BOOLEAN /\ field.heap = IF field.set THEN 1 ELSE 0
FlatField(field) == field.set \in BOOLEAN /\ field.heap = 0

LEMMA BlockFields ==
  ASSUME NEW json, NEW name
  PROVE  /\ BlockField(StringField(json, name))
         /\ BlockField(UriField(json, name))
         /\ BlockField(AnyField(json, name))
BY DEF BlockField, StringField, UriField, AnyField, Field, Unset

LEMMA FlatFields ==
  ASSUME NEW json, NEW name, NEW flags
  PROVE  /\ FlatField(NumberField(json, name))
         /\ FlatField(BooleanField(json, name))
         /\ FlatField(EnumField(json, name))
         /\ FlatField(GroupField(json, name, flags))
BY DEF FlatField, NumberField, BooleanField, EnumField, GroupField, Field, Unset

LEMMA FieldsAreOK ==
  ASSUME NEW field, BlockField(field) \/ FlatField(field)
  PROVE  FieldOK(field)
BY DEF BlockField, FlatField, FieldOK

(* The members a freer counts.                                             *)
One(value, m) == IF m \in DOMAIN value THEN 1 ELSE 0

LEMMA HeldOne ==
  ASSUME NEW value, NEW a
  PROVE  Held(value, {a}) = One(value, a)
<1>1. {a} \cap DOMAIN value = IF a \in DOMAIN value THEN {a} ELSE {}
  OBVIOUS
<1> QED
  BY <1>1, FS_EmptySet, FS_Singleton DEF Held, One

LEMMA HeldMore ==
  ASSUME NEW value, NEW a, NEW S, IsFiniteSet(S), a \notin S
  PROVE  /\ Held(value, S \cup {a}) = One(value, a) + Held(value, S)
         /\ Held(value, S) \in Nat
<1>1. PICK T : T = S \cap DOMAIN value
  OBVIOUS
<1>2. IsFiniteSet(T) /\ Cardinality(T) \in Nat /\ a \notin T
  BY <1>1, FS_Subset, FS_CardinalityType
<1>3. Held(value, S) = Cardinality(T)
  BY <1>1 DEF Held
<1>4. CASE a \in DOMAIN value
  <2>1. Cardinality(T \cup {a}) = Cardinality(T) + 1
    BY <1>2, FS_AddElement
  <2>2. (S \cup {a}) \cap DOMAIN value = T \cup {a}
    BY <1>1, <1>4
  <2>3. Held(value, S \cup {a}) = Cardinality(T \cup {a})
    BY <2>2 DEF Held
  <2> QED
    BY <1>2, <1>3, <1>4, <2>1, <2>3 DEF One
<1>5. CASE a \notin DOMAIN value
  <2>1. (S \cup {a}) \cap DOMAIN value = T
    BY <1>1, <1>5
  <2>2. Held(value, S \cup {a}) = Cardinality(T)
    BY <2>1 DEF Held
  <2> QED
    BY <1>2, <1>3, <1>5, <2>2 DEF One
<1> QED
  BY <1>4, <1>5

LEMMA HeldTwo ==
  ASSUME NEW value, NEW a, NEW b, a # b
  PROVE  Held(value, {a, b}) = One(value, a) + One(value, b)
<1>1. IsFiniteSet({b}) /\ {a, b} = {b} \cup {a}
  BY FS_Singleton
<1> QED
  BY <1>1, HeldMore, HeldOne

LEMMA HeldThree ==
  ASSUME NEW value, NEW a, NEW b, NEW c, a # b, a # c, b # c
  PROVE  Held(value, {a, b, c}) = One(value, a) + (One(value, b) + One(value, c))
<1>0. IsFiniteSet({b} \cup {c}) /\ {b} \cup {c} = {b, c}
  BY FS_Singleton, FS_AddElement
<1>1. IsFiniteSet({b, c}) /\ {a, b, c} = {b, c} \cup {a} /\ a \notin {b, c}
  BY <1>0
<1>2. Held(value, {a, b, c}) = One(value, a) + Held(value, {b, c})
  BY <1>1, HeldMore
<1> QED
  BY <1>2, HeldTwo

(* A member that holds one block is released when it was decoded.          *)
LEMMA OneMember ==
  ASSUME NEW required, NEW fields, NEW m \in DOMAIN fields, BlockField(fields[m])
  PROVE  One(Structure(required, fields).value, m) = fields[m].heap
BY StructureValue DEF One, BlockField

(* A structure is released as what was decoded of it, or as all zero.      *)
Taken(field) == IF field.set THEN field.value ELSE <<>>

LEMMA ObjectMember ==
  ASSUME NEW required, NEW fields, NEW m \in DOMAIN fields, FieldOK(fields[m])
  PROVE  Member(Structure(required, fields).value, m) = Taken(fields[m])
BY StructureValue DEF Member, FieldOK, Taken

LEMMA StringsFields ==
  ASSUME NEW json \in Decodable, NEW name
  PROVE  LET field == StringsField(json, name)
         IN  /\ FieldOK(field)
             /\ field.set => field.heap = 1 + Cardinality({i \in DOMAIN field.value :
                                                             field.value[i] # NULL})
<1> DEFINE member == json_object_get(json, name)
           texts == {i \in DOMAIN Payload(member) : Kind(Payload(member)[i]) = "string"}
           field == StringsField(json, name)
<1>1. CASE Kind(member) = "array"
  <2>1. Payload(member) \in Seq(JsonValues) /\ IsFiniteSet(DOMAIN Payload(member))
    BY <1>1, GetType, ItemType
  <2>2. IsFiniteSet(texts) /\ Cardinality(texts) \in Nat
    BY <2>1, FS_Subset, FS_CardinalityType
  <2> DEFINE value == [i \in DOMAIN Payload(member) |->
                         IF i \in texts THEN Payload(Payload(member)[i]) ELSE NULL]
  <2>3. field = [set |-> TRUE, value |-> value, error |-> FALSE,
                 heap |-> 1 + Cardinality(texts)]
    BY <1>1 DEF StringsField, Field
  <2>4. ASSUME NEW i \in texts PROVE Payload(Payload(member)[i]) # NULL
    <3>1. Payload(member)[i] \in JsonValues
      BY <2>1
    <3> QED
      BY <3>1, JsonAssumption
  <2>5. {i \in DOMAIN value : value[i] # NULL} = texts
    BY <2>4
  <2> HIDE DEF value, texts, field
  <2>6. field.set = TRUE /\ field.value = value /\ field.heap = 1 + Cardinality(texts)
    BY <2>3
  <2>7. FieldOK(field)
    <3>1. field.heap \in Nat
      BY <2>2, <2>6
    <3> QED
      BY <2>6, <3>1 DEF FieldOK
  <2>8. field.heap = 1 + Cardinality({i \in DOMAIN field.value : field.value[i] # NULL})
    BY <2>5, <2>6
  <2> QED
    BY <2>7, <2>8 DEF field
<1>2. CASE Kind(member) # "array"
  <2>1. field = Unset
    BY <1>2 DEF StringsField
  <2> QED
    BY <2>1 DEF Unset, FieldOK
<1> QED
  BY <1>1, <1>2

LEMMA StringsMember ==
  ASSUME NEW required, NEW fields, NEW m \in DOMAIN fields,
         NEW json \in Decodable, NEW name, fields[m] = StringsField(json, name)
  PROVE  Strings(Structure(required, fields).value, m) = fields[m].heap
<1> DEFINE field == StringsField(json, name)
<1>1. /\ FieldOK(field)
      /\ field.set => field.heap = 1 + Cardinality({i \in DOMAIN field.value :
                                                      field.value[i] # NULL})
  BY StringsFields
<1>2. /\ m \in DOMAIN Structure(required, fields).value <=> field.set
      /\ field.set => Structure(required, fields).value[m] = field.value
  BY StructureValue
<1> HIDE DEF field
<1> QED
  BY <1>1, <1>2 DEF Strings, FieldOK, field

(* A set of a few elements is finite.                                      *)
LEMMA FiniteOne == ASSUME NEW a PROVE IsFiniteSet({a})
BY FS_Singleton

LEMMA FiniteTwo ==
  ASSUME NEW a, NEW b
  PROVE  IsFiniteSet({a, b})
<1>1. PICK S, T : S = {a} /\ T = {a, b}
  OBVIOUS
<1>2. IsFiniteSet(S) /\ T = S \cup {b}
  BY <1>1, FiniteOne
<1> QED
  BY <1>1, <1>2, FS_AddElement

LEMMA FiniteThree ==
  ASSUME NEW a, NEW b, NEW c
  PROVE  IsFiniteSet({a, b, c})
<1>1. PICK S, T : S = {a, b} /\ T = {a, b, c}
  OBVIOUS
<1>2. IsFiniteSet(S) /\ T = S \cup {c}
  BY <1>1, FiniteTwo
<1> QED
  BY <1>1, <1>2, FS_AddElement

LEMMA FiniteFour ==
  ASSUME NEW a, NEW b, NEW c, NEW d
  PROVE  IsFiniteSet({a, b, c, d})
<1>1. PICK S, T : S = {a, b, c} /\ T = {a, b, c, d}
  OBVIOUS
<1>2. IsFiniteSet(S) /\ T = S \cup {d}
  BY <1>1, FiniteThree
<1> QED
  BY <1>1, <1>2, FS_AddElement

LEMMA FiniteFive ==
  ASSUME NEW a, NEW b, NEW c, NEW d, NEW e
  PROVE  IsFiniteSet({a, b, c, d, e})
<1>1. PICK S, T : S = {a, b, c, d} /\ T = {a, b, c, d, e}
  OBVIOUS
<1>2. IsFiniteSet(S) /\ T = S \cup {e}
  BY <1>1, FiniteFour
<1> QED
  BY <1>1, <1>2, FS_AddElement

LEMMA FiniteSix ==
  ASSUME NEW a, NEW b, NEW c, NEW d, NEW e, NEW f
  PROVE  IsFiniteSet({a, b, c, d, e, f})
<1>1. PICK S, T : S = {a, b, c, d, e} /\ T = {a, b, c, d, e, f}
  OBVIOUS
<1>2. IsFiniteSet(S) /\ T = S \cup {f}
  BY <1>1, FiniteFive
<1> QED
  BY <1>1, <1>2, FS_AddElement

(* A member that is a structure, and what is released of it.               *)
ObjectTaken(member, struct) ==
  IF Kind(member) = "object" THEN Field(struct.value, struct.error, struct.heap) ELSE Unset

LEMMA UnsetOK == FieldOK(Unset)
BY DEF FieldOK, Unset

LEMMA ObjectFieldOK ==
  ASSUME NEW member, NEW struct, struct.heap \in Nat, NEW field, field = ObjectTaken(member, struct)
  PROVE  /\ FieldOK(field)
         /\ \/ Taken(field) = struct.value /\ field.heap = struct.heap
            \/ Taken(field) = <<>> /\ field.heap = 0
<1>1. CASE Kind(member) = "object"
  <2>1. field.set = TRUE /\ field.value = struct.value /\ field.heap = struct.heap
    BY <1>1 DEF ObjectTaken, Field
  <2>2. field.heap \in Nat
    BY <2>1
  <2>3. FieldOK(field)
    BY <2>1, <2>2 DEF FieldOK
  <2>4. Taken(field) = struct.value
    BY <2>1 DEF Taken
  <2> QED
    BY <2>1, <2>3, <2>4
<1>2. CASE Kind(member) # "object"
  <2>1. field.set = FALSE /\ field.heap = 0
    BY <1>2 DEF ObjectTaken, Unset
  <2>2. FieldOK(field)
    BY <1>2, UnsetOK DEF ObjectTaken
  <2>3. Taken(field) = <<>>
    BY <2>1 DEF Taken
  <2> QED
    BY <2>1, <2>2, <2>3
<1> QED
  BY <1>1, <1>2

(* The blocks of an array of structures, each released as it was decoded.  *)
ArrayTaken(member, structs) ==
  IF Kind(member) = "array"
    THEN Field([i \in DOMAIN structs |-> structs[i].value],
               \E i \in DOMAIN structs : structs[i].error,
               1 + SumFunction([i \in DOMAIN structs |-> structs[i].heap]))
    ELSE Unset

LEMMA ArrayFieldOK ==
  ASSUME NEW member \in Decodable, NEW structs, NEW field, field = ArrayTaken(member, structs),
         Kind(member) = "array" => DOMAIN structs = DOMAIN Payload(member),
         Kind(member) = "array" => \A i \in DOMAIN structs : structs[i].heap \in Nat
  PROVE  /\ FieldOK(field)
         /\ field.set =>
              /\ Kind(member) = "array"
              /\ field.value = [i \in DOMAIN structs |-> structs[i].value]
              /\ field.heap = 1 + SumFunction([i \in DOMAIN structs |-> structs[i].heap])
<1>1. CASE Kind(member) = "array"
  <2> DEFINE heaps == [i \in DOMAIN structs |-> structs[i].heap]
  <2>1. heaps \in [DOMAIN structs -> Nat] /\ IsFiniteSet(DOMAIN structs)
    BY <1>1, ItemType
  <2>2. PICK sum \in Nat : sum = SumFunction(heaps)
    <3> HIDE DEF heaps
    <3> QED
      BY <2>1, SumType
  <2>3. /\ field.set = TRUE
        /\ field.value = [i \in DOMAIN structs |-> structs[i].value]
        /\ field.heap = 1 + sum
    BY <1>1, <2>2 DEF Field, ArrayTaken
  <2> HIDE DEF heaps
  <2>4. field.heap \in Nat
    BY <2>3
  <2>5. FieldOK(field)
    BY <2>3, <2>4 DEF FieldOK
  <2> QED
    BY <1>1, <2>2, <2>3, <2>5 DEF heaps
<1>2. CASE Kind(member) # "array"
  <2>1. field.set = FALSE /\ field.heap = 0
    BY <1>2 DEF Unset, ArrayTaken
  <2>2. FieldOK(field)
    BY <1>2, UnsetOK DEF ArrayTaken
  <2> QED
    BY <2>1, <2>2
<1> QED
  BY <1>1, <1>2

(* A structure is released as it was decoded, one that is all zero too.    *)
Returned(json, decode(_), free(_)) ==
  LET struct == decode(json)
  IN  /\ struct.heap \in Nat
      /\ free(struct.value) = struct.heap

FieldReturned(field, free(_)) == FieldOK(field) /\ free(Taken(field)) = field.heap

LEMMA NothingHeld ==
  /\ \A S : Held(<<>>, S) = 0
  /\ \A m : Strings(<<>>, m) = 0 /\ Member(<<>>, m) = <<>>
<1>1. DOMAIN <<>> = {}
  OBVIOUS
<1>2. ASSUME NEW S PROVE Held(<<>>, S) = 0
  <2>1. S \cap DOMAIN <<>> = {}
    BY <1>1
  <2> QED
    BY <2>1, FS_EmptySet DEF Held
<1> QED
  BY <1>1, <1>2 DEF Strings, Member

LEMMA SignatureFieldOK ==
  ASSUME NEW json \in Decodable
  PROVE  LET field == SignatureField(json)
         IN  /\ FieldOK(field)
             /\ Strings(Taken(field), "documentation_format") = field.heap
<1>1. PICK formats : formats = StringsField(json, "documentationFormat")
  OBVIOUS
<1>2. /\ FieldOK(formats)
      /\ formats.set => formats.heap = 1 + Cardinality({i \in DOMAIN formats.value :
                                                         formats.value[i] # NULL})
  BY <1>1, StringsFields
<1>3. PICK inner \in BOOLEAN :
        inner = (Kind(json_object_get(json, "signatureInformation")) = "object")
  OBVIOUS
<1>4. PICK flags : flags = [f \in {"dynamic_registration"} |-> Flag(json, "dynamicRegistration")]
  OBVIOUS
<1> DEFINE whole == [f \in {"dynamic_registration", "documentation_format"} |->
                       IF f = "documentation_format" THEN formats.value ELSE flags[f]]
<1>5. PICK group : group = IF inner /\ formats.set THEN whole ELSE flags
  OBVIOUS
<1>6. PICK blocks : blocks = IF inner THEN formats.heap ELSE 0
  OBVIOUS
<1>7. blocks \in Nat
  BY <1>2, <1>6 DEF FieldOK
<1>8. Strings(group, "documentation_format") = blocks
  <2>1. CASE inner /\ formats.set
    <3>1. "documentation_format" \in DOMAIN group /\ group["documentation_format"] = formats.value
      BY <1>5, <2>1
    <3> QED
      BY <1>2, <1>6, <2>1, <3>1 DEF Strings
  <2>2. CASE ~(inner /\ formats.set)
    <3>1. "documentation_format" \notin DOMAIN group
      BY <1>4, <1>5, <2>2
    <3>2. blocks = 0
      BY <1>2, <1>6, <2>2 DEF FieldOK
    <3> QED
      BY <3>1, <3>2 DEF Strings
  <2> QED
    BY <2>1, <2>2
<1>9. PICK field : field = SignatureField(json)
  OBVIOUS
<1> HIDE DEF whole
<1>10. CASE Kind(json_object_get(json, "signatureHelp")) = "object"
  <2>1. field = Field(group, FALSE, blocks)
    BY <1>1, <1>3, <1>4, <1>5, <1>6, <1>9, <1>10 DEF SignatureField, whole
  <2>2. field.set = TRUE /\ field.value = group /\ field.heap = blocks
    BY <2>1 DEF Field
  <2>3. Taken(field) = group
    BY <2>2 DEF Taken
  <2>4. FieldOK(field)
    BY <1>7, <2>2 DEF FieldOK
  <2> QED
    BY <1>8, <1>9, <2>2, <2>3, <2>4
<1>11. CASE Kind(json_object_get(json, "signatureHelp")) # "object"
  <2>1. field = Unset
    BY <1>9, <1>11 DEF SignatureField
  <2>2. Taken(field) = <<>> /\ field.heap = 0
    BY <2>1 DEF Taken, Unset
  <2> QED
    BY <1>9, <2>1, <2>2, UnsetOK, NothingHeld
<1> QED
  BY <1>10, <1>11

-----------------------------------------------------------------------------
(* The structures                                                          *)

(* A position holds no block.                                              *)
LEMMA PositionNothing == free_position(<<>>) = 0
BY NothingHeld DEF free_position

LEMMA PositionReturns ==
  ASSUME NEW json \in Decodable
  PROVE  Returned(json, decode_position, free_position)
<1> DEFINE fields == [line |-> NumberField(json, "line"),
                      character |-> NumberField(json, "character")]
<1>1. DOMAIN fields = {"line", "character"}
  OBVIOUS
<1>2. /\ FlatField(fields.line)
      /\ FlatField(fields.character)
  BY FlatFields
<1> HIDE DEF fields
<1>3. FieldsOK(fields) /\ \A m \in DOMAIN fields : fields[m].heap = 0
  <2>1. IsFiniteSet(DOMAIN fields)
    BY <1>1, FiniteTwo
  <2> QED
    BY <1>1, <1>2, <2>1, FieldsAreOK DEF FieldsOK, FlatField
<1>4. PICK struct :
        struct = decode_position(json) /\ struct = Structure(POSITION_FIELD_REQUIRED, fields)
  BY DEF decode_position, fields
<1>5. struct.heap = 0
  BY <1>3, <1>4, StructureNone
<1> QED
  BY <1>4, <1>5 DEF Returned, free_position

LEMMA PositionField ==
  ASSUME NEW json \in Decodable, NEW name
  PROVE  FieldReturned(ObjectField(json, name, decode_position), free_position)
<1>0. PICK member \in Decodable : member = json_object_get(json, name)
  BY GetType
<1>1. PICK struct : struct = decode_position(member)
  OBVIOUS
<1>2. PICK field : field = ObjectField(json, name, decode_position)
  OBVIOUS
<1>3. field = ObjectTaken(member, struct)
  BY <1>0, <1>1, <1>2 DEF ObjectField, ObjectTaken
<1>4. struct.heap \in Nat /\ free_position(struct.value) = struct.heap
  BY <1>1, PositionReturns DEF Returned
<1>5. FieldReturned(field, free_position)
  BY <1>3, <1>4, PositionNothing, ObjectFieldOK DEF FieldReturned
<1> QED
  BY <1>2, <1>5

(* Nor does a range.                                                       *)
LEMMA RangeNothing == free_range(<<>>) = 0
BY NothingHeld DEF free_range, free_position

LEMMA RangeReturns ==
  ASSUME NEW json \in Decodable
  PROVE  Returned(json, decode_range, free_range)
<1> DEFINE fields == [start |-> ObjectField(json, "start", decode_position),
                      end |-> ObjectField(json, "end", decode_position)]
<1>1. DOMAIN fields = {"start", "end"}
  OBVIOUS
<1>2. /\ FieldOK(fields.start) /\ fields.start.heap = 0
      /\ FieldOK(fields.end) /\ fields.end.heap = 0
  BY PositionField DEF FieldReturned, free_position
<1> HIDE DEF fields
<1>3. FieldsOK(fields) /\ \A m \in DOMAIN fields : fields[m].heap = 0
  <2>1. IsFiniteSet(DOMAIN fields)
    BY <1>1, FiniteTwo
  <2> QED
    BY <1>1, <1>2, <2>1, FieldsAreOK DEF FieldsOK, FlatField
<1>4. PICK struct :
        struct = decode_range(json) /\ struct = Structure(RANGE_FIELD_REQUIRED, fields)
  BY DEF decode_range, fields
<1>5. struct.heap = 0
  BY <1>3, <1>4, StructureNone
<1> QED
  BY <1>4, <1>5 DEF Returned, free_range, free_position

LEMMA RangeField ==
  ASSUME NEW json \in Decodable, NEW name
  PROVE  FieldReturned(ObjectField(json, name, decode_range), free_range)
<1>0. PICK member \in Decodable : member = json_object_get(json, name)
  BY GetType
<1>1. PICK struct : struct = decode_range(member)
  OBVIOUS
<1>2. PICK field : field = ObjectField(json, name, decode_range)
  OBVIOUS
<1>3. field = ObjectTaken(member, struct)
  BY <1>0, <1>1, <1>2 DEF ObjectField, ObjectTaken
<1>4. struct.heap \in Nat /\ free_range(struct.value) = struct.heap
  BY <1>1, RangeReturns DEF Returned
<1>5. FieldReturned(field, free_range)
  BY <1>3, <1>4, RangeNothing, ObjectFieldOK DEF FieldReturned
<1> QED
  BY <1>2, <1>5

(* An identifier holds its URI.                                            *)
LEMMA IdentifierNothing == free_text_document_identifier(<<>>) = 0
BY NothingHeld DEF free_text_document_identifier

LEMMA IdentifierReturns ==
  ASSUME NEW json \in Decodable
  PROVE  Returned(json, decode_text_document_identifier, free_text_document_identifier)
<1> DEFINE fields == [uri |-> UriField(json, "uri")]
<1>1. DOMAIN fields = {"uri"}
  OBVIOUS
<1>2. BlockField(fields.uri)
  BY BlockFields
<1> HIDE DEF fields
<1>3. FieldsOK(fields)
  <2>1. IsFiniteSet(DOMAIN fields)
    BY <1>1, FiniteOne
  <2> QED
    BY <1>1, <1>2, <2>1, FieldsAreOK DEF FieldsOK, FieldReturned
<1>4. PICK struct :
        /\ struct = decode_text_document_identifier(json)
        /\ struct = Structure(TEXT_DOCUMENT_IDENTIFIER_FIELD_REQUIRED, fields)
  BY DEF decode_text_document_identifier, fields
<1>5. DOMAIN fields \ {"uri"} = {}
  BY <1>1
<1>6. struct.heap = SumFunction([m \in {"uri"} |-> fields[m].heap])
  BY <1>1, <1>3, <1>4, <1>5, StructureHeap
<1>7. /\ struct.heap = fields.uri.heap
      /\ fields.uri.heap \in Nat
  BY <1>1, <1>3, <1>6, HeapOne
<1>8. Held(struct.value, {"uri"}) = fields.uri.heap
  BY <1>1, <1>2, <1>3, <1>4, OneMember, HeldOne DEF FieldsOK
<1> QED
  BY <1>4, <1>7, <1>8 DEF Returned, free_text_document_identifier

LEMMA IdentifierField ==
  ASSUME NEW json \in Decodable, NEW name
  PROVE  FieldReturned(ObjectField(json, name, decode_text_document_identifier),
                       free_text_document_identifier)
<1>0. PICK member \in Decodable : member = json_object_get(json, name)
  BY GetType
<1>1. PICK struct : struct = decode_text_document_identifier(member)
  OBVIOUS
<1>2. PICK field : field = ObjectField(json, name, decode_text_document_identifier)
  OBVIOUS
<1>3. field = ObjectTaken(member, struct)
  BY <1>0, <1>1, <1>2 DEF ObjectField, ObjectTaken
<1>4. struct.heap \in Nat /\ free_text_document_identifier(struct.value) = struct.heap
  BY <1>1, IdentifierReturns DEF Returned
<1>5. FieldReturned(field, free_text_document_identifier)
  BY <1>3, <1>4, IdentifierNothing, ObjectFieldOK DEF FieldReturned
<1> QED
  BY <1>2, <1>5

(* A versioned one too.                                                    *)
LEMMA VersionedNothing == free_versioned_text_document_identifier(<<>>) = 0
BY NothingHeld DEF free_versioned_text_document_identifier

LEMMA VersionedReturns ==
  ASSUME NEW json \in Decodable
  PROVE  Returned(json, decode_versioned_text_document_identifier,
                  free_versioned_text_document_identifier)
<1> DEFINE fields == [uri |-> UriField(json, "uri"),
                      version |-> NumberField(json, "version")]
<1>1. DOMAIN fields = {"uri", "version"}
  OBVIOUS
<1>2. /\ BlockField(fields.uri)
      /\ FlatField(fields.version)
  BY BlockFields, FlatFields
<1> HIDE DEF fields
<1>3. FieldsOK(fields)
  <2>1. IsFiniteSet(DOMAIN fields)
    BY <1>1, FiniteTwo
  <2> QED
    BY <1>1, <1>2, <2>1, FieldsAreOK DEF FieldsOK, FieldReturned
<1>4. PICK struct :
        /\ struct = decode_versioned_text_document_identifier(json)
        /\ struct = Structure(VERSIONED_TEXT_DOCUMENT_IDENTIFIER_FIELD_REQUIRED, fields)
  BY DEF decode_versioned_text_document_identifier, fields
<1>5. \A m \in DOMAIN fields \ {"uri"} : fields[m].heap = 0
  BY <1>1, <1>2 DEF FlatField
<1>6. struct.heap = SumFunction([m \in {"uri"} |-> fields[m].heap])
  BY <1>1, <1>3, <1>4, <1>5, StructureHeap
<1>7. /\ struct.heap = fields.uri.heap
      /\ fields.uri.heap \in Nat
  BY <1>1, <1>3, <1>6, HeapOne
<1>8. Held(struct.value, {"uri"}) = fields.uri.heap
  BY <1>1, <1>2, <1>3, <1>4, OneMember, HeldOne DEF FieldsOK
<1> QED
  BY <1>4, <1>7, <1>8 DEF Returned, free_versioned_text_document_identifier

LEMMA VersionedField ==
  ASSUME NEW json \in Decodable, NEW name
  PROVE  FieldReturned(ObjectField(json, name, decode_versioned_text_document_identifier),
                       free_versioned_text_document_identifier)
<1>0. PICK member \in Decodable : member = json_object_get(json, name)
  BY GetType
<1>1. PICK struct : struct = decode_versioned_text_document_identifier(member)
  OBVIOUS
<1>2. PICK field : field = ObjectField(json, name, decode_versioned_text_document_identifier)
  OBVIOUS
<1>3. field = ObjectTaken(member, struct)
  BY <1>0, <1>1, <1>2 DEF ObjectField, ObjectTaken
<1>4. struct.heap \in Nat /\ free_versioned_text_document_identifier(struct.value) = struct.heap
  BY <1>1, VersionedReturns DEF Returned
<1>5. FieldReturned(field, free_versioned_text_document_identifier)
  BY <1>3, <1>4, VersionedNothing, ObjectFieldOK DEF FieldReturned
<1> QED
  BY <1>2, <1>5

(* A document that is opened holds its URI, the language and the text.     *)
LEMMA ItemNothing == free_text_document_item(<<>>) = 0
BY NothingHeld DEF free_text_document_item

LEMMA ItemReturns ==
  ASSUME NEW json \in Decodable
  PROVE  Returned(json, decode_text_document_item, free_text_document_item)
<1> DEFINE fields == [uri |-> UriField(json, "uri"),
                      language_id |-> StringField(json, "languageId"),
                      version |-> NumberField(json, "version"),
                      text |-> StringField(json, "text")]
<1>1. DOMAIN fields = {"uri", "language_id", "version", "text"}
  OBVIOUS
<1>2. /\ BlockField(fields.uri)
      /\ BlockField(fields.language_id)
      /\ FlatField(fields.version)
      /\ BlockField(fields.text)
  BY BlockFields, FlatFields
<1> HIDE DEF fields
<1>3. FieldsOK(fields)
  <2>1. IsFiniteSet(DOMAIN fields)
    <3>1. IsFiniteSet({"uri", "language_id", "version", "text"})
      BY FiniteFour
    <3> QED
      BY <1>1, <3>1
  <2>2. /\ FieldOK(fields.uri)
        /\ FieldOK(fields.language_id)
        /\ FieldOK(fields.version)
        /\ FieldOK(fields.text)
    BY <1>2, FieldsAreOK DEF FieldReturned
  <2> QED
    BY <1>1, <2>1, <2>2 DEF FieldsOK
<1>4. PICK struct :
        /\ struct = decode_text_document_item(json)
        /\ struct = Structure(TEXT_DOCUMENT_ITEM_FIELD_REQUIRED, fields)
  BY DEF decode_text_document_item, fields
<1>5. \A m \in DOMAIN fields \ {"uri", "language_id", "text"} : fields[m].heap = 0
  BY <1>1, <1>2 DEF FlatField
<1>6. struct.heap = SumFunction([m \in {"uri", "language_id", "text"} |-> fields[m].heap])
  BY <1>1, <1>3, <1>4, <1>5, StructureHeap
<1>7. /\ struct.heap = fields.uri.heap + (fields.language_id.heap + fields.text.heap)
      /\ fields.uri.heap \in Nat
      /\ fields.language_id.heap \in Nat
      /\ fields.text.heap \in Nat
  BY <1>1, <1>3, <1>6, HeapThree
<1>8. Held(struct.value, {"uri", "language_id", "text"})
        = fields.uri.heap + (fields.language_id.heap + fields.text.heap)
  BY <1>1, <1>2, <1>3, <1>4, OneMember, HeldThree DEF FieldsOK
<1> QED
  BY <1>4, <1>7, <1>8 DEF Returned, free_text_document_item

LEMMA ItemField ==
  ASSUME NEW json \in Decodable, NEW name
  PROVE  FieldReturned(ObjectField(json, name, decode_text_document_item),
                       free_text_document_item)
<1>0. PICK member \in Decodable : member = json_object_get(json, name)
  BY GetType
<1>1. PICK struct : struct = decode_text_document_item(member)
  OBVIOUS
<1>2. PICK field : field = ObjectField(json, name, decode_text_document_item)
  OBVIOUS
<1>3. field = ObjectTaken(member, struct)
  BY <1>0, <1>1, <1>2 DEF ObjectField, ObjectTaken
<1>4. struct.heap \in Nat /\ free_text_document_item(struct.value) = struct.heap
  BY <1>1, ItemReturns DEF Returned
<1>5. FieldReturned(field, free_text_document_item)
  BY <1>3, <1>4, ItemNothing, ObjectFieldOK DEF FieldReturned
<1> QED
  BY <1>2, <1>5

(* A change holds its text.                                                *)
LEMMA ChangeEventReturns ==
  ASSUME NEW json \in Decodable
  PROVE  Returned(json, decode_text_document_content_change_event,
                  free_text_document_content_change_event)
<1> DEFINE fields == [range |-> ObjectField(json, "range", decode_range),
                      range_length |-> NumberField(json, "rangeLength"),
                      text |-> StringField(json, "text")]
<1>1. DOMAIN fields = {"range", "range_length", "text"}
  OBVIOUS
<1>2. /\ FieldOK(fields.range) /\ fields.range.heap = 0
      /\ FlatField(fields.range_length)
      /\ BlockField(fields.text)
  BY BlockFields, FlatFields, RangeField DEF FieldReturned, free_position, free_range
<1> HIDE DEF fields
<1>3. FieldsOK(fields)
  <2>1. IsFiniteSet(DOMAIN fields)
    <3>1. IsFiniteSet({"range", "range_length", "text"})
      BY FiniteThree
    <3> QED
      BY <1>1, <3>1
  <2>2. /\ FieldOK(fields.range)
        /\ FieldOK(fields.range_length)
        /\ FieldOK(fields.text)
    BY <1>2, FieldsAreOK DEF FieldReturned
  <2> QED
    BY <1>1, <2>1, <2>2 DEF FieldsOK
<1>4. PICK struct :
        /\ struct = decode_text_document_content_change_event(json)
        /\ struct = Structure(TEXT_DOCUMENT_CONTENT_CHANGE_EVENT_FIELD_REQUIRED, fields)
  BY DEF decode_text_document_content_change_event, fields
<1>5. \A m \in DOMAIN fields \ {"text"} : fields[m].heap = 0
  BY <1>1, <1>2 DEF FlatField
<1>6. struct.heap = SumFunction([m \in {"text"} |-> fields[m].heap])
  BY <1>1, <1>3, <1>4, <1>5, StructureHeap
<1>7. /\ struct.heap = fields.text.heap
      /\ fields.text.heap \in Nat
  BY <1>1, <1>3, <1>6, HeapOne
<1>8. Held(struct.value, {"text"}) = fields.text.heap
  BY <1>1, <1>2, <1>3, <1>4, OneMember, HeldOne DEF FieldsOK
<1> QED
  BY <1>4, <1>7, <1>8
  DEF Returned, free_text_document_content_change_event, free_range, free_position

LEMMA ChangeEventItems ==
  ASSUME NEW json \in Decodable, NEW name
  PROVE  LET field == ArrayField(json, name, decode_text_document_content_change_event)
         IN  /\ FieldOK(field)
             /\ field.set => field.heap =
                  1 + SumFunction([i \in DOMAIN field.value |-> free_text_document_content_change_event(field.value[i])])
<1>1. PICK member \in Decodable : member = json_object_get(json, name)
  BY GetType
<1>2. PICK structs : structs = [i \in DOMAIN Payload(member) |->
                                  decode_text_document_content_change_event(Payload(member)[i])]
  OBVIOUS
<1>3. PICK field : field = ArrayField(json, name, decode_text_document_content_change_event)
  OBVIOUS
<1>4. field = ArrayTaken(member, structs)
  BY <1>1, <1>2, <1>3 DEF ArrayField, ArrayTaken
<1>5. ASSUME Kind(member) = "array", NEW i \in DOMAIN structs
      PROVE  /\ structs[i].heap \in Nat
             /\ free_text_document_content_change_event(structs[i].value) = structs[i].heap
  <2>1. /\ Payload(member)[i] \in Decodable
        /\ structs[i] = decode_text_document_content_change_event(Payload(member)[i])
    BY <1>2, <1>5, ItemType DEF Decodable
  <2> QED
    BY <2>1, ChangeEventReturns DEF Returned
<1>6. /\ FieldOK(field)
      /\ field.set =>
           /\ Kind(member) = "array"
           /\ field.value = [i \in DOMAIN structs |-> structs[i].value]
           /\ field.heap = 1 + SumFunction([i \in DOMAIN structs |-> structs[i].heap])
  BY <1>2, <1>4, <1>5, ArrayFieldOK
<1>7. ASSUME field.set
      PROVE  field.heap =
               1 + SumFunction([i \in DOMAIN field.value |-> free_text_document_content_change_event(field.value[i])])
  <2>1. Kind(member) = "array" /\ DOMAIN field.value = DOMAIN structs
    BY <1>6, <1>7
  <2>2. ASSUME NEW i \in DOMAIN structs
        PROVE free_text_document_content_change_event(field.value[i]) = structs[i].heap
    BY <1>5, <1>6, <1>7, <2>1
  <2>3. [i \in DOMAIN field.value |-> free_text_document_content_change_event(field.value[i])]
          = [i \in DOMAIN structs |-> structs[i].heap]
    BY <2>1, <2>2
  <2> QED
    BY <1>6, <1>7, <2>3
<1> QED
  BY <1>3, <1>6, <1>7

(* A location holds its URI.                                               *)
LEMMA LocationNothing == free_location(<<>>) = 0
BY NothingHeld DEF free_location, free_range, free_position

LEMMA LocationReturns ==
  ASSUME NEW json \in Decodable
  PROVE  Returned(json, decode_location, free_location)
<1> DEFINE fields == [uri |-> UriField(json, "uri"),
                      range |-> ObjectField(json, "range", decode_range)]
<1>1. DOMAIN fields = {"uri", "range"}
  OBVIOUS
<1>2. /\ BlockField(fields.uri)
      /\ FieldOK(fields.range) /\ fields.range.heap = 0
  BY BlockFields, RangeField DEF FieldReturned, free_position, free_range
<1> HIDE DEF fields
<1>3. FieldsOK(fields)
  <2>1. IsFiniteSet(DOMAIN fields)
    BY <1>1, FiniteTwo
  <2> QED
    BY <1>1, <1>2, <2>1, FieldsAreOK DEF FieldsOK, FieldReturned
<1>4. PICK struct :
        struct = decode_location(json) /\ struct = Structure(LOCATION_FIELD_REQUIRED, fields)
  BY DEF decode_location, fields
<1>5. \A m \in DOMAIN fields \ {"uri"} : fields[m].heap = 0
  BY <1>1, <1>2 DEF FlatField
<1>6. struct.heap = SumFunction([m \in {"uri"} |-> fields[m].heap])
  BY <1>1, <1>3, <1>4, <1>5, StructureHeap
<1>7. /\ struct.heap = fields.uri.heap
      /\ fields.uri.heap \in Nat
  BY <1>1, <1>3, <1>6, HeapOne
<1>8. Held(struct.value, {"uri"}) = fields.uri.heap
  BY <1>1, <1>2, <1>3, <1>4, OneMember, HeldOne DEF FieldsOK
<1> QED
  BY <1>4, <1>7, <1>8 DEF Returned, free_location, free_range, free_position

LEMMA LocationField ==
  ASSUME NEW json \in Decodable, NEW name
  PROVE  FieldReturned(ObjectField(json, name, decode_location), free_location)
<1>0. PICK member \in Decodable : member = json_object_get(json, name)
  BY GetType
<1>1. PICK struct : struct = decode_location(member)
  OBVIOUS
<1>2. PICK field : field = ObjectField(json, name, decode_location)
  OBVIOUS
<1>3. field = ObjectTaken(member, struct)
  BY <1>0, <1>1, <1>2 DEF ObjectField, ObjectTaken
<1>4. struct.heap \in Nat /\ free_location(struct.value) = struct.heap
  BY <1>1, LocationReturns DEF Returned
<1>5. FieldReturned(field, free_location)
  BY <1>3, <1>4, LocationNothing, ObjectFieldOK DEF FieldReturned
<1> QED
  BY <1>2, <1>5

(* Related information holds a location and the message.                   *)
LEMMA RelatedInformationReturns ==
  ASSUME NEW json \in Decodable
  PROVE  Returned(json, decode_diagnostic_related_information,
                  free_diagnostic_related_information)
<1> DEFINE fields == [location |-> ObjectField(json, "location", decode_location),
                      message |-> StringField(json, "message")]
<1>1. DOMAIN fields = {"location", "message"}
  OBVIOUS
<1>2. /\ FieldReturned(fields.location, free_location)
      /\ BlockField(fields.message)
  BY BlockFields, LocationField
<1> HIDE DEF fields
<1>3. FieldsOK(fields)
  <2>1. IsFiniteSet(DOMAIN fields)
    BY <1>1, FiniteTwo
  <2> QED
    BY <1>1, <1>2, <2>1, FieldsAreOK DEF FieldsOK, FieldReturned
<1>4. PICK struct :
        /\ struct = decode_diagnostic_related_information(json)
        /\ struct = Structure(DIAGNOSTIC_RELATED_INFORMATION_FIELD_REQUIRED, fields)
  BY DEF decode_diagnostic_related_information, fields
<1>5. DOMAIN fields \ {"location", "message"} = {}
  BY <1>1
<1>6. struct.heap = SumFunction([m \in {"location", "message"} |-> fields[m].heap])
  BY <1>1, <1>3, <1>4, <1>5, StructureHeap
<1>7. /\ struct.heap = fields.location.heap + fields.message.heap
      /\ fields.location.heap \in Nat
      /\ fields.message.heap \in Nat
  BY <1>1, <1>3, <1>6, HeapTwo
<1>8. Held(struct.value, {"message"}) = fields.message.heap
  BY <1>1, <1>2, <1>3, <1>4, OneMember, HeldOne DEF FieldsOK
<1>9. free_location(Member(struct.value, "location")) = fields.location.heap
  BY <1>1, <1>2, <1>3, <1>4, ObjectMember DEF FieldReturned, FieldsOK
<1> QED
  BY <1>4, <1>7, <1>8, <1>9 DEF Returned, free_diagnostic_related_information

LEMMA RelatedInformationItems ==
  ASSUME NEW json \in Decodable, NEW name
  PROVE  LET field == ArrayField(json, name, decode_diagnostic_related_information)
         IN  /\ FieldOK(field)
             /\ field.set => field.heap =
                  1 + SumFunction([i \in DOMAIN field.value |-> free_diagnostic_related_information(field.value[i])])
<1>1. PICK member \in Decodable : member = json_object_get(json, name)
  BY GetType
<1>2. PICK structs : structs = [i \in DOMAIN Payload(member) |->
                                  decode_diagnostic_related_information(Payload(member)[i])]
  OBVIOUS
<1>3. PICK field : field = ArrayField(json, name, decode_diagnostic_related_information)
  OBVIOUS
<1>4. field = ArrayTaken(member, structs)
  BY <1>1, <1>2, <1>3 DEF ArrayField, ArrayTaken
<1>5. ASSUME Kind(member) = "array", NEW i \in DOMAIN structs
      PROVE  /\ structs[i].heap \in Nat
             /\ free_diagnostic_related_information(structs[i].value) = structs[i].heap
  <2>1. /\ Payload(member)[i] \in Decodable
        /\ structs[i] = decode_diagnostic_related_information(Payload(member)[i])
    BY <1>2, <1>5, ItemType DEF Decodable
  <2> QED
    BY <2>1, RelatedInformationReturns DEF Returned
<1>6. /\ FieldOK(field)
      /\ field.set =>
           /\ Kind(member) = "array"
           /\ field.value = [i \in DOMAIN structs |-> structs[i].value]
           /\ field.heap = 1 + SumFunction([i \in DOMAIN structs |-> structs[i].heap])
  BY <1>2, <1>4, <1>5, ArrayFieldOK
<1>7. ASSUME field.set
      PROVE  field.heap =
               1 + SumFunction([i \in DOMAIN field.value |-> free_diagnostic_related_information(field.value[i])])
  <2>1. Kind(member) = "array" /\ DOMAIN field.value = DOMAIN structs
    BY <1>6, <1>7
  <2>2. ASSUME NEW i \in DOMAIN structs
        PROVE free_diagnostic_related_information(field.value[i]) = structs[i].heap
    BY <1>5, <1>6, <1>7, <2>1
  <2>3. [i \in DOMAIN field.value |-> free_diagnostic_related_information(field.value[i])]
          = [i \in DOMAIN structs |-> structs[i].heap]
    BY <2>1, <2>2
  <2> QED
    BY <1>6, <1>7, <2>3
<1> QED
  BY <1>3, <1>6, <1>7

(* A diagnostic holds two strings and the information related to it.       *)
LEMMA DiagnosticReturns ==
  ASSUME NEW json \in Decodable
  PROVE  Returned(json, decode_diagnostic, free_diagnostic)
<1> DEFINE fields == [range |-> ObjectField(json, "range", decode_range),
                      severity |-> EnumField(json, "severity"),
                      code |-> NumberField(json, "code"),
                      source |-> StringField(json, "source"),
                      message |-> StringField(json, "message"),
                      related_information |-> ArrayField(json, "relatedInformation", decode_diagnostic_related_information)]
<1>1. DOMAIN fields = {"range", "severity", "code", "source", "message", "related_information"}
  OBVIOUS
<1>2. /\ FieldOK(fields.range) /\ fields.range.heap = 0
      /\ FlatField(fields.severity)
      /\ FlatField(fields.code)
      /\ BlockField(fields.source)
      /\ BlockField(fields.message)
      /\ FieldOK(fields.related_information)
      /\ fields.related_information = ArrayField(json, "relatedInformation", decode_diagnostic_related_information)
  <2>1. FieldOK(fields.range) /\ fields.range.heap = 0
    BY RangeField DEF FieldReturned, free_range, free_position
  <2>2. FlatField(fields.severity)
    BY FlatFields
  <2>3. FlatField(fields.code)
    BY FlatFields
  <2>4. BlockField(fields.source)
    BY BlockFields
  <2>5. BlockField(fields.message)
    BY BlockFields
  <2>6. /\ FieldOK(fields.related_information)
        /\ fields.related_information = ArrayField(json, "relatedInformation", decode_diagnostic_related_information)
    BY RelatedInformationItems
  <2> QED
    BY <2>1, <2>2, <2>3, <2>4, <2>5, <2>6
<1> HIDE DEF fields
<1>3. FieldsOK(fields)
  <2>1. IsFiniteSet(DOMAIN fields)
    <3>1. IsFiniteSet({"range", "severity", "code", "source", "message", "related_information"})
      BY FiniteSix
    <3> QED
      BY <1>1, <3>1
  <2>2. /\ FieldOK(fields.range)
        /\ FieldOK(fields.severity)
        /\ FieldOK(fields.code)
        /\ FieldOK(fields.source)
        /\ FieldOK(fields.message)
        /\ FieldOK(fields.related_information)
    BY <1>2, FieldsAreOK DEF FieldReturned
  <2> QED
    BY <1>1, <2>1, <2>2 DEF FieldsOK
<1>4. PICK struct :
        /\ struct = decode_diagnostic(json)
        /\ struct = Structure(DIAGNOSTIC_FIELD_REQUIRED, fields)
  BY DEF decode_diagnostic, fields
<1>5. \A m \in DOMAIN fields \ {"source", "message", "related_information"} : fields[m].heap = 0
  BY <1>1, <1>2 DEF FlatField
<1>6. struct.heap
        = SumFunction([m \in {"source", "message", "related_information"} |-> fields[m].heap])
  BY <1>1, <1>3, <1>4, <1>5, StructureHeap
<1>7. /\ struct.heap = fields.source.heap + (fields.message.heap + fields.related_information.heap)
      /\ fields.source.heap \in Nat
      /\ fields.message.heap \in Nat
      /\ fields.related_information.heap \in Nat
  BY <1>1, <1>3, <1>6, HeapThree
<1>8. Held(struct.value, {"source", "message"}) = fields.source.heap + fields.message.heap
  BY <1>1, <1>2, <1>3, <1>4, OneMember, HeldTwo DEF FieldsOK
<1>9. Items(struct.value, "related_information", free_diagnostic_related_information)
        = fields.related_information.heap
  BY <1>1, <1>2, <1>3, <1>4, RelatedInformationItems, StructureValue
  DEF Items, FieldOK, FieldsOK
<1> QED
  BY <1>4, <1>7, <1>8, <1>9 DEF Returned, free_diagnostic, free_range, free_position

LEMMA DiagnosticItems ==
  ASSUME NEW json \in Decodable, NEW name
  PROVE  LET field == ArrayField(json, name, decode_diagnostic)
         IN  /\ FieldOK(field)
             /\ field.set => field.heap =
                  1 + SumFunction([i \in DOMAIN field.value |-> free_diagnostic(field.value[i])])
<1>1. PICK member \in Decodable : member = json_object_get(json, name)
  BY GetType
<1>2. PICK structs : structs = [i \in DOMAIN Payload(member) |->
                                  decode_diagnostic(Payload(member)[i])]
  OBVIOUS
<1>3. PICK field : field = ArrayField(json, name, decode_diagnostic)
  OBVIOUS
<1>4. field = ArrayTaken(member, structs)
  BY <1>1, <1>2, <1>3 DEF ArrayField, ArrayTaken
<1>5. ASSUME Kind(member) = "array", NEW i \in DOMAIN structs
      PROVE  structs[i].heap \in Nat /\ free_diagnostic(structs[i].value) = structs[i].heap
  <2>1. Payload(member)[i] \in Decodable /\ structs[i] = decode_diagnostic(Payload(member)[i])
    BY <1>2, <1>5, ItemType DEF Decodable
  <2> QED
    BY <2>1, DiagnosticReturns DEF Returned
<1>6. /\ FieldOK(field)
      /\ field.set =>
           /\ Kind(member) = "array"
           /\ field.value = [i \in DOMAIN structs |-> structs[i].value]
           /\ field.heap = 1 + SumFunction([i \in DOMAIN structs |-> structs[i].heap])
  BY <1>2, <1>4, <1>5, ArrayFieldOK
<1>7. ASSUME field.set
      PROVE  field.heap =
               1 + SumFunction([i \in DOMAIN field.value |-> free_diagnostic(field.value[i])])
  <2>1. Kind(member) = "array" /\ DOMAIN field.value = DOMAIN structs
    BY <1>6, <1>7
  <2>2. ASSUME NEW i \in DOMAIN structs PROVE free_diagnostic(field.value[i]) = structs[i].heap
    BY <1>5, <1>6, <1>7, <2>1
  <2>3. [i \in DOMAIN field.value |-> free_diagnostic(field.value[i])]
          = [i \in DOMAIN structs |-> structs[i].heap]
    BY <2>1, <2>2
  <2> QED
    BY <1>6, <1>7, <2>3
<1> QED
  BY <1>3, <1>6, <1>7

(* The context of a code action holds diagnostics.                         *)
LEMMA ContextNothing == free_code_action_context(<<>>) = 0
BY NothingHeld DEF free_code_action_context, Items

LEMMA ContextReturns ==
  ASSUME NEW json \in Decodable
  PROVE  Returned(json, decode_code_action_context, free_code_action_context)
<1> DEFINE fields == [diagnostics |-> ArrayField(json, "diagnostics", decode_diagnostic)]
<1>1. DOMAIN fields = {"diagnostics"}
  OBVIOUS
<1>2. /\ FieldOK(fields.diagnostics)
      /\ fields.diagnostics = ArrayField(json, "diagnostics", decode_diagnostic)
  BY DiagnosticItems
<1> HIDE DEF fields
<1>3. FieldsOK(fields)
  <2>1. IsFiniteSet(DOMAIN fields)
    BY <1>1, FiniteOne
  <2> QED
    BY <1>1, <1>2, <2>1, FieldsAreOK DEF FieldsOK, FieldReturned
<1>4. PICK struct :
        /\ struct = decode_code_action_context(json)
        /\ struct = Structure(CODE_ACTION_CONTEXT_FIELD_REQUIRED, fields)
  BY DEF decode_code_action_context, fields
<1>5. DOMAIN fields \ {"diagnostics"} = {}
  BY <1>1
<1>6. struct.heap = SumFunction([m \in {"diagnostics"} |-> fields[m].heap])
  BY <1>1, <1>3, <1>4, <1>5, StructureHeap
<1>7. /\ struct.heap = fields.diagnostics.heap
      /\ fields.diagnostics.heap \in Nat
  BY <1>1, <1>3, <1>6, HeapOne
<1>8. Items(struct.value, "diagnostics", free_diagnostic) = fields.diagnostics.heap
  BY <1>1, <1>2, <1>3, <1>4, DiagnosticItems, StructureValue DEF Items, FieldOK, FieldsOK
<1> QED
  BY <1>4, <1>7, <1>8 DEF Returned, free_code_action_context

LEMMA ContextField ==
  ASSUME NEW json \in Decodable, NEW name
  PROVE  FieldReturned(ObjectField(json, name, decode_code_action_context),
                       free_code_action_context)
<1>0. PICK member \in Decodable : member = json_object_get(json, name)
  BY GetType
<1>1. PICK struct : struct = decode_code_action_context(member)
  OBVIOUS
<1>2. PICK field : field = ObjectField(json, name, decode_code_action_context)
  OBVIOUS
<1>3. field = ObjectTaken(member, struct)
  BY <1>0, <1>1, <1>2 DEF ObjectField, ObjectTaken
<1>4. struct.heap \in Nat /\ free_code_action_context(struct.value) = struct.heap
  BY <1>1, ContextReturns DEF Returned
<1>5. FieldReturned(field, free_code_action_context)
  BY <1>3, <1>4, ContextNothing, ObjectFieldOK DEF FieldReturned
<1> QED
  BY <1>2, <1>5

(* The parameters of a compilation database hold the path and arguments.   *)
LEMMA DatabaseReturns ==
  ASSUME NEW json \in Decodable
  PROVE  Returned(json, decode_compilation_database_params, free_compilation_database_params)
<1> DEFINE fields == [path |-> StringField(json, "path"),
                      additional_arguments |-> StringsField(json, "additionalArguments")]
<1>1. DOMAIN fields = {"path", "additional_arguments"}
  OBVIOUS
<1>2. /\ BlockField(fields.path)
      /\ fields.additional_arguments = StringsField(json, "additionalArguments")
      /\ FieldOK(fields.additional_arguments)
  BY BlockFields, StringsFields
<1> HIDE DEF fields
<1>3. FieldsOK(fields)
  <2>1. IsFiniteSet(DOMAIN fields)
    BY <1>1, FiniteTwo
  <2> QED
    BY <1>1, <1>2, <2>1, FieldsAreOK DEF FieldsOK, FieldReturned
<1>4. PICK struct :
        /\ struct = decode_compilation_database_params(json)
        /\ struct = Structure(COMPILATION_DATABASE_PARAMS_FIELD_REQUIRED, fields)
  BY DEF decode_compilation_database_params, fields
<1>5. DOMAIN fields \ {"path", "additional_arguments"} = {}
  BY <1>1
<1>6. struct.heap = SumFunction([m \in {"path", "additional_arguments"} |-> fields[m].heap])
  BY <1>1, <1>3, <1>4, <1>5, StructureHeap
<1>7. /\ struct.heap = fields.path.heap + fields.additional_arguments.heap
      /\ fields.path.heap \in Nat
      /\ fields.additional_arguments.heap \in Nat
  BY <1>1, <1>3, <1>6, HeapTwo
<1>8. Held(struct.value, {"path"}) = fields.path.heap
  BY <1>1, <1>2, <1>3, <1>4, OneMember, HeldOne DEF FieldsOK
<1>9. Strings(struct.value, "additional_arguments") = fields.additional_arguments.heap
  BY <1>1, <1>2, <1>3, <1>4, StringsMember DEF FieldsOK
<1> QED
  BY <1>4, <1>7, <1>8, <1>9 DEF Returned, free_compilation_database_params

LEMMA DatabaseItems ==
  ASSUME NEW json \in Decodable, NEW name
  PROVE  LET field == ArrayField(json, name, decode_compilation_database_params)
         IN  /\ FieldOK(field)
             /\ field.set => field.heap =
                  1 + SumFunction([i \in DOMAIN field.value |-> free_compilation_database_params(field.value[i])])
<1>1. PICK member \in Decodable : member = json_object_get(json, name)
  BY GetType
<1>2. PICK structs : structs = [i \in DOMAIN Payload(member) |->
                                  decode_compilation_database_params(Payload(member)[i])]
  OBVIOUS
<1>3. PICK field : field = ArrayField(json, name, decode_compilation_database_params)
  OBVIOUS
<1>4. field = ArrayTaken(member, structs)
  BY <1>1, <1>2, <1>3 DEF ArrayField, ArrayTaken
<1>5. ASSUME Kind(member) = "array", NEW i \in DOMAIN structs
      PROVE  /\ structs[i].heap \in Nat
             /\ free_compilation_database_params(structs[i].value) = structs[i].heap
  <2>1. /\ Payload(member)[i] \in Decodable
        /\ structs[i] = decode_compilation_database_params(Payload(member)[i])
    BY <1>2, <1>5, ItemType DEF Decodable
  <2> QED
    BY <2>1, DatabaseReturns DEF Returned
<1>6. /\ FieldOK(field)
      /\ field.set =>
           /\ Kind(member) = "array"
           /\ field.value = [i \in DOMAIN structs |-> structs[i].value]
           /\ field.heap = 1 + SumFunction([i \in DOMAIN structs |-> structs[i].heap])
  BY <1>2, <1>4, <1>5, ArrayFieldOK
<1>7. ASSUME field.set
      PROVE  field.heap =
               1 + SumFunction([i \in DOMAIN field.value |-> free_compilation_database_params(field.value[i])])
  <2>1. Kind(member) = "array" /\ DOMAIN field.value = DOMAIN structs
    BY <1>6, <1>7
  <2>2. ASSUME NEW i \in DOMAIN structs
        PROVE free_compilation_database_params(field.value[i]) = structs[i].heap
    BY <1>5, <1>6, <1>7, <2>1
  <2>3. [i \in DOMAIN field.value |-> free_compilation_database_params(field.value[i])]
          = [i \in DOMAIN structs |-> structs[i].heap]
    BY <2>1, <2>2
  <2> QED
    BY <1>6, <1>7, <2>3
<1> QED
  BY <1>3, <1>6, <1>7

(* The options of "initialize" hold flags and compilation databases.       *)
LEMMA OptionsNothing == free_initialization_options(<<>>) = 0
BY NothingHeld DEF free_initialization_options, Items

LEMMA OptionsReturns ==
  ASSUME NEW json \in Decodable
  PROVE  Returned(json, decode_initialization_options, free_initialization_options)
<1> DEFINE fields == [flags |-> StringsField(json, "flags"),
                      compilation_database |-> ArrayField(json, "compilationDatabase", decode_compilation_database_params)]
<1>1. DOMAIN fields = {"flags", "compilation_database"}
  OBVIOUS
<1>2. /\ fields.flags = StringsField(json, "flags") /\ FieldOK(fields.flags)
      /\ FieldOK(fields.compilation_database)
      /\ fields.compilation_database = ArrayField(json, "compilationDatabase", decode_compilation_database_params)
  BY DatabaseItems, StringsFields
<1> HIDE DEF fields
<1>3. FieldsOK(fields)
  <2>1. IsFiniteSet(DOMAIN fields)
    BY <1>1, FiniteTwo
  <2> QED
    BY <1>1, <1>2, <2>1, FieldsAreOK DEF FieldsOK, FieldReturned
<1>4. PICK struct :
        /\ struct = decode_initialization_options(json)
        /\ struct = Structure(INITIALIZATION_OPTIONS_FIELD_REQUIRED, fields)
  BY DEF decode_initialization_options, fields
<1>5. DOMAIN fields \ {"flags", "compilation_database"} = {}
  BY <1>1
<1>6. struct.heap = SumFunction([m \in {"flags", "compilation_database"} |-> fields[m].heap])
  BY <1>1, <1>3, <1>4, <1>5, StructureHeap
<1>7. /\ struct.heap = fields.flags.heap + fields.compilation_database.heap
      /\ fields.flags.heap \in Nat
      /\ fields.compilation_database.heap \in Nat
  BY <1>1, <1>3, <1>6, HeapTwo
<1>8. Strings(struct.value, "flags") = fields.flags.heap
  BY <1>1, <1>2, <1>3, <1>4, StringsMember DEF FieldsOK
<1>9. Items(struct.value, "compilation_database", free_compilation_database_params)
        = fields.compilation_database.heap
  BY <1>1, <1>2, <1>3, <1>4, DatabaseItems, StructureValue DEF Items, FieldOK, FieldsOK
<1> QED
  BY <1>4, <1>7, <1>8, <1>9 DEF Returned, free_initialization_options

LEMMA OptionsField ==
  ASSUME NEW json \in Decodable, NEW name
  PROVE  FieldReturned(ObjectField(json, name, decode_initialization_options),
                       free_initialization_options)
<1>0. PICK member \in Decodable : member = json_object_get(json, name)
  BY GetType
<1>1. PICK struct : struct = decode_initialization_options(member)
  OBVIOUS
<1>2. PICK field : field = ObjectField(json, name, decode_initialization_options)
  OBVIOUS
<1>3. field = ObjectTaken(member, struct)
  BY <1>0, <1>1, <1>2 DEF ObjectField, ObjectTaken
<1>4. struct.heap \in Nat /\ free_initialization_options(struct.value) = struct.heap
  BY <1>1, OptionsReturns DEF Returned
<1>5. FieldReturned(field, free_initialization_options)
  BY <1>3, <1>4, OptionsNothing, ObjectFieldOK DEF FieldReturned
<1> QED
  BY <1>2, <1>5

(* The capabilities of a workspace hold no block.                          *)
LEMMA WorkspaceNothing == free_workspace_client_capabilities(<<>>) = 0
BY NothingHeld DEF free_workspace_client_capabilities

LEMMA WorkspaceReturns ==
  ASSUME NEW json \in Decodable
  PROVE  Returned(json, decode_workspace_client_capabilities,
                  free_workspace_client_capabilities)
<1> DEFINE fields == [apply_edit |-> BooleanField(json, "applyEdit"),
                      workspace_edit |-> GroupField(json, "workspaceEdit", RegistrationFlags),
                      did_change_configuration |-> GroupField(json, "didChangeConfiguration", RegistrationFlags),
                      did_change_watched_files |-> GroupField(json, "didChangeWatchedFiles", RegistrationFlags),
                      symbol |-> GroupField(json, "symbol", RegistrationFlags),
                      execute_command |-> GroupField(json, "executeCommand", RegistrationFlags)]
<1>1. DOMAIN fields
        = {"apply_edit", "workspace_edit", "did_change_configuration",
           "did_change_watched_files", "symbol", "execute_command"}
  OBVIOUS
<1>2. /\ FlatField(fields.apply_edit)
      /\ FlatField(fields.workspace_edit)
      /\ FlatField(fields.did_change_configuration)
      /\ FlatField(fields.did_change_watched_files)
      /\ FlatField(fields.symbol)
      /\ FlatField(fields.execute_command)
  <2>1. FlatField(fields.apply_edit)
    BY FlatFields
  <2>2. FlatField(fields.workspace_edit)
    BY FlatFields
  <2>3. FlatField(fields.did_change_configuration)
    BY FlatFields
  <2>4. FlatField(fields.did_change_watched_files)
    BY FlatFields
  <2>5. FlatField(fields.symbol)
    BY FlatFields
  <2>6. FlatField(fields.execute_command)
    BY FlatFields
  <2> QED
    BY <2>1, <2>2, <2>3, <2>4, <2>5, <2>6
<1> HIDE DEF fields
<1>3. FieldsOK(fields) /\ \A m \in DOMAIN fields : fields[m].heap = 0
  <2>1. IsFiniteSet(DOMAIN fields)
    <3>1. IsFiniteSet({"apply_edit", "workspace_edit", "did_change_configuration",
                      "did_change_watched_files", "symbol", "execute_command"})
      BY FiniteSix
    <3> QED
      BY <1>1, <3>1
  <2>2. /\ FieldOK(fields.apply_edit)
        /\ FieldOK(fields.workspace_edit)
        /\ FieldOK(fields.did_change_configuration)
        /\ FieldOK(fields.did_change_watched_files)
        /\ FieldOK(fields.symbol)
        /\ FieldOK(fields.execute_command)
    BY <1>2, FieldsAreOK DEF FieldReturned
  <2> QED
    BY <1>1, <1>2, <2>1, <2>2 DEF FieldsOK, FlatField
<1>4. PICK struct :
        /\ struct = decode_workspace_client_capabilities(json)
        /\ struct = Structure(WORKSPACE_CLIENT_CAPABILITIES_FIELD_REQUIRED, fields)
  BY DEF decode_workspace_client_capabilities, fields
<1>5. struct.heap = 0
  BY <1>3, <1>4, StructureNone
<1> QED
  BY <1>4, <1>5 DEF Returned, free_workspace_client_capabilities

LEMMA WorkspaceField ==
  ASSUME NEW json \in Decodable, NEW name
  PROVE  FieldReturned(ObjectField(json, name, decode_workspace_client_capabilities),
                       free_workspace_client_capabilities)
<1>0. PICK member \in Decodable : member = json_object_get(json, name)
  BY GetType
<1>1. PICK struct : struct = decode_workspace_client_capabilities(member)
  OBVIOUS
<1>2. PICK field : field = ObjectField(json, name, decode_workspace_client_capabilities)
  OBVIOUS
<1>3. field = ObjectTaken(member, struct)
  BY <1>0, <1>1, <1>2 DEF ObjectField, ObjectTaken
<1>4. struct.heap \in Nat /\ free_workspace_client_capabilities(struct.value) = struct.heap
  BY <1>1, WorkspaceReturns DEF Returned
<1>5. FieldReturned(field, free_workspace_client_capabilities)
  BY <1>3, <1>4, WorkspaceNothing, ObjectFieldOK DEF FieldReturned
<1> QED
  BY <1>2, <1>5

(* Those of a document hold the formats found for its signatures.          *)
LEMMA TextDocumentNothing == free_text_document_client_capabilities(<<>>) = 0
BY NothingHeld DEF free_text_document_client_capabilities

LEMMA TextDocumentReturns ==
  ASSUME NEW json \in Decodable
  PROVE  Returned(json, decode_text_document_client_capabilities,
                  free_text_document_client_capabilities)
<1> DEFINE fields == [synchronization |-> GroupField(json, "synchronization", SynchronizationFlags),
                      completion |-> GroupField(json, "completion", CompletionFlags),
                      hover |-> GroupField(json, "hover", RegistrationFlags),
                      signature_help |-> SignatureField(json),
                      references |-> GroupField(json, "references", RegistrationFlags),
                      document_highlight |-> GroupField(json, "documentHighlight", RegistrationFlags),
                      document_symbol |-> GroupField(json, "documentSymbol", RegistrationFlags),
                      formatting |-> GroupField(json, "formatting", RegistrationFlags),
                      on_type_formatting |-> GroupField(json, "onTypeFormatting", RegistrationFlags),
                      definition |-> GroupField(json, "definition", RegistrationFlags),
                      code_action |-> GroupField(json, "codeAction", RegistrationFlags),
                      code_lens |-> GroupField(json, "codeLens", RegistrationFlags),
                      document_link |-> GroupField(json, "documentLink", RegistrationFlags),
                      rename |-> GroupField(json, "rename", RegistrationFlags)]
<1>1. DOMAIN fields
        = {"synchronization", "completion", "hover", "signature_help", "references",
           "document_highlight", "document_symbol", "formatting", "on_type_formatting",
           "definition", "code_action", "code_lens", "document_link", "rename"}
  OBVIOUS
<1>2. /\ FlatField(fields.synchronization)
      /\ FlatField(fields.completion)
      /\ FlatField(fields.hover)
      /\ fields.signature_help = SignatureField(json) /\ FieldOK(fields.signature_help)
      /\ FlatField(fields.references)
      /\ FlatField(fields.document_highlight)
      /\ FlatField(fields.document_symbol)
      /\ FlatField(fields.formatting)
      /\ FlatField(fields.on_type_formatting)
      /\ FlatField(fields.definition)
      /\ FlatField(fields.code_action)
      /\ FlatField(fields.code_lens)
      /\ FlatField(fields.document_link)
      /\ FlatField(fields.rename)
  <2>1. FlatField(fields.synchronization)
    BY FlatFields
  <2>2. FlatField(fields.completion)
    BY FlatFields
  <2>3. FlatField(fields.hover)
    BY FlatFields
  <2>4. fields.signature_help = SignatureField(json) /\ FieldOK(fields.signature_help)
    BY SignatureFieldOK
  <2>5. FlatField(fields.references)
    BY FlatFields
  <2>6. FlatField(fields.document_highlight)
    BY FlatFields
  <2>7. FlatField(fields.document_symbol)
    BY FlatFields
  <2>8. FlatField(fields.formatting)
    BY FlatFields
  <2>9. FlatField(fields.on_type_formatting)
    BY FlatFields
  <2>10. FlatField(fields.definition)
    BY FlatFields
  <2>11. FlatField(fields.code_action)
    BY FlatFields
  <2>12. FlatField(fields.code_lens)
    BY FlatFields
  <2>13. FlatField(fields.document_link)
    BY FlatFields
  <2>14. FlatField(fields.rename)
    BY FlatFields
  <2> QED
    BY <2>1, <2>2, <2>3, <2>4, <2>5, <2>6, <2>7, <2>8, <2>9, <2>10, <2>11, <2>12, <2>13, <2>14
<1> HIDE DEF fields
<1>3. FieldsOK(fields)
  <2>1. PICK S, T, U :
           /\ S = {"synchronization", "completion", "hover",
                  "signature_help", "references", "document_highlight"}
           /\ T = {"document_symbol", "formatting", "on_type_formatting",
                  "definition", "code_action", "code_lens"}
           /\ U = {"document_link", "rename"}
    OBVIOUS
  <2>2. IsFiniteSet((S \cup T) \cup U)
    BY <2>1, FiniteTwo, FiniteSix, FS_Union
  <2>3. IsFiniteSet(DOMAIN fields)
    <3>1. DOMAIN fields = (S \cup T) \cup U
      BY <1>1, <2>1
    <3> QED
      BY <2>2, <3>1
  <2>4. /\ FieldOK(fields.synchronization)
        /\ FieldOK(fields.completion)
        /\ FieldOK(fields.hover)
        /\ FieldOK(fields.signature_help)
        /\ FieldOK(fields.references)
        /\ FieldOK(fields.document_highlight)
        /\ FieldOK(fields.document_symbol)
        /\ FieldOK(fields.formatting)
        /\ FieldOK(fields.on_type_formatting)
        /\ FieldOK(fields.definition)
        /\ FieldOK(fields.code_action)
        /\ FieldOK(fields.code_lens)
        /\ FieldOK(fields.document_link)
        /\ FieldOK(fields.rename)
    BY <1>2, FieldsAreOK DEF FieldReturned
  <2> QED
    BY <1>1, <2>3, <2>4 DEF FieldsOK
<1>4. PICK struct :
        /\ struct = decode_text_document_client_capabilities(json)
        /\ struct = Structure(TEXT_DOCUMENT_CLIENT_CAPABILITIES_FIELD_REQUIRED, fields)
  BY DEF decode_text_document_client_capabilities, fields
<1>5. \A m \in DOMAIN fields \ {"signature_help"} : fields[m].heap = 0
  BY <1>1, <1>2 DEF FlatField
<1>6. struct.heap = SumFunction([m \in {"signature_help"} |-> fields[m].heap])
  BY <1>1, <1>3, <1>4, <1>5, StructureHeap
<1>7. /\ struct.heap = fields.signature_help.heap
      /\ fields.signature_help.heap \in Nat
  BY <1>1, <1>3, <1>6, HeapOne
<1>8. Strings(Member(struct.value, "signature_help"), "documentation_format")
        = fields.signature_help.heap
  BY <1>1, <1>2, <1>3, <1>4, SignatureFieldOK, ObjectMember DEF FieldsOK
<1> QED
  BY <1>4, <1>7, <1>8 DEF Returned, free_text_document_client_capabilities

LEMMA TextDocumentField ==
  ASSUME NEW json \in Decodable, NEW name
  PROVE  FieldReturned(ObjectField(json, name, decode_text_document_client_capabilities),
                       free_text_document_client_capabilities)
<1>0. PICK member \in Decodable : member = json_object_get(json, name)
  BY GetType
<1>1. PICK struct : struct = decode_text_document_client_capabilities(member)
  OBVIOUS
<1>2. PICK field : field = ObjectField(json, name, decode_text_document_client_capabilities)
  OBVIOUS
<1>3. field = ObjectTaken(member, struct)
  BY <1>0, <1>1, <1>2 DEF ObjectField, ObjectTaken
<1>4. struct.heap \in Nat /\ free_text_document_client_capabilities(struct.value) = struct.heap
  BY <1>1, TextDocumentReturns DEF Returned
<1>5. FieldReturned(field, free_text_document_client_capabilities)
  BY <1>3, <1>4, TextDocumentNothing, ObjectFieldOK DEF FieldReturned
<1> QED
  BY <1>2, <1>5

(* The capabilities hold those, and a reference to what is experimental.   *)
LEMMA CapabilitiesNothing == free_client_capabilities(<<>>) = 0
BY NothingHeld, TextDocumentNothing
DEF free_client_capabilities, free_workspace_client_capabilities

LEMMA CapabilitiesReturns ==
  ASSUME NEW json \in Decodable
  PROVE  Returned(json, decode_client_capabilities, free_client_capabilities)
<1> DEFINE fields == [workspace |-> ObjectField(json, "workspace", decode_workspace_client_capabilities),
                      text_document |-> ObjectField(json, "textDocument", decode_text_document_client_capabilities),
                      experimental |-> AnyField(json, "experimental")]
<1>1. DOMAIN fields = {"workspace", "text_document", "experimental"}
  OBVIOUS
<1>2. /\ FieldOK(fields.workspace) /\ fields.workspace.heap = 0
      /\ FieldReturned(fields.text_document, free_text_document_client_capabilities)
      /\ BlockField(fields.experimental)
  BY BlockFields, TextDocumentField, WorkspaceField
  DEF FieldReturned, free_workspace_client_capabilities
<1> HIDE DEF fields
<1>3. FieldsOK(fields)
  <2>1. IsFiniteSet(DOMAIN fields)
    <3>1. IsFiniteSet({"workspace", "text_document", "experimental"})
      BY FiniteThree
    <3> QED
      BY <1>1, <3>1
  <2>2. /\ FieldOK(fields.workspace)
        /\ FieldOK(fields.text_document)
        /\ FieldOK(fields.experimental)
    BY <1>2, FieldsAreOK DEF FieldReturned
  <2> QED
    BY <1>1, <2>1, <2>2 DEF FieldsOK
<1>4. PICK struct :
        /\ struct = decode_client_capabilities(json)
        /\ struct = Structure(CLIENT_CAPABILITIES_FIELD_REQUIRED, fields)
  BY DEF decode_client_capabilities, fields
<1>5. \A m \in DOMAIN fields \ {"text_document", "experimental"} : fields[m].heap = 0
  BY <1>1, <1>2 DEF FlatField
<1>6. struct.heap = SumFunction([m \in {"text_document", "experimental"} |-> fields[m].heap])
  BY <1>1, <1>3, <1>4, <1>5, StructureHeap
<1>7. /\ struct.heap = fields.text_document.heap + fields.experimental.heap
      /\ fields.text_document.heap \in Nat
      /\ fields.experimental.heap \in Nat
  BY <1>1, <1>3, <1>6, HeapTwo
<1>8. Held(struct.value, {"experimental"}) = fields.experimental.heap
  BY <1>1, <1>2, <1>3, <1>4, OneMember, HeldOne DEF FieldsOK
<1>9. free_text_document_client_capabilities(Member(struct.value, "text_document"))
        = fields.text_document.heap
  BY <1>1, <1>2, <1>3, <1>4, ObjectMember DEF FieldReturned, FieldsOK
<1> QED
  BY <1>4, <1>7, <1>8, <1>9
  DEF Returned, free_client_capabilities, free_workspace_client_capabilities

LEMMA CapabilitiesField ==
  ASSUME NEW json \in Decodable, NEW name
  PROVE  FieldReturned(ObjectField(json, name, decode_client_capabilities),
                       free_client_capabilities)
<1>0. PICK member \in Decodable : member = json_object_get(json, name)
  BY GetType
<1>1. PICK struct : struct = decode_client_capabilities(member)
  OBVIOUS
<1>2. PICK field : field = ObjectField(json, name, decode_client_capabilities)
  OBVIOUS
<1>3. field = ObjectTaken(member, struct)
  BY <1>0, <1>1, <1>2 DEF ObjectField, ObjectTaken
<1>4. struct.heap \in Nat /\ free_client_capabilities(struct.value) = struct.heap
  BY <1>1, CapabilitiesReturns DEF Returned
<1>5. FieldReturned(field, free_client_capabilities)
  BY <1>3, <1>4, CapabilitiesNothing, ObjectFieldOK DEF FieldReturned
<1> QED
  BY <1>2, <1>5

(* The params of "initialize".                                             *)
LEMMA InitializeReturns ==
  ASSUME NEW json \in Decodable
  PROVE  Returned(json, decode_initialize_params, free_initialize_params)
<1> DEFINE fields == [process_id |-> NumberField(json, "processId"),
                      root_path |-> StringField(json, "rootPath"),
                      root_uri |-> UriField(json, "rootUri"),
                      capabilities |-> ObjectField(json, "capabilities", decode_client_capabilities),
                      initialization_options |-> ObjectField(json, "initializationOptions", decode_initialization_options),
                      trace |-> StringField(json, "trace")]
<1>1. DOMAIN fields
        = {"process_id", "root_path", "root_uri", "capabilities",
           "initialization_options", "trace"}
  OBVIOUS
<1>2. /\ FlatField(fields.process_id)
      /\ BlockField(fields.root_path)
      /\ BlockField(fields.root_uri)
      /\ FieldReturned(fields.capabilities, free_client_capabilities)
      /\ FieldReturned(fields.initialization_options, free_initialization_options)
      /\ BlockField(fields.trace)
  <2>1. FlatField(fields.process_id)
    BY FlatFields
  <2>2. BlockField(fields.root_path)
    BY BlockFields
  <2>3. BlockField(fields.root_uri)
    BY BlockFields
  <2>4. FieldReturned(fields.capabilities, free_client_capabilities)
    BY CapabilitiesField
  <2>5. FieldReturned(fields.initialization_options, free_initialization_options)
    BY OptionsField
  <2>6. BlockField(fields.trace)
    BY BlockFields
  <2> QED
    BY <2>1, <2>2, <2>3, <2>4, <2>5, <2>6
<1> HIDE DEF fields
<1>3. FieldsOK(fields)
  <2>1. IsFiniteSet(DOMAIN fields)
    <3>1. IsFiniteSet({"process_id", "root_path", "root_uri",
                      "capabilities", "initialization_options", "trace"})
      BY FiniteSix
    <3> QED
      BY <1>1, <3>1
  <2>2. /\ FieldOK(fields.process_id)
        /\ FieldOK(fields.root_path)
        /\ FieldOK(fields.root_uri)
        /\ FieldOK(fields.capabilities)
        /\ FieldOK(fields.initialization_options)
        /\ FieldOK(fields.trace)
    BY <1>2, FieldsAreOK DEF FieldReturned
  <2> QED
    BY <1>1, <2>1, <2>2 DEF FieldsOK
<1>4. PICK struct :
        /\ struct = decode_initialize_params(json)
        /\ struct = Structure(INITIALIZE_PARAMS_FIELD_REQUIRED, fields)
  BY DEF decode_initialize_params, fields
<1>5. \A m \in DOMAIN fields \ {"root_path", "root_uri", "capabilities", "initialization_options", "trace"} :
        fields[m].heap = 0
  BY <1>1, <1>2 DEF FlatField
<1>6. struct.heap
        = SumFunction([m \in {"root_path", "root_uri", "capabilities", "initialization_options", "trace"} |-> fields[m].heap])
  BY <1>1, <1>3, <1>4, <1>5, StructureHeap
<1>7. /\ struct.heap
           = fields.root_path.heap + (fields.root_uri.heap + (fields.capabilities.heap + (
               fields.initialization_options.heap + fields.trace.heap)))
      /\ fields.root_path.heap \in Nat
      /\ fields.root_uri.heap \in Nat
      /\ fields.capabilities.heap \in Nat
      /\ fields.initialization_options.heap \in Nat
      /\ fields.trace.heap \in Nat
  <2>1. /\ "root_path" \in DOMAIN fields
        /\ "root_uri" \in DOMAIN fields
        /\ "capabilities" \in DOMAIN fields
        /\ "initialization_options" \in DOMAIN fields
        /\ "trace" \in DOMAIN fields
    BY <1>1
  <2>2. PICK S : S = {"root_path", "root_uri", "capabilities", "initialization_options", "trace"}
    OBVIOUS
  <2>3. struct.heap = SumFunction([m \in S |-> fields[m].heap])
    BY <1>6, <2>2
  <2>4. /\ SumFunction([m \in S |-> fields[m].heap])
             = fields.root_path.heap + (fields.root_uri.heap + (fields.capabilities.heap + (
                 fields.initialization_options.heap + fields.trace.heap)))
        /\ fields.root_path.heap \in Nat
        /\ fields.root_uri.heap \in Nat
        /\ fields.capabilities.heap \in Nat
        /\ fields.initialization_options.heap \in Nat
        /\ fields.trace.heap \in Nat
    BY <1>3, <2>1, <2>2, HeapFive
  <2> QED
    BY <2>3, <2>4
<1>8. Held(struct.value, {"root_path", "root_uri", "trace"})
        = fields.root_path.heap + (fields.root_uri.heap + fields.trace.heap)
  BY <1>1, <1>2, <1>3, <1>4, OneMember, HeldThree DEF FieldsOK
<1>9. free_client_capabilities(Member(struct.value, "capabilities")) = fields.capabilities.heap
  BY <1>1, <1>2, <1>3, <1>4, ObjectMember DEF FieldReturned, FieldsOK
<1>10. free_initialization_options(Member(struct.value, "initialization_options"))
        = fields.initialization_options.heap
  BY <1>1, <1>2, <1>3, <1>4, ObjectMember DEF FieldReturned, FieldsOK
<1>11. free_initialize_params(struct.value) = struct.heap /\ struct.heap \in Nat
  BY <1>7, <1>8, <1>9, <1>10 DEF free_initialize_params
<1> QED
  BY <1>4, <1>11 DEF Returned

(* The params of the requests about a position.                            *)
LEMMA PositionParamsReturns ==
  ASSUME NEW json \in Decodable
  PROVE  Returned(json, decode_text_document_position_params,
                  free_text_document_position_params)
<1> DEFINE fields == [text_document |-> ObjectField(json, "textDocument", decode_text_document_identifier),
                      position |-> ObjectField(json, "position", decode_position)]
<1>1. DOMAIN fields = {"text_document", "position"}
  OBVIOUS
<1>2. /\ FieldReturned(fields.text_document, free_text_document_identifier)
      /\ FieldOK(fields.position) /\ fields.position.heap = 0
  BY IdentifierField, PositionField DEF FieldReturned, free_position
<1> HIDE DEF fields
<1>3. FieldsOK(fields)
  <2>1. IsFiniteSet(DOMAIN fields)
    BY <1>1, FiniteTwo
  <2> QED
    BY <1>1, <1>2, <2>1, FieldsAreOK DEF FieldsOK, FieldReturned
<1>4. PICK struct :
        /\ struct = decode_text_document_position_params(json)
        /\ struct = Structure(TEXT_DOCUMENT_POSITION_PARAMS_FIELD_REQUIRED, fields)
  BY DEF decode_text_document_position_params, fields
<1>5. \A m \in DOMAIN fields \ {"text_document"} : fields[m].heap = 0
  BY <1>1, <1>2 DEF FlatField
<1>6. struct.heap = SumFunction([m \in {"text_document"} |-> fields[m].heap])
  BY <1>1, <1>3, <1>4, <1>5, StructureHeap
<1>7. /\ struct.heap = fields.text_document.heap
      /\ fields.text_document.heap \in Nat
  BY <1>1, <1>3, <1>6, HeapOne
<1>8. free_text_document_identifier(Member(struct.value, "text_document"))
        = fields.text_document.heap
  BY <1>1, <1>2, <1>3, <1>4, ObjectMember DEF FieldReturned, FieldsOK
<1> QED
  BY <1>4, <1>7, <1>8 DEF Returned, free_text_document_position_params, free_position

(* The params of "documentSymbol".                                         *)
LEMMA DocumentSymbolReturns ==
  ASSUME NEW json \in Decodable
  PROVE  Returned(json, decode_document_symbol_params, free_document_symbol_params)
<1> DEFINE fields == [text_document |-> ObjectField(json, "textDocument", decode_text_document_identifier)]
<1>1. DOMAIN fields = {"text_document"}
  OBVIOUS
<1>2. FieldReturned(fields.text_document, free_text_document_identifier)
  BY IdentifierField
<1> HIDE DEF fields
<1>3. FieldsOK(fields)
  <2>1. IsFiniteSet(DOMAIN fields)
    BY <1>1, FiniteOne
  <2> QED
    BY <1>1, <1>2, <2>1, FieldsAreOK DEF FieldsOK, FieldReturned
<1>4. PICK struct :
        /\ struct = decode_document_symbol_params(json)
        /\ struct = Structure(DOCUMENT_SYMBOL_PARAMS_FIELD_REQUIRED, fields)
  BY DEF decode_document_symbol_params, fields
<1>5. DOMAIN fields \ {"text_document"} = {}
  BY <1>1
<1>6. struct.heap = SumFunction([m \in {"text_document"} |-> fields[m].heap])
  BY <1>1, <1>3, <1>4, <1>5, StructureHeap
<1>7. /\ struct.heap = fields.text_document.heap
      /\ fields.text_document.heap \in Nat
  BY <1>1, <1>3, <1>6, HeapOne
<1>8. free_text_document_identifier(Member(struct.value, "text_document"))
        = fields.text_document.heap
  BY <1>1, <1>2, <1>3, <1>4, ObjectMember DEF FieldReturned, FieldsOK
<1> QED
  BY <1>4, <1>7, <1>8 DEF Returned, free_document_symbol_params

(* The params of "codeAction".                                             *)
LEMMA CodeActionReturns ==
  ASSUME NEW json \in Decodable
  PROVE  Returned(json, decode_code_action_params, free_code_action_params)
<1> DEFINE fields == [text_document |-> ObjectField(json, "textDocument", decode_text_document_identifier),
                      range |-> ObjectField(json, "range", decode_range),
                      context |-> ObjectField(json, "context", decode_code_action_context)]
<1>1. DOMAIN fields = {"text_document", "range", "context"}
  OBVIOUS
<1>2. /\ FieldReturned(fields.text_document, free_text_document_identifier)
      /\ FieldOK(fields.range) /\ fields.range.heap = 0
      /\ FieldReturned(fields.context, free_code_action_context)
  BY ContextField, IdentifierField, RangeField DEF FieldReturned, free_position, free_range
<1> HIDE DEF fields
<1>3. FieldsOK(fields)
  <2>1. IsFiniteSet(DOMAIN fields)
    <3>1. IsFiniteSet({"text_document", "range", "context"})
      BY FiniteThree
    <3> QED
      BY <1>1, <3>1
  <2>2. /\ FieldOK(fields.text_document)
        /\ FieldOK(fields.range)
        /\ FieldOK(fields.context)
    BY <1>2, FieldsAreOK DEF FieldReturned
  <2> QED
    BY <1>1, <2>1, <2>2 DEF FieldsOK
<1>4. PICK struct :
        /\ struct = decode_code_action_params(json)
        /\ struct = Structure(CODE_ACTION_PARAMS_FIELD_REQUIRED, fields)
  BY DEF decode_code_action_params, fields
<1>5. \A m \in DOMAIN fields \ {"text_document", "context"} : fields[m].heap = 0
  BY <1>1, <1>2 DEF FlatField
<1>6. struct.heap = SumFunction([m \in {"text_document", "context"} |-> fields[m].heap])
  BY <1>1, <1>3, <1>4, <1>5, StructureHeap
<1>7. /\ struct.heap = fields.text_document.heap + fields.context.heap
      /\ fields.text_document.heap \in Nat
      /\ fields.context.heap \in Nat
  BY <1>1, <1>3, <1>6, HeapTwo
<1>8. free_text_document_identifier(Member(struct.value, "text_document"))
        = fields.text_document.heap
  BY <1>1, <1>2, <1>3, <1>4, ObjectMember DEF FieldReturned, FieldsOK
<1>9. free_code_action_context(Member(struct.value, "context")) = fields.context.heap
  BY <1>1, <1>2, <1>3, <1>4, ObjectMember DEF FieldReturned, FieldsOK
<1> QED
  BY <1>4, <1>7, <1>8, <1>9 DEF Returned, free_code_action_params, free_range, free_position

(* The params of the notifications.                                        *)
LEMMA DidOpenReturns ==
  ASSUME NEW json \in Decodable
  PROVE  Returned(json, decode_did_open_text_document_params,
                  free_did_open_text_document_params)
<1> DEFINE fields == [text_document |-> ObjectField(json, "textDocument", decode_text_document_item)]
<1>1. DOMAIN fields = {"text_document"}
  OBVIOUS
<1>2. FieldReturned(fields.text_document, free_text_document_item)
  BY ItemField
<1> HIDE DEF fields
<1>3. FieldsOK(fields)
  <2>1. IsFiniteSet(DOMAIN fields)
    BY <1>1, FiniteOne
  <2> QED
    BY <1>1, <1>2, <2>1, FieldsAreOK DEF FieldsOK, FieldReturned
<1>4. PICK struct :
        /\ struct = decode_did_open_text_document_params(json)
        /\ struct = Structure(DID_OPEN_TEXT_DOCUMENT_PARAMS_FIELD_REQUIRED, fields)
  BY DEF decode_did_open_text_document_params, fields
<1>5. DOMAIN fields \ {"text_document"} = {}
  BY <1>1
<1>6. struct.heap = SumFunction([m \in {"text_document"} |-> fields[m].heap])
  BY <1>1, <1>3, <1>4, <1>5, StructureHeap
<1>7. /\ struct.heap = fields.text_document.heap
      /\ fields.text_document.heap \in Nat
  BY <1>1, <1>3, <1>6, HeapOne
<1>8. free_text_document_item(Member(struct.value, "text_document")) = fields.text_document.heap
  BY <1>1, <1>2, <1>3, <1>4, ObjectMember DEF FieldReturned, FieldsOK
<1> QED
  BY <1>4, <1>7, <1>8 DEF Returned, free_did_open_text_document_params

LEMMA DidChangeReturns ==
  ASSUME NEW json \in Decodable
  PROVE  Returned(json, decode_did_change_text_document_params,
                  free_did_change_text_document_params)
<1> DEFINE fields == [text_document |-> ObjectField(json, "textDocument", decode_versioned_text_document_identifier),
                      content_changes |-> ArrayField(json, "contentChanges", decode_text_document_content_change_event)]
<1>1. DOMAIN fields = {"text_document", "content_changes"}
  OBVIOUS
<1>2. /\ FieldReturned(fields.text_document, free_versioned_text_document_identifier)
      /\ FieldOK(fields.content_changes)
      /\ fields.content_changes = ArrayField(json, "contentChanges", decode_text_document_content_change_event)
  BY ChangeEventItems, VersionedField
<1> HIDE DEF fields
<1>3. FieldsOK(fields)
  <2>1. IsFiniteSet(DOMAIN fields)
    BY <1>1, FiniteTwo
  <2> QED
    BY <1>1, <1>2, <2>1, FieldsAreOK DEF FieldsOK, FieldReturned
<1>4. PICK struct :
        /\ struct = decode_did_change_text_document_params(json)
        /\ struct = Structure(DID_CHANGE_TEXT_DOCUMENT_PARAMS_FIELD_REQUIRED, fields)
  BY DEF decode_did_change_text_document_params, fields
<1>5. DOMAIN fields \ {"text_document", "content_changes"} = {}
  BY <1>1
<1>6. struct.heap = SumFunction([m \in {"text_document", "content_changes"} |-> fields[m].heap])
  BY <1>1, <1>3, <1>4, <1>5, StructureHeap
<1>7. /\ struct.heap = fields.text_document.heap + fields.content_changes.heap
      /\ fields.text_document.heap \in Nat
      /\ fields.content_changes.heap \in Nat
  BY <1>1, <1>3, <1>6, HeapTwo
<1>8. free_versioned_text_document_identifier(Member(struct.value, "text_document"))
        = fields.text_document.heap
  BY <1>1, <1>2, <1>3, <1>4, ObjectMember DEF FieldReturned, FieldsOK
<1>9. Items(struct.value, "content_changes", free_text_document_content_change_event)
        = fields.content_changes.heap
  BY <1>1, <1>2, <1>3, <1>4, ChangeEventItems, StructureValue DEF Items, FieldOK, FieldsOK
<1> QED
  BY <1>4, <1>7, <1>8, <1>9 DEF Returned, free_did_change_text_document_params

LEMMA DidSaveReturns ==
  ASSUME NEW json \in Decodable
  PROVE  Returned(json, decode_did_save_text_document_params,
                  free_did_save_text_document_params)
<1> DEFINE fields == [text_document |-> ObjectField(json, "textDocument", decode_text_document_identifier),
                      text |-> StringField(json, "text")]
<1>1. DOMAIN fields = {"text_document", "text"}
  OBVIOUS
<1>2. /\ FieldReturned(fields.text_document, free_text_document_identifier)
      /\ BlockField(fields.text)
  BY BlockFields, IdentifierField
<1> HIDE DEF fields
<1>3. FieldsOK(fields)
  <2>1. IsFiniteSet(DOMAIN fields)
    BY <1>1, FiniteTwo
  <2> QED
    BY <1>1, <1>2, <2>1, FieldsAreOK DEF FieldsOK, FieldReturned
<1>4. PICK struct :
        /\ struct = decode_did_save_text_document_params(json)
        /\ struct = Structure(DID_SAVE_TEXT_DOCUMENT_PARAMS_FIELD_REQUIRED, fields)
  BY DEF decode_did_save_text_document_params, fields
<1>5. DOMAIN fields \ {"text_document", "text"} = {}
  BY <1>1
<1>6. struct.heap = SumFunction([m \in {"text_document", "text"} |-> fields[m].heap])
  BY <1>1, <1>3, <1>4, <1>5, StructureHeap
<1>7. /\ struct.heap = fields.text_document.heap + fields.text.heap
      /\ fields.text_document.heap \in Nat
      /\ fields.text.heap \in Nat
  BY <1>1, <1>3, <1>6, HeapTwo
<1>8. Held(struct.value, {"text"}) = fields.text.heap
  BY <1>1, <1>2, <1>3, <1>4, OneMember, HeldOne DEF FieldsOK
<1>9. free_text_document_identifier(Member(struct.value, "text_document"))
        = fields.text_document.heap
  BY <1>1, <1>2, <1>3, <1>4, ObjectMember DEF FieldReturned, FieldsOK
<1> QED
  BY <1>4, <1>7, <1>8, <1>9 DEF Returned, free_did_save_text_document_params

LEMMA DidCloseReturns ==
  ASSUME NEW json \in Decodable
  PROVE  Returned(json, decode_did_close_text_document_params,
                  free_did_close_text_document_params)
<1> DEFINE fields == [text_document |-> ObjectField(json, "textDocument", decode_text_document_identifier)]
<1>1. DOMAIN fields = {"text_document"}
  OBVIOUS
<1>2. FieldReturned(fields.text_document, free_text_document_identifier)
  BY IdentifierField
<1> HIDE DEF fields
<1>3. FieldsOK(fields)
  <2>1. IsFiniteSet(DOMAIN fields)
    BY <1>1, FiniteOne
  <2> QED
    BY <1>1, <1>2, <2>1, FieldsAreOK DEF FieldsOK, FieldReturned
<1>4. PICK struct :
        /\ struct = decode_did_close_text_document_params(json)
        /\ struct = Structure(DID_CLOSE_TEXT_DOCUMENT_PARAMS_FIELD_REQUIRED, fields)
  BY DEF decode_did_close_text_document_params, fields
<1>5. DOMAIN fields \ {"text_document"} = {}
  BY <1>1
<1>6. struct.heap = SumFunction([m \in {"text_document"} |-> fields[m].heap])
  BY <1>1, <1>3, <1>4, <1>5, StructureHeap
<1>7. /\ struct.heap = fields.text_document.heap
      /\ fields.text_document.heap \in Nat
  BY <1>1, <1>3, <1>6, HeapOne
<1>8. free_text_document_identifier(Member(struct.value, "text_document"))
        = fields.text_document.heap
  BY <1>1, <1>2, <1>3, <1>4, ObjectMember DEF FieldReturned, FieldsOK
<1> QED
  BY <1>4, <1>7, <1>8 DEF Returned, free_did_close_text_document_params

-----------------------------------------------------------------------------
(* Messages                                                                *)

LEMMA ParamsDecodable ==
  ASSUME NEW method \in Methods, NEW json \in Params[method]
  PROVE  json \in Decodable
BY ParamsAssumption DEF Decodable

(* What was allocated for the params is released.                          *)
LEMMA HeapKept ==
  ASSUME HeapReturns, NEW method, NEW params, params.heap \in Nat,
         HandOver(method, params, params.heap) \/ Notify(method, params, params.heap)
  PROVE  HeapReturns'
BY DEF HeapReturns, HandOver, Notify

LEMMA StepHeapReturns ==
  ASSUME HeapReturns, [Next]_vars
  PROVE  HeapReturns'
<1>1. CASE UNCHANGED vars
  BY <1>1 DEF HeapReturns, vars
<1>2. CASE Await
  BY <1>2 DEF Await, HeapReturns
<1>3. ASSUME NEW json \in Params["initialize"], request_handler_initialize(json)
      PROVE  HeapReturns'
  <2>1. Returned(json, decode_initialize_params, free_initialize_params)
    BY ParamsDecodable, InitializeReturns DEF Methods, Requests, Notifications
  <2> QED
    BY <1>3, <2>1, HeapKept DEF request_handler_initialize, Returned
<1>4. ASSUME NEW json \in Params["documentSymbol"], request_handler_text_document_document_symbol(json)
      PROVE  HeapReturns'
  <2>1. Returned(json, decode_document_symbol_params, free_document_symbol_params)
    BY ParamsDecodable, DocumentSymbolReturns DEF Methods, Requests, Notifications
  <2> QED
    BY <1>4, <2>1, HeapKept DEF request_handler_text_document_document_symbol, Returned
<1>5. ASSUME NEW json \in Params["completion"], request_handler_text_document_completion(json)
      PROVE  HeapReturns'
  <2>1. Returned(json, decode_text_document_position_params, free_text_document_position_params)
    BY ParamsDecodable, PositionParamsReturns DEF Methods, Requests, Notifications
  <2> QED
    BY <1>5, <2>1, HeapKept DEF request_handler_text_document_completion, Returned
<1>6. ASSUME NEW json \in Params["signatureHelp"], request_handler_text_document_signature_help(json)
      PROVE  HeapReturns'
  <2>1. Returned(json, decode_text_document_position_params, free_text_document_position_params)
    BY ParamsDecodable, PositionParamsReturns DEF Methods, Requests, Notifications
  <2> QED
    BY <1>6, <2>1, HeapKept DEF request_handler_text_document_signature_help, Returned
<1>7. ASSUME NEW json \in Params["definition"], request_handler_text_document_definition(json)
      PROVE  HeapReturns'
  <2>1. Returned(json, decode_text_document_position_params, free_text_document_position_params)
    BY ParamsDecodable, PositionParamsReturns DEF Methods, Requests, Notifications
  <2> QED
    BY <1>7, <2>1, HeapKept DEF request_handler_text_document_definition, Returned
<1>8. ASSUME NEW json \in Params["hover"], request_handler_text_document_hover(json)
      PROVE  HeapReturns'
  <2>1. Returned(json, decode_text_document_position_params, free_text_document_position_params)
    BY ParamsDecodable, PositionParamsReturns DEF Methods, Requests, Notifications
  <2> QED
    BY <1>8, <2>1, HeapKept DEF request_handler_text_document_hover, Returned
<1>9. ASSUME NEW json \in Params["codeAction"], request_handler_text_document_code_action(json)
      PROVE  HeapReturns'
  <2>1. Returned(json, decode_code_action_params, free_code_action_params)
    BY ParamsDecodable, CodeActionReturns DEF Methods, Requests, Notifications
  <2> QED
    BY <1>9, <2>1, HeapKept DEF request_handler_text_document_code_action, Returned
<1>10. ASSUME NEW json \in Params["didOpen"], notification_handler_text_document_did_open(json)
      PROVE  HeapReturns'
  <2>1. Returned(json, decode_did_open_text_document_params, free_did_open_text_document_params)
    BY ParamsDecodable, DidOpenReturns DEF Methods, Requests, Notifications
  <2> QED
    BY <1>10, <2>1, HeapKept DEF notification_handler_text_document_did_open, Returned
<1>11. ASSUME NEW json \in Params["didChange"], notification_handler_text_document_did_change(json)
      PROVE  HeapReturns'
  <2>1. Returned(json, decode_did_change_text_document_params, free_did_change_text_document_params)
    BY ParamsDecodable, DidChangeReturns DEF Methods, Requests, Notifications
  <2> QED
    BY <1>11, <2>1, HeapKept DEF notification_handler_text_document_did_change, Returned
<1>12. ASSUME NEW json \in Params["didSave"], notification_handler_text_document_did_save(json)
      PROVE  HeapReturns'
  <2>1. Returned(json, decode_did_save_text_document_params, free_did_save_text_document_params)
    BY ParamsDecodable, DidSaveReturns DEF Methods, Requests, Notifications
  <2> QED
    BY <1>12, <2>1, HeapKept DEF notification_handler_text_document_did_save, Returned
<1>13. ASSUME NEW json \in Params["didClose"], notification_handler_text_document_did_close(json)
      PROVE  HeapReturns'
  <2>1. Returned(json, decode_did_close_text_document_params, free_did_close_text_document_params)
    BY ParamsDecodable, DidCloseReturns DEF Methods, Requests, Notifications
  <2> QED
    BY <1>13, <2>1, HeapKept DEF notification_handler_text_document_did_close, Returned
<1> QED
  BY <1>1, <1>2, <1>3, <1>4, <1>5, <1>6, <1>7, <1>8, <1>9, <1>10, <1>11, <1>12, <1>13 DEF Next

(* When a message was handled, what its params allocated is released and   *)
(* nothing else, whatever JSON the client sends: the decoders and freers   *)
(* of protocol.c agree on every structure a handler is given.              *)
THEOREM HeapAlwaysReturns == Spec => []HeapReturns
<1>1. Init => HeapReturns
  BY DEF Init, HeapReturns
<1> QED
  BY <1>1, StepHeapReturns, PTL DEF Spec
===============================================================================
