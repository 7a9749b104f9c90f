-------------------------- MODULE UnitContents_proofs --------------------------
(***************************************************************************)
(* Proofs about UnitContents, for any files and translations and any       *)
(* number of messages.                                                     *)
(***************************************************************************)
EXTENDS UnitContents, Integers, FiniteSetTheorems, SequenceTheorems, WellFoundedInduction, TLAPS

-----------------------------------------------------------------------------
(* Induction, with the set of the numbers for which the formula holds      *)

(* A set of natural numbers has a smallest one.                            *)
LEMMA Least ==
  ASSUME NEW S \in SUBSET Nat, S # {}
  PROVE  \E m \in S : \A n \in S : m <= n
<1> DEFINE R == {pair \in Nat \X Nat : pair[1] < pair[2]}
<1>1. IsWellFoundedOn(R, Nat)
  BY NatLessThanWellFounded DEF OpToRel
<1>2. PICK m \in S : \A n \in S : <<n, m>> \notin R
  <2> HIDE DEF R
  <2>1. \E m \in S : \A n \in S : ~ (<<n, m>> \in R)
    BY <1>1, WFMin
  <2> QED
    BY <2>1
<1>3. ASSUME NEW n \in S PROVE m <= n
  <2>1. ~ (<<n, m>> \in R) /\ m \in Nat /\ n \in Nat
    BY <1>2
  <2> QED
    BY <2>1
<1> QED
  BY <1>3

(* Induction: a set with 0 and the successor of each of its numbers has    *)
(* them all.                                                               *)
LEMMA Induct ==
  ASSUME NEW S \in SUBSET Nat, 0 \in S, \A n \in S : n + 1 \in S
  PROVE  S = Nat
<1> SUFFICES ASSUME Nat \ S # {} PROVE FALSE
  OBVIOUS
<1>1. PICK m \in Nat \ S : \A n \in Nat \ S : m <= n
  BY Least
<1>2. m - 1 \in S
  BY <1>1
<1> QED
  BY <1>1, <1>2

-----------------------------------------------------------------------------
(* FlattenSeq: what the code gathers in a loop over an array               *)

(* The recursion has a solution for every length.                          *)
LEMMA FlattenExists ==
  ASSUME NEW s
  PROVE  \A n \in Nat : \E g : g = [i \in 1..n |-> IF i = 1 THEN s[i] ELSE g[i-1] \o s[i]]
<1> DEFINE Rec(g, n) == g = [i \in 1..n |-> IF i = 1 THEN s[i] ELSE g[i-1] \o s[i]]
           N == {n \in Nat : \E g : Rec(g, n)}
<1>1. 0 \in N
  <2>1. Rec([i \in 1..0 |-> i], 0)
    OBVIOUS
  <2> QED
    BY <2>1
<1>2. ASSUME NEW n \in N PROVE n + 1 \in N
  <2>1. PICK g : Rec(g, n)
    OBVIOUS
  <2> DEFINE h == [i \in 1..n+1 |-> IF i <= n THEN g[i]
                                   ELSE IF i = 1 THEN s[i] ELSE g[i-1] \o s[i]]
  <2>2. ASSUME NEW i \in 1..n+1 PROVE h[i] = IF i = 1 THEN s[i] ELSE h[i-1] \o s[i]
    <3>0. n \in Nat
      OBVIOUS
    <3>1. CASE i <= n
      <4>0. i \in 1..n
        BY <3>0, <3>1
      <4>1. g[i] = IF i = 1 THEN s[i] ELSE g[i-1] \o s[i]
        BY <2>1, <4>0
      <4>2. i # 1 => h[i-1] = g[i-1]
        BY <3>0, <3>1
      <4> QED
        BY <4>1, <4>2, <3>1
    <3>2. CASE i = n + 1
      <4>2. i # 1 => h[i-1] = g[i-1]
        BY <3>0, <3>2
      <4> QED
        BY <4>2, <3>2
    <3> QED
      BY <3>1, <3>2
  <2>3. Rec(h, n+1)
    <3>1. h = [i \in 1..n+1 |-> h[i]]
      OBVIOUS
    <3> HIDE DEF h
    <3> QED
      BY <3>1, <2>2
  <2> HIDE DEF h
  <2>4. n + 1 \in Nat
    OBVIOUS
  <2>5. \E f : Rec(f, n + 1)
    BY <2>3
  <2> QED
    BY <2>4, <2>5
<1> HIDE DEF N
<1>3. N = Nat
  <2>1. N \in SUBSET Nat
    BY DEF N
  <2> QED
    BY <1>1, <1>2, <2>1, Induct
<1> QED
  BY <1>3 DEF N

(* So FlattenSeq is the last value of one.                                 *)
LEMMA FlattenDef ==
  ASSUME NEW s, Len(s) \in Nat \ {0}
  PROVE  \E g : /\ \A i \in 1..Len(s) : g[i] = IF i = 1 THEN s[i] ELSE g[i-1] \o s[i]
                /\ FlattenSeq(s) = g[Len(s)]
<1> DEFINE Rec(g) == g = [i \in 1..Len(s) |-> IF i = 1 THEN s[i] ELSE g[i-1] \o s[i]]
           F == CHOOSE g : Rec(g)
<1>1. \E g : Rec(g)
  BY FlattenExists
<1>2. Rec(F)
  BY <1>1, Zenon
<1>3. FlattenSeq(s) = F[Len(s)]
  BY DEF FlattenSeq
<1>4. ASSUME NEW i \in 1..Len(s) PROVE F[i] = IF i = 1 THEN s[i] ELSE F[i-1] \o s[i]
  <2> HIDE DEF F
  <2>1. ASSUME NEW G, Rec(G) PROVE G[i] = IF i = 1 THEN s[i] ELSE G[i-1] \o s[i]
    BY <2>1, Zenon
  <2> QED
    BY <1>2, <2>1
<1> HIDE DEF F
<1> QED
  BY <1>3, <1>4

(* What it returns for no sequence, its type, and for one sequence more.   *)
LEMMA FlattenEmpty == FlattenSeq(<<>>) = <<>>
BY DEF FlattenSeq

LEMMA FlattenType ==
  ASSUME NEW X, NEW s \in Seq(Seq(X))
  PROVE  FlattenSeq(s) \in Seq(X)
<1>1. CASE Len(s) = 0
  <2>1. s = <<>>
    BY <1>1
  <2>2. FlattenSeq(s) = <<>>
    BY <2>1, FlattenEmpty, Zenon
  <2> QED
    BY <2>2
<1>2. CASE Len(s) # 0
  <2>0. Len(s) \in Nat \ {0}
    BY <1>2
  <2>1. PICK g : /\ \A i \in 1..Len(s) : g[i] = IF i = 1 THEN s[i] ELSE g[i-1] \o s[i]
                 /\ FlattenSeq(s) = g[Len(s)]
    BY <2>0, FlattenDef
  <2> DEFINE N == {n \in Nat : n \in 1..Len(s) => g[n] \in Seq(X)}
  <2>2. 0 \in N
    OBVIOUS
  <2>3. ASSUME NEW n \in N PROVE n + 1 \in N
    <3>1. SUFFICES ASSUME n + 1 \in 1..Len(s) PROVE g[n+1] \in Seq(X)
      OBVIOUS
    <3>2. g[n+1] = IF n + 1 = 1 THEN s[n+1] ELSE g[n+1-1] \o s[n+1]
      BY <2>1, <3>1
    <3>3. s[n+1] \in Seq(X)
      BY <3>1
    <3>4. CASE n = 0
      BY <3>2, <3>3, <3>4
    <3>5. CASE n # 0
      <4>1. g[n] \in Seq(X)
        BY <3>1, <3>5
      <4>2. n + 1 - 1 = n /\ n + 1 # 1
        BY <3>5
      <4> QED
        BY <3>2, <3>3, <4>1, <4>2
    <3> QED
      BY <3>4, <3>5
  <2>4. N = Nat
    <3>1. N \in SUBSET Nat
      OBVIOUS
    <3> HIDE DEF N
    <3> QED
      BY <2>2, <2>3, <3>1, Induct
  <2>5. Len(s) \in N
    BY <2>0, <2>4
  <2> QED
    BY <2>0, <2>1, <2>5
<1> QED
  BY <1>1, <1>2

LEMMA FlattenAppend ==
  ASSUME NEW X, NEW s \in Seq(Seq(X)), NEW e \in Seq(X)
  PROVE  FlattenSeq(Append(s, e)) = FlattenSeq(s) \o e
<1> DEFINE t == Append(s, e)
<1>0. /\ t \in Seq(Seq(X)) /\ Len(t) = Len(s) + 1 /\ Len(s) \in Nat
      /\ \A i \in 1..Len(s) : t[i] = s[i]
      /\ t[Len(s) + 1] = e
  OBVIOUS
<1>1. PICK h : /\ \A i \in 1..Len(t) : h[i] = IF i = 1 THEN t[i] ELSE h[i-1] \o t[i]
               /\ FlattenSeq(t) = h[Len(t)]
  <2> HIDE DEF t
  <2>1. Len(t) \in Nat \ {0}
    BY <1>0
  <2> QED
    BY <2>1, FlattenDef
<1> HIDE DEF t
<1>2. CASE Len(s) = 0
  <2>1. s = <<>>
    BY <1>2
  <2>2. h[1] = e
    BY <1>0, <1>1, <1>2
  <2>3. FlattenSeq(t) = e
    BY <1>0, <1>1, <1>2, <2>2
  <2> QED
    BY <2>1, <2>3, FlattenEmpty DEF t
<1>3. CASE Len(s) # 0
  <2>1. PICK g : /\ \A i \in 1..Len(s) : g[i] = IF i = 1 THEN s[i] ELSE g[i-1] \o s[i]
                 /\ FlattenSeq(s) = g[Len(s)]
    BY <1>0, <1>3, FlattenDef
  <2> DEFINE N == {n \in Nat : n \in 1..Len(s) => g[n] = h[n]}
  <2>2. 0 \in N
    OBVIOUS
  <2>3. ASSUME NEW n \in N PROVE n + 1 \in N
    <3>1. SUFFICES ASSUME n + 1 \in 1..Len(s) PROVE g[n+1] = h[n+1]
      OBVIOUS
    <3>2. g[n+1] = IF n + 1 = 1 THEN s[n+1] ELSE g[n+1-1] \o s[n+1]
      BY <2>1, <3>1
    <3>3. h[n+1] = IF n + 1 = 1 THEN t[n+1] ELSE h[n+1-1] \o t[n+1]
      <4>1. n + 1 \in 1..Len(t)
        BY <3>1, <1>0
      <4> QED
        BY <1>1, <4>1
    <3>4. t[n+1] = s[n+1]
      BY <1>0, <3>1
    <3>5. n # 0 => g[n+1-1] = h[n+1-1] /\ n + 1 # 1
      BY <3>1
    <3> QED
      BY <3>2, <3>3, <3>4, <3>5
  <2>4. N = Nat
    <3>1. N \in SUBSET Nat
      OBVIOUS
    <3> HIDE DEF N
    <3> QED
      BY <2>2, <2>3, <3>1, Induct
  <2>5. g[Len(s)] = h[Len(s)]
    BY <1>0, <1>3, <2>4
  <2>6. h[Len(s)+1] = h[Len(s)] \o e
    <3> DEFINE k == Len(s) + 1
    <3>1. k \in 1..Len(t) /\ k # 1 /\ k - 1 = Len(s)
      BY <1>0, <1>3
    <3> HIDE DEF k
    <3>2. h[k] = h[k - 1] \o t[k]
      BY <1>1, <3>1
    <3> QED
      BY <1>0, <3>1, <3>2 DEF k
  <2> QED
    BY <1>0, <1>1, <2>1, <2>5, <2>6 DEF t
<1> QED
  BY <1>0, <1>2, <1>3

-----------------------------------------------------------------------------
(* What a loop gathers: F of every element of a sequence, one after the    *)
(* other.                                                                  *)

Joined(F, seq) == FlattenSeq([i \in DOMAIN seq |-> F[seq[i]]])

LEMMA EachType ==
  ASSUME NEW X, NEW Y, NEW F \in [X -> Seq(Y)], NEW seq \in Seq(X)
  PROVE  /\ [i \in DOMAIN seq |-> F[seq[i]]] \in Seq(Seq(Y))
         /\ Len([i \in DOMAIN seq |-> F[seq[i]]]) = Len(seq)
<1>1. DOMAIN seq = 1 .. Len(seq) /\ Len(seq) \in Nat
  OBVIOUS
<1>2. \A i \in 1 .. Len(seq) : F[seq[i]] \in Seq(Y)
  OBVIOUS
<1> QED
  BY <1>1, <1>2

LEMMA JoinedEmpty == ASSUME NEW F PROVE Joined(F, <<>>) = <<>>
<1>1. [i \in DOMAIN <<>> |-> F[<<>>[i]]] = <<>>
  OBVIOUS
<1> QED
  BY <1>1, FlattenEmpty DEF Joined

LEMMA JoinedType ==
  ASSUME NEW X, NEW Y, NEW F \in [X -> Seq(Y)], NEW seq \in Seq(X)
  PROVE  Joined(F, seq) \in Seq(Y)
<1>1. [i \in DOMAIN seq |-> F[seq[i]]] \in Seq(Seq(Y))
  BY EachType, Zenon
<1>2. FlattenSeq([i \in DOMAIN seq |-> F[seq[i]]]) \in Seq(Y)
  BY <1>1, FlattenType, Zenon
<1> QED
  BY <1>2, Zenon DEF Joined

LEMMA JoinedAppend ==
  ASSUME NEW X, NEW Y, NEW F \in [X -> Seq(Y)], NEW seq \in Seq(X), NEW e \in X
  PROVE  Joined(F, Append(seq, e)) = Joined(F, seq) \o F[e]
<1> DEFINE Each(s) == [i \in DOMAIN s |-> F[s[i]]]
<1>1. Each(Append(seq, e)) = Append(Each(seq), F[e])
  <2>1. /\ DOMAIN seq = 1 .. Len(seq) /\ Len(seq) \in Nat
        /\ Append(seq, e) \in Seq(X) /\ DOMAIN Append(seq, e) = 1 .. Len(seq) + 1
        /\ Len(Append(seq, e)) = Len(seq) + 1
        /\ \A i \in 1 .. Len(seq) : Append(seq, e)[i] = seq[i]
        /\ Append(seq, e)[Len(seq) + 1] = e
    OBVIOUS
  <2>2. /\ Each(Append(seq, e)) \in Seq(Seq(Y)) /\ Len(Each(Append(seq, e))) = Len(seq) + 1
        /\ \A i \in 1 .. Len(seq) + 1 : Each(Append(seq, e))[i] = F[Append(seq, e)[i]]
    <3>1. Each(Append(seq, e)) \in Seq(Seq(Y)) /\ Len(Each(Append(seq, e))) = Len(seq) + 1
      BY <2>1, EachType
    <3> QED
      BY <2>1, <3>1
  <2>3. /\ Each(seq) \in Seq(Seq(Y)) /\ Len(Each(seq)) = Len(seq)
        /\ \A i \in 1 .. Len(seq) : Each(seq)[i] = F[seq[i]]
    <3>1. Each(seq) \in Seq(Seq(Y)) /\ Len(Each(seq)) = Len(seq)
      <4>1. [i \in DOMAIN seq |-> F[seq[i]]] \in Seq(Seq(Y))
        BY EachType, Zenon
      <4>2. Len([i \in DOMAIN seq |-> F[seq[i]]]) = Len(seq)
        BY <2>1
      <4> QED
        BY <4>1, <4>2
    <3> QED
      BY <2>1, <3>1
  <2> HIDE DEF Each
  <2>4. /\ Append(Each(seq), F[e]) \in Seq(Seq(Y)) /\ Len(Append(Each(seq), F[e])) = Len(seq) + 1
        /\ \A i \in 1 .. Len(seq) : Append(Each(seq), F[e])[i] = Each(seq)[i]
        /\ Append(Each(seq), F[e])[Len(seq) + 1] = F[e]
    BY <2>1, <2>3
  <2>5. ASSUME NEW i \in 1 .. Len(seq) + 1
        PROVE  Each(Append(seq, e))[i] = Append(Each(seq), F[e])[i]
    <3>1. CASE i \in 1 .. Len(seq)
      BY <2>1, <2>2, <2>3, <2>4, <3>1
    <3>2. CASE i = Len(seq) + 1
      BY <2>1, <2>2, <2>4, <3>2
    <3>3. i \in 1 .. Len(seq) \/ i = Len(seq) + 1
      OBVIOUS
    <3> QED
      BY <3>1, <3>2, <3>3, Zenon
  <2> QED
    BY <2>2, <2>4, <2>5, SeqEqual
<1>2. Each(seq) \in Seq(Seq(Y)) /\ F[e] \in Seq(Y)
  <2>1. Each(seq) \in Seq(Seq(Y))
    BY EachType, Zenon
  <2> QED
    BY <2>1
<1> HIDE DEF Each
<1>3. FlattenSeq(Append(Each(seq), F[e])) = FlattenSeq(Each(seq)) \o F[e]
  BY <1>2, FlattenAppend
<1>4. FlattenSeq(Each(Append(seq, e))) = FlattenSeq(Each(seq)) \o F[e]
  BY <1>1, <1>3, Zenon
<1> QED
  BY <1>4, Zenon DEF Joined, Each

LEMMA Associates ==
  ASSUME NEW X
  PROVE  \A u, v, w \in Seq(X) : (u \o v) \o w = u \o (v \o w)
OBVIOUS

(* By induction over the length of the second.                             *)
LEMMA JoinedConcat ==
  ASSUME NEW X, NEW Y, NEW F \in [X -> Seq(Y)], NEW a \in Seq(X), NEW b \in Seq(X)
  PROVE  Joined(F, a \o b) = Joined(F, a) \o Joined(F, b)
<1>1. \A u, v, w \in Seq(Y) : (u \o v) \o w = u \o (v \o w)
  BY Associates
<1>2. \A s \in Seq(X), e \in X : Joined(F, Append(s, e)) = Joined(F, s) \o F[e]
  BY JoinedAppend, Zenon
<1> DEFINE N == {n \in Nat : \A c \in Seq(X) :
                   Len(c) = n => Joined(F, a \o c) = Joined(F, a) \o Joined(F, c)}
<1>3. 0 \in N
  <2> SUFFICES ASSUME NEW c \in Seq(X), Len(c) = 0
               PROVE  Joined(F, a \o c) = Joined(F, a) \o Joined(F, c)
    OBVIOUS
  <2>1. c = <<>> /\ a \o c = a
    OBVIOUS
  <2>2. Joined(F, c) = <<>> /\ Joined(F, a) \in Seq(Y)
    BY <2>1, JoinedEmpty, JoinedType
  <2> QED
    BY <2>1, <2>2
<1>4. ASSUME NEW n \in N PROVE n + 1 \in N
  <2> SUFFICES ASSUME NEW c \in Seq(X), Len(c) = n + 1
               PROVE  Joined(F, a \o c) = Joined(F, a) \o Joined(F, c)
    OBVIOUS
  <2> DEFINE d == SubSeq(c, 1, n)
             e == c[n + 1]
  <2>1. d \in Seq(X) /\ Len(d) = n /\ e \in X /\ c = Append(d, e)
    OBVIOUS
  <2> HIDE DEF d, e
  <2>2. a \o c = Append(a \o d, e) /\ a \o d \in Seq(X)
    BY <2>1
  <2>3. Joined(F, a \o d) = Joined(F, a) \o Joined(F, d)
    BY <2>1
  <2>4. Joined(F, c) = Joined(F, d) \o F[e] /\ Joined(F, a \o c) = Joined(F, a \o d) \o F[e]
    BY <1>2, <2>1, <2>2, Zenon
  <2>5. Joined(F, a) \in Seq(Y) /\ Joined(F, d) \in Seq(Y) /\ F[e] \in Seq(Y)
    BY <2>1, JoinedType
  <2>6. (Joined(F, a) \o Joined(F, d)) \o F[e] = Joined(F, a) \o (Joined(F, d) \o F[e])
    BY <1>1, <2>5, Zenon
  <2> QED
    BY <2>3, <2>4, <2>6, Zenon
<1>5. N = Nat
  <2>1. N \in SUBSET Nat
    OBVIOUS
  <2> HIDE DEF N
  <2> QED
    BY <1>3, <1>4, <2>1, Induct
<1> QED
  <2>1. Len(b) \in N
    BY <1>5
  <2> QED
    BY <2>1

-----------------------------------------------------------------------------
Includes == [file : Files, score : Nat, angled : BOOLEAN]
Inclusion ==
  [p_included_files : SUBSET Files, p_main_header : Files \cup {None},
   main_header_score : Nat]
Tables == UNION {[usrs -> Seq(Files)] : usrs \in SUBSET USRs}

(* Where a thread may go next, and where it may be.                        *)
Ahead == {"translate", "diagnose", "notify"}
Places ==
  Ahead \cup {"idle", "index", "clear", "remove", "includes", "decls", "list", "diags",
             "publish"}

(* Those places at which the thread holds the mutex of its unit.           *)
Holding == {"clear", "remove", "includes", "decls", "list"}

TypeOK ==
  /\ tu = [u \in Files |-> tu[u]]
  /\ \A u \in Files : tu[u] \in Translations[u] \cup {None}
  /\ p_declarations \in [Files -> Seq(USRs)]
  /\ p_table \in Tables
  /\ inclusion \in [Files -> Inclusion]
  /\ p_header_map \in [Files -> Files \cup {None}]
  /\ decl_mutex \in [Files -> Threads \cup {None}]
  /\ pc \in [Threads -> Places]
  /\ on \in [Threads -> Files \cup {None}]
  /\ todo \in [Threads -> Seq(Ahead)]
  /\ left = [t \in Threads |-> left[t]]
  /\ cleared \in [Threads -> BOOLEAN]
  /\ visit \subseteq Files

(* A thread is with a unit while it is not idle, of which there is a       *)
(* translation once it is past that, and what clang has still to report to *)
(* it is what its place asks for.                                          *)
Place ==
  \A t \in Threads :
    /\ pc[t] = "idle" <=> on[t] = None
    /\ pc[t] \in {"index"} \cup Holding => tu[on[t]] # None
    /\ pc[t] = "includes" => left[t] \in Seq(Includes)
    /\ pc[t] \in {"remove", "decls", "list"} => left[t] \in Seq(USRs)
    /\ pc[t] \in {"remove", "list"} => left[t] # <<>>
    /\ pc[t] \in {"clear", "remove"} => ~cleared[t]

(* The mutex of a unit is held by the thread that replaces its contents.   *)
MutexFollows ==
  \A t \in Threads, u \in Files : decl_mutex[u] = t <=> on[t] = u /\ pc[t] \in Holding

LInv == TypeOK /\ Place /\ MutexFollows

-----------------------------------------------------------------------------
(* The mutex                                                               *)

LEMMA InitLInv == Init => LInv
<1> SUFFICES ASSUME Init PROVE LInv
  OBVIOUS
<1>1. p_table \in Tables
  <2>1. p_table \in [{} -> Seq(Files)]
    BY DEF Init
  <2> QED
    BY <2>1 DEF Tables
<1>2. inclusion \in [Files -> Inclusion]
  BY DEF Init, Inclusion
<1>3. /\ tu = [u \in Files |-> tu[u]]
      /\ \A u \in Files : tu[u] \in Translations[u] \cup {None}
  BY DEF Init
<1>4. /\ pc \in [Threads -> Places]
      /\ on \in [Threads -> Files \cup {None}]
      /\ todo \in [Threads -> Seq(Ahead)]
      /\ left = [t \in Threads |-> left[t]]
  BY DEF Init, Places
<1>5. /\ p_declarations \in [Files -> Seq(USRs)]
      /\ p_header_map \in [Files -> Files \cup {None}]
      /\ decl_mutex \in [Files -> Threads \cup {None}]
      /\ cleared \in [Threads -> BOOLEAN]
      /\ visit \subseteq Files
  BY DEF Init
<1>6. TypeOK
  BY <1>1, <1>2, <1>3, <1>4, <1>5 DEF TypeOK
<1> QED
  BY <1>6, NamesAssumption DEF Init, LInv, Place, MutexFollows, Holding, Threads

(* A thread that enters a unit, and one that goes on or leaves, touches    *)
(* nothing of the unit.                                                    *)
LEMMA EnterFollows ==
  ASSUME LInv, NEW t \in Threads, NEW u \in Files, NEW places \in Seq(Ahead), places # <<>>,
         pc[t] = "idle", Enter(t, u, places),
         UNCHANGED <<tu, index, decl_mutex, left, cleared>>, visit' \subseteq Files
  PROVE  LInv'
<1>1. Head(places) \in Ahead /\ Tail(places) \in Seq(Ahead)
  OBVIOUS
<1>2. /\ pc' = [pc EXCEPT ![t] = Head(places)]
      /\ todo' = [todo EXCEPT ![t] = Tail(places)]
      /\ on' = [on EXCEPT ![t] = u]
  BY DEF Enter, Goto
<1>3. TypeOK'
  BY <1>1, <1>2 DEF LInv, TypeOK, index, Places
<1>4. Place'
  BY <1>1, <1>2, NamesAssumption DEF LInv, TypeOK, Place, Ahead, Holding
<1>5. MutexFollows'
  BY <1>1, <1>2 DEF LInv, TypeOK, MutexFollows, Ahead, Holding
<1> QED
  BY <1>3, <1>4, <1>5 DEF LInv

LEMMA AdvanceGoes ==
  ASSUME LInv, NEW t \in Threads, pc[t] # "idle", Advance(t)
  PROVE  /\ pc' = [pc EXCEPT ![t] = pc'[t]] /\ pc'[t] \in Ahead \cup {"idle"}
         /\ on' = [on EXCEPT ![t] = IF pc'[t] = "idle" THEN None ELSE on[t]]
         /\ todo' \in [Threads -> Seq(Ahead)]
<1>1. todo \in [Threads -> Seq(Ahead)] /\ pc \in [Threads -> Places]
      /\ on \in [Threads -> Files \cup {None}]
  BY DEF LInv, TypeOK
<1>2. CASE todo[t] = <<>>
  BY <1>1, <1>2 DEF Advance, Goto
<1>3. CASE todo[t] # <<>>
  <2>1. Head(todo[t]) \in Ahead /\ Tail(todo[t]) \in Seq(Ahead)
    BY <1>1, <1>3
  <2>2. /\ pc' = [pc EXCEPT ![t] = Head(todo[t])] /\ on' = on
        /\ todo' = [todo EXCEPT ![t] = Tail(todo[t])]
    BY <1>3 DEF Advance, Goto
  <2> QED
    BY <1>1, <2>1, <2>2 DEF Ahead
<1> QED
  BY <1>2, <1>3

LEMMA AdvanceFollows ==
  ASSUME LInv, NEW t \in Threads, pc[t] \notin {"idle"} \cup Holding, Advance(t),
         UNCHANGED <<tu, index, decl_mutex, left, cleared>>, visit' \subseteq Files
  PROVE  LInv'
<1>1. /\ pc' = [pc EXCEPT ![t] = pc'[t]] /\ pc'[t] \in Ahead \cup {"idle"}
      /\ on' = [on EXCEPT ![t] = IF pc'[t] = "idle" THEN None ELSE on[t]]
      /\ todo' \in [Threads -> Seq(Ahead)]
  BY AdvanceGoes
<1>2. TypeOK'
  <2>1. pc' \in [Threads -> Places] /\ on' \in [Threads -> Files \cup {None}]
    <3>1. pc \in [Threads -> Places] /\ on \in [Threads -> Files \cup {None}]
      BY DEF LInv, TypeOK
    <3> QED
      BY <1>1, <3>1 DEF Places
  <2> QED
    BY <1>1, <2>1 DEF LInv, TypeOK, index
<1>3. Place'
  <2>1. \A s \in Threads \ {t} : pc'[s] = pc[s] /\ on'[s] = on[s]
    BY <1>1 DEF LInv, TypeOK
  <2>2. /\ pc'[t] \notin {"index"} \cup Holding
        /\ pc'[t] = "idle" <=> on'[t] = None
    BY <1>1 DEF LInv, TypeOK, Place, Ahead, Holding
  <2> QED
    BY <2>1, <2>2 DEF LInv, Place, Holding
<1>4. MutexFollows'
  BY <1>1 DEF LInv, TypeOK, MutexFollows, Ahead, Holding
<1> QED
  BY <1>2, <1>3, <1>4 DEF LInv

-----------------------------------------------------------------------------
(* One translation                                                         *)

LEMMA TranslateFollows ==
  ASSUME LInv, NEW t \in Threads, Translate(t)
  PROVE  LInv'
<1>1. on[t] \in Files
  BY DEF LInv, TypeOK, Place, Translate
<1>2. PICK translation \in Translations[on[t]] : tu' = [tu EXCEPT ![on[t]] = translation]
  BY DEF Translate
<1>3. pc' = [pc EXCEPT ![t] = "index"] /\ on' = on
  BY DEF Translate, Goto
<1>4. TypeOK'
  BY <1>1, <1>2, <1>3 DEF LInv, TypeOK, Translate, index, queue, Places
<1>5. Place'
  <2>1. \A u \in Files : tu[u] # None => tu'[u] # None
    BY <1>1, <1>2, TranslationsAssumption DEF LInv, TypeOK
  <2>2. tu'[on[t]] # None
    BY <1>1, <1>2, TranslationsAssumption DEF LInv, TypeOK
  <2>3. \A s \in Threads : pc[s] # "idle" => on[s] \in Files
    BY DEF LInv, TypeOK, Place
  <2> QED
    BY <1>1, <1>3, <2>1, <2>2, <2>3 DEF LInv, TypeOK, Place, Translate, Holding
<1>6. MutexFollows'
  BY <1>3 DEF LInv, TypeOK, MutexFollows, Translate, Holding
<1> QED
  BY <1>4, <1>5, <1>6 DEF LInv

LEMMA TakeFollows ==
  ASSUME LInv, NEW t \in Threads, index_translation_unit(t)
  PROVE  LInv'
<1>1. on[t] \in Files
  BY DEF LInv, TypeOK, Place, index_translation_unit
<1>2. pc' = [pc EXCEPT ![t] = "clear"] /\ on' = on
  BY DEF index_translation_unit, Goto
<1>3. TypeOK'
  BY <1>1, <1>2 DEF LInv, TypeOK, index_translation_unit, index, queue, Places
<1>4. Place'
  BY <1>1, <1>2 DEF LInv, TypeOK, Place, index_translation_unit, Holding
<1>5. MutexFollows'
  BY <1>1, <1>2, NamesAssumption
  DEF LInv, TypeOK, MutexFollows, index_translation_unit, Holding
<1> QED
  BY <1>3, <1>4, <1>5 DEF LInv

(* Of a set of places in a sequence there is a first one.                  *)
LEMMA SmallestPlace ==
  ASSUME NEW n \in Nat, NEW places \in SUBSET (1 .. n), places # {}
  PROVE  Min(places) \in places /\ \A i \in places : Min(places) <= i
<1> DEFINE starts == {1 .. i : i \in places}
           R == StrictSubsetOrdering(1 .. n)
<1>1. IsFiniteSet(1 .. n)
  BY FS_Interval
<1>2. IsWellFoundedOn(R, SUBSET (1 .. n))
  BY <1>1, FS_StrictSubsetOrderingWellFounded, FS_FiniteSubsetsOfFinite
<1>3. starts \subseteq SUBSET (1 .. n) /\ starts # {}
  <2>1. \A i \in places : 1 .. i \subseteq 1 .. n
    OBVIOUS
  <2>2. \A i \in places : 1 .. i \in starts
    OBVIOUS
  <2> QED
    BY <2>1, <2>2, Zenon
<1>4. PICK start \in starts : \A other \in starts : <<other, start>> \notin R
  <2> HIDE DEF starts, R
  <2> QED
    BY <1>2, <1>3, WFMin
<1>5. PICK i \in places : start = 1 .. i
  OBVIOUS
<1>6. ASSUME NEW j \in places, j < i PROVE FALSE
  <2>1. 1 .. j \subseteq 1 .. i /\ i \in 1 .. i /\ i \notin 1 .. j
    BY <1>6
  <2>2. <<1 .. j, 1 .. i>> \in R
    BY <2>1 DEF StrictSubsetOrdering
  <2> QED
    BY <1>4, <1>5, <2>2
<1>7. \A j \in places : i <= j
  BY <1>6
<1> QED
  BY <1>7 DEF Min

(* What is left of a sequence with one element less.                       *)
LEMMA RemoveFirstShape ==
  ASSUME NEW S, NEW seq \in Seq(S), NEW e, \E i \in 1 .. Len(seq) : seq[i] = e
  PROVE  \E i \in 1 .. Len(seq) :
           LET rest == RemoveFirst(seq, e)
           IN  /\ seq[i] = e
               /\ rest \in Seq(S) /\ Len(rest) = Len(seq) - 1
               /\ \A j \in 1 .. Len(rest) : rest[j] = seq[IF j < i THEN j ELSE j + 1]
<1> DEFINE places == {i \in 1 .. Len(seq) : seq[i] = e}
           first == Min(places)
<1>1. places \in SUBSET (1 .. Len(seq)) /\ places # {} /\ Len(seq) \in Nat
  OBVIOUS
<1>2. first \in places
  <2> HIDE DEF places
  <2> QED
    BY <1>1, SmallestPlace
<1>3. RemoveFirst(seq, e) = SubSeq(seq, 1, first - 1) \o SubSeq(seq, first + 1, Len(seq))
  BY DEF RemoveFirst, RemoveAt, SelectInSeq
<1> HIDE DEF first
<1>4. /\ seq[first] = e /\ first \in 1 .. Len(seq)
      /\ RemoveFirst(seq, e) \in Seq(S) /\ Len(RemoveFirst(seq, e)) = Len(seq) - 1
      /\ \A j \in 1 .. Len(seq) - 1 :
           RemoveFirst(seq, e)[j] = seq[IF j < first THEN j ELSE j + 1]
  <2> DEFINE front == SubSeq(seq, 1, first - 1)
             back == SubSeq(seq, first + 1, Len(seq))
  <2>1. first \in 1 .. Len(seq) /\ seq[first] = e /\ Len(seq) \in Nat
    BY <1>2
  <2>2. /\ front \in Seq(S) /\ Len(front) = first - 1
        /\ \A j \in 1 .. first - 1 : front[j] = seq[j]
    BY <2>1
  <2>3. /\ back \in Seq(S) /\ Len(back) = Len(seq) - first
        /\ \A j \in 1 .. Len(seq) - first : back[j] = seq[first + j]
    BY <2>1
  <2>4. RemoveFirst(seq, e) = front \o back
    BY <1>3
  <2> HIDE DEF front, back
  <2>5. /\ front \o back \in Seq(S) /\ Len(front \o back) = Len(seq) - 1
        /\ \A j \in 1 .. Len(seq) - 1 :
             (front \o back)[j] = IF j < first THEN front[j] ELSE back[j - (first - 1)]
    BY <2>1, <2>2, <2>3
  <2>6. ASSUME NEW j \in 1 .. Len(seq) - 1
        PROVE  (front \o back)[j] = seq[IF j < first THEN j ELSE j + 1]
    <3>1. CASE j < first
      BY <2>1, <2>2, <2>5, <3>1
    <3>2. CASE ~(j < first)
      <4>1. j - (first - 1) \in 1 .. Len(seq) - first /\ first + (j - (first - 1)) = j + 1
        BY <2>1, <3>2
      <4> QED
        BY <2>3, <2>5, <3>2, <4>1
    <3> QED
      BY <3>1, <3>2
  <2> QED
    BY <2>1, <2>4, <2>5, <2>6
<1> QED
  BY <1>4

LEMMA RemoveFirstType ==
  ASSUME NEW S, NEW seq \in Seq(S), NEW e
  PROVE  RemoveFirst(seq, e) \in Seq(S)
<1>1. CASE \E i \in 1 .. Len(seq) : seq[i] = e
  BY <1>1, RemoveFirstShape
<1>2. CASE ~\E i \in 1 .. Len(seq) : seq[i] = e
  BY <1>2 DEF RemoveFirst
<1> QED
  BY <1>1, <1>2

(* The sets of the index stay sequences of units, whatever is removed or   *)
(* added.                                                                  *)
LEMMA RemoveType ==
  ASSUME p_table \in Tables, NEW usr, NEW u
  PROVE  index_decl_remove(usr, u) \in Tables
<1> DEFINE rest == RemoveFirst(p_table[usr], u)
           without == [x \in DOMAIN p_table \ {usr} |-> p_table[x]]
<1>1. DOMAIN p_table \in SUBSET USRs /\ p_table \in [DOMAIN p_table -> Seq(Files)]
  BY DEF Tables
<1>2. without \in Tables
  <2>1. DOMAIN p_table \ {usr} \in SUBSET USRs
    BY <1>1
  <2>2. without \in [DOMAIN p_table \ {usr} -> Seq(Files)]
    BY <1>1
  <2> QED
    BY <2>1, <2>2 DEF Tables
<1>3. ASSUME usr \in DOMAIN p_table PROVE [p_table EXCEPT ![usr] = rest] \in Tables
  <2>1. rest \in Seq(Files)
    BY <1>1, <1>3, RemoveFirstType
  <2> HIDE DEF rest
  <2>2. [p_table EXCEPT ![usr] = rest] \in [DOMAIN p_table -> Seq(Files)]
    BY <1>1, <2>1
  <2> QED
    BY <1>1, <2>2 DEF Tables
<1> QED
  BY <1>2, <1>3 DEF index_decl_remove

LEMMA AddType ==
  ASSUME p_table \in Tables, NEW usr \in USRs, NEW u \in Files
  PROVE  index_declaration_add(usr, u) \in Tables
<1> DEFINE usrs == DOMAIN p_table \cup {usr}
<1>1. DOMAIN p_table \in SUBSET USRs /\ p_table \in [DOMAIN p_table -> Seq(Files)]
  BY DEF Tables
<1>2. \A x \in usrs : index_declaration_add(usr, u)[x] \in Seq(Files)
  BY <1>1 DEF index_declaration_add
<1>3. index_declaration_add(usr, u) \in [usrs -> Seq(Files)] /\ usrs \in SUBSET USRs
  BY <1>1, <1>2 DEF index_declaration_add
<1> QED
  BY <1>3 DEF Tables

(* What a thread that translates can rely on.                              *)
LEMMA AtWork ==
  ASSUME LInv, NEW t \in Threads, pc[t] \in {"index"} \cup Holding
  PROVE  /\ on[t] \in Files /\ tu[on[t]] \in Translations[on[t]]
         /\ pc[t] \in Holding => decl_mutex[on[t]] = t
         /\ pc[t] = "includes" => left[t] \in Seq(Includes)
         /\ pc[t] \in {"remove", "decls", "list"} => left[t] \in Seq(USRs)
         /\ pc[t] \in {"remove", "list"} => left[t] # <<>>
<1>1. pc[t] # "idle"
  BY DEF Holding
<1>2. on[t] \in Files
  <2>1. on[t] # None
    BY <1>1 DEF LInv, Place
  <2>2. on[t] \in Files \cup {None}
    BY DEF LInv, TypeOK
  <2> QED
    BY <2>1, <2>2
<1>3. tu[on[t]] # None
  BY DEF LInv, Place
<1> QED
  BY <1>2, <1>3 DEF LInv, TypeOK, Place, MutexFollows

LEMMA ClearFollows ==
  ASSUME LInv, NEW t \in Threads, clear_index_decls(t)
  PROVE  LInv'
<1> DEFINE u == on[t]
<1>1. u \in Files /\ tu[u] # None /\ p_table \in Tables
  BY DEF LInv, TypeOK, Place, Holding, clear_index_decls
<1>2. CASE p_declarations[u] = <<>>
  <2>1. /\ pc' = [pc EXCEPT ![t] = "includes"] /\ left' = [left EXCEPT ![t] = tu[u].includes]
        /\ UNCHANGED <<p_declarations, p_table>>
    BY <1>2 DEF clear_index_decls, Goto
  <2>2. tu[u].includes \in Seq(Includes)
    BY <1>1, TranslationsAssumption DEF LInv, TypeOK, Includes
  <2>3. TypeOK'
    BY <1>1, <2>1 DEF LInv, TypeOK, clear_index_decls, queue, Places
  <2>4. Place'
    BY <1>1, <2>1, <2>2 DEF LInv, TypeOK, Place, clear_index_decls, Holding
  <2>5. MutexFollows'
    BY <1>1, <2>1 DEF LInv, TypeOK, MutexFollows, clear_index_decls, Holding
  <2> QED
    BY <2>3, <2>4, <2>5 DEF LInv
<1>3. CASE p_declarations[u] # <<>>
  <2>0. PICK usr : usr = Last(p_declarations[u])
    OBVIOUS
  <2>1. /\ pc' = [pc EXCEPT ![t] = "remove"] /\ left' = [left EXCEPT ![t] = <<usr>>]
        /\ p_declarations' = [p_declarations EXCEPT ![u] = Front(@)]
        /\ UNCHANGED <<p_table, on>> /\ pc[t] = "clear"
    BY <1>3, <2>0 DEF clear_index_decls, Goto
  <2>2. /\ p_declarations \in [Files -> Seq(USRs)]
        /\ p_declarations[u] \in Seq(USRs) /\ p_declarations[u] # <<>>
    BY <1>1, <1>3 DEF LInv, TypeOK
  <2>3. p_declarations' \in [Files -> Seq(USRs)]
    <3>1. Front(p_declarations[u]) \in Seq(USRs)
      BY <2>2 DEF Front
    <3> QED
      BY <2>1, <2>2, <3>1
  <2>4. usr \in USRs
    BY <2>0, <2>2 DEF Last
  <2>5. <<usr>> \in Seq(USRs) /\ <<usr>> # <<>>
    BY <2>4
  <2>6. TypeOK'
    BY <2>1, <2>3 DEF LInv, TypeOK, clear_index_decls, queue, Places
  <2>7. Place'
    BY <1>1, <2>1, <2>5 DEF LInv, TypeOK, Place, clear_index_decls, Holding
  <2>8. MutexFollows'
    BY <2>1 DEF LInv, TypeOK, MutexFollows, clear_index_decls, Holding
  <2> QED
    BY <2>6, <2>7, <2>8 DEF LInv
<1> QED
  BY <1>2, <1>3

LEMMA RemoveFollows ==
  ASSUME LInv, NEW t \in Threads, RemoveDeclaration(t)
  PROVE  LInv'
<1>1. /\ on[t] \in Files /\ left[t] \in Seq(USRs) /\ left[t] # <<>> /\ pc[t] = "remove"
      /\ p_table \in Tables
  BY AtWork DEF RemoveDeclaration, Holding, LInv, TypeOK
<1>2. Head(left[t]) \in USRs
  BY <1>1
<1>3. p_table' \in Tables
  BY <1>1, <1>2, RemoveType DEF RemoveDeclaration
<1>4. pc' = [pc EXCEPT ![t] = "clear"] /\ UNCHANGED <<on, left, cleared>>
  BY DEF RemoveDeclaration, Goto
<1>5. TypeOK'
  BY <1>3, <1>4 DEF LInv, TypeOK, RemoveDeclaration, queue, Places
<1>6. Place'
  BY <1>1, <1>4 DEF LInv, TypeOK, Place, RemoveDeclaration, Holding
<1>7. MutexFollows'
  BY <1>1, <1>4 DEF LInv, TypeOK, MutexFollows, RemoveDeclaration, Holding
<1> QED
  BY <1>5, <1>6, <1>7 DEF LInv

LEMMA IncludeFollows ==
  ASSUME LInv, NEW t \in Threads, index_included_file(t)
  PROVE  LInv'
<1> DEFINE u == on[t]
           known == IF cleared[t] THEN inclusion[u] ELSE clear_included_files(u)
           include == Head(left[t])
<1>1. /\ u \in Files /\ left[t] \in Seq(Includes) /\ left[t] # <<>>
      /\ include \in Includes /\ Tail(left[t]) \in Seq(Includes)
  <2>1. pc[t] = "includes" /\ left[t] # <<>>
    BY DEF index_included_file
  <2>2. u \in Files /\ left[t] \in Seq(Includes)
    BY <2>1, AtWork DEF Holding
  <2> QED
    BY <2>1, <2>2
<1>2. /\ inclusion' = [inclusion EXCEPT ![u] = Include(known, u, include)]
      /\ left' = [left EXCEPT ![t] = Tail(left[t])]
      /\ cleared' = [cleared EXCEPT ![t] = TRUE]
      /\ UNCHANGED <<pc, on>> /\ pc[t] = "includes"
  BY <1>1 DEF index_included_file, LInv, TypeOK
<1>3. inclusion \in [Files -> Inclusion]
  BY DEF LInv, TypeOK
<1>4. Include(known, u, include) \in Inclusion
  <2>1. known \in Inclusion
    BY <1>1, <1>3 DEF clear_included_files, Inclusion, SUBSTRING
  <2> HIDE DEF known
  <2> QED
    BY <1>1, <2>1 DEF Include, Includes, Inclusion
<1>5. TypeOK'
  <2>1. inclusion' \in [Files -> Inclusion]
    BY <1>2, <1>3, <1>4
  <2>2. left' = [s \in Threads |-> left'[s]] /\ cleared' \in [Threads -> BOOLEAN]
    BY <1>2 DEF LInv, TypeOK
  <2> QED
    BY <1>2, <2>1, <2>2 DEF LInv, TypeOK, index_included_file, queue
<1>6. Place'
  BY <1>1, <1>2 DEF LInv, TypeOK, Place, index_included_file
<1>7. MutexFollows'
  BY <1>2 DEF LInv, MutexFollows, index_included_file
<1> QED
  BY <1>5, <1>6, <1>7 DEF LInv

LEMMA DefinitionsFollows ==
  ASSUME LInv, NEW t \in Threads, Definitions(t)
  PROVE  LInv'
<1>1. /\ pc' = [pc EXCEPT ![t] = "decls"] /\ left' = [left EXCEPT ![t] = tu[on[t]].decls]
      /\ pc[t] = "includes"
  BY DEF Definitions, Goto
<1>2. on[t] \in Files /\ tu[on[t]] # None
  BY <1>1 DEF LInv, TypeOK, Place, Holding
<1>3. tu[on[t]].decls \in Seq(USRs)
  BY <1>2, TranslationsAssumption DEF LInv, TypeOK
<1>4. TypeOK'
  BY <1>1 DEF LInv, TypeOK, Definitions, index, queue, Places
<1>5. Place'
  BY <1>1, <1>2, <1>3 DEF LInv, TypeOK, Place, Definitions, Holding
<1>6. MutexFollows'
  BY <1>1 DEF LInv, TypeOK, MutexFollows, Definitions, Holding
<1> QED
  BY <1>4, <1>5, <1>6 DEF LInv

LEMMA DeclarationFollows ==
  ASSUME LInv, NEW t \in Threads, index_declaration(t)
  PROVE  LInv'
<1>1. /\ on[t] \in Files /\ left[t] \in Seq(USRs) /\ left[t] # <<>> /\ pc[t] = "decls"
      /\ p_table \in Tables
  BY AtWork DEF index_declaration, Holding, LInv, TypeOK
<1>2. Head(left[t]) \in USRs
  BY <1>1
<1>3. p_table' \in Tables
  BY <1>1, <1>2, AddType DEF index_declaration
<1>4. pc' = [pc EXCEPT ![t] = "list"] /\ UNCHANGED <<on, left>>
  BY DEF index_declaration, Goto
<1>5. TypeOK'
  BY <1>3, <1>4 DEF LInv, TypeOK, index_declaration, queue, Places
<1>6. Place'
  BY <1>1, <1>4 DEF LInv, TypeOK, Place, index_declaration, Holding
<1>7. MutexFollows'
  BY <1>1, <1>4 DEF LInv, TypeOK, MutexFollows, index_declaration, Holding
<1> QED
  BY <1>5, <1>6, <1>7 DEF LInv

LEMMA ListFollows ==
  ASSUME LInv, NEW t \in Threads, ListDeclaration(t)
  PROVE  LInv'
<1> DEFINE u == on[t]
           usr == Head(left[t])
<1>1. /\ u \in Files /\ left[t] \in Seq(USRs) /\ left[t] # <<>> /\ pc[t] = "list"
      /\ usr \in USRs /\ Tail(left[t]) \in Seq(USRs)
  <2>1. /\ u \in Files /\ left[t] \in Seq(USRs) /\ left[t] # <<>> /\ pc[t] = "list"
    BY AtWork DEF ListDeclaration, Holding
  <2> QED
    BY <2>1
<1>2. p_declarations' \in [Files -> Seq(USRs)]
  <2>1. p_declarations \in [Files -> Seq(USRs)]
    BY DEF LInv, TypeOK
  <2>2. Append(p_declarations[u], usr) \in Seq(USRs)
    BY <1>1, <2>1
  <2> QED
    BY <2>1, <2>2 DEF ListDeclaration
<1>3. /\ left' = [left EXCEPT ![t] = Tail(left[t])]
      /\ pc' = [pc EXCEPT ![t] = "decls"] /\ UNCHANGED on
  BY DEF ListDeclaration, Goto
<1>4. TypeOK'
  BY <1>2, <1>3 DEF LInv, TypeOK, ListDeclaration, queue, Places
<1>5. Place'
  BY <1>1, <1>3 DEF LInv, TypeOK, Place, ListDeclaration, Holding
<1>6. MutexFollows'
  BY <1>1, <1>3 DEF LInv, TypeOK, MutexFollows, ListDeclaration, Holding
<1> QED
  BY <1>4, <1>5, <1>6 DEF LInv

LEMMA HeaderFollows ==
  ASSUME LInv, NEW t \in Threads, index_header_set(t)
  PROVE  LInv'
<1> DEFINE u == on[t]
<1>1. /\ u \in Files /\ pc[t] = "decls" /\ decl_mutex[u] = t
      /\ decl_mutex' = [decl_mutex EXCEPT ![u] = None]
  BY AtWork DEF Holding, index_header_set
<1>2. /\ pc' = [pc EXCEPT ![t] = pc'[t]] /\ pc'[t] \in Ahead \cup {"idle"}
      /\ on' = [on EXCEPT ![t] = IF pc'[t] = "idle" THEN None ELSE on[t]]
      /\ todo' \in [Threads -> Seq(Ahead)]
  BY <1>1, AdvanceGoes DEF index_header_set
<1>3. inclusion[u].p_main_header \in Files \cup {None}
  BY <1>1 DEF LInv, TypeOK, Inclusion
<1>4. p_header_map' \in [Files -> Files \cup {None}]
  BY <1>1, <1>3 DEF LInv, TypeOK, index_header_set
<1>5. TypeOK'
  <2>1. /\ pc' \in [Threads -> Places]
        /\ on' \in [Threads -> Files \cup {None}]
        /\ decl_mutex' \in [Files -> Threads \cup {None}]
    <3>1. /\ pc \in [Threads -> Places]
          /\ on \in [Threads -> Files \cup {None}]
          /\ decl_mutex \in [Files -> Threads \cup {None}]
      BY DEF LInv, TypeOK
    <3> QED
      BY <1>1, <1>2, <3>1 DEF Places
  <2> QED
    BY <1>2, <1>4, <2>1 DEF LInv, TypeOK, index_header_set, queue
<1>6. Place'
  <2>1. \A s \in Threads \ {t} : pc'[s] = pc[s] /\ on'[s] = on[s]
    BY <1>2 DEF LInv, TypeOK
  <2>2. /\ pc'[t] \notin {"index"} \cup Holding
        /\ pc'[t] = "idle" <=> on'[t] = None
    BY <1>1, <1>2 DEF LInv, TypeOK, Place, Ahead, Holding
  <2>3. UNCHANGED <<tu, left, cleared>>
    BY DEF index_header_set
  <2> QED
    BY <2>1, <2>2, <2>3 DEF LInv, Place, Holding
<1>7. MutexFollows'
  BY <1>1, <1>2, NamesAssumption
  DEF LInv, TypeOK, MutexFollows, index_header_set, Ahead, Holding
<1> QED
  BY <1>5, <1>6, <1>7 DEF LInv

-----------------------------------------------------------------------------
(* The other steps                                                         *)

LEMMA Untouched ==
  ASSUME LInv, UNCHANGED <<tu, index, decl_mutex, pc, on, todo, left, cleared>>,
         visit' \subseteq Files
  PROVE  LInv'
<1>1. TypeOK'
  BY DEF LInv, TypeOK, index
<1>2. Place'
  BY DEF LInv, Place
<1>3. MutexFollows'
  BY DEF LInv, MutexFollows
<1> QED
  BY <1>1, <1>2, <1>3 DEF LInv

LEMMA DiagnosticsFollow ==
  ASSUME LInv, NEW t \in Threads, DiagnosticsNext(t)
  PROVE  LInv'
<1> DEFINE Stays == /\ pc' = [pc EXCEPT ![t] = pc'[t]]
                    /\ pc'[t] \in {"diags", "publish"} /\ pc[t] \notin {"idle"} \cup Holding
                    /\ left' = [s \in Threads |-> left'[s]]
                    /\ \A s \in Threads : s # t => left'[s] = left[s]
                    /\ UNCHANGED <<tu, index, decl_mutex, on, todo, cleared, queue>>
<1>1. ASSUME Stays PROVE LInv'
  <2>1. TypeOK'
    <3>1. pc' \in [Threads -> Places]
      BY <1>1 DEF LInv, TypeOK, Places
    <3> QED
      BY <1>1, <3>1 DEF LInv, TypeOK, index, queue
  <2>2. Place'
    BY <1>1 DEF LInv, TypeOK, Place, Holding
  <2>3. MutexFollows'
    BY <1>1 DEF LInv, TypeOK, MutexFollows, Holding
  <2> QED
    BY <2>1, <2>2, <2>3 DEF LInv
<1>2. left = [s \in Threads |-> left[s]] /\ pc \in [Threads -> Places]
  BY DEF LInv, TypeOK
<1>3. CASE unit_diagnostics_get(t)
  BY <1>1, <1>2, <1>3 DEF unit_diagnostics_get, Goto, Holding
<1>4. CASE diagnostic_parse(t)
  BY <1>1, <1>2, <1>4 DEF diagnostic_parse, Holding
<1>5. CASE Gathered(t)
  BY <1>1, <1>2, <1>5 DEF Gathered, Goto, Holding
<1>6. CASE diag_callback(t)
  BY <1>1, <1>2, <1>6 DEF diag_callback, Holding
<1>7. CASE Published(t)
  BY <1>7, AdvanceFollows DEF Published, Holding, queue, LInv, TypeOK
<1> QED
  BY <1>3, <1>4, <1>5, <1>6, <1>7 DEF DiagnosticsNext

(* A sequence with one element in front.                                   *)
LEMMA OneFirst ==
  ASSUME NEW S, NEW first \in S, NEW rest \in Seq(S), NEW all \in Seq(S),
         Len(all) = 1 + Len(rest), all[1] = first,
         \A i \in 1 .. Len(rest) : all[i + 1] = rest[i]
  PROVE  <<first>> \o rest = all
<1>1. <<first>> \in Seq(S) /\ Len(<<first>>) = 1 /\ <<first>>[1] = first
  OBVIOUS
<1>2. PICK one \in Seq(S) : one = <<first>>
  BY <1>1
<1>3. Len(one) = 1 /\ one[1] = first
  BY <1>1, <1>2
<1>4. PICK joined : joined = one \o rest
  OBVIOUS
<1>5. /\ joined \in Seq(S) /\ Len(joined) = Len(all) /\ Len(rest) \in Nat
      /\ joined[1] = first
      /\ \A i \in 1 .. Len(rest) : joined[i + 1] = rest[i]
  <2>1. /\ joined \in Seq(S) /\ Len(joined) = Len(one) + Len(rest) /\ Len(rest) \in Nat
        /\ \A i \in 1 .. Len(one) + Len(rest) :
             joined[i] = IF i <= Len(one) THEN one[i] ELSE rest[i - Len(one)]
    BY <1>4, ConcatProperties
  <2> QED
    BY <1>3, <2>1
<1>6. ASSUME NEW i \in 1 .. Len(all) PROVE joined[i] = all[i]
  <2>1. CASE i = 1
    BY <1>5, <2>1
  <2>2. CASE i # 1
    <3>1. i - 1 \in 1 .. Len(rest) /\ i = (i - 1) + 1
      BY <1>5, <2>2
    <3> QED
      BY <1>5, <3>1
  <2> QED
    BY <2>1, <2>2
<1>7. joined = all
  BY <1>5, <1>6, SeqEqual
<1> QED
  BY <1>2, <1>4, <1>7

(* A message makes the main thread enter a unit for some steps, or for     *)
(* none: a request about a unit that is active.                            *)
LEMMA MessageEnters ==
  ASSUME NEW f \in Files, did_open(f) \/ did_change(f) \/ request(f)
  PROVE  \E u \in Files, all \in Seq(Ahead) :
           /\ IF all = <<>> THEN UNCHANGED <<pc, on, todo, raced, torn>>
                           ELSE Enter(Main, u, all)
           /\ pc[Main] = "idle" /\ mp_current_unit' = u
           /\ \/ tu[u] # None /\ all \in {<<>>, <<"diagnose">>}
              \/ tu[u] # None /\ all = <<"translate", "diagnose", "notify">>
              \/ tu[u] = None /\ all = <<"translate">>
              \/ tu[u] = None /\ all = <<"translate", "diagnose">>
              \/ tu[u] = None /\ all = <<"translate", "translate", "diagnose", "notify">>
           /\ undiagnosed' = IF all = <<"translate">> THEN undiagnosed \cup {u} ELSE undiagnosed
           /\ UNCHANGED <<tu, index, diagnostics, decl_mutex, left, cleared, visit>>
<1>1. PICK places \in {<<>>, <<"diagnose">>, <<"translate", "diagnose", "notify">>} :
        get_or_create_unit(f, places)
  BY DEF did_open, did_change, request
<1>2. PICK u \in unit_storage_get(f) :
        LET all == (IF tu[u] = None THEN <<"translate">> ELSE <<>>) \o places
        IN  /\ IF all = <<>> THEN UNCHANGED <<pc, on, todo, raced, torn>> ELSE Enter(Main, u, all)
            /\ mp_current_unit' = u
            /\ undiagnosed' = IF tu[u] = None /\ places = <<>> THEN undiagnosed \cup {u}
                              ELSE undiagnosed
  BY <1>1 DEF get_or_create_unit
<1>3. u \in Files
  BY DEF unit_storage_get
<1>4. PICK all : all = (IF tu[u] = None THEN <<"translate">> ELSE <<>>) \o places
  OBVIOUS
<1>5. /\ <<>> \in Seq(Ahead) /\ <<"diagnose">> \in Seq(Ahead) /\ <<"translate">> \in Seq(Ahead)
      /\ <<"translate", "diagnose">> \in Seq(Ahead)
      /\ <<"translate", "diagnose", "notify">> \in Seq(Ahead)
      /\ <<"translate", "translate", "diagnose", "notify">> \in Seq(Ahead)
  BY DEF Ahead
<1>6. /\ <<>> \o <<>> = <<>>
      /\ <<>> \o <<"diagnose">> = <<"diagnose">>
      /\ <<>> \o <<"translate", "diagnose", "notify">> = <<"translate", "diagnose", "notify">>
      /\ <<"translate">> \o <<>> = <<"translate">>
      /\ <<"translate">> \o <<"diagnose">> = <<"translate", "diagnose">>
      /\ <<"translate">> \o <<"translate", "diagnose", "notify">>
           = <<"translate", "translate", "diagnose", "notify">>
  <2>1. /\ <<>> \o <<>> = <<>>
        /\ <<>> \o <<"diagnose">> = <<"diagnose">>
        /\ <<>> \o <<"translate", "diagnose", "notify">> = <<"translate", "diagnose", "notify">>
    OBVIOUS
  <2>2. ASSUME NEW rest \in Seq(Ahead), NEW whole \in Seq(Ahead), Len(whole) = 1 + Len(rest),
               whole[1] = "translate", \A i \in 1 .. Len(rest) : whole[i + 1] = rest[i]
        PROVE  <<"translate">> \o rest = whole
    <3>1. "translate" \in Ahead
      BY DEF Ahead
    <3> QED
      BY <2>2, <3>1, OneFirst
  <2>3. <<"translate">> \o <<>> = <<"translate">>
    BY <1>5, <2>2
  <2>4. <<"translate">> \o <<"diagnose">> = <<"translate", "diagnose">>
    <3>1. PICK rest \in Seq(Ahead), whole \in Seq(Ahead) :
            rest = <<"diagnose">> /\ whole = <<"translate", "diagnose">>
      BY <1>5
    <3>2. /\ Len(rest) = 1 /\ rest[1] = "diagnose"
          /\ Len(whole) = 2 /\ whole[1] = "translate" /\ whole[2] = "diagnose"
      BY <3>1
    <3>3. \A i \in 1 .. Len(rest) : whole[i + 1] = rest[i]
      BY <3>2
    <3>4. <<"translate">> \o rest = whole
      <4>1. Len(whole) = 1 + Len(rest)
        BY <3>2
      <4> QED
        BY <2>2, <3>2, <3>3, <4>1, Zenon
    <3> QED
      BY <3>1, <3>4
  <2>5. <<"translate">> \o <<"translate", "diagnose", "notify">>
          = <<"translate", "translate", "diagnose", "notify">>
    <3>1. PICK rest \in Seq(Ahead), whole \in Seq(Ahead) :
            /\ rest = <<"translate", "diagnose", "notify">>
            /\ whole = <<"translate", "translate", "diagnose", "notify">>
      BY <1>5
    <3>2. /\ Len(rest) = 3 /\ Len(whole) = 4
          /\ rest[1] = "translate" /\ rest[2] = "diagnose" /\ rest[3] = "notify"
          /\ whole[1] = "translate" /\ whole[2] = "translate" /\ whole[3] = "diagnose"
          /\ whole[4] = "notify"
      BY <3>1
    <3>3. \A i \in 1 .. Len(rest) : whole[i + 1] = rest[i]
      BY <3>2
    <3>4. <<"translate">> \o rest = whole
      <4>1. Len(whole) = 1 + Len(rest)
        BY <3>2
      <4> QED
        BY <2>2, <3>2, <3>3, <4>1, Zenon
    <3> QED
      BY <3>1, <3>4
  <2> QED
    BY <2>1, <2>3, <2>4, <2>5, Zenon
<1>7. /\ <<>> # <<"translate">> /\ <<"diagnose">> # <<"translate">>
      /\ <<"translate", "diagnose", "notify">> # <<"translate">>
      /\ <<"translate", "diagnose">> # <<"translate">>
      /\ <<"translate", "translate", "diagnose", "notify">> # <<"translate">>
      /\ <<"diagnose">> # <<>> /\ <<"translate", "diagnose", "notify">> # <<>>
  OBVIOUS
<1>8. /\ all \in Seq(Ahead)
      /\ \/ tu[u] # None /\ all \in {<<>>, <<"diagnose">>}
         \/ tu[u] # None /\ all = <<"translate", "diagnose", "notify">>
         \/ tu[u] = None /\ all = <<"translate">>
         \/ tu[u] = None /\ all = <<"translate", "diagnose">>
         \/ tu[u] = None /\ all = <<"translate", "translate", "diagnose", "notify">>
      /\ tu[u] = None /\ places = <<>> <=> all = <<"translate">>
  <2>1. CASE places = <<>>
    BY <1>4, <1>5, <1>6, <1>7, <2>1, Zenon
  <2>2. CASE places = <<"diagnose">>
    BY <1>4, <1>5, <1>6, <1>7, <2>2, Zenon
  <2>3. CASE places = <<"translate", "diagnose", "notify">>
    BY <1>4, <1>5, <1>6, <1>7, <2>3, Zenon
  <2> QED
    BY <1>1, <2>1, <2>2, <2>3, Zenon
<1>9. /\ IF all = <<>> THEN UNCHANGED <<pc, on, todo, raced, torn>> ELSE Enter(Main, u, all)
      /\ mp_current_unit' = u
      /\ undiagnosed' = IF all = <<"translate">> THEN undiagnosed \cup {u} ELSE undiagnosed
  BY <1>2, <1>4, <1>8, Zenon
<1>10. /\ pc[Main] = "idle"
       /\ UNCHANGED <<tu, index, diagnostics, decl_mutex, left, cleared, visit>>
  BY <1>1 DEF get_or_create_unit
<1> QED
  BY <1>3, <1>8, <1>9, <1>10, Zenon

LEMMA MessageFollows ==
  ASSUME LInv, NEW f \in Files, did_open(f) \/ did_change(f) \/ request(f)
  PROVE  LInv'
<1>1. PICK u \in Files, all \in Seq(Ahead) :
        /\ IF all = <<>> THEN UNCHANGED <<pc, on, todo, raced, torn>> ELSE Enter(Main, u, all)
        /\ pc[Main] = "idle"
        /\ UNCHANGED <<tu, index, diagnostics, decl_mutex, left, cleared, visit>>
  BY MessageEnters, Zenon
<1>2. Main \in Threads /\ visit' \subseteq Files
  BY <1>1 DEF Threads, LInv, TypeOK
<1>3. CASE all = <<>>
  BY <1>1, <1>2, <1>3, Untouched
<1>4. CASE all # <<>>
  BY <1>1, <1>2, <1>4, EnterFollows
<1> QED
  BY <1>3, <1>4

LEMMA ReparseFollows ==
  ASSUME LInv, reparse_thread
  PROVE  LInv'
<1>1. PICK u \in visit :
        /\ visit' = visit \ {u}
        /\ IF unit_includes_file(u) /\ u # changed
             THEN Enter(Reparser, u, <<"translate", "diagnose">>)
             ELSE UNCHANGED <<pc, on, todo, raced, torn>>
  BY DEF reparse_thread
<1>2. u \in Files /\ visit' \subseteq Files
  BY <1>1 DEF LInv, TypeOK
<1>3. CASE Enter(Reparser, u, <<"translate", "diagnose">>)
  <2>1. <<"translate", "diagnose">> \in Seq(Ahead)
    BY DEF Ahead
  <2> QED
    BY <1>2, <1>3, <2>1, EnterFollows DEF reparse_thread, Threads
<1>4. CASE UNCHANGED <<pc, on, todo, raced, torn>>
  BY <1>2, <1>4, Untouched DEF reparse_thread
<1> QED
  BY <1>1, <1>3, <1>4

LEMMA StepLInv == LInv /\ [Next]_vars => LInv'
<1> SUFFICES ASSUME LInv, [Next]_vars PROVE LInv'
  OBVIOUS
<1>1. ASSUME NEW t \in Threads, IndexNext(t) PROVE LInv'
  BY <1>1, TranslateFollows, TakeFollows, ClearFollows, RemoveFollows, IncludeFollows,
     DefinitionsFollows, DeclarationFollows, ListFollows, HeaderFollows DEF IndexNext
<1>2. CASE unit_storage_notify_change
  BY <1>2, AdvanceFollows
  DEF unit_storage_notify_change, Threads, Holding, LInv, TypeOK
<1>3. CASE code_action
  BY <1>3, Untouched DEF code_action, LInv, TypeOK
<1>4. CASE queue_poll
  BY <1>4, Untouched DEF queue_poll
<1>5. CASE UNCHANGED vars
  BY <1>5, Untouched DEF vars, queue, LInv, TypeOK
<1> QED
  BY <1>1, <1>2, <1>3, <1>4, <1>5, DiagnosticsFollow, MessageFollows, ReparseFollows DEF Next

(* No two threads replace the contents of one unit.                        *)
LEMMA OneHolds ==
  ASSUME LInv, NEW s \in Threads, NEW t \in Threads, s # t, pc[s] \in Holding,
         pc[t] \in Holding
  PROVE  on[s] # on[t]
<1>1. decl_mutex[on[s]] = s /\ decl_mutex[on[t]] = t
  BY AtWork
<1> QED
  BY <1>1

-----------------------------------------------------------------------------
(* Main headers                                                            *)

(* A unit whose contents nobody replaces has the main header the map names *)
(* or has lost it; a main header is always one of the included files.      *)
HeadersFollow ==
  \A u \in Files :
    LET header == inclusion[u].p_main_header
    IN  /\ header # None => header \in inclusion[u].p_included_files
        /\ decl_mutex[u] = None => header \in {None, p_header_map[u]}

(* A unit no thread is in is held by none.                                 *)
LEMMA HeadersFollowAgree == LInv /\ HeadersFollow => HeadersAgree
<1> SUFFICES ASSUME LInv, HeadersFollow, NEW u \in Files
             PROVE  LET header == inclusion[u].p_main_header
                    IN  /\ header # None => header \in inclusion[u].p_included_files
                        /\ Inside(u) = {} => header \in {None, p_header_map[u]}
  BY DEF HeadersAgree
<1>1. ASSUME Inside(u) = {} PROVE decl_mutex[u] = None
  <2>1. \A t \in Threads : on[t] # u
    BY <1>1 DEF Inside
  <2>2. \A t \in Threads : decl_mutex[u] # t
    BY <2>1 DEF LInv, MutexFollows
  <2> QED
    BY <2>2 DEF LInv, TypeOK
<1> QED
  BY <1>1 DEF HeadersFollow

LEMMA StepHeaders == LInv /\ HeadersFollow /\ [Next]_vars => HeadersFollow'
<1> SUFFICES ASSUME LInv, HeadersFollow, [Next]_vars PROVE HeadersFollow'
  OBVIOUS
<1>1. CASE UNCHANGED <<inclusion, p_header_map, decl_mutex>>
  BY <1>1 DEF HeadersFollow
<1>2. ASSUME NEW t \in Threads, index_translation_unit(t) PROVE HeadersFollow'
  <2>1. on[t] \in Files /\ UNCHANGED <<inclusion, p_header_map>>
    BY <1>2, AtWork DEF index_translation_unit, index
  <2>2. \A u \in Files : decl_mutex'[u] = None => decl_mutex[u] = None
    BY <1>2, <2>1 DEF index_translation_unit, LInv, TypeOK, Threads
  <2> QED
    BY <2>1, <2>2 DEF HeadersFollow
<1>3. ASSUME NEW t \in Threads, index_included_file(t) PROVE HeadersFollow'
  <2> DEFINE u == on[t]
             known == IF cleared[t] THEN inclusion[u] ELSE clear_included_files(u)
             include == Head(left[t])
  <2>1. u \in Files /\ decl_mutex[u] = t /\ t # None
    BY <1>3, AtWork, NamesAssumption DEF index_included_file, Holding, Threads
  <2>2. inclusion' = [inclusion EXCEPT ![u] = Include(known, u, include)]
    BY <1>3, <2>1 DEF index_included_file, LInv, TypeOK
  <2>3. known.p_main_header # None => known.p_main_header \in known.p_included_files
    BY <2>1 DEF HeadersFollow, clear_included_files
  <2>4. LET found == Include(known, u, include)
        IN  found.p_main_header # None => found.p_main_header \in found.p_included_files
    <3> HIDE DEF known, include
    <3> QED
      BY <2>3 DEF Include
  <2>5. /\ UNCHANGED <<p_header_map, decl_mutex>>
        /\ inclusion \in [Files -> Inclusion]
    BY <1>3 DEF index_included_file, LInv, TypeOK
  <2> HIDE DEF known, include
  <2> QED
    BY <2>1, <2>2, <2>4, <2>5 DEF HeadersFollow
<1>4. ASSUME NEW t \in Threads, index_header_set(t) PROVE HeadersFollow'
  <2>1. on[t] \in Files /\ UNCHANGED inclusion
    BY <1>4, AtWork DEF index_header_set, Holding
  <2>2. /\ p_header_map \in [Files -> Files \cup {None}]
        /\ decl_mutex \in [Files -> Threads \cup {None}]
    BY DEF LInv, TypeOK
  <2> QED
    BY <1>4, <2>1, <2>2 DEF index_header_set, HeadersFollow
<1> QED
  <2>1. ASSUME NEW t \in Threads, IndexNext(t) PROVE HeadersFollow'
    BY <1>1, <1>2, <1>3, <1>4, <2>1
    DEF IndexNext, Translate, clear_index_decls, RemoveDeclaration, Definitions,
        index_declaration, ListDeclaration, index
  <2>2. ASSUME NEW t \in Threads, DiagnosticsNext(t) PROVE HeadersFollow'
    BY <1>1, <2>2
    DEF DiagnosticsNext, unit_diagnostics_get, diagnostic_parse, Gathered, diag_callback,
        Published, index
  <2>3. ASSUME NEW f \in Files, did_open(f) \/ did_change(f) \/ request(f) PROVE HeadersFollow'
    BY <1>1, <2>3 DEF did_open, did_change, request, get_or_create_unit, index
  <2>4. CASE unit_storage_notify_change \/ code_action \/ queue_poll \/ reparse_thread
    BY <1>1, <2>4 DEF unit_storage_notify_change, code_action, queue_poll, reparse_thread, index
  <2>5. CASE UNCHANGED vars
    BY <1>1, <2>5 DEF vars, index
  <2> QED
    BY <2>1, <2>2, <2>3, <2>4, <2>5 DEF Next

-----------------------------------------------------------------------------
(* Included files                                                          *)

Names(includes) == {include.file : include \in ToSet(includes)}

(* A thread is about to translate the contents of a unit anew.             *)
Pending(u) == \E t \in Threads : on[t] = u /\ pc[t] \in {"index", "clear", "remove"}

(* What is known of the includes of a unit while a thread replaces them.   *)
Replacing(t) ==
  IF cleared[t]
    THEN inclusion[on[t]].p_included_files \cup Names(left[t]) = Names(tu[on[t]].includes)
    ELSE left[t] = tu[on[t]].includes

Known(u) ==
  \/ inclusion[u].p_included_files = Names(tu[u].includes)
  \/ tu[u].includes = <<>>

IncludesFollow ==
  /\ \A t \in Threads : pc[t] = "includes" => Pending(on[t]) \/ Replacing(t)
  /\ \A u \in Files : tu[u] # None =>
       Pending(u) \/ Known(u) \/ \E t \in Threads : on[t] = u /\ pc[t] = "includes"

LEMMA IncludesFollowStale == IncludesFollow => StaleIncludesForCause
<1> SUFFICES ASSUME IncludesFollow, NEW u \in Files, AtRest(u) PROVE Known(u)
  BY DEF StaleIncludesForCause, Known, Names
<1>1. tu[u] # None /\ \A t \in Threads : on[t] # u
  BY DEF AtRest, Inside
<1> QED
  BY <1>1 DEF IncludesFollow, Pending

LEMMA NamesLeft ==
  ASSUME NEW S, NEW seq \in Seq(S), seq # <<>>
  PROVE  Names(seq) = {Head(seq).file} \cup Names(Tail(seq))
<1>1. ToSet(seq) = {Head(seq)} \cup ToSet(Tail(seq))
  <2>1. /\ DOMAIN seq = 1 .. Len(seq) /\ DOMAIN Tail(seq) = 1 .. Len(seq) - 1
        /\ Len(seq) \in Nat /\ Len(seq) > 0 /\ Head(seq) = seq[1]
        /\ \A i \in 1 .. Len(seq) - 1 : Tail(seq)[i] = seq[i + 1]
    OBVIOUS
  <2>2. ASSUME NEW i \in 1 .. Len(seq), i # 1 PROVE seq[i] \in ToSet(Tail(seq))
    <3>1. i - 1 \in 1 .. Len(seq) - 1 /\ Tail(seq)[i - 1] = seq[i]
      BY <2>1, <2>2
    <3> QED
      BY <2>1, <3>1 DEF ToSet
  <2>3. \A i \in 1 .. Len(seq) - 1 : i + 1 \in 1 .. Len(seq)
    BY <2>1
  <2> QED
    BY <2>1, <2>2, <2>3 DEF ToSet
<1> QED
  BY <1>1 DEF Names

(* A step that moves no thread into or out of a translation.               *)
LEMMA QuietStep ==
  ASSUME IncludesFollow, NEW t \in Threads,
         \A s \in Threads \ {t} : pc'[s] = pc[s] /\ on'[s] = on[s] /\ left'[s] = left[s],
         pc[t] \notin {"index", "clear", "remove", "includes"},
         pc'[t] \notin {"index", "clear", "remove", "includes"},
         UNCHANGED <<tu, inclusion, cleared>>
  PROVE  IncludesFollow'
<1>1. \A u : Pending(u)' = Pending(u)
  BY DEF Pending
<1> QED
  BY <1>1 DEF IncludesFollow, Replacing, Known

LEMMA TranslatePending ==
  ASSUME LInv, IncludesFollow, NEW t \in Threads, Translate(t)
  PROVE  IncludesFollow'
<1> DEFINE u == on[t]
<1>1. /\ \A f \in Files : f # u => tu'[f] = tu[f]
      /\ UNCHANGED <<inclusion, on, left, cleared>>
      /\ pc[t] = "translate" /\ pc'[t] = "index"
      /\ \A s \in Threads \ {t} : pc'[s] = pc[s]
  BY DEF Translate, Goto, index, LInv, TypeOK
<1>2. Pending(u)'
  BY <1>1 DEF Pending
<1>3. \A f : f # u => Pending(f)' = Pending(f)
  BY <1>1 DEF Pending
<1>4. ASSUME NEW s \in Threads, pc'[s] = "includes"
      PROVE  Pending(on[s])' \/ Replacing(s)'
  <2>1. s # t /\ pc[s] = "includes"
    BY <1>1, <1>4
  <2>2. on[s] \in Files
    BY <2>1, AtWork DEF Holding
  <2>3. CASE on[s] # u
    BY <1>1, <1>3, <2>1, <2>2, <2>3 DEF IncludesFollow, Replacing
  <2>4. CASE on[s] = u
    BY <1>1, <2>4 DEF Pending
  <2> QED
    BY <2>3, <2>4
<1>5. ASSUME NEW f \in Files, f # u, tu'[f] # None
      PROVE  Pending(f)' \/ Known(f)' \/ \E s \in Threads : on'[s] = f /\ pc'[s] = "includes"
  <2>1. Pending(f) \/ Known(f) \/ \E s \in Threads : on[s] = f /\ pc[s] = "includes"
    BY <1>1, <1>5 DEF IncludesFollow
  <2>2. CASE Pending(f)
    BY <1>3, <1>5, <2>2
  <2>3. CASE Known(f)
    BY <1>1, <1>5, <2>3 DEF Known
  <2>4. CASE \E s \in Threads : on[s] = f /\ pc[s] = "includes"
    BY <1>1, <2>4
  <2> QED
    BY <2>1, <2>2, <2>3, <2>4
<1> QED
  BY <1>1, <1>2, <1>4, <1>5 DEF IncludesFollow

LEMMA TakePending ==
  ASSUME IncludesFollow, LInv, NEW t \in Threads, index_translation_unit(t)
  PROVE  IncludesFollow'
<1>1. /\ UNCHANGED <<tu, inclusion, on, left>>
      /\ pc[t] = "index" /\ pc'[t] = "clear"
      /\ \A s \in Threads \ {t} : pc'[s] = pc[s] /\ cleared'[s] = cleared[s]
  BY DEF index_translation_unit, Goto, index, LInv, TypeOK
<1>2. \A u : Pending(u)' = Pending(u)
  BY <1>1 DEF Pending
<1> QED
  BY <1>1, <1>2 DEF IncludesFollow, Replacing, Known

LEMMA ClearPending ==
  ASSUME LInv, IncludesFollow, NEW t \in Threads, clear_index_decls(t)
  PROVE  IncludesFollow'
<1>1. UNCHANGED <<tu, inclusion, cleared, on>> /\ pc[t] = "clear" /\ ~cleared[t]
  BY DEF clear_index_decls, LInv, Place
<1>2. CASE pc'[t] = "remove" /\ \A s \in Threads \ {t} : pc'[s] = pc[s] /\ left'[s] = left[s]
  <2>1. \A u : Pending(u)' = Pending(u)
    BY <1>1, <1>2 DEF Pending
  <2> QED
    BY <1>1, <1>2, <2>1 DEF IncludesFollow, Replacing, Known
<1>3. CASE pc'[t] = "includes" /\ left'[t] = tu[on[t]].includes
           /\ \A s \in Threads \ {t} : pc'[s] = pc[s] /\ left'[s] = left[s]
  <2>1. Replacing(t)'
    BY <1>1, <1>3 DEF Replacing
  <2>2. \A u : u # on[t] => Pending(u)' = Pending(u)
    BY <1>1, <1>3 DEF Pending
  <2>3. ASSUME NEW s \in Threads, s # t, pc'[s] = "includes"
        PROVE  Pending(on[s])' \/ Replacing(s)'
    <3>1. on[s] # on[t]
      BY <1>1, <1>3, <2>3, OneHolds DEF Holding
    <3> QED
      BY <1>1, <1>3, <2>2, <2>3, <3>1 DEF IncludesFollow, Replacing
  <2>4. ASSUME NEW u \in Files, tu'[u] # None
        PROVE  Pending(u)' \/ Known(u)' \/ \E s \in Threads : on'[s] = u /\ pc'[s] = "includes"
    BY <1>1, <1>3, <2>2, <2>4 DEF IncludesFollow, Known
  <2> QED
    BY <2>1, <2>3, <2>4, <1>1 DEF IncludesFollow
<1> QED
  BY <1>2, <1>3 DEF clear_index_decls, Goto, LInv, TypeOK

LEMMA RemovePending ==
  ASSUME LInv, IncludesFollow, NEW t \in Threads, RemoveDeclaration(t)
  PROVE  IncludesFollow'
<1>1. /\ UNCHANGED <<tu, inclusion, cleared, on, left>> /\ pc[t] = "remove" /\ pc'[t] = "clear"
      /\ \A s \in Threads \ {t} : pc'[s] = pc[s]
  BY DEF RemoveDeclaration, Goto, LInv, TypeOK
<1>2. \A u : Pending(u)' = Pending(u)
  BY <1>1 DEF Pending
<1> QED
  BY <1>1, <1>2 DEF IncludesFollow, Replacing, Known

LEMMA IncludePending ==
  ASSUME LInv, IncludesFollow, NEW t \in Threads, index_included_file(t)
  PROVE  IncludesFollow'
<1> DEFINE u == on[t]
<1>1. /\ UNCHANGED <<tu, on, pc>> /\ pc[t] = "includes" /\ left[t] # <<>>
      /\ left'[t] = Tail(left[t]) /\ cleared'[t] = TRUE
      /\ \A s \in Threads \ {t} : left'[s] = left[s] /\ cleared'[s] = cleared[s]
  BY DEF index_included_file, LInv, TypeOK
<1>2. u \in Files /\ left[t] \in Seq(Includes)
  BY <1>1, AtWork DEF Holding
<1>3. /\ inclusion'[u].p_included_files =
           (IF cleared[t] THEN inclusion[u].p_included_files ELSE {}) \cup {Head(left[t]).file}
      /\ \A f \in Files : f # u => inclusion'[f] = inclusion[f]
  BY <1>2 DEF index_included_file, Include, clear_included_files, LInv, TypeOK
<1>4. \A f : Pending(f)' = Pending(f)
  BY <1>1 DEF Pending
<1>5. Names(left[t]) = {Head(left[t]).file} \cup Names(left'[t])
  BY <1>1, <1>2, NamesLeft
<1>6. Replacing(t) => Replacing(t)'
  BY <1>1, <1>3, <1>5 DEF Replacing
<1>7. ASSUME NEW s \in Threads, s # t, pc[s] = "includes"
      PROVE  Pending(on[s]) \/ Replacing(s)'
  <2>1. on[s] # u /\ on[s] \in Files
    BY <1>1, <1>7, OneHolds, AtWork DEF Holding
  <2> QED
    BY <1>1, <1>3, <1>7, <2>1 DEF IncludesFollow, Replacing
<1>8. ASSUME NEW f \in Files, tu[f] # None
      PROVE  Pending(f) \/ Known(f)' \/ \E s \in Threads : on[s] = f /\ pc[s] = "includes"
  BY <1>1, <1>3, <1>8 DEF IncludesFollow, Known
<1> QED
  BY <1>1, <1>4, <1>6, <1>7, <1>8 DEF IncludesFollow

LEMMA DefinitionsPending ==
  ASSUME LInv, IncludesFollow, NEW t \in Threads, Definitions(t)
  PROVE  IncludesFollow'
<1>1. /\ UNCHANGED <<tu, inclusion, cleared, on>>
      /\ pc[t] = "includes" /\ left[t] = <<>> /\ pc'[t] = "decls"
      /\ \A s \in Threads \ {t} : pc'[s] = pc[s] /\ left'[s] = left[s]
  BY DEF Definitions, Goto, index, LInv, TypeOK
<1>2. \A f : Pending(f)' = Pending(f)
  BY <1>1 DEF Pending
<1>3. Names(<<>>) = {}
  BY DEF Names, ToSet
<1>4. Pending(on[t]) \/ Known(on[t])
  BY <1>1, <1>3 DEF IncludesFollow, Replacing, Known
<1>5. ASSUME NEW s \in Threads, pc'[s] = "includes"
      PROVE  Pending(on[s])' \/ Replacing(s)'
  BY <1>1, <1>2, <1>5 DEF IncludesFollow, Replacing
<1>6. ASSUME NEW f \in Files, tu'[f] # None
      PROVE  Pending(f)' \/ Known(f)' \/ \E s \in Threads : on'[s] = f /\ pc'[s] = "includes"
  <2>1. CASE f = on[t]
    BY <1>1, <1>4, <2>1 DEF Pending, Known
  <2>2. CASE f # on[t]
    BY <1>1, <1>2, <1>6, <2>2 DEF IncludesFollow, Known
  <2> QED
    BY <2>1, <2>2
<1> QED
  BY <1>5, <1>6 DEF IncludesFollow

LEMMA StepIncludes == LInv /\ IncludesFollow /\ [Next]_vars => IncludesFollow'
<1> SUFFICES ASSUME LInv, IncludesFollow, [Next]_vars PROVE IncludesFollow'
  OBVIOUS
<1>1. ASSUME NEW t \in Threads, index_declaration(t) PROVE IncludesFollow'
  BY <1>1, QuietStep DEF index_declaration, Goto, LInv, TypeOK
<1>11. ASSUME NEW t \in Threads, ListDeclaration(t) PROVE IncludesFollow'
  BY <1>11, QuietStep DEF ListDeclaration, Goto, LInv, TypeOK
<1>2. ASSUME NEW t \in Threads, pc[t] \notin {"idle", "index", "clear", "remove", "includes"},
             Advance(t),
             UNCHANGED <<tu, inclusion, left, cleared>>
      PROVE  IncludesFollow'
  <2>1. /\ pc' = [pc EXCEPT ![t] = pc'[t]] /\ pc'[t] \in Ahead \cup {"idle"}
        /\ on' = [on EXCEPT ![t] = IF pc'[t] = "idle" THEN None ELSE on[t]]
    BY <1>2, AdvanceGoes
  <2> QED
    BY <1>2, <2>1, QuietStep DEF Ahead, LInv, TypeOK
<1>3. ASSUME NEW t \in Threads, DiagnosticsNext(t) PROVE IncludesFollow'
  <2>1. CASE Published(t)
    BY <1>2, <2>1 DEF Published, index
  <2> QED
    BY <1>3, <2>1, QuietStep
    DEF DiagnosticsNext, unit_diagnostics_get, diagnostic_parse, Gathered, diag_callback,
        Goto, index, LInv, TypeOK
<1>4. ASSUME NEW t \in Threads, NEW u, NEW places, Head(places) \in Ahead, pc[t] = "idle",
             Enter(t, u, places), UNCHANGED <<tu, inclusion, left, cleared>>
      PROVE  IncludesFollow'
  BY <1>4, QuietStep DEF Enter, Goto, Ahead, LInv, TypeOK
<1>5. ASSUME NEW f \in Files, did_open(f) \/ did_change(f) \/ request(f) PROVE IncludesFollow'
  <2>1. PICK u \in Files, all \in Seq(Ahead) :
          /\ IF all = <<>> THEN UNCHANGED <<pc, on, todo, raced, torn>> ELSE Enter(Main, u, all)
          /\ pc[Main] = "idle"
          /\ UNCHANGED <<tu, index, diagnostics, decl_mutex, left, cleared, visit>>
    BY <1>5, MessageEnters, Zenon
  <2>2. UNCHANGED <<tu, inclusion, left, cleared>> /\ Main \in Threads
    BY <2>1 DEF index, Threads
  <2>3. CASE all = <<>>
    BY <2>1, <2>2, <2>3 DEF IncludesFollow, Pending, Replacing, Known
  <2>4. CASE all # <<>>
    <3>1. Head(all) \in Ahead
      BY <2>4
    <3> QED
      BY <1>4, <2>1, <2>2, <2>4, <3>1
  <2> QED
    BY <2>3, <2>4
<1>6. CASE UNCHANGED <<tu, inclusion, pc, on, left, cleared>>
  BY <1>6 DEF IncludesFollow, Pending, Replacing, Known
<1>7. CASE reparse_thread
  <2>1. PICK u \in visit :
          IF unit_includes_file(u) /\ u # changed
            THEN Enter(Reparser, u, <<"translate", "diagnose">>)
            ELSE UNCHANGED <<pc, on, todo, raced, torn>>
    BY <1>7 DEF reparse_thread
  <2>2. Head(<<"translate", "diagnose">>) \in Ahead
    BY DEF Ahead
  <2> QED
    BY <1>4, <1>6, <1>7, <2>1, <2>2 DEF reparse_thread, index, Threads
<1>8. CASE unit_storage_notify_change
  BY <1>2, <1>8 DEF unit_storage_notify_change, index, Threads
<1>9. CASE code_action \/ queue_poll \/ UNCHANGED vars
  BY <1>6, <1>9 DEF code_action, queue_poll, vars, index
<1>10. ASSUME NEW t \in Threads, IndexNext(t) PROVE IncludesFollow'
  <2>1. CASE index_header_set(t)
    BY <1>2, <2>1 DEF index_header_set
  <2> QED
    BY <1>1, <1>10, <1>11, <2>1, TranslatePending, TakePending, ClearPending, RemovePending,
       IncludePending, DefinitionsPending DEF IndexNext
<1> QED
  BY <1>3, <1>5, <1>7, <1>8, <1>9, <1>10 DEF Next

-----------------------------------------------------------------------------
(* Counting                                                                *)

Found(seq, x) == {i \in DOMAIN seq : seq[i] = x}

LEMMA CountType ==
  ASSUME NEW S, NEW seq \in Seq(S), NEW x
  PROVE  /\ Count(seq, x) = Cardinality(Found(seq, x)) /\ IsFiniteSet(Found(seq, x))
         /\ Count(seq, x) \in Nat
         /\ Count(seq, x) = 0 <=> \A i \in 1 .. Len(seq) : seq[i] # x
<1>1. DOMAIN seq = 1 .. Len(seq) /\ Len(seq) \in Nat
  OBVIOUS
<1>2. IsFiniteSet(1 .. Len(seq)) /\ Found(seq, x) \in SUBSET (1 .. Len(seq))
  BY <1>1, FS_Interval DEF Found
<1>3. IsFiniteSet(Found(seq, x))
  BY <1>2, FS_Subset
<1>4. /\ Cardinality(Found(seq, x)) \in Nat
      /\ Cardinality(Found(seq, x)) = 0 <=> Found(seq, x) = {}
  BY <1>3, FS_CardinalityType, FS_EmptySet
<1>5. Count(seq, x) = Cardinality(Found(seq, x))
  BY DEF Count, Found
<1>6. Found(seq, x) = {} <=> \A i \in 1 .. Len(seq) : seq[i] # x
  BY <1>1 DEF Found
<1> QED
  BY <1>3, <1>4, <1>5, <1>6

LEMMA CountAppend ==
  ASSUME NEW S, NEW seq \in Seq(S), NEW e \in S, NEW x
  PROVE  Count(Append(seq, e), x) = Count(seq, x) + IF x = e THEN 1 ELSE 0
<1> DEFINE longer == Append(seq, e)
           n == Len(seq) + 1
<1>1. /\ DOMAIN seq = 1 .. Len(seq) /\ Len(seq) \in Nat /\ longer \in Seq(S)
      /\ DOMAIN longer = 1 .. n /\ longer[n] = e
      /\ \A i \in 1 .. Len(seq) : longer[i] = seq[i]
  OBVIOUS
<1> HIDE DEF longer
<1>2. n \notin Found(seq, x)
  BY <1>1 DEF Found
<1>3. Found(longer, x) = IF x = e THEN Found(seq, x) \cup {n} ELSE Found(seq, x)
  BY <1>1 DEF Found
<1> HIDE DEF n
<1>4. IsFiniteSet(Found(seq, x)) /\ Count(seq, x) = Cardinality(Found(seq, x))
  BY CountType
<1>5. Count(longer, x) = Cardinality(Found(longer, x))
  BY <1>1, CountType
<1>6. Cardinality(Found(seq, x) \cup {n}) = Cardinality(Found(seq, x)) + 1
  BY <1>2, <1>4, FS_AddElement
<1>7. Cardinality(Found(seq, x)) \in Nat
  BY <1>4, FS_CardinalityType
<1>8. Count(longer, x) = Count(seq, x) + IF x = e THEN 1 ELSE 0
  BY <1>3, <1>4, <1>5, <1>6, <1>7
<1> QED
  BY <1>8 DEF longer

LEMMA CountFront ==
  ASSUME NEW S, NEW seq \in Seq(S), seq # <<>>, NEW x
  PROVE  /\ Last(seq) \in S
         /\ Count(seq, x) = Count(Front(seq), x) + IF x = Last(seq) THEN 1 ELSE 0
<1> DEFINE front == Front(seq)
           last == Last(seq)
<1>1. last \in S /\ front \in Seq(S) /\ seq = Append(front, last)
  BY DEF Last, Front
<1> HIDE DEF front, last
<1>2. Count(Append(front, last), x) = Count(front, x) + IF x = last THEN 1 ELSE 0
  BY <1>1, CountAppend
<1>3. Count(seq, x) = Count(front, x) + IF x = last THEN 1 ELSE 0
  BY <1>1, <1>2
<1> QED
  BY <1>1, <1>3 DEF front, last

(* The places of x in what is left are those in the whole, moved down by   *)
(* one behind the element removed.                                         *)
LEMMA CountRemoveFirst ==
  ASSUME NEW S, NEW seq \in Seq(S), NEW e, \E i \in 1 .. Len(seq) : seq[i] = e, NEW x
  PROVE  /\ RemoveFirst(seq, e) \in Seq(S)
         /\ Count(seq, x) = Count(RemoveFirst(seq, e), x) + IF x = e THEN 1 ELSE 0
<1> DEFINE rest == RemoveFirst(seq, e)
<1>0. \E i \in 1 .. Len(seq) :
        LET less == RemoveFirst(seq, e)
        IN  /\ seq[i] = e
            /\ less \in Seq(S) /\ Len(less) = Len(seq) - 1
            /\ \A j \in 1 .. Len(less) : less[j] = seq[IF j < i THEN j ELSE j + 1]
  BY RemoveFirstShape, Zenon
<1>1. PICK i \in 1 .. Len(seq) :
        /\ seq[i] = e /\ rest \in Seq(S) /\ Len(rest) = Len(seq) - 1
        /\ \A j \in 1 .. Len(rest) : rest[j] = seq[IF j < i THEN j ELSE j + 1]
  BY <1>0, Zenon
<1> HIDE DEF rest
<1> DEFINE Up(j) == IF j < i THEN j ELSE j + 1
           found == Found(seq, x)
           kept == Found(rest, x)
           f == [j \in kept |-> Up(j)]
<1>2. /\ DOMAIN seq = 1 .. Len(seq) /\ Len(seq) \in Nat /\ i \in 1 .. Len(seq)
      /\ DOMAIN rest = 1 .. Len(seq) - 1
  BY <1>1
<1>3. f \in Bijection(kept, found \ {i})
  <2>1. \A j \in kept : Up(j) \in found \ {i}
    BY <1>1, <1>2 DEF Found
  <2>2. \A j, k \in kept : Up(j) = Up(k) => j = k
    BY <1>2 DEF Found
  <2>3. ASSUME NEW k \in found \ {i} PROVE \E j \in kept : Up(j) = k
    <3>1. CASE k < i
      BY <1>1, <1>2, <2>3, <3>1 DEF Found
    <3>2. CASE k > i
      <4>1. k - 1 \in 1 .. Len(seq) - 1 /\ ~(k - 1 < i) /\ Up(k - 1) = k /\ seq[k] = x
        BY <1>2, <2>3, <3>2 DEF Found
      <4>2. rest[k - 1] = seq[k]
        BY <1>1, <1>2, <4>1
      <4>3. k - 1 \in kept
        BY <1>2, <4>1, <4>2 DEF Found
      <4> QED
        BY <4>1, <4>3
    <3> QED
      BY <1>2, <2>3, <3>1, <3>2 DEF Found
  <2> HIDE DEF found, kept, Up
  <2> QED
    BY <2>1, <2>2, <2>3 DEF Bijection, Injection, Surjection, IsInjective
<1>4. /\ IsFiniteSet(found) /\ Count(seq, x) = Cardinality(found)
      /\ IsFiniteSet(kept)  /\ Count(rest, x) = Cardinality(kept)
  BY <1>1, CountType
<1>5. i \in found <=> x = e
  BY <1>1, <1>2 DEF Found
<1> HIDE DEF found, kept, f
<1>6. Cardinality(found \ {i}) = Cardinality(kept)
  BY <1>3, <1>4, FS_Bijection DEF ExistsBijection
<1>7. Cardinality(found \ {i}) = IF i \in found THEN Cardinality(found) - 1
                                               ELSE Cardinality(found)
  BY <1>4, FS_RemoveElement
<1>8. Cardinality(found) \in Nat /\ Cardinality(kept) \in Nat
  BY <1>4, FS_CardinalityType
<1>9. Count(seq, x) = Count(rest, x) + IF x = e THEN 1 ELSE 0
  BY <1>4, <1>5, <1>6, <1>7, <1>8
<1> QED
  BY <1>1, <1>9 DEF rest

(* How many declarations of a unit the index has for a USR.                *)
Indexed(usr, u) == IF usr \in DOMAIN p_table THEN Count(p_table[usr], u) ELSE 0

(* One more than the unit lists while a thread is halfway with it.         *)
Extra(usr, u) == IF \E t \in Threads : Halfway(t, u, usr) THEN 1 ELSE 0

Exact ==
  /\ \A usr \in DOMAIN p_table : p_table[usr] # <<>>
  /\ \A u \in Files, usr \in USRs :
       Indexed(usr, u) = Count(p_declarations[u], usr) + Extra(usr, u)

LEMMA ExactIndex == Exact => IndexExact
BY DEF Exact, IndexExact, Indexed, Extra

(* Only the thread that holds the mutex of a unit may be halfway with it,  *)
(* and a step of it moves nothing halfway in the others.                   *)
LEMMA HalfwayStep ==
  ASSUME LInv, LInv', NEW t \in Threads, on' = on, pc[t] \in Holding, pc'[t] \in Holding,
         \A s \in Threads \ {t} : pc'[s] = pc[s] /\ left'[s] = left[s],
         NEW u \in Files, u = on[t]
  PROVE  /\ \A v \in Files : \A x : v # u => Extra(x, v)' = Extra(x, v)
         /\ \A x : Extra(x, u) = IF Halfway(t, u, x) THEN 1 ELSE 0
         /\ \A x : Extra(x, u)' = IF Halfway(t, u, x)' THEN 1 ELSE 0
<1>1. \A s \in Threads \ {t} : \A x : ~Halfway(s, u, x) /\ ~Halfway(s, u, x)'
  <2>1. ASSUME NEW s \in Threads \ {t}, pc[s] \in Holding PROVE on[s] # u
    BY <2>1, OneHolds
  <2> QED
    BY <2>1 DEF Halfway, Holding
<1>2. ASSUME NEW v \in Files, NEW x, v # u PROVE Extra(x, v)' = Extra(x, v)
  <2>1. \A s \in Threads : Halfway(s, v, x)' = Halfway(s, v, x)
    BY <1>2 DEF Halfway
  <2> QED
    BY <2>1 DEF Extra
<1>3. ASSUME NEW x
      PROVE  /\ Extra(x, u) = IF Halfway(t, u, x) THEN 1 ELSE 0
             /\ Extra(x, u)' = IF Halfway(t, u, x)' THEN 1 ELSE 0
  BY <1>1 DEF Extra
<1> QED
  BY <1>2, <1>3

LEMMA NothingCounts == \A x : Count(<<>>, x) = 0
<1> SUFFICES ASSUME NEW x PROVE Count(<<>>, x) = 0
  OBVIOUS
<1>1. <<>> \in Seq({}) /\ Len(<<>>) = 0
  OBVIOUS
<1>2. Count(<<>>, x) = 0 <=> \A i \in 1 .. Len(<<>>) : <<>>[i] # x
  BY <1>1, CountType
<1> QED
  BY <1>1, <1>2

(* The last declaration of a unit leaves its list: it is still in the set  *)
(* of its USR.                                                             *)
LEMMA UnlistExact ==
  ASSUME LInv, LInv', Exact, NEW t \in Threads, clear_index_decls(t),
         p_declarations[on[t]] # <<>>
  PROVE  Exact'
<1>0. PICK u \in Files : u = on[t]
  BY AtWork DEF clear_index_decls, Holding
<1> DEFINE decls == p_declarations[u]
<1>1. PICK usr : usr = Last(decls)
  OBVIOUS
<1>2. /\ u \in Files /\ decls \in Seq(USRs) /\ decls # <<>>
      /\ p_declarations \in [Files -> Seq(USRs)]
  BY <1>0 DEF LInv, TypeOK
<1>3. /\ pc[t] = "clear" /\ pc'[t] = "remove" /\ left'[t] = <<usr>> /\ on' = on
      /\ \A s \in Threads \ {t} : pc'[s] = pc[s] /\ left'[s] = left[s]
      /\ p_declarations' = [p_declarations EXCEPT ![u] = Front(@)] /\ UNCHANGED p_table
  BY <1>0, <1>1 DEF clear_index_decls, Goto, LInv, TypeOK
<1>4. \A x : Count(decls, x) = Count(Front(decls), x) + IF x = usr THEN 1 ELSE 0
  BY <1>1, <1>2, CountFront
<1>5. \A x : Count(Front(decls), x) \in Nat
  <2>1. Front(decls) \in Seq(USRs)
    BY <1>2 DEF Front
  <2> QED
    BY <2>1, CountType
<1>6. ASSUME NEW x PROVE Extra(x, u) = 0 /\ Extra(x, u)' = IF x = usr THEN 1 ELSE 0
  <2>1. ~Halfway(t, u, x)
    BY <1>3 DEF Halfway
  <2>2. Head(left'[t]) = usr
    BY <1>3
  <2>3. Halfway(t, u, x)' <=> x = usr
    BY <1>0, <1>3, <2>2 DEF Halfway
  <2>4. /\ Extra(x, u) = IF Halfway(t, u, x) THEN 1 ELSE 0
        /\ Extra(x, u)' = IF Halfway(t, u, x)' THEN 1 ELSE 0
    BY <1>3, <1>0, HalfwayStep DEF Holding
  <2> QED
    BY <2>1, <2>3, <2>4
<1>7. \A v \in Files : \A x : v # u => Extra(x, v)' = Extra(x, v)
  BY <1>3, <1>0, HalfwayStep DEF Holding
<1>8. \A x, v : Indexed(x, v)' = Indexed(x, v)
  BY <1>3 DEF Indexed
<1>9. ASSUME NEW v \in Files, NEW x \in USRs
      PROVE  Indexed(x, v)' = Count(p_declarations'[v], x) + Extra(x, v)'
  <2>1. Indexed(x, v) = Count(p_declarations[v], x) + Extra(x, v)
    BY DEF Exact
  <2>2. CASE v = u
    <3>1. p_declarations'[u] = Front(decls)
      BY <1>2, <1>3
    <3> HIDE DEF decls
    <3>2. Indexed(x, u)' = Count(decls, x) + 0
      BY <1>6, <1>8, <2>1, <2>2 DEF decls
    <3>3. /\ Count(decls, x) = Count(Front(decls), x) + IF x = usr THEN 1 ELSE 0
          /\ Count(Front(decls), x) \in Nat
      BY <1>4, <1>5
    <3>4. Extra(x, u)' = IF x = usr THEN 1 ELSE 0
      BY <1>6
    <3> QED
      BY <2>2, <3>1, <3>2, <3>3, <3>4
  <2>3. CASE v # u
    BY <1>2, <1>3, <1>7, <1>8, <2>1, <2>3
  <2> QED
    BY <2>2, <2>3
<1> QED
  BY <1>3, <1>9 DEF Exact

(* Then it goes from the set, and the set goes with the last of its        *)
(* declarations.                                                           *)
LEMMA RemoveExact ==
  ASSUME LInv, LInv', Exact, NEW t \in Threads, RemoveDeclaration(t)
  PROVE  Exact'
<1>0. PICK u \in Files, usr \in USRs : u = on[t] /\ usr = Head(left[t])
  <2>1. on[t] \in Files /\ left[t] \in Seq(USRs) /\ left[t] # <<>>
    BY AtWork DEF RemoveDeclaration, Holding
  <2> QED
    BY <2>1
<1> DEFINE set == p_table[usr]
           rest == RemoveFirst(set, u)
<1>1. /\ u \in Files /\ usr \in USRs /\ left[t] # <<>>
      /\ p_declarations \in [Files -> Seq(USRs)]
      /\ p_table \in [DOMAIN p_table -> Seq(Files)]
  <2>1. u \in Files /\ left[t] \in Seq(USRs) /\ left[t] # <<>>
    BY AtWork DEF RemoveDeclaration, Holding
  <2> QED
    BY <1>0, <2>1 DEF LInv, TypeOK, Tables
<1>2. /\ pc[t] = "remove" /\ pc'[t] = "clear" /\ on' = on /\ UNCHANGED <<left, p_declarations>>
      /\ \A s \in Threads \ {t} : pc'[s] = pc[s]
      /\ p_table' = index_decl_remove(usr, u)
  BY <1>0 DEF RemoveDeclaration, Goto, LInv, TypeOK
<1>3. \A x : Extra(x, u)' = 0 /\ Extra(x, u) = IF x = usr THEN 1 ELSE 0
  BY <1>0, <1>2, HalfwayStep DEF Halfway, Holding
<1>4. \A v \in Files : \A x : v # u => Extra(x, v)' = Extra(x, v)
  BY <1>2, <1>0, HalfwayStep DEF Holding
<1>5. \A v \in Files : \A x : Count(p_declarations[v], x) \in Nat
  <2>1. \A v \in Files : p_declarations[v] \in Seq(USRs)
    BY <1>1
  <2> QED
    BY <2>1, CountType
<1>6. usr \in DOMAIN p_table /\ Count(set, u) > 0 /\ set \in Seq(Files)
  <2>1. Indexed(usr, u) = Count(p_declarations[u], usr) + 1
    BY <1>1, <1>3 DEF Exact
  <2>2. Indexed(usr, u) > 0
    BY <1>1, <1>5, <2>1
  <2> QED
    BY <1>1, <2>2 DEF Indexed
<1>7. /\ rest \in Seq(Files)
      /\ \A v : Count(set, v) = Count(rest, v) + IF v = u THEN 1 ELSE 0
      /\ \A v : Count(rest, v) \in Nat
  <2> HIDE DEF set
  <2>1. \E i \in 1 .. Len(set) : set[i] = u
    BY <1>6, CountType
  <2>2. /\ rest \in Seq(Files)
        /\ \A v : Count(set, v) = Count(rest, v) + IF v = u THEN 1 ELSE 0
    BY <1>6, <2>1, CountRemoveFirst
  <2> HIDE DEF rest
  <2> QED
    BY <2>2, CountType
<1>8. p_table' = IF rest = <<>> THEN [x \in DOMAIN p_table \ {usr} |-> p_table[x]]
                                ELSE [p_table EXCEPT ![usr] = rest]
  BY <1>2, <1>6 DEF index_decl_remove
<1>9. rest = <<>> => \A v : Count(rest, v) = 0
  BY NothingCounts
<1> HIDE DEF set, rest
<1>10. \A x \in DOMAIN p_table' : p_table'[x] # <<>>
  BY <1>1, <1>6, <1>8 DEF Exact
<1>11. ASSUME NEW v \in Files, NEW x \in USRs
       PROVE  Indexed(x, v)' = Count(p_declarations'[v], x) + Extra(x, v)'
  <2>1. Indexed(x, v) = Count(p_declarations[v], x) + Extra(x, v)
    BY DEF Exact
  <2>2. x # usr => Indexed(x, v)' = Indexed(x, v)
    BY <1>1, <1>6, <1>8 DEF Indexed
  <2>3. Indexed(usr, v)' = Count(rest, v) /\ Indexed(usr, v) = Count(set, v)
    BY <1>1, <1>6, <1>8, <1>9 DEF Indexed, set
  <2>4. p_declarations' = p_declarations /\ Count(p_declarations[v], x) \in Nat
    BY <1>2, <1>5
  <2>9. Extra(x, u)' = 0 /\ Extra(x, u) = IF x = usr THEN 1 ELSE 0
    BY <1>3
  <2>10. Count(set, v) = Count(rest, v) + (IF v = u THEN 1 ELSE 0) /\ Count(rest, v) \in Nat
    BY <1>7
  <2>5. CASE v = u /\ x = usr
    BY <2>1, <2>3, <2>4, <2>5, <2>9, <2>10
  <2>6. CASE v = u /\ x # usr
    BY <2>1, <2>2, <2>4, <2>6, <2>9
  <2>7. CASE v # u /\ x = usr
    BY <1>4, <1>7, <2>1, <2>3, <2>4, <2>7
  <2>8. CASE v # u /\ x # usr
    BY <1>4, <2>1, <2>2, <2>4, <2>8
  <2> QED
    BY <2>5, <2>6, <2>7, <2>8
<1> QED
  BY <1>10, <1>11 DEF Exact

(* A definition comes to the set first, which it may make,                 *)
LEMMA AddExact ==
  ASSUME LInv, LInv', Exact, NEW t \in Threads, index_declaration(t)
  PROVE  Exact'
<1>0. PICK u \in Files, usr \in USRs : u = on[t] /\ usr = Head(left[t])
  <2>1. on[t] \in Files /\ left[t] \in Seq(USRs) /\ left[t] # <<>>
    BY AtWork DEF index_declaration, Holding
  <2> QED
    BY <2>1
<1> DEFINE set == IF usr \in DOMAIN p_table THEN p_table[usr] ELSE <<>>
           longer == Append(set, u)
<1>1. /\ u \in Files
      /\ p_declarations \in [Files -> Seq(USRs)]
      /\ p_table \in [DOMAIN p_table -> Seq(Files)]
      /\ set \in Seq(Files)
  <2>1. u \in Files /\ pc[t] = "decls"
    BY AtWork DEF index_declaration, Holding
  <2>2. /\ p_declarations \in [Files -> Seq(USRs)]
        /\ p_table \in [DOMAIN p_table -> Seq(Files)]
    BY DEF LInv, TypeOK, Tables
  <2> QED
    BY <2>1, <2>2
<1>2. /\ pc[t] = "decls" /\ pc'[t] = "list" /\ on' = on /\ UNCHANGED <<left, p_declarations>>
      /\ \A s \in Threads \ {t} : pc'[s] = pc[s]
      /\ p_table' = index_declaration_add(usr, u)
  BY <1>0 DEF index_declaration, Goto, LInv, TypeOK
<1>3. \A x : Extra(x, u) = 0 /\ Extra(x, u)' = IF x = usr THEN 1 ELSE 0
  BY <1>0, <1>2, HalfwayStep DEF Halfway, Holding
<1>4. \A v \in Files : \A x : v # u => Extra(x, v)' = Extra(x, v)
  BY <1>2, <1>0, HalfwayStep DEF Holding
<1>5. \A v : Indexed(usr, v) = Count(set, v)
  BY NothingCounts DEF Indexed
<1> HIDE DEF set
<1>6. /\ longer # <<>>
      /\ \A v : Count(longer, v) = Count(set, v) + IF v = u THEN 1 ELSE 0
  <2>1. Len(longer) > 0
    BY <1>1
  <2>2. \A v : Count(longer, v) = Count(set, v) + IF v = u THEN 1 ELSE 0
    BY <1>1, CountAppend
  <2> HIDE DEF longer
  <2>3. longer # <<>>
    BY <2>1
  <2> QED
    BY <2>2, <2>3
<1>7. /\ DOMAIN p_table' = DOMAIN p_table \cup {usr} /\ p_table'[usr] = longer
      /\ \A x \in DOMAIN p_table : x # usr => p_table'[x] = p_table[x]
  BY <1>2 DEF index_declaration_add, set
<1> HIDE DEF longer
<1>8. \A x \in DOMAIN p_table' : p_table'[x] # <<>>
  BY <1>6, <1>7 DEF Exact
<1>9. ASSUME NEW v \in Files, NEW x \in USRs
      PROVE  Indexed(x, v)' = Count(p_declarations'[v], x) + Extra(x, v)'
  <2>1. Indexed(x, v) = Count(p_declarations[v], x) + Extra(x, v)
    BY DEF Exact
  <2>2. x # usr => Indexed(x, v)' = Indexed(x, v)
    BY <1>7 DEF Indexed
  <2>3. Indexed(usr, v)' = Indexed(usr, v) + IF v = u THEN 1 ELSE 0
    BY <1>5, <1>6, <1>7 DEF Indexed
  <2>4. p_declarations' = p_declarations /\ Count(p_declarations[v], x) \in Nat
    <3>1. p_declarations[v] \in Seq(USRs)
      BY <1>1
    <3> QED
      BY <1>2, <3>1, CountType
  <2>5. Extra(x, v) \in Nat
    BY DEF Extra
  <2>8. Extra(x, u) = 0 /\ Extra(x, u)' = IF x = usr THEN 1 ELSE 0
    BY <1>3
  <2>6. CASE v = u
    BY <2>1, <2>2, <2>3, <2>4, <2>6, <2>8
  <2>7. CASE v # u
    BY <1>4, <2>1, <2>2, <2>3, <2>4, <2>5, <2>7
  <2> QED
    BY <2>6, <2>7
<1> QED
  BY <1>8, <1>9 DEF Exact

(* and then to the list of the unit.                                       *)
LEMMA ListExact ==
  ASSUME LInv, LInv', Exact, NEW t \in Threads, ListDeclaration(t)
  PROVE  Exact'
<1>0. PICK u \in Files, usr \in USRs : u = on[t] /\ usr = Head(left[t])
  <2>1. on[t] \in Files /\ left[t] \in Seq(USRs) /\ left[t] # <<>>
    BY AtWork DEF ListDeclaration, Holding
  <2> QED
    BY <2>1
<1>1. u \in Files /\ p_declarations \in [Files -> Seq(USRs)]
  BY AtWork DEF ListDeclaration, Holding, LInv, TypeOK
<1>2. /\ pc[t] = "list" /\ pc'[t] = "decls" /\ on' = on /\ UNCHANGED p_table
      /\ \A s \in Threads \ {t} : pc'[s] = pc[s] /\ left'[s] = left[s]
      /\ p_declarations' = [p_declarations EXCEPT ![u] = Append(@, usr)]
  BY <1>0 DEF ListDeclaration, Goto, LInv, TypeOK
<1>3. \A x : Extra(x, u)' = 0 /\ Extra(x, u) = IF x = usr THEN 1 ELSE 0
  BY <1>0, <1>2, HalfwayStep DEF Halfway, Holding
<1>4. \A v \in Files : \A x : v # u => Extra(x, v)' = Extra(x, v)
  BY <1>2, <1>0, HalfwayStep DEF Holding
<1>5. \A x, v : Indexed(x, v)' = Indexed(x, v)
  BY <1>2 DEF Indexed
<1>6. /\ p_declarations[u] \in Seq(USRs)
      /\ \A x : Count(p_declarations[u], x) \in Nat
      /\ \A x : Count(Append(p_declarations[u], usr), x)
                = Count(p_declarations[u], x) + IF x = usr THEN 1 ELSE 0
  <2>1. p_declarations[u] \in Seq(USRs)
    BY <1>1
  <2>2. usr \in USRs
    <3>1. left[t] \in Seq(USRs) /\ left[t] # <<>>
      BY AtWork DEF ListDeclaration, Holding
    <3> QED
      BY <1>0, <3>1
  <2> QED
    BY <2>1, <2>2, CountAppend, CountType
<1>7. ASSUME NEW v \in Files, NEW x \in USRs
      PROVE  Indexed(x, v)' = Count(p_declarations'[v], x) + Extra(x, v)'
  <2>1. Indexed(x, v) = Count(p_declarations[v], x) + Extra(x, v)
    BY DEF Exact
  <2>2. CASE v = u
    <3>1. p_declarations'[u] = Append(p_declarations[u], usr)
      BY <1>1, <1>2
    <3>2. Extra(x, u)' = 0 /\ Extra(x, u) = IF x = usr THEN 1 ELSE 0
      BY <1>3
    <3>3. /\ Count(p_declarations[u], x) \in Nat
          /\ Count(p_declarations'[u], x)
               = Count(p_declarations[u], x) + IF x = usr THEN 1 ELSE 0
      BY <1>6, <3>1
    <3> QED
      BY <1>5, <2>1, <2>2, <3>2, <3>3
  <2>3. CASE v # u
    BY <1>1, <1>2, <1>4, <1>5, <2>1, <2>3
  <2> QED
    BY <2>2, <2>3
<1> QED
  BY <1>2, <1>7 DEF Exact

(* A thread that is in neither place before nor after moves nothing.       *)
LEMMA QuietExact ==
  ASSUME Exact, NEW t \in Threads, UNCHANGED <<p_declarations, p_table>>,
         \A s \in Threads \ {t} : pc'[s] = pc[s] /\ left'[s] = left[s] /\ on'[s] = on[s],
         pc[t] \notin {"remove", "list"}, pc'[t] \notin {"remove", "list"}
  PROVE  Exact'
<1>1. \A s \in Threads : \A u, x : Halfway(s, u, x)' = Halfway(s, u, x)
  BY DEF Halfway
<1>2. \A u, x : Extra(x, u)' = Extra(x, u) /\ Indexed(x, u)' = Indexed(x, u)
  BY <1>1 DEF Extra, Indexed
<1> QED
  BY <1>2 DEF Exact

LEMMA StepExact == LInv /\ LInv' /\ Exact /\ [Next]_vars => Exact'
<1> SUFFICES ASSUME LInv, LInv', Exact, [Next]_vars PROVE Exact'
  OBVIOUS
<1>1. /\ pc \in [Threads -> Places] /\ on \in [Threads -> Files \cup {None}]
      /\ left = [s \in Threads |-> left[s]]
  BY DEF LInv, TypeOK
<1>2. CASE UNCHANGED <<p_declarations, p_table, pc, on, left>>
  BY <1>2 DEF Exact, Indexed, Extra, Halfway
<1>3. ASSUME NEW t \in Threads, pc[t] \notin {"idle", "remove", "list"}, Advance(t),
             UNCHANGED <<index, left>>
      PROVE  Exact'
  <2>1. /\ pc' = [pc EXCEPT ![t] = pc'[t]] /\ pc'[t] \in Ahead \cup {"idle"}
        /\ on' = [on EXCEPT ![t] = IF pc'[t] = "idle" THEN None ELSE on[t]]
    BY <1>3, AdvanceGoes
  <2> QED
    BY <1>1, <1>3, <2>1, QuietExact DEF Ahead, index
<1>4. ASSUME NEW t \in Threads, NEW u, NEW places, Head(places) \in Ahead, pc[t] = "idle",
             Enter(t, u, places), UNCHANGED <<index, left>>
      PROVE  Exact'
  BY <1>1, <1>4, QuietExact DEF Enter, Goto, Ahead, index
<1>5. ASSUME NEW t \in Threads, index_header_set(t) PROVE Exact'
  <2>1. /\ pc' = [pc EXCEPT ![t] = pc'[t]] /\ pc'[t] \in Ahead \cup {"idle"}
        /\ on' = [on EXCEPT ![t] = IF pc'[t] = "idle" THEN None ELSE on[t]]
    BY <1>5, AdvanceGoes DEF index_header_set
  <2> QED
    BY <1>1, <1>5, <2>1, QuietExact DEF Ahead, index_header_set
<1>6. ASSUME NEW t \in Threads, IndexNext(t) PROVE Exact'
  <2>1. CASE clear_index_decls(t) /\ p_declarations[on[t]] = <<>>
    BY <1>1, <2>1, QuietExact DEF clear_index_decls, Goto
  <2>2. CASE Translate(t) \/ index_translation_unit(t) \/ index_included_file(t) \/ Definitions(t)
    BY <1>1, <2>2, QuietExact
    DEF Translate, index_translation_unit, index_included_file, Definitions, Goto, index
  <2> QED
    BY <1>5, <1>6, <2>1, <2>2, UnlistExact, RemoveExact, AddExact, ListExact DEF IndexNext
<1>7. ASSUME NEW t \in Threads, DiagnosticsNext(t) PROVE Exact'
  <2>1. CASE Published(t)
    BY <1>3, <2>1 DEF Published
  <2> QED
    BY <1>1, <1>7, <2>1, QuietExact
    DEF DiagnosticsNext, unit_diagnostics_get, diagnostic_parse, Gathered, diag_callback, Goto,
        index
<1>8. ASSUME NEW f \in Files, did_open(f) \/ did_change(f) \/ request(f) PROVE Exact'
  <2>1. PICK u \in Files, all \in Seq(Ahead) :
          /\ IF all = <<>> THEN UNCHANGED <<pc, on, todo, raced, torn>> ELSE Enter(Main, u, all)
          /\ pc[Main] = "idle"
          /\ UNCHANGED <<tu, index, diagnostics, decl_mutex, left, cleared, visit>>
    BY <1>8, MessageEnters, Zenon
  <2>2. Main \in Threads
    BY DEF Threads
  <2>3. CASE all = <<>>
    BY <1>2, <2>1, <2>3 DEF index
  <2>4. CASE all # <<>>
    <3>1. Head(all) \in Ahead
      BY <2>4
    <3> QED
      BY <1>4, <2>1, <2>2, <2>4, <3>1
  <2> QED
    BY <2>3, <2>4
<1>9. CASE reparse_thread
  <2>1. PICK u \in visit :
          IF unit_includes_file(u) /\ u # changed
            THEN Enter(Reparser, u, <<"translate", "diagnose">>)
            ELSE UNCHANGED <<pc, on, todo, raced, torn>>
    BY <1>9 DEF reparse_thread
  <2>2. Head(<<"translate", "diagnose">>) \in Ahead
    BY DEF Ahead
  <2> QED
    BY <1>2, <1>4, <1>9, <2>1, <2>2 DEF reparse_thread, index, Threads
<1>10. CASE unit_storage_notify_change
  BY <1>3, <1>10 DEF unit_storage_notify_change, Threads
<1>11. CASE code_action \/ queue_poll \/ UNCHANGED vars
  BY <1>2, <1>11 DEF code_action, queue_poll, vars, index
<1> QED
  BY <1>6, <1>7, <1>8, <1>9, <1>10, <1>11 DEF Next

-----------------------------------------------------------------------------
(* The fixits and the lists of diagnostics                                 *)

(* The fixits of a diagnostic, and the diagnostic itself when it is one    *)
(* for the file.                                                           *)
FixitsIn == [diag \in Diagnostics |-> diag.fixits]
MatchIn(f) ==
  [diag \in Diagnostics |-> IF ~diag.ignored /\ diag.file = f THEN <<diag>> ELSE <<>>]

(* Their types, and that FixitsOf and Matches join them.                   *)
LEMMA GatheredTypes ==
  /\ FixitsIn \in [Diagnostics -> Seq(Fixits)]
  /\ \A f : MatchIn(f) \in [Diagnostics -> Seq(Diagnostics)]
<1>1. ASSUME NEW diag \in Diagnostics PROVE diag.fixits \in Seq(Fixits)
  BY DEF Diagnostics
<1>2. ASSUME NEW f, NEW diag \in Diagnostics
      PROVE  (IF ~diag.ignored /\ diag.file = f THEN <<diag>> ELSE <<>>) \in Seq(Diagnostics)
  OBVIOUS
<1> QED
  BY <1>1, <1>2 DEF FixitsIn, MatchIn

LEMMA GatheredJoin ==
  ASSUME NEW diags \in Seq(Diagnostics)
  PROVE  /\ FixitsOf(diags) = Joined(FixitsIn, diags)
         /\ \A f : Matches(diags, f) = Joined(MatchIn(f), diags)
<1>1. DOMAIN diags = 1 .. Len(diags) /\ \A i \in DOMAIN diags : diags[i] \in Diagnostics
  OBVIOUS
<1>2. [i \in DOMAIN diags |-> diags[i].fixits] = [i \in DOMAIN diags |-> FixitsIn[diags[i]]]
  BY <1>1 DEF FixitsIn
<1>3. ASSUME NEW f
      PROVE  [i \in DOMAIN diags |-> IF ~diags[i].ignored /\ diags[i].file = f
                                       THEN <<diags[i]>> ELSE <<>>]
             = [i \in DOMAIN diags |-> MatchIn(f)[diags[i]]]
  BY <1>1 DEF MatchIn
<1> QED
  BY <1>2, <1>3, Zenon DEF FixitsOf, Matches, Joined

(* The fixits of diagnostics, one after the other: of none, of one more    *)
(* and of one first, and their type.                                       *)
LEMMA FixitsEmpty == FixitsOf(<<>>) = <<>>
<1>1. <<>> \in Seq(Diagnostics)
  OBVIOUS
<1> QED
  BY <1>1, GatheredJoin, JoinedEmpty

LEMMA FixitsType ==
  ASSUME NEW diags \in Seq(Diagnostics)
  PROVE  FixitsOf(diags) \in Seq(Fixits)
BY GatheredJoin, GatheredTypes, JoinedType

LEMMA FixitsAppend ==
  ASSUME NEW diags \in Seq(Diagnostics), NEW diag \in Diagnostics
  PROVE  FixitsOf(Append(diags, diag)) = FixitsOf(diags) \o diag.fixits
<1>1. Append(diags, diag) \in Seq(Diagnostics)
  OBVIOUS
<1>2. Joined(FixitsIn, Append(diags, diag)) = Joined(FixitsIn, diags) \o FixitsIn[diag]
  BY GatheredTypes, JoinedAppend
<1>3. FixitsIn[diag] = diag.fixits
  BY DEF FixitsIn
<1> QED
  BY <1>1, <1>2, <1>3, GatheredJoin

LEMMA FixitsConcat ==
  ASSUME NEW a \in Seq(Diagnostics), NEW b \in Seq(Diagnostics)
  PROVE  FixitsOf(a \o b) = FixitsOf(a) \o FixitsOf(b)
<1>1. a \o b \in Seq(Diagnostics)
  OBVIOUS
<1>2. Joined(FixitsIn, a \o b) = Joined(FixitsIn, a) \o Joined(FixitsIn, b)
  BY GatheredTypes, JoinedConcat
<1> QED
  BY <1>1, <1>2, GatheredJoin

LEMMA FixitsHead ==
  ASSUME NEW diags \in Seq(Diagnostics), diags # <<>>
  PROVE  FixitsOf(diags) = Head(diags).fixits \o FixitsOf(Tail(diags))
<1>1. /\ Head(diags) \in Diagnostics /\ Tail(diags) \in Seq(Diagnostics)
      /\ diags = Append(<<>>, Head(diags)) \o Tail(diags)
      /\ <<>> \in Seq(Diagnostics) /\ Append(<<>>, Head(diags)) \in Seq(Diagnostics)
  OBVIOUS
<1>2. FixitsOf(Append(<<>>, Head(diags))) = FixitsOf(<<>>) \o Head(diags).fixits
  BY <1>1, FixitsAppend
<1>3. FixitsOf(<<>>) \o Head(diags).fixits = Head(diags).fixits
  BY <1>1, FixitsEmpty, SMTT(30) DEF Diagnostics
<1>4. FixitsOf(Append(<<>>, Head(diags)) \o Tail(diags))
        = FixitsOf(Append(<<>>, Head(diags))) \o FixitsOf(Tail(diags))
  BY <1>1, FixitsConcat
<1> QED
  BY <1>1, <1>2, <1>3, <1>4, Zenon

(* The diagnostics for a file.                                             *)
LEMMA MatchesEmpty == \A f : Matches(<<>>, f) = <<>>
<1>1. <<>> \in Seq(Diagnostics)
  OBVIOUS
<1> QED
  BY <1>1, GatheredJoin, JoinedEmpty

LEMMA MatchesType ==
  ASSUME NEW diags \in Seq(Diagnostics), NEW f
  PROVE  Matches(diags, f) \in Seq(Diagnostics)
BY GatheredJoin, GatheredTypes, JoinedType

LEMMA MatchesAppend ==
  ASSUME NEW diags \in Seq(Diagnostics), NEW diag \in Diagnostics, NEW f
  PROVE  Matches(Append(diags, diag), f) =
           IF ~diag.ignored /\ diag.file = f THEN Append(Matches(diags, f), diag)
           ELSE Matches(diags, f)
<1>1. Append(diags, diag) \in Seq(Diagnostics)
  OBVIOUS
<1>2. Joined(MatchIn(f), Append(diags, diag)) = Joined(MatchIn(f), diags) \o MatchIn(f)[diag]
  <2>1. MatchIn(f) \in [Diagnostics -> Seq(Diagnostics)]
    BY GatheredTypes
  <2> QED
    BY <2>1, JoinedAppend
<1>3. Matches(Append(diags, diag), f) = Matches(diags, f) \o MatchIn(f)[diag]
  BY <1>1, <1>2, GatheredJoin
<1>4. Matches(diags, f) \in Seq(Diagnostics)
  BY MatchesType
<1>5. CASE ~diag.ignored /\ diag.file = f
  <2>1. MatchIn(f)[diag] = <<diag>>
    BY <1>5 DEF MatchIn
  <2> QED
    BY <1>3, <1>4, <1>5, <2>1
<1>6. CASE ~(~diag.ignored /\ diag.file = f)
  <2>1. MatchIn(f)[diag] = <<>>
    BY <1>6 DEF MatchIn
  <2>2. Matches(diags, f) \o <<>> = Matches(diags, f)
    BY <1>4
  <2> QED
    BY <1>3, <1>6, <2>1, <2>2, Zenon
<1> QED
  BY <1>5, <1>6

(* A list that takes one element after the other while it is not full      *)
(* holds as many as it takes of the first ones.                            *)
LEMMA CappedAppend ==
  ASSUME NEW seq \in Seq(Diagnostics), NEW e \in Diagnostics
  PROVE  /\ Capped(seq) \in Seq(Diagnostics)
         /\ Capped(Append(seq, e)) =
              IF Len(Capped(seq)) < DIAG_MAX_PER_FILE
                THEN Append(Capped(seq), e) ELSE Capped(seq)
<1>1. Len(seq) \in Nat /\ DIAG_MAX_PER_FILE \in Nat
  BY BoundsAssumption
<1>2. CASE Len(seq) < DIAG_MAX_PER_FILE
  <2>1. Capped(seq) = seq
    BY <1>1, <1>2 DEF Capped
  <2>2. Len(Append(seq, e)) = Len(seq) + 1 /\ Append(seq, e) \in Seq(Diagnostics)
    OBVIOUS
  <2>3. Capped(Append(seq, e)) = SubSeq(Append(seq, e), 1, Len(seq) + 1)
    BY <1>1, <1>2, <2>2 DEF Capped
  <2>4. SubSeq(Append(seq, e), 1, Len(seq) + 1) = Append(seq, e)
    BY <2>2
  <2> QED
    BY <1>2, <2>1, <2>3, <2>4
<1>3. CASE ~(Len(seq) < DIAG_MAX_PER_FILE)
  <2>1. Capped(seq) = SubSeq(seq, 1, DIAG_MAX_PER_FILE)
    BY <1>3 DEF Capped
  <2>2. Capped(Append(seq, e)) = SubSeq(Append(seq, e), 1, DIAG_MAX_PER_FILE)
    BY <1>1, <1>3 DEF Capped
  <2>3. /\ SubSeq(seq, 1, DIAG_MAX_PER_FILE) \in Seq(Diagnostics)
        /\ Len(SubSeq(seq, 1, DIAG_MAX_PER_FILE)) = DIAG_MAX_PER_FILE
        /\ SubSeq(Append(seq, e), 1, DIAG_MAX_PER_FILE) = SubSeq(seq, 1, DIAG_MAX_PER_FILE)
    BY <1>1, <1>3
  <2> QED
    BY <1>3, <2>1, <2>2, <2>3
<1> QED
  BY <1>2, <1>3

LEMMA CappedEmpty == Capped(<<>>) = <<>>
BY BoundsAssumption DEF Capped

Lists == UNION {[files -> Seq(Diagnostics)] : files \in SUBSET Shown}

DTypeOK ==
  /\ p_fixits \in [Files -> Seq(Fixits \cup {None})]
  /\ diag_files \in [Files -> Lists]
  /\ shown \in [Shown -> [by : Files \cup {None}, list : Seq(Diagnostics)]]
  /\ fixit_index \in [Threads -> Nat]
  /\ unpublished \in [Threads -> SUBSET Shown]
  /\ mp_current_unit \in Files \cup {None}
  /\ raced \subseteq Files

(* Where a thread is until it gathers the diagnostics, and what it has     *)
(* still to do from there: nothing when it translates for a request.       *)
Translating == {"translate", "index", "clear", "remove", "includes", "decls", "list"}
Route(t) ==
  /\ pc[t] \in Translating =>
       todo[t] \in {<<>>, <<"diagnose">>, <<"diagnose", "notify">>,
                    <<"translate", "diagnose", "notify">>}
  /\ pc[t] \in {"diagnose", "diags", "publish"} =>
       todo[t] \in {<<>>, <<"notify">>} /\ tu[on[t]] # None
  /\ pc[t] = "notify" => todo[t] = <<>>
  /\ pc[t] = "diags" => left[t] \in Seq(Diagnostics)

(* The list a unit gathers for a file is empty when it has none.           *)
ListAt(lists, f) == IF f \in DOMAIN lists THEN lists[f] ELSE <<>>
ListOf(u, f) == ListAt(diag_files[u], f)

(* A thread that has still to gather the diagnostics of a unit, and one    *)
(* that has still to publish its list for a file.                          *)
Busy(u) == \E t \in Threads : on[t] = u /\ pc[t] \in Translating \cup {"diagnose", "diags"}
Publishes(t, u, f) == on[t] = u /\ pc[t] = "publish" /\ f \in unpublished[t]

(* A fixit that is not filled is one a thread has still to fill, even when *)
(* two threads are in the unit.                                            *)
Fills(t, u, i) ==
  /\ on[t] = u /\ pc[t] = "diags"
  /\ fixit_index[t] < i /\ i <= fixit_index[t] + Len(FixitsOf(left[t]))
FilledIn(u) ==
  \A i \in 1 .. Len(p_fixits[u]) : p_fixits[u][i] = None => \E t \in Threads : Fills(t, u, i)

(* And a list that is not empty is one a thread has still to publish; each *)
(* that one is going to publish is there.                                  *)
ListsIn(u) ==
  \A f \in Shown :
    /\ \/ ListOf(u, f) = <<>>
       \/ \E t \in Threads : (on[t] = u /\ pc[t] = "diags") \/ Publishes(t, u, f)
    /\ \A t \in Threads : Publishes(t, u, f) => f \in DOMAIN diag_files[u]

(* What the client shows is from a unit that has a list for the file.      *)
Owned ==
  \A f \in Shown :
    /\ shown[f].by = None => shown[f].list = <<>>
    /\ shown[f].by # None => f \in DOMAIN diag_files[shown[f].by]

Alone ==
  \A s, t \in Threads : on[s] \in Files \ raced /\ on[s] = on[t] => s = t

(* What is in the room for fixits and in the lists once the first of the   *)
(* diagnostics are done; a thread that is alone in a unit has done those   *)
(* it has not left.                                                        *)
Gotten(diags, done, room, lists) ==
  /\ FixitsOf(diags) # <<>> =>
       /\ Len(room) = Len(FixitsOf(diags))
       /\ \A i \in 1 .. Len(FixitsOf(done)) : room[i] = FixitsOf(done)[i]
  /\ \A f \in Shown : ListAt(lists, f) = Capped(Matches(done, f))
Gathering(t, u) ==
  \E done \in Seq(Diagnostics) :
    /\ tu[u].diags = done \o left[t]
    /\ fixit_index[t] = Len(FixitsOf(done))
    /\ Gotten(tu[u].diags, done, p_fixits[u], diag_files[u])

FixitsKnown(u) ==
  \/ p_fixits[u] = FixitsOf(tu[u].diags)
  \/ FixitsOf(tu[u].diags) = <<>>
  \/ u \in undiagnosed /\ p_fixits[u] = <<>>
ListKnown(u, f) ==
  \/ shown[f].list = Listed(u, f)
  \/ shown[f].by \notin {u, None}
  \/ u \in undiagnosed /\ shown[f].by = None

Sound(u) ==
  /\ \A t \in Threads :
       on[t] = u /\ pc[t] \in Translating /\ todo[t] = <<>> => u \in undiagnosed
  /\ \A t \in Threads : on[t] = u /\ pc[t] = "diags" => Gathering(t, u)
  /\ \A t \in Threads, f \in Shown : Publishes(t, u, f) => diag_files[u][f] = Listed(u, f)
  /\ tu[u] # None => FixitsKnown(u) \/ Busy(u)
  /\ tu[u] # None =>
       \A f \in Shown : ListKnown(u, f) \/ Busy(u) \/ \E t \in Threads : Publishes(t, u, f)

DInv ==
  /\ DTypeOK
  /\ \A t \in Threads : Route(t)
  /\ \A u \in Files : FilledIn(u) /\ ListsIn(u)
  /\ Owned
  /\ Alone
  /\ \A u \in Files \ raced : Sound(u)
  /\ torn \subseteq raced

(* A unit that is not active or was never diagnosed has no fixits, the     *)
(* client shows no list of it, and no thread is about to change that.      *)
FreshInv ==
  /\ \A u \in Files : tu[u] = None \/ u \in undiagnosed =>
       p_fixits[u] = <<>> /\ \A f \in Shown : shown[f].by # u
  /\ \A t \in Threads : pc[t] \in {"diags", "publish"} => on[t] \notin undiagnosed

(* At the start there are neither threads in a unit nor lists.             *)
LEMMA InitDInv == Init => DInv
<1> SUFFICES ASSUME Init PROVE DInv
  OBVIOUS
<1>1. DTypeOK
  <2>1. <<>> \in Lists
    <3>1. <<>> \in [{} -> Seq(Diagnostics)]
      OBVIOUS
    <3> QED
      BY <3>1 DEF Lists
  <2>2. diag_files \in [Files -> Lists]
    BY <2>1 DEF Init
  <2>3. p_fixits \in [Files -> Seq(Fixits \cup {None})]
    BY DEF Init
  <2>4. shown \in [Shown -> [by : Files \cup {None}, list : Seq(Diagnostics)]]
    BY DEF Init
  <2> QED
    BY <2>2, <2>3, <2>4 DEF Init, DTypeOK
<1>2. \A t \in Threads : Route(t)
  BY DEF Init, Route, Translating
<1>3. \A u \in Files : FilledIn(u) /\ ListsIn(u)
  BY DEF Init, FilledIn, ListsIn, ListOf, ListAt, Publishes
<1>4. Owned
  BY DEF Init, Owned
<1>5. Alone
  <2>1. \A t \in Threads : on[t] = None
    BY DEF Init
  <2> QED
    BY <2>1, NamesAssumption DEF Alone
<1>6. ASSUME NEW u \in Files PROVE Sound(u)
  BY DEF Init, Sound, Publishes, Translating
<1>7. torn \subseteq raced
  BY DEF Init
<1> QED
  BY <1>1, <1>2, <1>3, <1>4, <1>5, <1>6, <1>7 DEF DInv

(* A unit that a step leaves alone, with the threads in it, stays as it    *)
(* is: all the client may be shown instead is the list of another one.     *)
LEMMA SameUnit ==
  ASSUME DInv, NEW u \in Files,
         UNCHANGED <<tu[u], p_fixits[u], diag_files[u]>>,
         \A f \in Shown : shown'[f] = shown[f] \/ shown'[f].by \notin {u, None},
         \A t \in Threads : on[t] = u \/ on'[t] = u =>
           UNCHANGED <<on[t], pc[t], todo[t], left[t], fixit_index[t], unpublished[t]>>,
         u \in undiagnosed => u \in undiagnosed'
  PROVE  FilledIn(u)' /\ ListsIn(u)' /\ (Sound(u) => Sound(u)')
<1>1. FilledIn(u) /\ ListsIn(u)
  BY DEF DInv
<1>2. FilledIn(u)'
  <2>1. \A t \in Threads : \A i : Fills(t, u, i)' = Fills(t, u, i)
    BY DEF Fills
  <2> QED
    BY <1>1, <2>1 DEF FilledIn
<1>3. \A f : ListOf(u, f)' = ListOf(u, f)
  BY DEF ListOf
<1>4. \A t \in Threads : \A f : Publishes(t, u, f)' = Publishes(t, u, f)
  BY DEF Publishes
<1>5. Busy(u)' = Busy(u)
  BY DEF Busy
<1>6. ListsIn(u)'
  BY <1>1, <1>3, <1>4 DEF ListsIn
<1>7. ASSUME Sound(u) PROVE Sound(u)'
  <2>1. ASSUME NEW t \in Threads, on'[t] = u, pc'[t] = "diags" PROVE Gathering(t, u)'
    <3>1. /\ on[t] = u /\ pc[t] = "diags"
          /\ left'[t] = left[t] /\ fixit_index'[t] = fixit_index[t]
      BY <2>1
    <3>2. Gathering(t, u)
      BY <1>7, <3>1 DEF Sound
    <3> QED
      BY <1>3, <3>1, <3>2 DEF Gathering
  <2>2. \A f \in Shown : Listed(u, f)' = Listed(u, f)
    BY DEF Listed
  <2>3. FixitsKnown(u) => FixitsKnown(u)'
    BY DEF FixitsKnown
  <2>4. \A f \in Shown : ListKnown(u, f) => ListKnown(u, f)'
    BY <2>2 DEF ListKnown
  <2>5. \A t \in Threads : on'[t] = u => on[t] = u /\ pc'[t] = pc[t] /\ todo'[t] = todo[t]
    OBVIOUS
  <2> QED
    BY <2>5, <1>4, <1>5, <1>7, <2>1, <2>2, <2>3, <2>4 DEF Sound
<1> QED
  BY <1>2, <1>6, <1>7

-----------------------------------------------------------------------------
(* Which of the steps replace them, one after the other.                   *)

(* A thread that is not idle is with a unit.                               *)
LEMMA Inhabits ==
  ASSUME LInv, NEW t \in Threads, pc[t] # "idle"
  PROVE  on[t] \in Files
BY DEF LInv, TypeOK, Place

(* Where a thread goes next.                                               *)
LEMMA AdvanceRoute ==
  ASSUME LInv, DInv, NEW t \in Threads, Advance(t)
  PROVE  /\ pc[t] \in Translating =>
              /\ pc'[t] \in {"translate", "diagnose", "idle"}
              /\ pc'[t] # "idle" => on' = on
              /\ pc'[t] = "idle" => on'[t] = None /\ todo[t] = <<>>
              /\ pc'[t] = "diagnose" => todo'[t] \in {<<>>, <<"notify">>}
              /\ pc'[t] = "translate" => todo'[t] = <<"diagnose", "notify">>
         /\ pc[t] \in {"publish", "notify"} =>
              /\ pc'[t] \in {"notify", "idle"}
              /\ pc'[t] = "notify" => todo'[t] = <<>> /\ on'[t] = on[t]
              /\ pc'[t] = "idle" => on'[t] = None
         /\ \A s \in Threads \ {t} :
              pc'[s] = pc[s] /\ todo'[s] = todo[s] /\ on'[s] = on[s]
<1>1. /\ todo \in [Threads -> Seq(Ahead)] /\ pc \in [Threads -> Places]
      /\ on \in [Threads -> Files \cup {None}]
  BY DEF LInv, TypeOK
<1>2. Route(t)
  BY DEF DInv
<1>3. ASSUME NEW ahead, todo[t] = <<ahead>>
      PROVE  pc'[t] = ahead /\ todo'[t] = <<>> /\ on' = on
  BY <1>1, <1>3 DEF Advance, Goto
<1>4. ASSUME NEW ahead, NEW next, todo[t] = <<ahead, next>>
      PROVE  pc'[t] = ahead /\ todo'[t] = <<next>> /\ on' = on
  BY <1>1, <1>4 DEF Advance, Goto
<1>5. ASSUME NEW ahead, NEW next, NEW last, todo[t] = <<ahead, next, last>>
      PROVE  pc'[t] = ahead /\ todo'[t] = <<next, last>> /\ on' = on
  BY <1>1, <1>5 DEF Advance, Goto
<1>6. ASSUME todo[t] = <<>> PROVE pc'[t] = "idle" /\ on'[t] = None
  BY <1>1, <1>6 DEF Advance, Goto
<1>7. \A s \in Threads \ {t} : pc'[s] = pc[s] /\ todo'[s] = todo[s] /\ on'[s] = on[s]
  BY <1>1 DEF Advance, Goto
<1>8. ASSUME pc[t] \in Translating
      PROVE  /\ pc'[t] \in {"translate", "diagnose", "idle"}
             /\ pc'[t] # "idle" => on' = on
             /\ pc'[t] = "idle" => on'[t] = None /\ todo[t] = <<>>
             /\ pc'[t] = "diagnose" => todo'[t] \in {<<>>, <<"notify">>}
             /\ pc'[t] = "translate" => todo'[t] = <<"diagnose", "notify">>
  <2>1. \/ todo[t] = <<"diagnose">> \/ todo[t] = <<"diagnose", "notify">>
        \/ todo[t] = <<"translate", "diagnose", "notify">> \/ todo[t] = <<>>
    BY <1>2, <1>8 DEF Route
  <2>5. CASE todo[t] = <<>>
    BY <1>6, <2>5
  <2>2. CASE todo[t] = <<"diagnose">>
    BY <1>3, <2>2
  <2>3. CASE todo[t] = <<"diagnose", "notify">>
    <3>1. pc'[t] = "diagnose" /\ todo'[t] = <<"notify">> /\ on' = on
      BY <1>4, <2>3
    <3> QED
      BY <3>1
  <2>4. CASE todo[t] = <<"translate", "diagnose", "notify">>
    BY <1>5, <2>4
  <2> QED
    BY <2>1, <2>2, <2>3, <2>4, <2>5
<1>9. ASSUME pc[t] \in {"publish", "notify"}
      PROVE  /\ pc'[t] \in {"notify", "idle"}
             /\ pc'[t] = "notify" => todo'[t] = <<>> /\ on'[t] = on[t]
             /\ pc'[t] = "idle" => on'[t] = None
  <2>1. todo[t] = <<>> \/ todo[t] = <<"notify">>
    BY <1>2, <1>9 DEF Route
  <2>2. CASE todo[t] = <<>>
    BY <1>6, <2>2
  <2>3. CASE todo[t] = <<"notify">>
    BY <1>3, <2>3
  <2> QED
    BY <2>1, <2>2, <2>3
<1> QED
  BY <1>7, <1>8, <1>9

(* While a thread translates a unit, nothing of the diagnostics changes.   *)
LEMMA TranslatingStep ==
  ASSUME LInv, DInv, NEW t \in Threads,
         pc[t] \in Translating, pc'[t] \in Translating \cup {"diagnose"}, on' = on,
         \A s \in Threads \ {t} : pc'[s] = pc[s] /\ left'[s] = left[s] /\ todo'[s] = todo[s],
         \A u \in Files : u # on[t] => tu'[u] = tu[u], tu[on[t]] # None => tu'[on[t]] # None,
         UNCHANGED <<p_fixits, diag_files, shown, fixit_index, unpublished, mp_current_unit>>,
         UNCHANGED history, Route(t)',
         pc'[t] \in Translating /\ todo'[t] = <<>> => todo[t] = <<>>
  PROVE  DInv'
<1> DEFINE v == on[t]
<1>1. v \in Files /\ on \in [Threads -> Files \cup {None}]
  BY Inhabits DEF LInv, TypeOK, Translating
<1>2. UNCHANGED <<raced, torn, undiagnosed>>
  BY DEF history
<1>3. DTypeOK'
  BY <1>2 DEF DInv, DTypeOK
<1>4. ASSUME NEW s \in Threads PROVE Route(s)'
  <2>1. CASE s = t
    BY <2>1
  <2>2. CASE s # t
    <3>1. /\ Route(s)
          /\ pc'[s] = pc[s] /\ left'[s] = left[s] /\ todo'[s] = todo[s] /\ on'[s] = on[s]
      BY <2>2 DEF DInv
    <3>2. on[s] \in Files => (tu[on[s]] # None => tu'[on[s]] # None)
      OBVIOUS
    <3>3. pc[s] # "idle" => on[s] \in Files
      BY Inhabits
    <3> QED
      BY <3>1, <3>2, <3>3 DEF Route
  <2> QED
    BY <2>1, <2>2
<1>5. ASSUME NEW u \in Files, u # v
      PROVE  FilledIn(u)' /\ ListsIn(u)' /\ (Sound(u) => Sound(u)')
  <2>1. \A s \in Threads : on[s] = u \/ on'[s] = u =>
          UNCHANGED <<on[s], pc[s], todo[s], left[s], fixit_index[s], unpublished[s]>>
    BY <1>5
  <2>2. UNCHANGED <<tu[u], p_fixits[u], diag_files[u]>>
    BY <1>5
  <2> QED
    BY <1>2, <2>1, <2>2, SameUnit
<1>6. FilledIn(v)' /\ ListsIn(v)'
  <2>1. FilledIn(v) /\ ListsIn(v)
    BY <1>1 DEF DInv
  <2>2. \A s \in Threads : \A i : Fills(s, v, i)' = Fills(s, v, i)
    BY DEF Fills, Translating
  <2>3. \A f : ListOf(v, f)' = ListOf(v, f)
    BY DEF ListOf
  <2>4. \A s \in Threads : \A f : Publishes(s, v, f)' = Publishes(s, v, f)
    BY DEF Publishes, Translating
  <2>5. \A s \in Threads : pc'[s] = "diags" <=> pc[s] = "diags"
    BY DEF Translating
  <2>6. FilledIn(v)'
    BY <2>1, <2>2 DEF FilledIn
  <2> QED
    BY <2>1, <2>3, <2>4, <2>5, <2>6 DEF ListsIn
<1>7. ASSUME v \notin raced PROVE Sound(v)'
  <2>1. Busy(v)'
    BY DEF Busy
  <2>2. \A s \in Threads : on'[s] = v => s = t
    BY <1>1, <1>7 DEF DInv, Alone
  <2>3. \A s \in Threads : ~(on'[s] = v /\ pc'[s] \in {"diags", "publish"})
    BY <2>2 DEF Translating
  <2>4. pc'[t] \in Translating /\ todo'[t] = <<>> => v \in undiagnosed'
    BY <1>1, <1>2, <1>7 DEF DInv, Sound
  <2> QED
    BY <2>1, <2>2, <2>3, <2>4 DEF Sound, Publishes
<1>8. Owned' /\ Alone' /\ (torn \subseteq raced)'
  BY <1>2 DEF DInv, Owned, Alone
<1>9. \A u \in Files \ raced' : Sound(u)'
  BY <1>2, <1>5, <1>7 DEF DInv
<1>10. \A u \in Files : FilledIn(u)' /\ ListsIn(u)'
  BY <1>5, <1>6
<1> QED
  BY <1>3, <1>4, <1>8, <1>9, <1>10 DEF DInv

(* The other units, when a thread works on the diagnostics of its own.     *)
LEMMA OtherUnits ==
  ASSUME LInv, DInv, NEW t \in Threads, pc[t] # "idle",
         \A s \in Threads \ {t} :
           UNCHANGED <<on[s], pc[s], todo[s], left[s], fixit_index[s], unpublished[s]>>,
         on'[t] \in {on[t], None}, UNCHANGED tu,
         \A u \in Files : u # on[t] => UNCHANGED <<p_fixits[u], diag_files[u]>>,
         \A f \in Shown : shown'[f] = shown[f] \/ shown'[f].by = on[t],
         \A u \in undiagnosed : u # on[t] => u \in undiagnosed'
  PROVE  \A u \in Files : u # on[t] =>
           FilledIn(u)' /\ ListsIn(u)' /\ (Sound(u) => Sound(u)')
<1>1. on[t] \in Files
  BY Inhabits
<1>2. ASSUME NEW u \in Files, u # on[t]
      PROVE  FilledIn(u)' /\ ListsIn(u)' /\ (Sound(u) => Sound(u)')
  <2>1. \A s \in Threads : on[s] = u \/ on'[s] = u =>
          UNCHANGED <<on[s], pc[s], todo[s], left[s], fixit_index[s], unpublished[s]>>
    BY <1>2, NamesAssumption
  <2>2. UNCHANGED <<tu[u], p_fixits[u], diag_files[u]>>
    BY <1>2
  <2>3. \A f \in Shown : shown'[f] = shown[f] \/ shown'[f].by \notin {u, None}
    BY <1>1, <1>2, NamesAssumption
  <2>4. u \in undiagnosed => u \in undiagnosed'
    BY <1>2
  <2> QED
    BY <2>1, <2>2, <2>3, <2>4, SameUnit
<1> QED
  BY <1>2

(* The routes of the other threads stay as they are.                       *)
LEMMA OtherRoutes ==
  ASSUME DInv, NEW t \in Threads, UNCHANGED tu, Route(t)',
         \A s \in Threads \ {t} : UNCHANGED <<on[s], pc[s], todo[s], left[s]>>
  PROVE  \A s \in Threads : Route(s)'
<1>1. ASSUME NEW s \in Threads, s # t PROVE Route(s)'
  <2>1. Route(s) /\ UNCHANGED <<on[s], pc[s], todo[s], left[s]>>
    BY <1>1 DEF DInv
  <2> QED
    BY <2>1 DEF Route
<1> QED
  BY <1>1

(* A thread that has translated for a request leaves the unit with nothing *)
(* known of its diagnostics.                                               *)
LEMMA RequestLeaves ==
  ASSUME LInv, DInv, FreshInv, NEW t \in Threads,
         pc[t] \in Translating, todo[t] = <<>>, pc'[t] = "idle", on'[t] = None,
         \A s \in Threads \ {t} : pc'[s] = pc[s] /\ todo'[s] = todo[s] /\ on'[s] = on[s],
         UNCHANGED <<tu, left, p_fixits, diag_files, shown, fixit_index, unpublished,
                     mp_current_unit>>,
         UNCHANGED history
  PROVE  DInv'
<1>0. PICK v \in Files : v = on[t]
  BY Inhabits DEF Translating
<1>1. UNCHANGED <<raced, torn, undiagnosed>>
  BY DEF history
<1>2. DTypeOK' /\ Owned' /\ (torn \subseteq raced)'
  BY <1>1 DEF DInv, DTypeOK, Owned
<1>3. \A s \in Threads : Route(s)'
  <2>1. Route(t)'
    BY DEF Route, Translating
  <2> QED
    BY <2>1, OtherRoutes
<1>4. \A u \in Files : u # v => FilledIn(u)' /\ ListsIn(u)' /\ (Sound(u) => Sound(u)')
  <2>1. pc[t] # "idle"
    BY DEF Translating
  <2> QED
    BY <1>0, <1>1, <2>1, OtherUnits
<1>5. FilledIn(v)' /\ ListsIn(v)'
  <2>1. FilledIn(v) /\ ListsIn(v)
    BY DEF DInv
  <2>2. \A s \in Threads : \A i : Fills(s, v, i)' = Fills(s, v, i)
    BY <1>0 DEF Fills, Translating
  <2>3. \A f : ListOf(v, f)' = ListOf(v, f)
    BY DEF ListOf
  <2>4. \A s \in Threads : \A f : Publishes(s, v, f)' = Publishes(s, v, f)
    BY <1>0 DEF Publishes, Translating
  <2>5. \A s \in Threads : (on'[s] = v /\ pc'[s] = "diags") <=> (on[s] = v /\ pc[s] = "diags")
    BY <1>0 DEF Translating
  <2>6. FilledIn(v)'
    BY <2>1, <2>2 DEF FilledIn
  <2> QED
    BY <2>1, <2>3, <2>4, <2>5, <2>6 DEF ListsIn
<1>6. ASSUME v \notin raced PROVE Sound(v)'
  <2>1. \A s \in Threads : on'[s] # v
    BY <1>0, <1>6, NamesAssumption DEF DInv, Alone
  <2>2. v \in undiagnosed
    BY <1>0, <1>6 DEF DInv, Sound
  <2>3. p_fixits[v] = <<>> /\ \A f \in Shown : shown[f].by # v
    BY <2>2 DEF FreshInv
  <2>4. FixitsKnown(v)' /\ \A f \in Shown : ListKnown(v, f)'
    BY <1>1, <2>2, <2>3 DEF FixitsKnown, ListKnown
  <2> QED
    BY <2>1, <2>4 DEF Sound, Publishes
<1>7. Alone'
  BY <1>1, NamesAssumption DEF DInv, Alone
<1> QED
  BY <1>1, <1>2, <1>3, <1>4, <1>5, <1>6, <1>7 DEF DInv

(* No step of the index touches the diagnostics.                           *)
LEMMA IndexDiagnostics ==
  ASSUME LInv, DInv, FreshInv, NEW t \in Threads, IndexNext(t)
  PROVE  DInv'
<1> DEFINE Works(s) == /\ pc'[s] = pc[s] /\ left'[s] = left[s] /\ todo'[s] = todo[s]
<1>1. /\ tu = [u \in Files |-> tu[u]] /\ pc \in [Threads -> Places]
      /\ left = [s \in Threads |-> left[s]] /\ todo \in [Threads -> Seq(Ahead)]
  BY DEF LInv, TypeOK
<1>2. Route(t)
  BY DEF DInv
<1>3. CASE index_header_set(t)
  <2>1. /\ pc[t] = "decls" /\ Advance(t)
        /\ UNCHANGED <<tu, left, p_fixits, diag_files, shown, fixit_index, unpublished,
                       mp_current_unit, history>>
    BY <1>3 DEF index_header_set, diagnostics, queue
  <2>2. tu[on[t]] # None
    BY <2>1 DEF LInv, Place, Holding
  <2>3. /\ pc'[t] \in {"translate", "diagnose", "idle"}
        /\ pc'[t] # "idle" => on' = on
        /\ pc'[t] = "idle" => on'[t] = None /\ todo[t] = <<>>
        /\ pc'[t] = "diagnose" => todo'[t] \in {<<>>, <<"notify">>}
        /\ pc'[t] = "translate" => todo'[t] = <<"diagnose", "notify">>
        /\ \A s \in Threads \ {t} : pc'[s] = pc[s] /\ todo'[s] = todo[s] /\ on'[s] = on[s]
    BY <2>1, AdvanceRoute DEF Translating
  <2>4. CASE pc'[t] = "idle"
    BY <2>1, <2>3, <2>4, RequestLeaves DEF Translating
  <2>5. CASE pc'[t] # "idle"
    <3>1. Route(t)'
      BY <2>1, <2>2, <2>3, <2>5 DEF Route, Translating
    <3>2. <<"diagnose", "notify">> # <<>>
      OBVIOUS
    <3> QED
      BY <2>1, <2>3, <2>5, <3>1, <3>2, TranslatingStep DEF Translating
  <2> QED
    BY <2>4, <2>5
<1>4. CASE ~index_header_set(t)
  <2>1. /\ pc[t] \in Translating /\ pc'[t] \in Translating /\ UNCHANGED <<on, todo>>
        /\ UNCHANGED <<p_fixits, diag_files, shown, fixit_index, unpublished, mp_current_unit>>
        /\ UNCHANGED history
        /\ \A s \in Threads \ {t} : pc'[s] = pc[s] /\ left'[s] = left[s]
        /\ Translate(t) \/ UNCHANGED tu
    BY <1>1, <1>4
    DEF IndexNext, Translate, index_translation_unit, clear_index_decls, RemoveDeclaration,
        index_included_file, Definitions, index_declaration, ListDeclaration, Goto,
        diagnostics, queue, Translating
  <2>2. /\ \A u \in Files : u # on[t] => tu'[u] = tu[u]
        /\ tu[on[t]] # None => tu'[on[t]] # None
    <3>1. CASE UNCHANGED tu
      BY <3>1
    <3>2. CASE Translate(t)
      <4>1. on[t] \in Files
        BY <2>1, Inhabits DEF Translating
      <4>2. PICK translation \in Translations[on[t]] : tu' = [tu EXCEPT ![on[t]] = translation]
        BY <3>2 DEF Translate
      <4> QED
        BY <1>1, <4>1, <4>2, TranslationsAssumption
    <3> QED
      BY <2>1, <3>1, <3>2
  <2>3. Route(t)'
    BY <1>2, <2>1 DEF Route, Translating
  <2> QED
    BY <2>1, <2>2, <2>3, TranslatingStep
<1> QED
  BY <1>3, <1>4

(* The diagnostics of a unit of which there is a translation.              *)
LEMMA UnitDiagnostics ==
  ASSUME LInv, NEW u \in Files, tu[u] # None
  PROVE  /\ tu[u].diags \in Seq(Diagnostics)
         /\ FixitsOf(tu[u].diags) \in Seq(Fixits)
<1>1. tu[u] \in Translations[u]
  BY DEF LInv, TypeOK
<1>2. tu[u].diags \in Seq(Diagnostics)
  BY <1>1, TranslationsAssumption
<1> QED
  BY <1>2, FixitsType

(* The thread that starts to gather has everything still to do.            *)
LEMMA DiagnoseSound ==
  ASSUME LInv, DInv, NEW t \in Threads, unit_diagnostics_get(t)
  PROVE  DInv'
<1>0. PICK v \in Files : v = on[t]
  BY Inhabits DEF unit_diagnostics_get
<1> DEFINE all == FixitsOf(tu[v].diags)
           room == FixitsRoom(v, Len(all))
<1>1. /\ pc[t] = "diagnose" /\ v = on[t] /\ tu[v] # None
      /\ todo[t] \in {<<>>, <<"notify">>}
  <2>1. pc[t] = "diagnose"
    BY DEF unit_diagnostics_get
  <2>2. Route(t)
    BY DEF DInv
  <2> QED
    BY <1>0, <2>1, <2>2 DEF Route
<1>2. tu[v].diags \in Seq(Diagnostics) /\ all \in Seq(Fixits) /\ Len(all) \in Nat
  BY <1>1, UnitDiagnostics
<1>3. DTypeOK
  BY DEF DInv
<1>4. /\ pc'[t] = "diags" /\ left'[t] = tu[v].diags
      /\ fixit_index' = [fixit_index EXCEPT ![t] = 0]
      /\ p_fixits' = [p_fixits EXCEPT ![v] = room]
      /\ UNCHANGED <<on, todo, tu, diag_files, shown, unpublished, mp_current_unit, raced,
                     torn>>
      /\ \A s \in Threads \ {t} : pc'[s] = pc[s] /\ left'[s] = left[s]
      /\ undiagnosed' = undiagnosed \ {v}
  BY <1>1 DEF unit_diagnostics_get, Goto, queue, LInv, TypeOK
<1>5. /\ room \in Seq(Fixits \cup {None})
      /\ Len(all) > 0 => Len(room) = Len(all)
      /\ Len(all) = 0 => room = p_fixits[v]
  BY <1>1, <1>2, <1>3 DEF FixitsRoom, DTypeOK
<1> HIDE DEF room
<1>6. DTypeOK'
  BY <1>1, <1>3, <1>4, <1>5 DEF DTypeOK
<1>7. \A s \in Threads : Route(s)'
  <2>1. Route(t)'
    BY <1>1, <1>2, <1>4 DEF Route, Translating
  <2> QED
    BY <1>4, <2>1, OtherRoutes
<1>8. \A s \in Threads \ {t} :
        UNCHANGED <<on[s], pc[s], todo[s], left[s], fixit_index[s], unpublished[s]>>
  BY <1>3, <1>4 DEF DTypeOK
<1>9. \A u \in Files : u # v => FilledIn(u)' /\ ListsIn(u)' /\ (Sound(u) => Sound(u)')
  BY <1>1, <1>3, <1>4, <1>8, OtherUnits DEF DTypeOK
<1>10. FilledIn(v)'
  <2> SUFFICES ASSUME NEW i \in 1 .. Len(p_fixits'[v]), p_fixits'[v][i] = None
               PROVE  \E s \in Threads : Fills(s, v, i)'
    BY DEF FilledIn
  <2>1. p_fixits'[v] = room
    BY <1>1, <1>3, <1>4 DEF DTypeOK
  <2>2. CASE Len(all) > 0
    <3>1. i \in 1 .. Len(all) /\ fixit_index'[t] = 0
      BY <1>3, <1>4, <1>5, <2>1, <2>2 DEF DTypeOK
    <3>2. Fills(t, v, i)'
      BY <1>1, <1>2, <1>4, <3>1 DEF Fills
    <3> QED
      BY <3>2
  <2>3. CASE Len(all) = 0
    <3>1. PICK s \in Threads : Fills(s, v, i)
      BY <1>1, <1>5, <2>1, <2>3 DEF DInv, FilledIn
    <3>2. Fills(s, v, i)'
      BY <1>1, <1>8, <3>1 DEF Fills
    <3> QED
      BY <3>2
  <2> QED
    BY <1>2, <2>2, <2>3
<1>11. ListsIn(v)'
  <2>1. \A s \in Threads : \A f : Publishes(s, v, f)' => Publishes(s, v, f)
    BY <1>4, <1>8 DEF Publishes
  <2>2. \A f \in Shown, s \in Threads : Publishes(s, v, f) => f \in DOMAIN diag_files[v]
    BY DEF DInv, ListsIn
  <2> QED
    BY <1>1, <1>4, <2>1, <2>2 DEF ListsIn
<1>12. ASSUME v \notin raced PROVE Sound(v)'
  <2>1. \A s \in Threads : on[s] = v => s = t
    BY <1>1, <1>12 DEF DInv, Alone
  <2>2. \A f \in Shown : ListOf(v, f) = <<>>
    BY <1>1, <2>1 DEF DInv, ListsIn, Publishes
  <2>3. Gathering(t, v)'
    <3>1. <<>> \in Seq(Diagnostics) /\ tu'[v].diags = <<>> \o left'[t]
      BY <1>2, <1>4
    <3>2. fixit_index'[t] = Len(FixitsOf(<<>>)) /\ Len(FixitsOf(<<>>)) = 0
      BY <1>3, <1>4, FixitsEmpty DEF DTypeOK
    <3>3. FixitsOf(tu'[v].diags) # <<>> => Len(p_fixits'[v]) = Len(FixitsOf(tu'[v].diags))
      <4>1. tu' = tu /\ p_fixits'[v] = room
        BY <1>1, <1>3, <1>4 DEF DTypeOK
      <4>2. all # <<>> => Len(all) > 0
        BY <1>2
      <4> QED
        BY <1>5, <4>1, <4>2
    <3>4. \A f \in Shown : ListAt(diag_files'[v], f) = Capped(Matches(<<>>, f))
      <4>1. \A f \in Shown : ListAt(diag_files'[v], f) = <<>>
        BY <1>4, <2>2 DEF ListOf
      <4> QED
        BY <4>1, MatchesEmpty, CappedEmpty
    <3>5. \A i \in 1 .. Len(FixitsOf(<<>>)) : p_fixits'[v][i] = FixitsOf(<<>>)[i]
      BY <3>2
    <3> QED
      BY <3>1, <3>2, <3>3, <3>4, <3>5 DEF Gathering, Gotten
  <2>4. Busy(v)'
    BY <1>1, <1>4 DEF Busy
  <2>5. \A s \in Threads : \A f : ~Publishes(s, v, f)'
    BY <1>4, <2>1 DEF Publishes
  <2>6. \A s \in Threads : ~(on'[s] = v /\ pc'[s] \in Translating)
    BY <1>4, <2>1 DEF Translating
  <2> QED
    BY <1>4, <2>1, <2>3, <2>4, <2>5, <2>6 DEF Sound
<1>13. Owned' /\ Alone' /\ (torn \subseteq raced)'
  BY <1>4 DEF DInv, Owned, Alone
<1> QED
  BY <1>4, <1>6, <1>7, <1>9, <1>10, <1>11, <1>12, <1>13 DEF DInv

(* The list of a unit for a file, with one more diagnostic.                *)
LEMMA GatherList ==
  ASSUME NEW lists \in Lists, NEW diag \in Diagnostics
  PROVE  /\ Gather(lists, diag) \in Lists
         /\ DOMAIN lists \subseteq DOMAIN Gather(lists, diag)
         /\ \A f : ListAt(Gather(lists, diag), f) =
              IF ~diag.ignored /\ diag.file = f /\ Len(ListAt(lists, f)) < DIAG_MAX_PER_FILE
                THEN Append(ListAt(lists, f), diag) ELSE ListAt(lists, f)
<1>1. DOMAIN lists \subseteq Shown /\ \A f \in DOMAIN lists : lists[f] \in Seq(Diagnostics)
  BY DEF Lists
<1>2. CASE diag.ignored
  BY <1>2 DEF Gather
<1>3. CASE ~diag.ignored
  <2> DEFINE files == DOMAIN lists \cup {diag.file}
             gathered == [f \in files |->
                            IF f = diag.file /\ Len(ListAt(lists, f)) < DIAG_MAX_PER_FILE
                              THEN Append(ListAt(lists, f), diag) ELSE ListAt(lists, f)]
  <2>1. Gather(lists, diag) = gathered
    BY <1>3 DEF Gather, ListAt
  <2>2. files \in SUBSET Shown
    BY <1>1 DEF Diagnostics
  <2>3. \A f \in files : gathered[f] \in Seq(Diagnostics)
    <3>1. ASSUME NEW f \in files PROVE ListAt(lists, f) \in Seq(Diagnostics)
      BY <1>1 DEF ListAt
    <3>2. \A f \in files : Append(ListAt(lists, f), diag) \in Seq(Diagnostics)
      BY <3>1
    <3> QED
      BY <3>1, <3>2
  <2>4. gathered \in [files -> Seq(Diagnostics)]
    BY <2>3
  <2>5. gathered \in Lists
    <3> HIDE DEF gathered, files
    <3> QED
      BY <2>2, <2>4 DEF Lists
  <2>6. \A f : ListAt(gathered, f) =
          IF diag.file = f /\ Len(ListAt(lists, f)) < DIAG_MAX_PER_FILE
            THEN Append(ListAt(lists, f), diag) ELSE ListAt(lists, f)
    <3>1. \A f \in files : gathered[f] =
            IF f = diag.file /\ Len(ListAt(lists, f)) < DIAG_MAX_PER_FILE
              THEN Append(ListAt(lists, f), diag) ELSE ListAt(lists, f)
      OBVIOUS
    <3>2. \A f : f \notin files => f # diag.file /\ ListAt(lists, f) = <<>>
      BY DEF ListAt
    <3>3. \A f : f \notin files => ListAt(gathered, f) = <<>>
      BY DEF ListAt
    <3>4. \A f \in files : ListAt(gathered, f) = gathered[f]
      BY DEF ListAt
    <3> HIDE DEF gathered, files
    <3> QED
      BY <3>1, <3>2, <3>3, <3>4
  <2>7. DOMAIN lists \subseteq DOMAIN gathered
    OBVIOUS
  <2> HIDE DEF gathered
  <2> QED
    BY <1>3, <2>1, <2>5, <2>6, <2>7
<1> QED
  BY <1>2, <1>3

(* The room for fixits, with the fixits of one more diagnostic.            *)
LEMMA FillRoom ==
  ASSUME NEW room \in Seq(Fixits \cup {None}), NEW first \in Nat, NEW diag \in Diagnostics
  PROVE  /\ Fill(room, first, diag) \in Seq(Fixits \cup {None})
         /\ Len(Fill(room, first, diag)) = Len(room)
         /\ diag.fixits \in Seq(Fixits) /\ Len(diag.fixits) \in Nat
         /\ \A i \in 1 .. Len(room) : Fill(room, first, diag)[i] =
              IF i \in first + 1 .. first + Len(diag.fixits)
                THEN diag.fixits[i - first] ELSE room[i]
<1>1. diag.fixits \in Seq(Fixits) /\ Len(diag.fixits) \in Nat
  BY DEF Diagnostics
<1>2. ASSUME NEW i \in first + 1 .. first + Len(diag.fixits)
      PROVE  diag.fixits[i - first] \in Fixits
  <2>1. i - first \in 1 .. Len(diag.fixits)
    BY <1>1
  <2> QED
    BY <1>1, <2>1
<1>3. /\ DOMAIN room = 1 .. Len(room) /\ Len(room) \in Nat
      /\ \A i \in DOMAIN room : room[i] \in Fixits \cup {None}
  OBVIOUS
<1>4. \A i \in 1 .. Len(room) :
        (IF i \in first + 1 .. first + Len(diag.fixits)
           THEN diag.fixits[i - first] ELSE room[i])
          \in Fixits \cup {None}
  BY <1>2, <1>3
<1> QED
  BY <1>1, <1>3, <1>4 DEF Fill

(* The first element of one sequence moves to the end of another.          *)
LEMMA HeadMoves ==
  ASSUME NEW X, NEW s \in Seq(X), NEW l \in Seq(X), l # <<>>
  PROVE  /\ Head(l) \in X /\ Tail(l) \in Seq(X) /\ Append(s, Head(l)) \in Seq(X)
         /\ s \o l = Append(s, Head(l)) \o Tail(l)
OBVIOUS

(* One diagnostic more is done, and there is room for its fixits.          *)
LEMMA GottenMore ==
  ASSUME NEW done \in Seq(Diagnostics), NEW diag \in Diagnostics, NEW rest \in Seq(Diagnostics),
         NEW room \in Seq(Fixits \cup {None}), NEW lists \in Lists, NEW diags,
         diags = Append(done, diag) \o rest, Gotten(diags, done, room, lists)
  PROVE  /\ Gotten(diags, Append(done, diag), Fill(room, Len(FixitsOf(done)), diag),
                   Gather(lists, diag))
         /\ Len(FixitsOf(Append(done, diag))) = Len(FixitsOf(done)) + Len(diag.fixits)
         /\ diag.fixits # <<>> => Len(FixitsOf(done)) + Len(diag.fixits) <= Len(room)
<1> DEFINE all == FixitsOf(diags)
           done2 == Append(done, diag)
           filled == FixitsOf(done)
           filled2 == FixitsOf(done2)
           room2 == Fill(room, Len(filled), diag)
           lists2 == Gather(lists, diag)
<1>1. diag.fixits \in Seq(Fixits) /\ Len(diag.fixits) \in Nat
  BY DEF Diagnostics
<1>2. done2 \in Seq(Diagnostics)
  OBVIOUS
<1>3. filled \in Seq(Fixits) /\ Len(filled) \in Nat /\ filled2 = filled \o diag.fixits
  BY FixitsType, FixitsAppend
<1>4. /\ filled2 \in Seq(Fixits) /\ Len(filled2) = Len(filled) + Len(diag.fixits)
      /\ \A i \in 1 .. Len(filled2) :
           filled2[i] = IF i <= Len(filled) THEN filled[i] ELSE diag.fixits[i - Len(filled)]
  <2> HIDE DEF filled, filled2
  <2> QED
    BY <1>1, <1>3
<1>5. /\ all = filled2 \o FixitsOf(rest) /\ FixitsOf(rest) \in Seq(Fixits)
  BY <1>2, FixitsConcat, FixitsType
<1>6. Len(filled2) <= Len(all) /\ Len(all) \in Nat
  <2> HIDE DEF filled2, all
  <2> QED
    BY <1>4, <1>5
<1>7. ASSUME diag.fixits # <<>>
      PROVE  Len(filled) + Len(diag.fixits) <= Len(room)
  <2>1. Len(diag.fixits) > 0
    BY <1>1, <1>7
  <2>2. all # <<>>
    <3> HIDE DEF all, filled, filled2
    <3> QED
      BY <1>3, <1>4, <1>6, <2>1
  <2>3. Len(room) = Len(all)
    BY <2>2 DEF Gotten
  <2> HIDE DEF all, filled, filled2
  <2> QED
    BY <1>4, <1>6, <2>3
<1>8. ASSUME all # <<>>
      PROVE  Len(room2) = Len(all) /\ \A i \in 1 .. Len(filled2) : room2[i] = filled2[i]
  <2>1. /\ Len(room2) = Len(room)
        /\ \A i \in 1 .. Len(room) : room2[i] =
             IF i \in Len(filled) + 1 .. Len(filled) + Len(diag.fixits)
               THEN diag.fixits[i - Len(filled)] ELSE room[i]
    BY <1>3, FillRoom
  <2>2. Len(room) = Len(all) /\ \A i \in 1 .. Len(filled) : room[i] = filled[i]
    BY <1>8 DEF Gotten
  <2> HIDE DEF all, filled, filled2, room2
  <2>3. ASSUME NEW i \in 1 .. Len(filled2) PROVE room2[i] = filled2[i]
    <3>1. i \in 1 .. Len(room)
      BY <1>3, <1>4, <1>6, <2>2
    <3>2. CASE i <= Len(filled)
      <4>1. i \in 1 .. Len(filled) /\ i \notin Len(filled) + 1 .. Len(filled) + Len(diag.fixits)
        BY <1>3, <3>2
      <4> QED
        BY <1>4, <2>1, <2>2, <3>1, <3>2, <4>1
    <3>3. CASE ~(i <= Len(filled))
      <4>1. i \in Len(filled) + 1 .. Len(filled) + Len(diag.fixits)
        BY <1>1, <1>3, <1>4, <3>3
      <4> QED
        BY <1>4, <2>1, <3>1, <3>3, <4>1
    <3> QED
      BY <3>2, <3>3
  <2> QED
    BY <2>1, <2>2, <2>3
<1>9. ASSUME NEW f \in Shown PROVE ListAt(lists2, f) = Capped(Matches(done2, f))
  <2> DEFINE list == ListAt(lists, f)
  <2>1. list = Capped(Matches(done, f)) /\ Matches(done, f) \in Seq(Diagnostics)
    BY MatchesType DEF Gotten
  <2>2. Matches(done2, f) =
          IF ~diag.ignored /\ diag.file = f THEN Append(Matches(done, f), diag)
          ELSE Matches(done, f)
    BY MatchesAppend
  <2>3. Capped(Append(Matches(done, f), diag)) =
          IF Len(list) < DIAG_MAX_PER_FILE THEN Append(list, diag) ELSE list
    BY <2>1, CappedAppend
  <2>4. ListAt(lists2, f) =
          IF ~diag.ignored /\ diag.file = f /\ Len(list) < DIAG_MAX_PER_FILE
            THEN Append(list, diag) ELSE list
    BY GatherList
  <2> HIDE DEF list, done2, lists2
  <2> QED
    BY <2>1, <2>2, <2>3, <2>4
<1> HIDE DEF all, filled, filled2, done2, room2, lists2
<1>10. Gotten(diags, done2, room2, lists2)
  BY <1>8, <1>9 DEF Gotten, all, filled2
<1> QED
  BY <1>4, <1>7, <1>10 DEF done2, filled, filled2, room2, lists2

(* The thread does one diagnostic more: its fixits fill the next of the    *)
(* room and its list grows by it.                                          *)
LEMMA ParseSound ==
  ASSUME LInv, DInv, NEW t \in Threads, diagnostic_parse(t)
  PROVE  DInv'
<1>0. PICK v \in Files : v = on[t]
  BY Inhabits DEF diagnostic_parse
<1>1. /\ pc[t] = "diags" /\ left[t] # <<>> /\ left[t] \in Seq(Diagnostics) /\ tu[v] # None
      /\ todo[t] \in {<<>>, <<"notify">>}
  <2>1. pc[t] = "diags" /\ left[t] # <<>>
    BY DEF diagnostic_parse
  <2>2. Route(t)
    BY DEF DInv
  <2> QED
    BY <1>0, <2>1, <2>2 DEF Route
<1>2. PICK diag \in Diagnostics, rest \in Seq(Diagnostics) :
        diag = Head(left[t]) /\ rest = Tail(left[t])
  BY <1>1, HeadMoves, Zenon
<1>3. diag.fixits \in Seq(Fixits) /\ Len(diag.fixits) \in Nat
  BY DEF Diagnostics
<1>4. DTypeOK
  BY DEF DInv
<1>20. ASSUME NEW room \in Seq(Fixits \cup {None}), NEW n \in Nat
       PROVE  /\ Len(Fill(room, n, diag)) = Len(room)
              /\ \A i \in 1 .. Len(room) : Fill(room, n, diag)[i] =
                   IF i \in n + 1 .. n + Len(diag.fixits) THEN diag.fixits[i - n] ELSE room[i]
  BY FillRoom
<1> DEFINE first == fixit_index[t]
<1>5. /\ diag_files' = [diag_files EXCEPT ![v] = Gather(diag_files[v], diag)]
      /\ p_fixits' = [p_fixits EXCEPT ![v] = Fill(p_fixits[v], first, diag)]
      /\ torn' = IF diag.fixits # <<>> /\ first + Len(diag.fixits) > Len(p_fixits[v])
                   THEN torn \cup {v} ELSE torn
      /\ fixit_index' = [fixit_index EXCEPT ![t] = first + Len(diag.fixits)]
      /\ left'[t] = rest /\ \A s \in Threads \ {t} : left'[s] = left[s]
      /\ UNCHANGED <<on, pc, todo, tu, shown, unpublished, mp_current_unit, raced,
                     undiagnosed>>
  BY <1>0, <1>2, <1>4 DEF diagnostic_parse, queue, LInv, TypeOK, DTypeOK
<1>6. /\ p_fixits[v] \in Seq(Fixits \cup {None}) /\ first \in Nat /\ diag_files[v] \in Lists
      /\ p_fixits'[v] = Fill(p_fixits[v], first, diag)
      /\ diag_files'[v] = Gather(diag_files[v], diag)
      /\ fixit_index'[t] = first + Len(diag.fixits)
  BY <1>4, <1>5 DEF DTypeOK
<1>7. DTypeOK'
  <2>1. Fill(p_fixits[v], first, diag) \in Seq(Fixits \cup {None})
    BY <1>6, FillRoom
  <2>2. Gather(diag_files[v], diag) \in Lists
    BY <1>6, GatherList
  <2> QED
    BY <1>3, <1>4, <1>5, <1>6, <2>1, <2>2 DEF DTypeOK
<1>8. \A s \in Threads : Route(s)'
  <2>1. Route(t)'
    BY <1>0, <1>1, <1>5 DEF Route, Translating
  <2> QED
    BY <1>5, <2>1, OtherRoutes
<1>9. \A s \in Threads \ {t} :
        UNCHANGED <<on[s], pc[s], todo[s], left[s], fixit_index[s], unpublished[s]>>
  BY <1>4, <1>5 DEF DTypeOK
<1>10. \A u \in Files : u # v => FilledIn(u)' /\ ListsIn(u)' /\ (Sound(u) => Sound(u)')
  BY <1>0, <1>1, <1>4, <1>5, <1>9, OtherUnits DEF DTypeOK
<1>11. FilledIn(v)'
  <2> SUFFICES ASSUME NEW i \in 1 .. Len(p_fixits'[v]), p_fixits'[v][i] = None
               PROVE  \E s \in Threads : Fills(s, v, i)'
    BY DEF FilledIn
  <2>1. /\ Len(p_fixits'[v]) = Len(p_fixits[v])
        /\ p_fixits'[v][i] = IF i \in first + 1 .. first + Len(diag.fixits)
                               THEN diag.fixits[i - first] ELSE p_fixits[v][i]
    <3>1. PICK room \in Seq(Fixits \cup {None}), n \in Nat : room = p_fixits[v] /\ n = first
      BY <1>6
    <3>2. p_fixits'[v] = Fill(room, n, diag)
      BY <1>6, <3>1
    <3> QED
      BY <1>20, <3>1, <3>2
  <2>2. i \notin first + 1 .. first + Len(diag.fixits)
    <3> SUFFICES ASSUME i \in first + 1 .. first + Len(diag.fixits) PROVE FALSE
      OBVIOUS
    <3>1. i - first \in 1 .. Len(diag.fixits)
      BY <1>3, <1>6
    <3>2. diag.fixits[i - first] \in Fixits
      BY <1>3, <3>1
    <3> QED
      BY <2>1, <3>2, NamesAssumption
  <2>3. p_fixits[v][i] = None /\ i \in 1 .. Len(p_fixits[v])
    BY <2>1, <2>2
  <2>4. PICK s \in Threads : Fills(s, v, i)
    BY <2>3 DEF DInv, FilledIn
  <2>5. CASE s # t
    <3>1. Fills(s, v, i)'
      BY <1>9, <2>4, <2>5 DEF Fills
    <3> QED
      BY <3>1
  <2>6. CASE s = t
    <3>1. first < i /\ i <= first + Len(FixitsOf(left[t]))
      BY <2>4, <2>6 DEF Fills
    <3>2. FixitsOf(left[t]) = diag.fixits \o FixitsOf(rest) /\ FixitsOf(rest) \in Seq(Fixits)
      BY <1>1, <1>2, FixitsHead, FixitsType
    <3>3. /\ Len(FixitsOf(left[t])) = Len(diag.fixits) + Len(FixitsOf(rest))
          /\ Len(FixitsOf(rest)) \in Nat
      BY <1>3, <3>2
    <3>4. first + Len(diag.fixits) < i /\ i <= first + Len(diag.fixits) + Len(FixitsOf(rest))
      BY <1>3, <1>6, <2>2, <2>3, <3>1, <3>3
    <3>5. Fills(t, v, i)'
      BY <1>0, <1>1, <1>5, <1>6, <3>4 DEF Fills
    <3> QED
      BY <3>5
  <2> QED
    BY <2>5, <2>6
<1>12. ListsIn(v)'
  <2>1. \A s \in Threads : \A f : Publishes(s, v, f)' => Publishes(s, v, f)
    BY <1>5 DEF Publishes
  <2>2. \A f \in Shown, s \in Threads : Publishes(s, v, f) => f \in DOMAIN diag_files[v]
    BY DEF DInv, ListsIn
  <2>3. DOMAIN diag_files[v] \subseteq DOMAIN diag_files'[v]
    BY <1>6, GatherList
  <2> QED
    BY <1>0, <1>1, <1>5, <2>1, <2>2, <2>3 DEF ListsIn
<1>13. ASSUME v \notin raced PROVE Sound(v)' /\ torn' = torn
  <2>1. \A s \in Threads : on[s] = v => s = t
    BY <1>0, <1>13 DEF DInv, Alone
  <2>2. Gathering(t, v)
    BY <1>0, <1>1, <1>13 DEF DInv, Sound
  <2>3. PICK done \in Seq(Diagnostics) :
          /\ tu[v].diags = done \o left[t]
          /\ first = Len(FixitsOf(done))
          /\ Gotten(tu[v].diags, done, p_fixits[v], diag_files[v])
    BY <2>2 DEF Gathering
  <2>4. Append(done, diag) \in Seq(Diagnostics) /\ tu[v].diags = Append(done, diag) \o rest
    <3>1. Append(done, diag) \in Seq(Diagnostics)
      OBVIOUS
    <3>2. \A l \in Seq(Diagnostics) :
            l # <<>> => done \o l = Append(done, Head(l)) \o Tail(l)
      BY HeadMoves
    <3>3. done \o left[t] = Append(done, Head(left[t])) \o Tail(left[t])
      BY <1>1, <3>2, Zenon
    <3> QED
      BY <1>2, <2>3, <3>1, <3>3, Zenon
  <2>5. /\ Gotten(tu[v].diags, Append(done, diag), p_fixits'[v], diag_files'[v])
        /\ Len(FixitsOf(Append(done, diag))) = first + Len(diag.fixits)
        /\ diag.fixits # <<>> => first + Len(diag.fixits) <= Len(p_fixits[v])
    BY <1>6, <2>3, <2>4, GottenMore
  <2>6. Gathering(t, v)'
    BY <1>5, <1>6, <2>4, <2>5 DEF Gathering
  <2>7. Busy(v)'
    BY <1>0, <1>1, <1>5 DEF Busy
  <2>8. \A s \in Threads : \A f : ~Publishes(s, v, f)'
    BY <1>1, <1>5, <2>1 DEF Publishes
  <2>9. Sound(v)'
    BY <1>1, <1>5, <2>1, <2>6, <2>7, <2>8 DEF Sound, Translating
  <2>10. Len(p_fixits[v]) \in Nat
    BY <1>6
  <2>11. ~(diag.fixits # <<>> /\ first + Len(diag.fixits) > Len(p_fixits[v]))
    BY <1>3, <1>6, <2>5, <2>10
  <2> QED
    BY <1>5, <2>9, <2>11
<1>14. (torn \subseteq raced)'
  BY <1>5, <1>13 DEF DInv
<1>15. Owned'
  <2>1. \A u \in Files : DOMAIN diag_files[u] \subseteq DOMAIN diag_files'[u]
    <3>1. DOMAIN diag_files[v] \subseteq DOMAIN diag_files'[v]
      BY <1>6, GatherList
    <3> QED
      BY <1>4, <1>5, <3>1 DEF DTypeOK
  <2> QED
    BY <1>4, <1>5, <2>1 DEF DInv, Owned, DTypeOK
<1>16. Alone'
  BY <1>5 DEF DInv, Alone
<1> QED
  BY <1>5, <1>7, <1>8, <1>10, <1>11, <1>12, <1>13, <1>14, <1>15, <1>16 DEF DInv

(* Nothing is left to gather: the room is full of the fixits of the latest *)
(* diagnostics, and each list is to be published.                          *)
LEMMA GatheredSound ==
  ASSUME LInv, DInv, NEW t \in Threads, Gathered(t)
  PROVE  DInv'
<1>0. PICK v \in Files : v = on[t]
  BY Inhabits DEF Gathered
<1>1. /\ pc[t] = "diags" /\ left[t] = <<>> /\ tu[v] # None /\ todo[t] \in {<<>>, <<"notify">>}
  <2>1. pc[t] = "diags" /\ left[t] = <<>>
    BY DEF Gathered
  <2>2. Route(t)
    BY DEF DInv
  <2> QED
    BY <1>0, <2>1, <2>2 DEF Route
<1>2. DTypeOK
  BY DEF DInv
<1>3. /\ unpublished' = [unpublished EXCEPT ![t] = DOMAIN diag_files[v]]
      /\ pc'[t] = "publish" /\ \A s \in Threads \ {t} : pc'[s] = pc[s]
      /\ UNCHANGED <<on, todo, left, tu, p_fixits, diag_files, shown, fixit_index,
                     mp_current_unit, raced, torn, undiagnosed>>
  BY <1>0 DEF Gathered, ToPublish, Goto, queue, history, LInv, TypeOK
<1>4. DOMAIN diag_files[v] \subseteq Shown
  BY <1>2 DEF DTypeOK, Lists
<1>5. DTypeOK' /\ unpublished'[t] = DOMAIN diag_files[v]
  BY <1>2, <1>3, <1>4 DEF DTypeOK
<1>6. \A s \in Threads : Route(s)'
  <2>1. Route(t)'
    BY <1>0, <1>1, <1>3 DEF Route, Translating
  <2> QED
    BY <1>3, <2>1, OtherRoutes
<1>7. \A s \in Threads \ {t} :
        UNCHANGED <<on[s], pc[s], todo[s], left[s], fixit_index[s], unpublished[s]>>
  BY <1>2, <1>3 DEF DTypeOK
<1>8. \A u \in Files : u # v => FilledIn(u)' /\ ListsIn(u)' /\ (Sound(u) => Sound(u)')
  BY <1>0, <1>1, <1>3, <1>7, OtherUnits
<1>9. FilledIn(v)'
  <2>1. \A i \in Nat : ~Fills(t, v, i)
    <3>1. Len(FixitsOf(left[t])) = 0
      BY <1>1, FixitsEmpty
    <3>2. fixit_index[t] \in Nat
      BY <1>2 DEF DTypeOK
    <3> QED
      BY <3>1, <3>2 DEF Fills
  <2>2. \A s \in Threads, i \in Nat : Fills(s, v, i) => Fills(s, v, i)'
    BY <1>7, <2>1 DEF Fills
  <2>3. FilledIn(v) /\ Len(p_fixits[v]) \in Nat
    BY <1>2 DEF DInv, DTypeOK
  <2> QED
    BY <1>3, <2>2, <2>3 DEF FilledIn
<1>10. ASSUME NEW f \in Shown, f \in DOMAIN diag_files[v] PROVE Publishes(t, v, f)'
  BY <1>0, <1>3, <1>5, <1>10 DEF Publishes
<1>11. ListsIn(v)'
  <2>1. ASSUME NEW f \in Shown, NEW s \in Threads, Publishes(s, v, f)'
        PROVE  f \in DOMAIN diag_files[v]
    <3>1. CASE s = t
      BY <1>5, <2>1, <3>1 DEF Publishes
    <3>2. CASE s # t
      <4>1. Publishes(s, v, f)
        BY <1>7, <2>1, <3>2 DEF Publishes
      <4> QED
        BY <4>1 DEF DInv, ListsIn
    <3> QED
      BY <3>1, <3>2
  <2>2. \A f \in Shown : f \notin DOMAIN diag_files'[v] => ListOf(v, f)' = <<>>
    BY DEF ListOf, ListAt
  <2> QED
    BY <1>3, <1>10, <2>1, <2>2 DEF ListsIn
<1>12. ASSUME v \notin raced PROVE Sound(v)'
  <2>1. \A s \in Threads : on[s] = v => s = t
    BY <1>0, <1>12 DEF DInv, Alone
  <2>2. Gathering(t, v)
    BY <1>0, <1>1, <1>12 DEF DInv, Sound
  <2>3. PICK done \in Seq(Diagnostics) :
          tu[v].diags = done \o left[t] /\ Gotten(tu[v].diags, done, p_fixits[v], diag_files[v])
    BY <2>2 DEF Gathering
  <2>4. done = tu[v].diags
    BY <1>1, <2>3
  <2>5. FixitsKnown(v)'
    <3> SUFFICES ASSUME FixitsOf(tu[v].diags) # <<>>
                 PROVE  p_fixits[v] = FixitsOf(tu[v].diags)
      BY <1>3 DEF FixitsKnown
    <3>1. /\ Len(p_fixits[v]) = Len(FixitsOf(tu[v].diags))
          /\ \A i \in 1 .. Len(FixitsOf(tu[v].diags)) : p_fixits[v][i] = FixitsOf(tu[v].diags)[i]
      BY <2>3, <2>4 DEF Gotten
    <3>2. FixitsOf(tu[v].diags) \in Seq(Fixits) /\ p_fixits[v] \in Seq(Fixits \cup {None})
      BY <1>1, <1>2, UnitDiagnostics DEF DTypeOK
    <3>3. FixitsOf(tu[v].diags) \in Seq(Fixits \cup {None})
      BY <3>2
    <3> QED
      BY <3>1, <3>2, <3>3, SeqEqual
  <2>6. \A f \in Shown : ListOf(v, f) = Listed(v, f)
    BY <2>3, <2>4 DEF Gotten, ListOf, Listed
  <2>7. ASSUME NEW s \in Threads, NEW f \in Shown, Publishes(s, v, f)'
        PROVE  diag_files'[v][f] = Listed(v, f)'
    <3>1. s = t /\ f \in DOMAIN diag_files[v]
      BY <1>3, <1>5, <2>1, <2>7 DEF Publishes
    <3>2. diag_files[v][f] = Listed(v, f)
      BY <2>6, <3>1 DEF ListOf, ListAt
    <3> QED
      BY <1>3, <3>1, <3>2 DEF Listed
  <2>8. ASSUME NEW f \in Shown, f \notin DOMAIN diag_files[v] PROVE ListKnown(v, f)'
    <3>1. Listed(v, f) = <<>>
      BY <2>6, <2>8 DEF ListOf, ListAt
    <3>2. shown[f].by # v /\ (shown[f].by = None => shown[f].list = <<>>)
      BY <2>8, NamesAssumption DEF DInv, Owned
    <3> QED
      BY <1>3, <3>1, <3>2 DEF ListKnown, Listed
  <2>9. \A s \in Threads : ~(on'[s] = v /\ pc'[s] \in Translating \cup {"diags"})
    BY <1>3, <2>1 DEF Translating
  <2> QED
    BY <1>10, <2>5, <2>7, <2>8, <2>9 DEF Sound
<1>13. Owned' /\ Alone' /\ (torn \subseteq raced)'
  BY <1>3 DEF DInv, Owned, Alone
<1> QED
  BY <1>3, <1>5, <1>6, <1>8, <1>9, <1>11, <1>12, <1>13 DEF DInv

(* The client gets the list of one file.                                   *)
LEMMA PublishSound ==
  ASSUME LInv, DInv, NEW t \in Threads, diag_callback(t)
  PROVE  DInv'
<1>0. PICK v \in Files : v = on[t]
  BY Inhabits DEF diag_callback
<1>1. /\ pc[t] = "publish" /\ tu[v] # None /\ todo[t] \in {<<>>, <<"notify">>}
  <2>1. pc[t] = "publish"
    BY DEF diag_callback
  <2>2. Route(t)
    BY DEF DInv
  <2> QED
    BY <1>0, <2>1, <2>2 DEF Route
<1>2. DTypeOK
  BY DEF DInv
<1>3. PICK f \in unpublished[t] :
        /\ shown' = [shown EXCEPT ![f] = [by |-> v, list |-> diag_files[v][f]]]
        /\ diag_files' = [diag_files EXCEPT ![v] = [diag_files[v] EXCEPT ![f] = <<>>]]
        /\ unpublished' = [unpublished EXCEPT ![t] = unpublished[t] \ {f}]
        /\ UNCHANGED <<on, pc, todo, left, tu, p_fixits, fixit_index, mp_current_unit, raced,
                       torn, undiagnosed>>
  BY <1>0, <1>2 DEF diag_callback, queue, history, DTypeOK
<1>4. f \in Shown /\ f \in DOMAIN diag_files[v]
  <2>1. f \in Shown /\ Publishes(t, v, f)
    BY <1>0, <1>1, <1>2 DEF DTypeOK, Publishes
  <2> QED
    BY <2>1 DEF DInv, ListsIn
<1>5. /\ diag_files[v] \in Lists /\ diag_files[v][f] \in Seq(Diagnostics)
      /\ diag_files'[v] = [diag_files[v] EXCEPT ![f] = <<>>] /\ diag_files'[v] \in Lists
      /\ DOMAIN diag_files'[v] = DOMAIN diag_files[v]
  <2>1. diag_files[v] \in Lists /\ diag_files'[v] = [diag_files[v] EXCEPT ![f] = <<>>]
    BY <1>2, <1>3 DEF DTypeOK
  <2>2. PICK files \in SUBSET Shown : diag_files[v] \in [files -> Seq(Diagnostics)]
    BY <2>1 DEF Lists
  <2>3. /\ diag_files[v][f] \in Seq(Diagnostics)
        /\ diag_files'[v] \in [files -> Seq(Diagnostics)]
    BY <1>4, <2>1, <2>2
  <2> QED
    BY <2>1, <2>2, <2>3 DEF Lists
<1>6. DTypeOK'
  BY <1>2, <1>3, <1>4, <1>5 DEF DTypeOK
<1>7. /\ shown'[f] = [by |-> v, list |-> diag_files[v][f]]
      /\ \A g \in Shown : g # f => shown'[g] = shown[g]
      /\ diag_files'[v][f] = <<>>
      /\ \A g \in DOMAIN diag_files[v] : g # f => diag_files'[v][g] = diag_files[v][g]
      /\ \A u \in Files : u # v => diag_files'[u] = diag_files[u]
      /\ unpublished'[t] = unpublished[t] \ {f}
  BY <1>2, <1>3, <1>4, <1>5 DEF DTypeOK
<1>8. \A s \in Threads : Route(s)'
  BY <1>3 DEF DInv, Route
<1>9. \A s \in Threads \ {t} :
        UNCHANGED <<on[s], pc[s], todo[s], left[s], fixit_index[s], unpublished[s]>>
  BY <1>2, <1>3 DEF DTypeOK
<1>10. \A u \in Files : u # v => FilledIn(u)' /\ ListsIn(u)' /\ (Sound(u) => Sound(u)')
  BY <1>0, <1>1, <1>3, <1>7, <1>9, OtherUnits
<1>11. FilledIn(v)'
  <2>1. \A s \in Threads : \A i : Fills(s, v, i)' = Fills(s, v, i)
    BY <1>3 DEF Fills
  <2> QED
    BY <1>3, <2>1 DEF DInv, FilledIn
<1>12. ASSUME NEW s \in Threads, NEW g
       PROVE  Publishes(s, v, g)' <=> Publishes(s, v, g) /\ ~(s = t /\ g = f)
  BY <1>0, <1>3, <1>7, <1>9 DEF Publishes
<1>13. ListsIn(v)'
  <2>1. ASSUME NEW g \in Shown
        PROVE  \/ ListOf(v, g)' = <<>>
               \/ \E s \in Threads : (on'[s] = v /\ pc'[s] = "diags") \/ Publishes(s, v, g)'
    <3>1. CASE g = f
      BY <1>7, <3>1 DEF ListOf, ListAt
    <3>2. CASE g # f
      <4>1. ListOf(v, g)' = ListOf(v, g)
        BY <1>5, <1>7, <3>2 DEF ListOf, ListAt
      <4> QED
        BY <1>3, <1>12, <3>2, <4>1 DEF DInv, ListsIn
    <3> QED
      BY <3>1, <3>2
  <2>2. \A g \in Shown, s \in Threads : Publishes(s, v, g)' => g \in DOMAIN diag_files'[v]
    BY <1>5, <1>12 DEF DInv, ListsIn
  <2> QED
    BY <2>1, <2>2 DEF ListsIn
<1>14. ASSUME v \notin raced PROVE Sound(v)'
  <2>1. \A s \in Threads : on[s] = v => s = t
    BY <1>0, <1>14 DEF DInv, Alone
  <2>2. Sound(v)
    BY <1>14 DEF DInv
  <2>3. \A g : Listed(v, g)' = Listed(v, g)
    BY <1>3 DEF Listed
  <2>4. diag_files[v][f] = Listed(v, f)
    BY <1>0, <1>1, <1>4, <2>2 DEF Sound, Publishes
  <2>5. ASSUME NEW s \in Threads, NEW g \in Shown, Publishes(s, v, g)'
        PROVE  diag_files'[v][g] = Listed(v, g)'
    <3>1. Publishes(s, v, g) /\ g # f
      BY <1>12, <2>1, <2>5 DEF Publishes
    <3>2. g \in DOMAIN diag_files[v] /\ diag_files[v][g] = Listed(v, g)
      BY <2>2, <3>1 DEF Sound, DInv, ListsIn
    <3> QED
      BY <1>7, <2>3, <3>1, <3>2
  <2>6. \A s \in Threads : ~(on'[s] = v /\ pc'[s] \in Translating \cup {"diags"})
    BY <1>1, <1>3, <2>1 DEF Translating
  <2>7. Busy(v)' = Busy(v)
    BY <1>3 DEF Busy
  <2>8. FixitsKnown(v)' = FixitsKnown(v)
    BY <1>3 DEF FixitsKnown
  <2>9. ASSUME NEW g \in Shown
        PROVE  ListKnown(v, g)' \/ Busy(v) \/ \E s \in Threads : Publishes(s, v, g)'
    <3>1. CASE g = f
      BY <1>7, <2>3, <2>4, <3>1 DEF ListKnown
    <3>2. CASE g # f
      <4>1. ListKnown(v, g) \/ Busy(v) \/ \E s \in Threads : Publishes(s, v, g)
        BY <1>1, <2>2 DEF Sound
      <4>3. shown'[g] = shown[g] /\ undiagnosed' = undiagnosed /\ Listed(v, g)' = Listed(v, g)
        BY <1>3, <1>7, <2>3, <3>2
      <4>2. ListKnown(v, g)' = ListKnown(v, g)
        BY <4>3 DEF ListKnown
      <4> QED
        BY <1>12, <3>2, <4>1, <4>2
    <3> QED
      BY <3>1, <3>2
  <2> QED
    BY <1>1, <2>2, <2>5, <2>6, <2>7, <2>8, <2>9 DEF Sound
<1>15. Owned'
  <2>1. \A u \in Files : DOMAIN diag_files'[u] = DOMAIN diag_files[u]
    BY <1>5, <1>7
  <2>2. \A g \in Shown : shown[g].by \in Files \cup {None}
    BY <1>2 DEF DTypeOK
  <2> QED
    BY <1>4, <1>7, <2>1, <2>2, NamesAssumption DEF DInv, Owned
<1>16. Alone' /\ (torn \subseteq raced)'
  BY <1>3 DEF DInv, Alone
<1> QED
  BY <1>3, <1>6, <1>8, <1>10, <1>11, <1>13, <1>14, <1>15, <1>16 DEF DInv

(* A thread that leaves a unit, or goes on to announce its file, has       *)
(* published every list it had to.                                         *)
LEMMA LeaveSound ==
  ASSUME LInv, DInv, NEW t \in Threads, pc[t] \in {"publish", "notify"}, Advance(t),
         pc[t] = "publish" => unpublished[t] = {},
         UNCHANGED <<tu, diagnostics, left, mp_current_unit, history>>
  PROVE  DInv'
<1>1. UNCHANGED <<tu, p_fixits, diag_files, shown, fixit_index, unpublished, left,
                  mp_current_unit, raced, torn, undiagnosed>>
  BY DEF diagnostics, history
<1>2. /\ pc'[t] \in {"notify", "idle"} /\ on'[t] \in {on[t], None}
      /\ pc'[t] = "notify" => todo'[t] = <<>>
      /\ \A s \in Threads \ {t} : pc'[s] = pc[s] /\ todo'[s] = todo[s] /\ on'[s] = on[s]
  BY AdvanceRoute
<1>3. \A s \in Threads : Route(s)'
  <2>1. Route(t)'
    BY <1>2 DEF Route, Translating
  <2> QED
    BY <1>1, <1>2, <2>1, OtherRoutes
<1>4. \A s \in Threads : \A u, i : Fills(s, u, i)' = Fills(s, u, i)
  BY <1>1, <1>2 DEF Fills
<1>5. \A s \in Threads : \A u, f : Publishes(s, u, f)' = Publishes(s, u, f)
  BY <1>1, <1>2 DEF Publishes
<1>6. \A s \in Threads, u \in Files :
        (on'[s] = u /\ pc'[s] = "diags") = (on[s] = u /\ pc[s] = "diags")
  BY <1>2
<1>7. \A u : Busy(u)' = Busy(u)
  <2>1. \A s \in Threads : \A u :
          (on'[s] = u /\ pc'[s] \in Translating \cup {"diagnose", "diags"})
            = (on[s] = u /\ pc[s] \in Translating \cup {"diagnose", "diags"})
    BY <1>2 DEF Translating
  <2> QED
    BY <2>1 DEF Busy
<1>8. ASSUME NEW u \in Files
      PROVE  FilledIn(u)' /\ ListsIn(u)' /\ (u \notin raced => Sound(u)')
  <2>1. FilledIn(u)'
    BY <1>1, <1>4 DEF DInv, FilledIn
  <2>2. ListsIn(u)'
    BY <1>1, <1>5, <1>6 DEF DInv, ListsIn, ListOf
  <2>3. ASSUME u \notin raced PROVE Sound(u)'
    <3>1. Sound(u)
      BY <2>3 DEF DInv
    <3>2. \A f : Listed(u, f)' = Listed(u, f) /\ ListKnown(u, f)' = ListKnown(u, f)
      BY <1>1 DEF Listed, ListKnown
    <3>3. FixitsKnown(u)' = FixitsKnown(u)
      BY <1>1 DEF FixitsKnown
    <3>4. \A s \in Threads : Gathering(s, u)' = Gathering(s, u)
      BY <1>1 DEF Gathering
    <3>5. \A s \in Threads : on'[s] = u /\ pc'[s] \in Translating /\ todo'[s] = <<>> =>
            on[s] = u /\ pc[s] \in Translating /\ todo[s] = <<>>
      BY <1>2 DEF Translating
    <3> QED
      BY <1>1, <1>5, <1>6, <1>7, <3>1, <3>2, <3>3, <3>4, <3>5 DEF Sound
  <2> QED
    BY <2>1, <2>2, <2>3
<1>9. Alone'
  BY <1>1, <1>2, NamesAssumption DEF DInv, Alone
<1>10. DTypeOK' /\ Owned' /\ (torn \subseteq raced)'
  BY <1>1 DEF DInv, DTypeOK, Owned
<1> QED
  BY <1>1, <1>3, <1>8, <1>9, <1>10 DEF DInv

(* A thread that enters a unit is going to gather its diagnostics, unless  *)
(* it comes for a request; what is known of the unit starts again when no  *)
(* other one is in it.                                                     *)
LEMMA EnterSound ==
  ASSUME LInv, DInv, NEW t \in Threads, pc[t] = "idle", NEW u \in Files, NEW places,
         Enter(t, u, places), Head(places) \in Translating \cup {"diagnose"},
         Head(places) = "diagnose" => tu[u] # None /\ Tail(places) \in {<<>>, <<"notify">>},
         Head(places) \in Translating =>
           Tail(places) \in {<<>>, <<"diagnose">>, <<"diagnose", "notify">>,
                             <<"translate", "diagnose", "notify">>},
         Head(places) \in Translating /\ Tail(places) = <<>> => u \in undiagnosed',
         undiagnosed \subseteq undiagnosed',
         UNCHANGED <<tu, diagnostics, left>>, mp_current_unit' \in Files \cup {None}
  PROVE  DInv'
<1>1. UNCHANGED <<tu, p_fixits, diag_files, shown, fixit_index, unpublished, left>>
  BY DEF diagnostics
<1>2. on[t] = None /\ pc \in [Threads -> Places] /\ todo \in [Threads -> Seq(Ahead)]
      /\ on \in [Threads -> Files \cup {None}]
  BY DEF LInv, TypeOK, Place
<1>3. /\ pc'[t] = Head(places) /\ todo'[t] = Tail(places) /\ on'[t] = u
      /\ \A s \in Threads \ {t} : pc'[s] = pc[s] /\ todo'[s] = todo[s] /\ on'[s] = on[s]
  BY <1>2 DEF Enter, Goto
<1>4. \A s \in Threads : Route(s)'
  <2>1. Route(t)'
    BY <1>1, <1>3 DEF Route, Translating
  <2> QED
    BY <1>1, <1>3, <2>1, OtherRoutes
<1>5. ASSUME NEW w \in Files, w # u
      PROVE  FilledIn(w)' /\ ListsIn(w)' /\ (Sound(w) => Sound(w)')
  <2>1. \A s \in Threads : on[s] = w \/ on'[s] = w =>
          UNCHANGED <<on[s], pc[s], todo[s], left[s], fixit_index[s], unpublished[s]>>
    BY <1>1, <1>2, <1>3, <1>5, NamesAssumption
  <2> QED
    BY <1>1, <2>1, SameUnit
<1>6. \A s \in Threads :
        pc'[s] \in {"diags", "publish"} /\ on'[s] = u
          <=> pc[s] \in {"diags", "publish"} /\ on[s] = u
  BY <1>2, <1>3, NamesAssumption DEF Translating
<1>7. \A s \in Threads : on[s] = u => pc'[s] = pc[s] /\ on'[s] = u
  BY <1>2, <1>3, NamesAssumption
<1>8. FilledIn(u)'
  <2>1. \A s \in Threads : \A i : Fills(s, u, i) => Fills(s, u, i)'
    BY <1>1, <1>7 DEF Fills
  <2> QED
    BY <1>1, <2>1 DEF DInv, FilledIn
<1>9. \A s \in Threads : \A f : Publishes(s, u, f)' <=> Publishes(s, u, f)
  BY <1>1, <1>2, <1>3, NamesAssumption DEF Publishes, Translating
<1>10. ListsIn(u)'
  BY <1>1, <1>7, <1>9 DEF DInv, ListsIn, ListOf
<1>11. /\ Inside(u) = {} => raced' = raced \ {u} /\ torn' = torn \ {u}
       /\ Inside(u) # {} => raced' = raced \cup {u} /\ torn' = torn
  BY DEF Enter
<1>12. ASSUME u \notin raced' PROVE \A s \in Threads : on'[s] = u => s = t
  BY <1>3, <1>11, <1>12 DEF Inside
<1>13. ASSUME u \notin raced' PROVE Sound(u)'
  <2>1. Busy(u)'
    BY <1>3 DEF Busy
  <2>2. \A s \in Threads : ~(on'[s] = u /\ pc'[s] \in {"diags", "publish"})
    BY <1>3, <1>12, <1>13 DEF Translating
  <2>3. \A s \in Threads : on'[s] = u /\ pc'[s] \in Translating /\ todo'[s] = <<>> =>
          u \in undiagnosed'
    BY <1>3, <1>12, <1>13
  <2> QED
    BY <2>1, <2>2, <2>3 DEF Sound, Publishes
<1>14. Alone'
  <2> SUFFICES ASSUME NEW r \in Threads, NEW s \in Threads,
                      on'[r] \in Files \ raced', on'[r] = on'[s]
               PROVE  r = s
    BY DEF Alone
  <2>1. CASE on'[r] = u
    BY <1>12, <2>1
  <2>2. CASE on'[r] # u
    <3>1. on[r] = on'[r] /\ on[s] = on'[r] /\ on'[r] \notin raced
      BY <1>3, <1>11, <2>2
    <3> QED
      BY <3>1 DEF DInv, Alone
  <2> QED
    BY <2>1, <2>2
<1>15. \A w \in Files \ raced' : Sound(w)'
  BY <1>5, <1>11, <1>13 DEF DInv
<1>16. (torn \subseteq raced)' /\ raced' \subseteq Files
  BY <1>11 DEF DInv, DTypeOK
<1>17. DTypeOK'
  BY <1>1, <1>16 DEF DInv, DTypeOK
<1>18. Owned'
  BY <1>1 DEF DInv, Owned
<1>19. \A w \in Files : FilledIn(w)' /\ ListsIn(w)'
  BY <1>5, <1>8, <1>10
<1> QED
  BY <1>4, <1>14, <1>15, <1>16, <1>17, <1>18, <1>19 DEF DInv

(* The request meets a fixit that is not filled only while a thread is in  *)
(* the unit.                                                               *)
LEMMA CodeActionSound == LInv /\ DInv /\ code_action => DInv'
<1> SUFFICES ASSUME LInv, DInv, code_action PROVE DInv'
  OBVIOUS
<1>0. PICK v \in Files : v = mp_current_unit
  BY DEF code_action, DInv, DTypeOK
<1>1. /\ UNCHANGED <<tu, p_fixits, diag_files, shown, fixit_index, unpublished, left, pc, on,
                     todo, mp_current_unit>>
      /\ raced' = IF Inside(v) = {} THEN raced ELSE raced \cup {v}
      /\ torn' = IF unit_fixits_resolve(v) THEN torn \cup {v} ELSE torn
      /\ UNCHANGED undiagnosed
  BY <1>0 DEF code_action, diagnostics
<1>2. ASSUME unit_fixits_resolve(v) PROVE Inside(v) # {}
  <2>1. p_fixits[v] \in Seq(Fixits \cup {None})
    BY DEF DInv, DTypeOK
  <2>2. PICK i \in 1 .. Len(p_fixits[v]) : p_fixits[v][i] = None
    BY <1>2, <2>1 DEF unit_fixits_resolve, ToSet
  <2>3. PICK t \in Threads : Fills(t, v, i)
    BY <2>2 DEF DInv, FilledIn
  <2> QED
    BY <2>3 DEF Fills, Inside
<1>3. torn' \subseteq raced' /\ raced \subseteq raced' /\ raced' \subseteq Files
  BY <1>1, <1>2 DEF DInv, DTypeOK
<1>4. DTypeOK'
  BY <1>1, <1>3 DEF DInv, DTypeOK
<1>5. Owned' /\ \A t \in Threads : Route(t)'
  BY <1>1 DEF DInv, Owned, Route
<1>6. Alone'
  BY <1>1, <1>3 DEF DInv, Alone
<1>7. ASSUME NEW u \in Files
      PROVE  FilledIn(u)' /\ ListsIn(u)' /\ (Sound(u) => Sound(u)')
  BY <1>1, SameUnit
<1> QED
  BY <1>3, <1>4, <1>5, <1>6, <1>7 DEF DInv

(* Everything else leaves the diagnostics and the threads as they are.     *)
LEMMA StillSound ==
  ASSUME LInv, DInv,
         UNCHANGED <<tu, diagnostics, left, pc, on, todo, history>>,
         mp_current_unit' \in Files \cup {None}
  PROVE  DInv'
<1>1. UNCHANGED <<tu, p_fixits, diag_files, shown, fixit_index, unpublished, left, pc, on,
                  todo, raced, torn, undiagnosed>>
  BY DEF diagnostics, history
<1>2. DTypeOK' /\ Owned' /\ Alone' /\ (torn \subseteq raced)' /\ \A t \in Threads : Route(t)'
  BY <1>1 DEF DInv, DTypeOK, Owned, Alone, Route
<1>3. ASSUME NEW u \in Files
      PROVE  FilledIn(u)' /\ ListsIn(u)' /\ (Sound(u) => Sound(u)')
  BY <1>1, SameUnit
<1> QED
  BY <1>1, <1>2, <1>3 DEF DInv

(* The main thread enters with what a message asks for, after a            *)
(* translation when there is none yet.                                     *)
LEMMA ParsedFirst ==
  ASSUME LInv, DInv, NEW f \in Files, did_open(f) \/ did_change(f) \/ request(f)
  PROVE  DInv'
<1>1. PICK u \in Files, all \in Seq(Ahead) :
        /\ IF all = <<>> THEN UNCHANGED <<pc, on, todo, raced, torn>> ELSE Enter(Main, u, all)
        /\ pc[Main] = "idle" /\ mp_current_unit' = u
        /\ \/ tu[u] # None /\ all \in {<<>>, <<"diagnose">>}
           \/ tu[u] # None /\ all = <<"translate", "diagnose", "notify">>
           \/ tu[u] = None /\ all = <<"translate">>
           \/ tu[u] = None /\ all = <<"translate", "diagnose">>
           \/ tu[u] = None /\ all = <<"translate", "translate", "diagnose", "notify">>
        /\ undiagnosed' = IF all = <<"translate">> THEN undiagnosed \cup {u} ELSE undiagnosed
        /\ UNCHANGED <<tu, index, diagnostics, decl_mutex, left, cleared, visit>>
  BY MessageEnters, Zenon
<1>2. /\ Main \in Threads /\ UNCHANGED <<tu, diagnostics, left>>
      /\ mp_current_unit' \in Files \cup {None} /\ undiagnosed \subseteq undiagnosed'
  BY <1>1 DEF Threads
<1>3. CASE all = <<>>
  <2>1. UNCHANGED history
    BY <1>1, <1>3 DEF history
  <2> QED
    BY <1>1, <1>2, <1>3, <2>1, StillSound
<1>4. CASE all # <<>>
  <2>1. CASE tu[u] # None /\ all = <<"diagnose">>
    <3>1. Head(all) = "diagnose" /\ Tail(all) = <<>>
      BY <2>1
    <3> QED
      BY <1>1, <1>2, <1>4, <2>1, <3>1, EnterSound DEF Translating
  <2>2. CASE all = <<"translate", "diagnose", "notify">>
    <3>1. Head(all) = "translate" /\ Tail(all) = <<"diagnose", "notify">> /\ Tail(all) # <<>>
      BY <2>2
    <3> QED
      BY <1>1, <1>2, <1>4, <3>1, EnterSound DEF Translating
  <2>3. CASE all = <<"translate">>
    <3>1. Head(all) = "translate" /\ Tail(all) = <<>> /\ u \in undiagnosed'
      BY <1>1, <2>3
    <3> QED
      BY <1>1, <1>2, <1>4, <3>1, EnterSound DEF Translating
  <2>4. CASE all = <<"translate", "diagnose">>
    <3>1. Head(all) = "translate" /\ Tail(all) = <<"diagnose">> /\ Tail(all) # <<>>
      BY <2>4
    <3> QED
      BY <1>1, <1>2, <1>4, <3>1, EnterSound DEF Translating
  <2>5. CASE all = <<"translate", "translate", "diagnose", "notify">>
    <3>1. /\ Head(all) = "translate" /\ Tail(all) = <<"translate", "diagnose", "notify">>
          /\ Tail(all) # <<>>
      BY <2>5
    <3> QED
      BY <1>1, <1>2, <1>4, <3>1, EnterSound DEF Translating
  <2> QED
    BY <1>1, <1>4, <2>1, <2>2, <2>3, <2>4, <2>5
<1> QED
  BY <1>3, <1>4

(* The reparse thread enters the units that include the file.              *)
LEMMA ReparseSound == LInv /\ DInv /\ reparse_thread => DInv'
<1> SUFFICES ASSUME LInv, DInv, reparse_thread PROVE DInv'
  OBVIOUS
<1>1. PICK u \in visit :
        IF unit_includes_file(u) /\ u # changed
          THEN Enter(Reparser, u, <<"translate", "diagnose">>)
          ELSE UNCHANGED <<pc, on, todo, raced, torn>>
  BY DEF reparse_thread
<1>2. /\ u \in Files /\ Reparser \in Threads /\ pc[Reparser] = "idle"
      /\ UNCHANGED <<tu, diagnostics, left, mp_current_unit, undiagnosed>>
      /\ mp_current_unit' \in Files \cup {None}
  BY <1>1 DEF reparse_thread, Threads, LInv, TypeOK, DInv, DTypeOK
<1>3. CASE unit_includes_file(u) /\ u # changed
  <2>1. PICK places : places = <<"translate", "diagnose">>
    OBVIOUS
  <2>2. Head(places) = "translate" /\ Tail(places) = <<"diagnose">> /\ Tail(places) # <<>>
    BY <2>1
  <2>3. Enter(Reparser, u, places)
    BY <1>1, <1>3, <2>1
  <2> QED
    BY <1>2, <2>2, <2>3, EnterSound DEF Translating
<1>4. CASE ~(unit_includes_file(u) /\ u # changed)
  BY <1>1, <1>2, <1>4, StillSound DEF history
<1> QED
  BY <1>3, <1>4

(* Every step keeps DInv.                                                  *)
LEMMA StepDInv == LInv /\ DInv /\ FreshInv /\ [Next]_vars => DInv'
<1> SUFFICES ASSUME LInv, DInv, FreshInv, [Next]_vars PROVE DInv'
  OBVIOUS
<1>1. ASSUME NEW t \in Threads, IndexNext(t) PROVE DInv'
  BY <1>1, IndexDiagnostics
<1>2. ASSUME NEW t \in Threads, Published(t) PROVE DInv'
  BY <1>2, LeaveSound DEF Published, queue
<1>3. ASSUME NEW t \in Threads, DiagnosticsNext(t) PROVE DInv'
  BY <1>2, <1>3, DiagnoseSound, ParseSound, GatheredSound, PublishSound DEF DiagnosticsNext
<1>4. CASE unit_storage_notify_change
  <2>1. Main \in Threads /\ pc[Main] = "notify"
    BY <1>4 DEF unit_storage_notify_change, Threads
  <2> QED
    BY <1>4, <2>1, LeaveSound DEF unit_storage_notify_change
<1>5. CASE queue_poll
  BY <1>5, StillSound DEF queue_poll, DInv, DTypeOK
<1>6. CASE UNCHANGED vars
  BY <1>6, StillSound DEF vars, queue, DInv, DTypeOK
<1> QED
  BY <1>1, <1>3, <1>4, <1>5, <1>6, ParsedFirst, CodeActionSound, ReparseSound DEF Next

(* Nor does a unit come to fixits or lists before it is diagnosed.         *)
LEMMA StepFreshInv == LInv /\ DInv /\ FreshInv /\ [Next]_vars => FreshInv'
<1> SUFFICES ASSUME LInv, DInv, FreshInv, [Next]_vars PROVE FreshInv'
  OBVIOUS
<1>1. ASSUME UNCHANGED <<p_fixits, shown>>,
             \A u \in Files : tu[u] # None => tu'[u] # None,
             \A u \in Files : u \in undiagnosed' => u \in undiagnosed \/ tu[u] = None,
             \A t \in Threads : pc'[t] \in {"diags", "publish"} =>
               pc[t] \in {"diags", "publish"} /\ on'[t] = on[t]
      PROVE  FreshInv'
  <2>1. ASSUME NEW t \in Threads, pc'[t] \in {"diags", "publish"} PROVE on'[t] \notin undiagnosed'
    <3>1. pc[t] \in {"diags", "publish"} /\ on'[t] = on[t] /\ Route(t) /\ on[t] \in Files
      BY <1>1, <2>1, Inhabits DEF DInv
    <3> QED
      BY <1>1, <3>1 DEF Route, FreshInv
  <2> QED
    BY <1>1, <2>1 DEF FreshInv
<1>2. /\ pc \in [Threads -> Places] /\ on \in [Threads -> Files \cup {None}]
      /\ tu = [u \in Files |-> tu[u]]
  BY DEF LInv, TypeOK
<1>3. ASSUME NEW t \in Threads, IndexNext(t) PROVE FreshInv'
  <2>1. CASE index_header_set(t)
    <3>1. pc' = [pc EXCEPT ![t] = pc'[t]] /\ pc'[t] \in Ahead \cup {"idle"}
      BY <2>1, AdvanceGoes DEF index_header_set
    <3>2. on' = [on EXCEPT ![t] = IF pc'[t] = "idle" THEN None ELSE on[t]]
      BY <2>1, AdvanceGoes DEF index_header_set
    <3> QED
      BY <1>1, <1>2, <2>1, <3>1, <3>2 DEF index_header_set, diagnostics, history, Ahead
  <2>2. CASE Translate(t)
    <3>1. on[t] \in Files
      BY <2>2, Inhabits DEF Translate
    <3>2. \A u \in Files : tu[u] # None => tu'[u] # None
      BY <1>2, <2>2, <3>1, TranslationsAssumption DEF Translate
    <3> QED
      BY <1>1, <1>2, <2>2, <3>2 DEF Translate, Goto, diagnostics, history
  <2>3. /\ ~index_header_set(t) /\ ~Translate(t) =>
             UNCHANGED <<tu, p_fixits, shown, undiagnosed, on>>
        /\ ~index_header_set(t) /\ ~Translate(t) =>
             pc'[t] \notin {"diags", "publish"} /\ \A s \in Threads \ {t} : pc'[s] = pc[s]
    BY <1>2, <1>3
    DEF IndexNext, index_translation_unit, clear_index_decls, RemoveDeclaration,
        index_included_file, Definitions, index_declaration, ListDeclaration, Goto,
        diagnostics, history
  <2> QED
    BY <1>1, <2>1, <2>2, <2>3
<1>4. ASSUME NEW t \in Threads, unit_diagnostics_get(t) PROVE FreshInv'
  <2>1. /\ on[t] \in Files /\ Route(t)
        /\ pc[t] = "diagnose" /\ pc' = [pc EXCEPT ![t] = "diags"] /\ on' = on
        /\ undiagnosed' = undiagnosed \ {on[t]} /\ UNCHANGED <<tu, shown>>
    BY <1>4, Inhabits DEF unit_diagnostics_get, Goto, DInv
  <2>2. \A u \in Files : u # on[t] => p_fixits'[u] = p_fixits[u]
    BY <1>4, <2>1 DEF unit_diagnostics_get, DInv, DTypeOK
  <2>3. tu[on[t]] # None
    BY <2>1 DEF Route
  <2> QED
    BY <1>2, <2>1, <2>2, <2>3 DEF FreshInv
<1>5. ASSUME NEW t \in Threads, diagnostic_parse(t) PROVE FreshInv'
  <2>1. /\ on[t] \in Files /\ Route(t) /\ pc[t] = "diags" /\ UNCHANGED <<pc, on>>
        /\ UNCHANGED <<tu, shown, undiagnosed>>
    BY <1>5, Inhabits DEF diagnostic_parse, DInv
  <2>2. \A u \in Files : u # on[t] => p_fixits'[u] = p_fixits[u]
    BY <1>5, <2>1 DEF diagnostic_parse, DInv, DTypeOK
  <2>3. tu[on[t]] # None /\ on[t] \notin undiagnosed
    BY <2>1 DEF Route, FreshInv
  <2> QED
    BY <2>1, <2>2, <2>3 DEF FreshInv
<1>6. ASSUME NEW t \in Threads, diag_callback(t) PROVE FreshInv'
  <2>1. /\ on[t] \in Files /\ Route(t) /\ pc[t] = "publish" /\ UNCHANGED <<pc, on>>
        /\ UNCHANGED <<tu, p_fixits, undiagnosed>>
    BY <1>6, Inhabits DEF diag_callback, DInv, history
  <2>2. \A f \in Shown : shown'[f] = shown[f] \/ shown'[f].by = on[t]
    BY <1>6, <2>1 DEF diag_callback, DInv, DTypeOK
  <2>3. tu[on[t]] # None /\ on[t] \notin undiagnosed
    BY <2>1 DEF Route, FreshInv
  <2> QED
    BY <2>1, <2>2, <2>3 DEF FreshInv
<1>7. ASSUME NEW t \in Threads, pc[t] \in {"publish", "notify"}, Advance(t),
             UNCHANGED <<tu, diagnostics, history>>
      PROVE  FreshInv'
  <2>1. pc' = [pc EXCEPT ![t] = pc'[t]] /\ pc'[t] \in Ahead \cup {"idle"}
    BY <1>7, AdvanceGoes
  <2>2. on' = [on EXCEPT ![t] = IF pc'[t] = "idle" THEN None ELSE on[t]]
    BY <1>7, AdvanceGoes
  <2> QED
    BY <1>1, <1>2, <1>7, <2>1, <2>2 DEF diagnostics, history, Ahead
<1>8. ASSUME NEW t \in Threads, DiagnosticsNext(t) PROVE FreshInv'
  <2>1. CASE Published(t)
    BY <1>7, <2>1 DEF Published
  <2>2. CASE Gathered(t)
    BY <1>1, <1>2, <2>2 DEF Gathered, Goto, history
  <2> QED
    BY <1>4, <1>5, <1>6, <1>8, <2>1, <2>2 DEF DiagnosticsNext
<1>9. ASSUME NEW t \in Threads, NEW u \in Files, NEW places \in Seq(Ahead), places # <<>>,
             pc[t] = "idle", Enter(t, u, places), UNCHANGED <<tu, diagnostics>>,
             \A w \in Files : w \in undiagnosed' => w \in undiagnosed \/ tu[w] = None
      PROVE  FreshInv'
  <2>1. Head(places) \in Ahead
    BY <1>9
  <2>2. /\ pc' = [pc EXCEPT ![t] = Head(places)] /\ on' = [on EXCEPT ![t] = u]
    BY <1>9 DEF Enter, Goto
  <2> QED
    BY <1>1, <1>2, <1>9, <2>1, <2>2 DEF diagnostics, Ahead
<1>10. ASSUME NEW f \in Files, did_open(f) \/ did_change(f) \/ request(f) PROVE FreshInv'
  <2>1. PICK u \in Files, all \in Seq(Ahead) :
          /\ IF all = <<>> THEN UNCHANGED <<pc, on, todo, raced, torn>> ELSE Enter(Main, u, all)
          /\ pc[Main] = "idle" /\ mp_current_unit' = u
          /\ \/ tu[u] # None /\ all \in {<<>>, <<"diagnose">>}
             \/ tu[u] # None /\ all = <<"translate", "diagnose", "notify">>
             \/ tu[u] = None /\ all = <<"translate">>
             \/ tu[u] = None /\ all = <<"translate", "diagnose">>
             \/ tu[u] = None /\ all = <<"translate", "translate", "diagnose", "notify">>
          /\ undiagnosed' = IF all = <<"translate">> THEN undiagnosed \cup {u} ELSE undiagnosed
          /\ UNCHANGED <<tu, index, diagnostics, decl_mutex, left, cleared, visit>>
    BY <1>10, MessageEnters, Zenon
  <2>2. /\ <<>> # <<"translate">> /\ <<"diagnose">> # <<"translate">>
        /\ <<"translate", "diagnose", "notify">> # <<"translate">>
    OBVIOUS
  <2>3. \A w \in Files : w \in undiagnosed' => w \in undiagnosed \/ tu[w] = None
    BY <2>1, <2>2
  <2>4. Main \in Threads /\ UNCHANGED <<tu, diagnostics>>
    BY <2>1 DEF Threads
  <2>5. CASE all = <<>>
    BY <1>1, <2>1, <2>3, <2>4, <2>5 DEF diagnostics
  <2>6. CASE all # <<>>
    BY <1>9, <2>1, <2>3, <2>4, <2>6
  <2> QED
    BY <2>5, <2>6
<1>11. CASE reparse_thread
  <2>1. PICK u \in visit :
          IF unit_includes_file(u) /\ u # changed
            THEN Enter(Reparser, u, <<"translate", "diagnose">>)
            ELSE UNCHANGED <<pc, on, todo, raced, torn>>
    BY <1>11 DEF reparse_thread
  <2>2. /\ u \in Files /\ Reparser \in Threads /\ pc[Reparser] = "idle"
        /\ UNCHANGED <<tu, diagnostics, undiagnosed>>
    BY <1>11, <2>1 DEF reparse_thread, Threads, LInv, TypeOK
  <2>3. <<"translate", "diagnose">> \in Seq(Ahead) /\ <<"translate", "diagnose">> # <<>>
    BY DEF Ahead
  <2>4. CASE Enter(Reparser, u, <<"translate", "diagnose">>)
    BY <1>9, <2>2, <2>3, <2>4
  <2>5. CASE UNCHANGED <<pc, on, todo, raced, torn>>
    BY <1>1, <2>2, <2>5 DEF diagnostics
  <2> QED
    BY <2>1, <2>4, <2>5
<1>12. CASE unit_storage_notify_change
  BY <1>7, <1>12 DEF unit_storage_notify_change, Threads
<1>13. CASE code_action \/ queue_poll \/ UNCHANGED vars
  BY <1>1, <1>13 DEF code_action, queue_poll, vars, diagnostics, history
<1> QED
  BY <1>3, <1>8, <1>10, <1>11, <1>12, <1>13 DEF Next

(* No thread is busy with a unit that is at rest.                          *)
LEMMA SoundAtRest == DInv => StaleFixitsForCause /\ StaleListForCause
<1> SUFFICES ASSUME DInv, NEW u \in Files, AtRest(u), u \notin raced
             PROVE  FixitsKnown(u) /\ \A f \in Shown : ListKnown(u, f)
  BY DEF StaleFixitsForCause, StaleListForCause, FixitsKnown, ListKnown
<1>1. Sound(u) /\ tu[u] # None
  BY DEF DInv, AtRest
<1>2. \A t \in Threads : on[t] # u
  BY DEF AtRest, Inside
<1>3. ~Busy(u) /\ \A t \in Threads, f \in Shown : ~Publishes(t, u, f)
  BY <1>2 DEF Busy, Publishes
<1> QED
  BY <1>1, <1>3 DEF Sound


-----------------------------------------------------------------------------
(* The theorems                                                            *)

LEMMA Inductive ==
  Spec => [](LInv /\ HeadersFollow /\ IncludesFollow /\ Exact)
<1>1. ASSUME Init PROVE HeadersFollow /\ IncludesFollow /\ Exact
  BY <1>1, NothingCounts
  DEF Init, HeadersFollow, IncludesFollow, Exact, Indexed, Extra, Halfway
<1>2. LInv /\ HeadersFollow /\ IncludesFollow /\ Exact /\ [Next]_vars
      => (LInv /\ HeadersFollow /\ IncludesFollow /\ Exact)'
  BY StepLInv, StepHeaders, StepIncludes, StepExact
<1> QED
  BY <1>1, <1>2, InitLInv, PTL DEF Spec

(* The main header of a unit is one of its included files, and the header  *)
(* map names it when no thread is in the unit: the mutex that is held from *)
(* clear_index_decls to index_header_set lets one thread at a time replace *)
(* them, whatever the threads that parse and diagnose do (indexer.c).      *)
THEOREM HeadersAgreeAlways == Spec => []HeadersAgree
<1> QED
  BY Inductive, HeadersFollowAgree, PTL

(* A unit no thread is in knows the includes of its latest translation, by *)
(* which a change reaches it, or that translation had none                 *)
(* (index_included_file, unit_includes_file).                              *)
THEOREM StaleIncludesOnlyForCause == Spec => []StaleIncludesForCause
<1> QED
  BY Inductive, IncludesFollowStale, PTL

(* The common index holds as many declarations of a unit for a USR as the  *)
(* unit lists, but for the one a thread is moving between the two, at      *)
(* every step of their removal and addition and with any two units sharing *)
(* a USR (clear_index_decls, index_declaration, index_decl_remove).        *)
THEOREM IndexExactAlways == Spec => []IndexExact
<1> QED
  BY Inductive, ExactIndex, PTL

(* DInv holds in every reachable state, of any instance.                   *)
LEMMA SoundAlways == Spec => []DInv
<1>1. Init => FreshInv
  BY NamesAssumption DEF Init, FreshInv
<1>2. LInv /\ DInv /\ FreshInv /\ [Next]_vars => LInv' /\ DInv' /\ FreshInv'
  BY StepLInv, StepDInv, StepFreshInv
<1> QED
  BY <1>1, <1>2, InitLInv, InitDInv, PTL DEF Spec

(* A fixit is read unfilled, or written past the room for them, only in a  *)
(* unit two threads are in at once: for every translation the room that    *)
(* unit_diagnostics_get makes is filled exactly, ignored diagnostics       *)
(* included, before the thread leaves the unit (unit_fixits_resolve).      *)
THEOREM FixitsWholeAlways == Spec => []FixitsWhole
<1>1. DInv => FixitsWhole
  BY DEF DInv, FixitsWhole
<1> QED
  BY <1>1, SoundAlways, PTL

(* Code actions offer the fixits of the latest diagnostics of a unit no    *)
(* thread is in, unless two threads raced in it or those diagnostics have  *)
(* none (unit_diagnostics_get keeps the old room then), or a request was   *)
(* the first to parse it: then it has none to offer, whatever happened to  *)
(* it before.                                                              *)
THEOREM StaleFixitsOnlyForCause == Spec => []StaleFixitsForCause
<1> QED
  BY SoundAtRest, SoundAlways, PTL

(* The client shows, for every file, the diagnostics of the latest         *)
(* translation of a unit no thread is in, up to DIAG_MAX_PER_FILE and in   *)
(* their order, unless another unit published for the file or two threads  *)
(* raced in this one: diag_callback also sends the lists that have become  *)
(* empty.  Of a unit that a request was the first to parse it shows none.  *)
THEOREM StaleListsOnlyForCause == Spec => []StaleListForCause
<1> QED
  BY SoundAtRest, SoundAlways, PTL
===============================================================================
