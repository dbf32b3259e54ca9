------------------------- MODULE TripleStore_proofs -------------------------
(***************************************************************************)
(* Theorems about TripleStore for every value of its constants.            *)
(***************************************************************************)
EXTENDS TripleStore, NumberLemmas, FiniteSetTheorems, SequenceTheorems, TLAPS

(* The part of 1..m that S has. *)
UpTo(S, m) == {j \in S : j <= m}

(* Counting the members of S up to m goes up by one at each member.        *)
LEMMA UpToStep ==
    ASSUME NEW n \in Nat, NEW S \in SUBSET (1..n), NEW m \in Nat
    PROVE  /\ IsFiniteSet(UpTo(S, m)) /\ Cardinality(UpTo(S, m)) \in Nat
           /\ Cardinality(UpTo(S, m + 1)) =
                IF m + 1 \in S THEN Cardinality(UpTo(S, m)) + 1
                               ELSE Cardinality(UpTo(S, m))
<1>0. \A j \in S : j \in Nat /\ 1 <= j /\ j <= n
  OBVIOUS
<1>1. IsFiniteSet(1..n)
  BY FS_Interval
<1>2. UpTo(S, m) \in SUBSET (1..n)
  BY <1>0 DEF UpTo
<1>3. IsFiniteSet(UpTo(S, m)) /\ Cardinality(UpTo(S, m)) \in Nat
  BY <1>1, <1>2, FS_Subset, FS_CardinalityType
<1>4. CASE m + 1 \in S
  <2>1. UpTo(S, m + 1) = UpTo(S, m) \cup {m + 1} /\ m + 1 \notin UpTo(S, m)
    <3>1. \A j \in S : j <= m + 1 <=> (j <= m \/ j = m + 1)
      BY <1>0
    <3>2. ~ (m + 1 <= m)
      OBVIOUS
    <3> QED
      BY <1>4, <3>1, <3>2, Zenon DEF UpTo
  <2>2. Cardinality(UpTo(S, m) \cup {m + 1}) = Cardinality(UpTo(S, m)) + 1
    BY <1>3, <2>1, FS_AddElement
  <2> QED
    BY <1>3, <1>4, <2>1, <2>2
<1>5. CASE m + 1 \notin S
  <2>1. UpTo(S, m + 1) = UpTo(S, m)
    <3>1. \A j \in S : j <= m + 1 <=> j <= m
      BY <1>0, <1>5
    <3> QED
      BY <3>1, Zenon DEF UpTo
  <2> QED
    BY <1>3, <1>5, <2>1
<1> QED
  BY <1>4, <1>5

(* NthOf(S, k) is well defined: a finite set of positions has a k-th       *)
(* member for every k up to its size (what Keep, and so LoadTerms, the     *)
(* in-batch de-dup of turbo_ingest and audit_sweep rely on).               *)
LEMMA NthOfType ==
    ASSUME NEW n \in Nat, NEW S \in SUBSET (1..n), NEW k \in 1..Cardinality(S)
    PROVE  NthOf(S, k) \in S /\ Cardinality(UpTo(S, NthOf(S, k))) = k
<1>0. \A j \in S : j \in Nat /\ 1 <= j /\ j <= n
  OBVIOUS
<1> DEFINE c(m) == Cardinality(UpTo(S, m))
           Enough == {m \in Nat : c(m) >= k}
<1>1. \A m \in Nat : c(m) \in Nat
  BY UpToStep
<1>2. c(0) = 0
  <2>1. UpTo(S, 0) = {}
    <3>1. \A j \in S : ~ (j <= 0)
      BY <1>0
    <3> QED
      BY <3>1, Zenon DEF UpTo
  <2> QED
    BY <2>1, FS_EmptySet
<1>3. UpTo(S, n) = S
  <2>1. \A j \in S : j <= n
    BY <1>0
  <2> QED
    BY <2>1, Zenon DEF UpTo
<1>4. n \in Enough
  <2>1. c(n) = Cardinality(S)
    BY <1>3
  <2>2. Cardinality(S) >= k
    BY <1>1, <2>1
  <2> QED
    BY <2>1, <2>2
<1>5. PICK m \in Enough : \A j \in Enough : m <= j
  <2>1. Enough \in SUBSET Nat /\ Enough # {}
    BY <1>4
  <2> QED
    BY <2>1, LeastNat
<1>6. \A j \in Enough : ~ (j < m)
  BY <1>5
<1>7. m # 0
  BY <1>1, <1>2
<1>8. PICK l \in Nat : m = l + 1
  <2>1. m \in Nat /\ m - 1 \in Nat /\ m = (m - 1) + 1
    BY <1>7
  <2> QED
    BY <2>1
<1>9. c(l) < k
  BY <1>1, <1>6, <1>8
<1>10. m \in S /\ c(m) = k
  <2>1. c(l + 1) = IF l + 1 \in S THEN c(l) + 1 ELSE c(l)
    BY <1>8, UpToStep
  <2>2. c(m) >= k
    OBVIOUS
  <2> QED
    BY <1>1, <1>8, <1>9, <2>1, <2>2
<1>11. \E i \in S : Cardinality({j \in S : j <= i}) = k
  BY <1>10 DEF UpTo
<1> QED
  BY <1>11 DEF NthOf, UpTo

(* Keep of a sequence is a sequence of some of its elements. *)
LEMMA KeepType ==
    ASSUME NEW T, NEW q \in Seq(T), NEW S \in SUBSET (DOMAIN q)
    PROVE  /\ Keep(q, S) \in Seq(T)
           /\ \A k \in DOMAIN Keep(q, S) : \E i \in S : Keep(q, S)[k] = q[i]
           /\ Len(Keep(q, S)) = Cardinality(S)
<1>1. Len(q) \in Nat /\ DOMAIN q = 1..Len(q)
  OBVIOUS
<1>2. IsFiniteSet(S) /\ Cardinality(S) \in Nat /\ Cardinality(DOMAIN q) = Len(q)
  <2>1. IsFiniteSet(1..Len(q))
    BY <1>1, FS_Interval
  <2>2. Cardinality(1..Len(q)) = IF 1 > Len(q) THEN 0 ELSE Len(q) - 1 + 1
    BY <1>1, FS_Interval
  <2>3. IsFiniteSet(S) /\ Cardinality(S) \in Nat
    BY <1>1, <2>1, FS_Subset, FS_CardinalityType
  <2> QED
    BY <1>1, <2>2, <2>3
<1>3. CASE S = DOMAIN q
  BY <1>1, <1>2, <1>3 DEF Keep
<1>4. CASE S # DOMAIN q
  <2>1. Keep(q, S) = [k \in 1..Cardinality(S) |-> q[NthOf(S, k)]]
    BY <1>4 DEF Keep
  <2>2. \A k \in 1..Cardinality(S) : NthOf(S, k) \in S
    BY <1>1, NthOfType
  <2>3. \A k \in 1..Cardinality(S) : q[NthOf(S, k)] \in T
    BY <1>1, <2>2
  <2> QED
    BY <1>2, <2>1, <2>2, <2>3
<1> QED
  BY <1>3, <1>4
-----------------------------------------------------------------------------
(* The dictionary *)

(* The terms of a batch are finitely many terms. *)
LEMMA TermsOfFinite ==
    ASSUME NEW batch \in Seq(Fact)
    PROVE  IsFiniteSet(TermsOf(batch)) /\ TermsOf(batch) \subseteq Term
<1>1. Len(batch) \in Nat /\ DOMAIN batch = 1..Len(batch)
  OBVIOUS
<1>2. \A i \in DOMAIN batch : batch[i] \in Term \X Term \X Term
  BY FactAssumption
<1>3. \A i \in DOMAIN batch, j \in 1..3 : batch[i][j] \in Term
  <2> TAKE i \in DOMAIN batch, j \in 1..3
  <2>1. j = 1 \/ j = 2 \/ j = 3
    OBVIOUS
  <2> QED
    BY <1>2, <2>1
<1> DEFINE D == (1..Len(batch)) \X (1..3)
           f == [x \in D |-> batch[x[1]][x[2]]]
<1>4. IsFiniteSet(D)
  <2>1. IsFiniteSet(1..Len(batch))
    BY <1>1, FS_Interval
  <2>2. IsFiniteSet(1..3)
    <3>1. \A n \in Nat : IsFiniteSet(1..n)
      BY FS_Interval
    <3> QED
      BY <3>1
  <2> QED
    BY <2>1, <2>2, FS_Product
<1>5. f \in Surjection(D, TermsOf(batch))
  <2>1. \A x \in D : x[1] \in DOMAIN batch /\ x[2] \in 1..3
    BY <1>1
  <2>2. f \in [D -> TermsOf(batch)]
    BY <2>1 DEF TermsOf
  <2>3. \A t \in TermsOf(batch) : \E x \in D : f[x] = t
    <3> TAKE t \in TermsOf(batch)
    <3>1. PICK i \in DOMAIN batch, j \in 1..3 : t = batch[i][j]
      BY DEF TermsOf
    <3>2. <<i, j>> \in D /\ f[<<i, j>>] = t
      BY <1>1, <3>1
    <3> QED
      BY <3>2
  <2> QED
    BY <2>2, <2>3 DEF Surjection
<1>6. IsFiniteSet(TermsOf(batch))
  BY <1>4, <1>5, FS_Surjection
<1> QED
  BY <1>3, <1>6 DEF TermsOf

(* An order given to finitely many new terms is a sequence that has them   *)
(* all.                                                                    *)
LEMMA OrderingsType ==
    ASSUME NEW S \in SUBSET Term, IsFiniteSet(S), NEW q \in Orderings(S)
    PROVE  q \in Seq(Term) /\ Ran(q) = S
<1>1. Cardinality(S) \in Nat
  BY FS_CardinalityType
<1>2. q \in [1..Cardinality(S) -> S] /\ \A t \in S : \E i \in DOMAIN q : q[i] = t
  BY DEF Orderings
<1>3. q \in [1..Cardinality(S) -> Term]
  BY <1>2
<1> QED
  BY <1>1, <1>2, <1>3 DEF Ran

LEMMA InternType ==
    ASSUME NEW dict \in Seq(Term), NEW t \in Term
    PROVE  /\ Intern(dict, t) \in Seq(Term)
           /\ Ran(Intern(dict, t)) = Ran(dict) \cup {t}
<1>1. CASE t \in Ran(dict)
  BY <1>1 DEF Intern
<1>2. CASE t \notin Ran(dict)
  <2>1. Intern(dict, t) = Append(dict, t)
    BY <1>2 DEF Intern
  <2>2. /\ Append(dict, t) \in Seq(Term)
        /\ DOMAIN Append(dict, t) = 1..(Len(dict) + 1)
        /\ Append(dict, t)[Len(dict) + 1] = t
        /\ \A i \in 1..Len(dict) : Append(dict, t)[i] = dict[i]
    OBVIOUS
  <2>3. DOMAIN dict = 1..Len(dict) /\ Len(dict) \in Nat
    OBVIOUS
  <2>4. 1..(Len(dict) + 1) = (1..Len(dict)) \cup {Len(dict) + 1}
    BY <2>3
  <2> DEFINE q == Append(dict, t)
  <2>5. \A i \in 1..Len(dict) : i # Len(dict) + 1
    BY <2>3
  <2>6. Ran(q) = {q[i] : i \in 1..Len(dict)} \cup {q[Len(dict) + 1]}
    BY <2>2, <2>4 DEF Ran
  <2>7. {q[i] : i \in 1..Len(dict)} = Ran(dict)
    BY <2>2, <2>3 DEF Ran
  <2> QED
    BY <2>1, <2>2, <2>6, <2>7
<1> QED
  BY <1>1, <1>2

(* After an add, the dictionary has the three terms of the fact.           *)
LEMMA InternFactType ==
    ASSUME NEW dict \in Seq(Term), NEW f \in Fact
    PROVE  /\ InternFact(dict, f) \in Seq(Term)
           /\ Ran(InternFact(dict, f)) = Ran(dict) \cup {f[1], f[2], f[3]}
<1>1. f[1] \in Term /\ f[2] \in Term /\ f[3] \in Term
  BY FactAssumption
<1> DEFINE d1 == Intern(dict, f[1])
           d2 == Intern(d1, f[2])
           d3 == Intern(d2, f[3])
<1>2. d1 \in Seq(Term) /\ Ran(d1) = Ran(dict) \cup {f[1]}
  BY <1>1, InternType
<1>3. d2 \in Seq(Term) /\ Ran(d2) = Ran(d1) \cup {f[2]}
  BY <1>1, <1>2, InternType
<1>4. d3 \in Seq(Term) /\ Ran(d3) = Ran(d2) \cup {f[3]}
  BY <1>1, <1>3, InternType
<1>5. InternFact(dict, f) = d3
  BY DEF InternFact
<1> QED
  BY <1>2, <1>3, <1>4, <1>5

LEMMA IdOfType ==
    ASSUME NEW dict \in Seq(Term), NEW t \in Ran(dict)
    PROVE  IdOf(dict, t) \in Nat /\ TermOf(dict, IdOf(dict, t)) = t
<1> DEFINE c == CHOOSE i \in DOMAIN dict : dict[i] = t
<1>1. c \in DOMAIN dict /\ dict[c] = t
  BY DEF Ran
<1>2. DOMAIN dict = 1..Len(dict) /\ Len(dict) \in Nat
  OBVIOUS
<1>3. IdOf(dict, t) = c - 1
  BY DEF IdOf
<1> HIDE DEF c
<1>4. c - 1 \in Nat /\ (c - 1) + 1 = c
  BY <1>1, <1>2
<1> QED
  BY <1>1, <1>3, <1>4 DEF TermOf

(* A row spelled with a dictionary that has the fact's terms spells the    *)
(* fact when it is read back with that dictionary.                         *)
LEMMA RowSpellsFact ==
    ASSUME NEW dict \in Seq(Term), NEW f \in Fact, NEW src \in Nat,
           {f[1], f[2], f[3]} \subseteq Ran(dict)
    PROVE  /\ Row(dict, f, src) \in RowType
           /\ FactOf(dict, Row(dict, f, src).s, Row(dict, f, src).p,
                     Row(dict, f, src).o) = f
<1>1. f = <<f[1], f[2], f[3]>>
  BY FactAssumption
<1>2. /\ IdOf(dict, f[1]) \in Nat /\ IdOf(dict, f[2]) \in Nat /\ IdOf(dict, f[3]) \in Nat
      /\ TermOf(dict, IdOf(dict, f[1])) = f[1]
      /\ TermOf(dict, IdOf(dict, f[2])) = f[2]
      /\ TermOf(dict, IdOf(dict, f[3])) = f[3]
  BY IdOfType
<1> QED
  BY <1>1, <1>2 DEF Row, RowType, FactOf

LEMMA TriKeyType ==
    ASSUME NEW s \in Nat, NEW p \in Nat, NEW o \in Nat
    PROVE  TriKey(s, p, o) \in Nat
<1>1. KeyBase \in Nat
  BY BoundAssumption
<1>2. \A x, y \in Nat : x * y \in Nat
  OBVIOUS
<1>3. s * KeyBase + p \in Nat
  BY <1>1, <1>2
<1> QED
  BY <1>1, <1>2, <1>3 DEF TriKey

LEMMA LoadTermsType ==
    ASSUME NEW dict \in Seq(Term)
    PROVE  LoadTerms(dict) \in Seq(Term)
<1> DEFINE S == {i \in DOMAIN dict : i = 1 \/ dict[i] # Blank}
<1>1. S \in SUBSET DOMAIN dict
  OBVIOUS
<1>2. Keep(dict, S) \in Seq(Term)
  BY <1>1, KeepType
<1> QED
  BY <1>2 DEF LoadTerms

LEMMA TermOfType ==
    ASSUME NEW dict \in Seq(Term), NEW id
    PROVE  TermOf(dict, id) \in Term
BY TermAssumption DEF TermOf

LEMMA StoredFactsType ==
    ASSUME termsFile \in Seq(Term)
    PROVE  StoredFacts \in SUBSET (Term \X Term \X Term)
<1>1. LoadTerms(termsFile) \in Seq(Term)
  BY LoadTermsType
<1> DEFINE dict == LoadTerms(termsFile)
<1> HIDE DEF dict
<1>2. \A x, y, z : FactOf(dict, x, y, z) \in Term \X Term \X Term
  <2>1. \A x : TermOf(dict, x) \in Term
    BY <1>1, TermOfType DEF dict
  <2> QED
    BY <2>1 DEF FactOf
<1>3. StoredFacts =
        {FactOf(dict, col["s"][i], col["p"][i], col["o"][i]) : i \in 1..Len(col["o"])}
  BY DEF StoredFacts, dict
<1> QED
  BY <1>2, <1>3
-----------------------------------------------------------------------------
(* Types *)

LEMMA BufColType ==
    ASSUME buf \in Seq(RowType), NEW c \in Column
    PROVE  BufCol(c) \in Seq(Nat) /\ Len(BufCol(c)) = Len(buf)
<1>1. Len(buf) \in Nat /\ \A i \in 1..Len(buf) : buf[i] \in RowType
  OBVIOUS
<1>2. \A row \in RowType : row[c] \in Nat
  BY DEF RowType, Column
<1>3. \A i \in 1..Len(buf) : buf[i][c] \in Nat
  BY <1>1, <1>2
<1> QED
  BY <1>1, <1>3 DEF BufCol

LEMMA BufOriginType ==
    ASSUME buf \in Seq(RowType), opens \in Nat
    PROVE  BufOrigin \in Seq([src : Nat, run : Nat]) /\ Len(BufOrigin) = Len(buf)
<1>1. Len(buf) \in Nat /\ \A i \in 1..Len(buf) : buf[i] \in RowType
  OBVIOUS
<1>2. \A i \in 1..Len(buf) : buf[i].src \in Nat
  BY <1>1 DEF RowType
<1> QED
  BY <1>1, <1>2 DEF BufOrigin

LEMMA ZerosType ==
    ASSUME NEW n \in Nat
    PROVE  Zeros(n) \in Seq(Nat) /\ Len(Zeros(n)) = n
BY DEF Zeros

LEMMA FirstCopiesType ==
    ASSUME col \in [Column -> Seq(Nat)]
    PROVE  FirstCopies \in SUBSET (1..Rows) /\ Rows \in Nat
BY DEF FirstCopies, Firsts, Rows, Column

(* The batch without its own duplicates is a batch. *)
LEMMA DistinctType ==
    ASSUME NEW batch \in Seq(Fact)
    PROVE  Distinct(batch) \in Seq(Fact)
           /\ \A k \in DOMAIN Distinct(batch) :
                \E i \in DOMAIN batch : Distinct(batch)[k] = batch[i]
<1>1. Firsts(batch) \in SUBSET DOMAIN batch
  BY DEF Firsts
<1> QED
  BY <1>1, KeepType, Zenon DEF Distinct

LEMMA SweptRowsType ==
    ASSUME col \in [Column -> Seq(Nat)], Len(col["p"]) >= Rows, Len(col["o"]) >= Rows
    PROVE  SweptRows \in Seq(RowType) /\ Len(SweptRows) = Cardinality(FirstCopies)
<1> DEFINE q == [i \in 1..Rows |-> RowAt(i)]
<1>1. /\ col["s"] \in Seq(Nat) /\ col["p"] \in Seq(Nat)
      /\ col["o"] \in Seq(Nat) /\ col["src"] \in Seq(Nat)
  BY DEF Column
<1>0. /\ Len(col["s"]) \in Nat /\ Len(col["p"]) \in Nat
      /\ Len(col["o"]) \in Nat /\ Len(col["src"]) \in Nat
  BY <1>1
<1>2. \A i \in 1..Rows : RowAt(i) \in RowType
  <2> TAKE i \in 1..Rows
  <2>1. i \in Nat /\ 1 <= i /\ i <= Len(col["s"]) /\ i <= Len(col["p"]) /\ i <= Len(col["o"])
    BY <1>0 DEF Rows
  <2>2. col["s"][i] \in Nat /\ col["p"][i] \in Nat /\ col["o"][i] \in Nat
    <3>1. i \in 1..Len(col["s"]) /\ i \in 1..Len(col["p"]) /\ i \in 1..Len(col["o"])
      BY <1>0, <2>1
    <3> QED
      BY <1>1, <3>1, ElementOfSeq
  <2>3. SrcAt(i) \in Nat
    BY <1>1, <2>1 DEF SrcAt
  <2> QED
    BY <2>2, <2>3 DEF RowAt, RowType
<1>3. q \in Seq(RowType) /\ DOMAIN q = 1..Rows
  BY <1>1, <1>2 DEF Rows
<1>4. FirstCopies \in SUBSET DOMAIN q
  BY <1>3, FirstCopiesType
<1> HIDE DEF q
<1>5. Keep(q, FirstCopies) \in Seq(RowType)
      /\ Len(Keep(q, FirstCopies)) = Cardinality(FirstCopies)
  BY <1>3, <1>4, KeepType
<1> QED
  BY <1>5 DEF SweptRows, q

(* The inductive form of TypeOK: a sweep rewrites the history by the rows  *)
(* it keeps, so there is one entry per row, and a sweep holds one row per  *)
(* first copy until it has rewritten s.col.                                *)
TypeInv ==
    /\ TypeOK
    /\ Len(origin) = Rows
    /\ pc = "audit_s" => Len(buf) = Cardinality(FirstCopies)

LEMMA InitType == Init => TypeInv
<1> SUFFICES ASSUME Init PROVE TypeInv
  OBVIOUS
<1>1. PICK old \in Legacy \cup {<<>>} : \E dict \in Orderings(TermsOf(old)) :
        /\ termsFile = dict
        /\ col = [c \in Column |->
                    IF c = "src" THEN <<>>
                    ELSE [i \in 1..Len(old) |-> Row(dict, old[i], 0)[c]]]
        /\ meta = MetaOf(Len(old), 0, FALSE)
        /\ origin = [i \in 1..Len(old) |-> LegacyOrigin]
  BY DEF Init
<1>2. old \in Seq(Fact) /\ Len(old) \in Nat
  <2>1. <<>> \in Seq(Fact)
    BY EmptySeq
  <2>2. old \in Seq(Fact)
    BY <2>1, LegacyAssumption, Zenon
  <2> QED
    BY <2>2
<1>3. IsFiniteSet(TermsOf(old)) /\ TermsOf(old) \in SUBSET Term
  BY <1>2, TermsOfFinite
<1>4. termsFile \in Seq(Term) /\ Ran(termsFile) = TermsOf(old)
  BY <1>1, <1>3, OrderingsType
<1>5. \A i \in 1..Len(old) : Row(termsFile, old[i], 0) \in RowType
  <2> TAKE i \in 1..Len(old)
  <2>1. old[i] \in Fact /\ {old[i][1], old[i][2], old[i][3]} \subseteq TermsOf(old)
    BY <1>2 DEF TermsOf
  <2> QED
    BY <1>4, <2>1, RowSpellsFact
<1>6. \A c \in Column : col[c] \in Seq(Nat)
  <2> TAKE c \in Column
  <2>1. \A row \in RowType : row[c] \in Nat
    BY DEF RowType, Column
  <2>2. \A i \in 1..Len(old) : Row(termsFile, old[i], 0)[c] \in Nat
    BY <1>5, <2>1
  <2>3. [i \in 1..Len(old) |-> Row(termsFile, old[i], 0)[c]] \in Seq(Nat)
    BY <1>2, <2>2
  <2> QED
    BY <1>1, <2>3
<1>7. col \in [Column -> Seq(Nat)] /\ Rows = Len(old)
  BY <1>1, <1>2, <1>6 DEF Rows, Column
<1>8. origin \in Seq([src : Nat, run : Nat]) /\ Len(origin) = Len(old)
  BY <1>1, <1>2 DEF LegacyOrigin
<1>9. meta \in [count : Nat, index : Nat, audit : BOOLEAN]
  BY <1>1, <1>2 DEF MetaOf
<1>10. rd \in Reader
  BY DEF Init, NoReader, Reader
<1>11. /\ gens = <<>> /\ sorts = <<>> /\ tomb = {} /\ i2s = <<>> /\ buf = <<>> /\ seen = {}
       /\ count = 0 /\ written = -1 /\ indexTs = 0 /\ pc = "down" /\ mode = "flush"
       /\ opens = 0
  BY DEF Init
<1> QED
  BY <1>4, <1>7, <1>8, <1>9, <1>10, <1>11, BoundAssumption DEF TypeInv, TypeOK, PC

LEMMA ConcatLen ==
    ASSUME NEW T, NEW q1 \in Seq(T), NEW q2 \in Seq(T)
    PROVE  q1 \o q2 \in Seq(T) /\ Len(q1 \o q2) = Len(q1) + Len(q2)
OBVIOUS

(* A longer dictionary keeps its terms. *)
LEMMA RanConcat ==
    ASSUME NEW q1 \in Seq(Term), NEW q2 \in Seq(Term)
    PROVE  q1 \o q2 \in Seq(Term) /\ Ran(q1) \cup Ran(q2) \subseteq Ran(q1 \o q2)
<1>1. /\ q1 \o q2 \in Seq(Term) /\ Len(q1) \in Nat /\ Len(q2) \in Nat
      /\ DOMAIN q1 = 1..Len(q1) /\ DOMAIN q2 = 1..Len(q2)
      /\ DOMAIN (q1 \o q2) = 1..(Len(q1) + Len(q2))
  OBVIOUS
<1>2. \A i \in DOMAIN q1 : i \in DOMAIN (q1 \o q2) /\ (q1 \o q2)[i] = q1[i]
  BY <1>1
<1>3. \A i \in DOMAIN q2 :
        Len(q1) + i \in DOMAIN (q1 \o q2) /\ (q1 \o q2)[Len(q1) + i] = q2[i]
  BY <1>1
<1> QED
  BY <1>1, <1>2, <1>3, Zenon DEF Ran

(* Appending the buffer to s.col adds one row per buffered row. *)
LEMMA AppendedRows ==
    ASSUME col \in [Column -> Seq(Nat)], buf \in Seq(RowType)
    PROVE  Len(col["s"] \o BufCol("s")) = Len(col["s"]) + Len(buf)
<1>1. BufCol("s") \in Seq(Nat) /\ Len(BufCol("s")) = Len(buf)
  BY BufColType DEF Column
<1>2. col["s"] \in Seq(Nat)
  BY DEF Column
<1>3. Len(col["s"] \o BufCol("s")) = Len(col["s"]) + Len(BufCol("s"))
  BY <1>1, <1>2, ConcatProperties, Zenon
<1> QED
  BY <1>1, <1>3

(* Appending to a column file keeps the types, and one history entry per row. *)
LEMMA AppendColType ==
    ASSUME TypeInv, NEW c \in Column, NEW next \in PC,
           AppendCol(c, next), next # "audit_s"
    PROVE  TypeInv'
<1>1. BufCol(c) \in Seq(Nat) /\ Len(BufCol(c)) = Len(buf) /\ Len(buf) \in Nat
  BY BufColType DEF TypeInv, TypeOK
<1>2. BufOrigin \in Seq([src : Nat, run : Nat]) /\ Len(BufOrigin) = Len(buf)
  BY BufOriginType, BoundAssumption DEF TypeInv, TypeOK
<1>3. col \in [Column -> Seq(Nat)] /\ origin \in Seq([src : Nat, run : Nat])
      /\ Len(origin) = Len(col["s"])
  BY DEF TypeInv, TypeOK, Rows
<1>4. col' = [col EXCEPT ![c] = col[c] \o BufCol(c)] /\ pc' = next
  BY DEF AppendCol
<1>5. col' \in [Column -> Seq(Nat)]
  <2>1. col[c] \o BufCol(c) \in Seq(Nat)
    BY <1>1, <1>3
  <2> QED
    BY <1>3, <1>4, <2>1
<1>6. origin' \in Seq([src : Nat, run : Nat]) /\ Len(origin') = Rows'
  <2>1. CASE c = "s"
    <3>1. origin' = origin \o BufOrigin /\ col'["s"] = col["s"] \o BufCol("s")
      BY <1>3, <1>4, <2>1 DEF AppendCol, Column
    <3>2. col["s"] \in Seq(Nat)
      BY <1>3 DEF Column
    <3>3. BufCol("s") \in Seq(Nat) /\ Len(BufCol("s")) = Len(buf)
      BY <1>1, <2>1
    <3>5. Len(col["s"] \o BufCol("s")) = Len(col["s"]) + Len(buf)
      BY <3>2, <3>3, ConcatLen
    <3>4. /\ origin \o BufOrigin \in Seq([src : Nat, run : Nat])
          /\ Len(origin \o BufOrigin) = Len(origin) + Len(buf)
      <4> DEFINE T == [src : Nat, run : Nat]
      <4>1. origin \in Seq(T) /\ BufOrigin \in Seq(T)
        BY <1>2, <1>3
      <4> HIDE DEF T
      <4>2. /\ origin \o BufOrigin \in Seq(T)
            /\ Len(origin \o BufOrigin) = Len(origin) + Len(BufOrigin)
        BY <4>1, ConcatLen
      <4> QED
        BY <1>2, <4>2 DEF T
    <3> QED
      BY <1>3, <3>1, <3>4, <3>5 DEF Rows
  <2>2. CASE c # "s"
    BY <1>3, <1>4, <2>2 DEF AppendCol, Rows, Column
  <2> QED
    BY <2>1, <2>2
<1> QED
  BY <1>4, <1>5, <1>6 DEF TypeInv, TypeOK, AppendCol, ram, vars, disk

(* A sweep rewrites a column file with the rows it keeps.                  *)
LEMMA RewriteColType ==
    ASSUME TypeInv, NEW at \in PC, NEW c \in Column, NEW next \in PC \ {"audit_s"},
           RewriteCol(at, c, next), c = "s" => at = "audit_s"
    PROVE  TypeInv'
<1>1. BufCol(c) \in Seq(Nat) /\ Len(BufCol(c)) = Len(buf) /\ Len(buf) \in Nat
  BY BufColType DEF TypeInv, TypeOK
<1>2. /\ col \in [Column -> Seq(Nat)] /\ origin \in Seq([src : Nat, run : Nat])
      /\ Len(origin) = Rows
  BY DEF TypeInv, TypeOK
<1>3. col' = [col EXCEPT ![c] = BufCol(c)] /\ pc = at /\ pc' = next
  BY DEF RewriteCol
<1>4. col' \in [Column -> Seq(Nat)]
  BY <1>1, <1>2, <1>3
<1>5. origin' \in Seq([src : Nat, run : Nat]) /\ Len(origin') = Rows'
  <2>1. CASE c = "s"
    <3> DEFINE T == [src : Nat, run : Nat]
    <3>1. origin' = Keep(origin, FirstCopies) /\ Rows' = Len(buf)
      BY <1>1, <1>2, <1>3, <2>1 DEF RewriteCol, Rows, Column
    <3>2. origin \in Seq(T) /\ DOMAIN origin = 1..Rows
      BY <1>2
    <3>3. FirstCopies \in SUBSET DOMAIN origin
      BY <1>2, <3>2, FirstCopiesType
    <3>4. Len(buf) = Cardinality(FirstCopies)
      BY <1>3, <2>1 DEF TypeInv
    <3> HIDE DEF T
    <3>5. /\ Keep(origin, FirstCopies) \in Seq(T)
          /\ Len(Keep(origin, FirstCopies)) = Cardinality(FirstCopies)
      BY <3>2, <3>3, KeepType
    <3> QED
      BY <3>1, <3>4, <3>5 DEF T
  <2>2. CASE c # "s"
    BY <1>2, <1>3, <2>2 DEF RewriteCol, Rows, Column
  <2> QED
    BY <2>1, <2>2
<1> QED
  BY <1>3, <1>4, <1>5 DEF TypeInv, TypeOK, RewriteCol, ram, vars, disk

(* Every step keeps every file and field within its type.                  *)
LEMMA TypeStep == TypeInv /\ [Next]_vars => TypeInv'
<1> SUFFICES ASSUME TypeInv, [Next]_vars PROVE TypeInv'
  OBVIOUS
<1> USE DEF TypeInv
<1>1. CASE Open
  <2>1. i2s' \in Seq(Term)
    BY <1>1, LoadTermsType DEF Open, TypeOK
  <2>2. opens' \in 0..MaxOpens
    BY <1>1, BoundAssumption DEF Open, TypeOK
  <2> QED
    BY <1>1, <2>1, <2>2 DEF Open, TypeOK, disk, Rows, PC
<1>2. CASE Crash
  BY <1>2 DEF Crash, TypeOK, disk, Rows, PC
<1>3. ASSUME NEW f \in Fact, NEW src \in Source \cup {0}, AddNew(f, src)
      PROVE TypeInv'
  <2> DEFINE dict == InternFact(i2s, f)
             row  == Row(dict, f, src)
  <2>1. dict \in Seq(Term) /\ {f[1], f[2], f[3]} \subseteq Ran(dict)
    BY InternFactType DEF TypeOK
  <2>2. src \in Nat
    BY SourceAssumption
  <2>3. row \in RowType
    BY <2>1, <2>2, RowSpellsFact
  <2>4. TriKey(row.s, row.p, row.o) \in Nat
    BY <2>3, TriKeyType DEF RowType
  <2>5. /\ i2s' = dict /\ seen' = seen \cup {TriKey(row.s, row.p, row.o)}
        /\ buf' = Append(buf, row) /\ count' = count + 1 /\ pc = "idle"
        /\ pc' \in {"idle", "terms"} /\ mode' = "flush"
    BY <1>3 DEF AddNew
  <2> HIDE DEF dict, row
  <2>6. buf' \in Seq(RowType)
    BY <2>3, <2>5 DEF TypeOK
  <2>7. seen' \subseteq Nat /\ count' \in Nat
    <3>1. seen \subseteq Nat /\ count \in Nat
      BY DEF TypeOK
    <3>2. seen' \subseteq Nat
      BY <2>4, <2>5, <3>1, Zenon
    <3>3. count' \in Nat
      BY <2>5, <3>1
    <3> QED
      BY <3>2, <3>3
  <2>8. pc' \in PC /\ pc' # "audit_s"
    BY <2>5 DEF PC, FlushPC
  <2>9. UNCHANGED <<termsFile, col, meta, gens, sorts, tomb, written, indexTs, opens, rd, origin>>
    BY <1>3 DEF AddNew, disk
  <2> QED
    BY <2>1, <2>5, <2>6, <2>7, <2>8, <2>9 DEF TypeOK, Rows
<1>4. ASSUME NEW f \in Fact, AddDuplicate(f)
      PROVE TypeInv'
  <2>1. i2s' \in Seq(Term)
    BY <1>4, InternFactType DEF AddDuplicate, TypeOK
  <2> QED
    BY <1>4, <2>1 DEF AddDuplicate, TypeOK, disk, Rows
<1>5. CASE FlushStart
  BY <1>5 DEF FlushStart, TypeOK, Rows, PC, FlushPC
<1>6. CASE FlushEmpty
  BY <1>6 DEF FlushEmpty, MetaOf, TypeOK, Rows
<1>7. CASE Backfill
  <2>1. col["src"] \in Seq(Nat) /\ Max2(Rows - Len(col["src"]), 0) \in Nat
    <3>1. col["src"] \in Seq(Nat) /\ col["s"] \in Seq(Nat)
      BY DEF TypeOK, Column
    <3>2. Len(col["src"]) \in Nat /\ Rows \in Nat
      BY <3>1 DEF Rows
    <3> QED
      BY <3>1, <3>2 DEF Max2
  <2>2. col["src"] \o Zeros(Max2(Rows - Len(col["src"]), 0)) \in Seq(Nat)
    BY <2>1, ZerosType, ConcatLen
  <2>3. col' \in [Column -> Seq(Nat)] /\ col'["s"] = col["s"]
    BY <1>7, <2>2 DEF Backfill, TypeOK, Column
  <2> QED
    BY <1>7, <2>3 DEF Backfill, TypeOK, ram, Rows, PC, FlushPC
<1>8. CASE AppendColumns
  BY <1>8, AppendColType DEF AppendColumns, Column, PC, FlushPC
<1>9. CASE FinishWrite
  <2>1. count' \in Nat
    BY <1>9 DEF FinishWrite, TypeOK
  <2> QED
    BY <1>9, <2>1 DEF FinishWrite, MetaOf, TypeOK, Rows, PC
<1>10. ASSUME NEW batch \in TurboBatch, NEW src \in Source \cup {0}, Turbo(batch, src)
       PROVE TypeInv'
  <2>1. batch \in Seq(Fact) /\ src \in Nat
    BY BatchAssumption, SourceAssumption
  <2> DEFINE kept == Distinct(batch)
  <2>2. kept \in Seq(Fact)
        /\ \A k \in DOMAIN kept : \E i \in DOMAIN batch : kept[k] = batch[i]
    BY <2>1, DistinctType
  <2>3. PICK new \in Orderings(TermsOf(batch) \ Ran(i2s)) :
          /\ i2s' = i2s \o new /\ termsFile' = i2s \o new
          /\ buf' = [i \in DOMAIN kept |-> Row(i2s \o new, kept[i], src)]
    BY <1>10 DEF Turbo
  <2>4. new \in Seq(Term) /\ Ran(new) = TermsOf(batch) \ Ran(i2s)
    <3>1. TermsOf(batch) \ Ran(i2s) \in SUBSET Term
          /\ IsFiniteSet(TermsOf(batch) \ Ran(i2s))
      BY <2>1, TermsOfFinite, FS_Subset
    <3> QED
      BY <3>1, OrderingsType
  <2>5. i2s \o new \in Seq(Term) /\ TermsOf(batch) \subseteq Ran(i2s \o new)
    BY <2>4, RanConcat DEF TypeOK
  <2>6. \A k \in DOMAIN kept : Row(i2s \o new, kept[k], src) \in RowType
    <3> TAKE k \in DOMAIN kept
    <3>1. kept[k] \in Fact
      BY <2>2
    <3>2. {kept[k][1], kept[k][2], kept[k][3]} \subseteq TermsOf(batch)
      BY <2>2 DEF TermsOf
    <3> QED
      BY <2>1, <2>5, <3>1, <3>2, RowSpellsFact
  <2> HIDE DEF kept
  <2>7. buf' \in Seq(RowType)
    BY <2>2, <2>3, <2>6
  <2> QED
    BY <1>10, <2>3, <2>5, <2>7 DEF Turbo, TypeOK, Rows, PC, FlushPC
<1>11. ASSUME NEW f \in Retractable, Retract(f)
       PROVE TypeInv'
  BY <1>11, BoundAssumption DEF Retract, TypeOK, ram, Rows
<1>12. ASSUME NEW ts \in 1..MaxGen, RebuildStart(ts)
       PROVE TypeInv'
  <2>1. col["s"] \in Seq(Nat)
    BY DEF TypeOK, Column
  <2>2. DOMAIN gens' \subseteq 1..MaxGen /\ \A t \in DOMAIN gens' : gens'[t] \in Seq(Nat)
    BY <1>12, <2>1 DEF RebuildStart, TypeOK
  <2>4. \A t \in DOMAIN sorts' : sorts'[t] \in Seq(Nat)
    BY <1>12 DEF RebuildStart, TypeOK
  <2>3. ts \in Nat
    BY BoundAssumption
  <2> QED
    BY <1>12, <2>2, <2>3, <2>4 DEF RebuildStart, TypeOK, Rows, PC, ReindexPC
<1>13. CASE RebuildSorted
  <2>1. col["s"] \in Seq(Nat)
    BY DEF TypeOK, Column
  <2>2. \A t \in DOMAIN sorts' : sorts'[t] \in Seq(Nat)
    BY <1>13, <2>1 DEF RebuildSorted, TypeOK
  <2> QED
    BY <1>13, <2>2 DEF RebuildSorted, TypeOK, ram, Rows, PC, ReindexPC
<1>21. CASE RebuildMeta
  BY <1>21 DEF RebuildSorted, RebuildMeta, MetaOf, TypeOK, ram, Rows, PC, ReindexPC
<1>14. CASE RebuildUnlink
  BY <1>14 DEF RebuildUnlink, TypeOK, ram, Rows, PC
<1>15. CASE AuditStart
  <2>1. SweptRows \in Seq(RowType) /\ Len(SweptRows) = Cardinality(FirstCopies)
    BY <1>15, SweptRowsType DEF AuditStart, TypeOK
  <2>2. FirstCopies' = FirstCopies /\ buf' = SweptRows
    BY <1>15 DEF AuditStart, disk, FirstCopies, Triple, Rows
  <2>3. pc' \in PC /\ mode' \in {"flush", "turbo", "sweep", "clean"}
    BY <1>15 DEF AuditStart, PC, AuditPC
  <2> QED
    BY <1>15, <2>1, <2>2, <2>3 DEF AuditStart, TypeOK, disk, Rows
<1>16. CASE AuditColumns
  BY <1>16, RewriteColType DEF AuditColumns, Column, PC, AuditPC
<1>17. CASE AuditFinish
  <2>1. count' \in Nat
    BY <1>17 DEF AuditFinish, TypeOK
  <2> QED
    BY <1>17, <2>1 DEF AuditFinish, MetaOf, TypeOK, Rows, PC
<1>18. CASE ReaderOpen
  <2>1. rd' \in Reader
    BY <1>18, LoadTermsType, StoredFactsType DEF ReaderOpen, Reader, TypeOK
  <2>2. FirstCopies' = FirstCopies
    BY <1>18 DEF ReaderOpen, disk, FirstCopies, Triple, Rows
  <2> QED
    BY <1>18, <2>1, <2>2 DEF ReaderOpen, TypeOK, disk, ram, Rows
<1>19. CASE ReaderQuery
  <2>1. rd' \in Reader /\ meta' \in [count : Nat, index : Nat, audit : BOOLEAN]
    BY <1>19 DEF ReaderQuery, MetaOf, Reader, TypeOK
  <2>2. FirstCopies' = FirstCopies
    BY <1>19 DEF ReaderQuery, FirstCopies, Triple, Rows
  <2> QED
    BY <1>19, <2>1, <2>2 DEF ReaderQuery, TypeOK, ram, Rows
<1>20. CASE UNCHANGED vars
  <2>1. FirstCopies' = FirstCopies
    BY <1>20 DEF vars, disk, FirstCopies, Triple, Rows
  <2> QED
    BY <1>20, <2>1 DEF vars, disk, ram, TypeOK, Rows
<1> QED
  BY <1>1, <1>2, <1>3, <1>4, <1>5, <1>6, <1>7, <1>8, <1>9, <1>10, <1>11, <1>12, <1>13,
     <1>14, <1>15, <1>16, <1>17, <1>18, <1>19, <1>20, <1>21 DEF Next

(* Whatever is added, flushed, swept, reopened and crashed, every file and *)
(* every field of both objects keeps values of its type: no id is ever     *)
(* negative, and the dictionary holds terms only.                          *)
THEOREM TypeCorrect == Spec => []TypeOK
<1>1. TypeInv => TypeOK
  BY DEF TypeInv
<1> QED
  BY InitType, TypeStep, <1>1, PTL DEF Spec
-----------------------------------------------------------------------------
(* The row count of meta.json *)

(* How far the writer's count may be ahead of s.col: by the buffer until a *)
(* flush has appended it; a turbo batch is counted only when it ends.      *)
CountInv ==
    /\ pc \notin AuditPC
    /\ meta.count <= Rows /\ rd.count <= Rows
    /\ pc \in {"idle", "terms", "backfill"} => count <= Rows + Len(buf)
    /\ pc = "backfill" => mode # "turbo"
    /\ pc = "s" => IF mode = "turbo" THEN count <= Rows ELSE count <= Rows + Len(buf)
    /\ pc \in {"p", "o", "src", "meta"} =>
          IF mode = "turbo" THEN count + Len(buf) <= Rows ELSE count <= Rows
    /\ pc \in {"reindex_sorted", "reindex_meta", "reindex_unlink"} => count <= Rows

(* What the arithmetic below needs to know. *)
Counts == /\ Rows \in Nat /\ Len(buf) \in Nat /\ count \in Nat
          /\ meta \in [count : Nat, index : Nat, audit : BOOLEAN]
          /\ rd \in Reader

LEMMA CountsType == TypeInv => Counts
<1> SUFFICES ASSUME TypeInv PROVE Counts
  OBVIOUS
<1>1. col["s"] \in Seq(Nat) /\ buf \in Seq(RowType)
  BY DEF TypeInv, TypeOK, Column
<1>2. Rows \in Nat /\ Len(buf) \in Nat
  BY <1>1 DEF Rows
<1> QED
  BY <1>2 DEF Counts, TypeInv, TypeOK

LEMMA InitCount == Init => CountInv
<1> SUFFICES ASSUME Init PROVE CountInv
  OBVIOUS
<1>1. PICK old \in Legacy \cup {<<>>} :
        /\ \E dict \in Orderings(TermsOf(old)) :
              col = [c \in Column |->
                      IF c = "src" THEN <<>>
                      ELSE [i \in 1..Len(old) |-> Row(dict, old[i], 0)[c]]]
        /\ meta = MetaOf(Len(old), 0, FALSE)
  BY DEF Init
<1>2. Len(old) \in Nat
  <2>1. <<>> \in Seq(Fact)
    BY EmptySeq
  <2>2. old \in Seq(Fact)
    BY <2>1, LegacyAssumption, Zenon
  <2> QED
    BY <2>2
<1>3. Rows = Len(old)
  BY <1>1, <1>2 DEF Rows, Column
<1>4. pc = "down" /\ rd = NoReader
  BY DEF Init
<1> QED
  BY <1>1, <1>2, <1>3, <1>4 DEF CountInv, MetaOf, NoReader, AuditPC

(* Without a sweep, no step makes the count run ahead of the rows.         *)
LEMMA CountStep ==
    ASSUME ~AuditOn, TypeInv, CountInv, [Next]_vars
    PROVE  CountInv'
<1>0. Counts
  BY CountsType
<1>c. col \in [Column -> Seq(Nat)] /\ buf \in Seq(RowType)
  BY DEF TypeInv, TypeOK
<1> USE DEF CountInv
<1>1. CASE Open
  BY <1>0, <1>1 DEF Open, Counts, disk, Rows, AuditPC
<1>2. CASE Crash
  BY <1>0, <1>2 DEF Crash, Counts, disk, Rows, AuditPC
<1>3. ASSUME NEW f \in Fact, NEW src \in Source \cup {0}, AddNew(f, src)
      PROVE CountInv'
  <2>1. PICK row : buf' = Append(buf, row) /\ row \in RowType
    <3> DEFINE dict == InternFact(i2s, f)
    <3>1. dict \in Seq(Term) /\ {f[1], f[2], f[3]} \subseteq Ran(dict)
      BY InternFactType DEF TypeInv, TypeOK
    <3>2. src \in Nat
      BY SourceAssumption
    <3>3. Row(dict, f, src) \in RowType
      BY <3>1, <3>2, RowSpellsFact
    <3> QED
      BY <1>3, <3>3 DEF AddNew
  <2>2. Len(buf') = Len(buf) + 1
    BY <1>c, <2>1
  <2>3. /\ pc' \in {"idle", "terms"} /\ count' = count + 1 /\ pc = "idle"
        /\ UNCHANGED <<col, meta, rd>>
    BY <1>3 DEF AddNew, disk
  <2>4. count' <= Rows' + Len(buf') /\ meta'.count <= Rows' /\ rd'.count <= Rows'
    <3>1. count <= Rows + Len(buf) /\ Rows' = Rows
      BY <2>3 DEF Rows
    <3>2. count + 1 <= Rows + (Len(buf) + 1)
      BY <1>0, <3>1 DEF Counts
    <3> QED
      BY <2>2, <2>3, <3>1, <3>2
  <2> QED
    BY <2>3, <2>4 DEF AuditPC
<1>4. ASSUME NEW f \in Fact, AddDuplicate(f)
      PROVE CountInv'
  BY <1>4 DEF AddDuplicate, disk, Rows
<1>5. CASE FlushStart
  BY <1>0, <1>5 DEF FlushStart, Counts, Rows, AuditPC
<1>6. CASE FlushEmpty
  BY <1>0, <1>6 DEF FlushEmpty, MetaOf, Counts, Rows, AuditPC
<1>7. CASE Backfill
  <2>1. col'["s"] = col["s"]
    BY <1>7, <1>c DEF Backfill, Column
  <2> QED
    BY <1>0, <1>7, <2>1 DEF Backfill, ram, Counts, Rows, AuditPC
<1>8. CASE AppendColumns
  <2>1. CASE AppendCol("s", "p")
    <3>2. col'["s"] = col["s"] \o BufCol("s")
      BY <1>c, <2>1 DEF AppendCol, Column
    <3>4. Rows' = Rows + Len(buf)
      BY <1>c, <3>2, AppendedRows DEF Rows
    <3>5. /\ pc = "s" /\ pc' = "p" /\ UNCHANGED <<buf, count, meta, rd, mode>>
      BY <2>1 DEF AppendCol, ram
    <3>6. IF mode = "turbo" THEN count + Len(buf) <= Rows' ELSE count <= Rows'
      BY <1>0, <3>4, <3>5 DEF Counts
    <3>7. meta.count <= Rows' /\ rd.count <= Rows'
      <4>1. meta.count \in Nat /\ rd.count \in Nat
        BY <1>0 DEF Counts, Reader
      <4> QED
        BY <1>0, <3>4, <4>1 DEF Counts
    <3> QED
      BY <3>5, <3>6, <3>7 DEF AuditPC
  <2>2. ASSUME NEW c \in {"p", "o", "src"}, NEW next \in {"o", "src", "meta"},
               AppendCol(c, next)
        PROVE CountInv'
    <3>1. Rows' = Rows
      BY <1>c, <2>2 DEF AppendCol, Rows, Column
    <3> QED
      BY <1>0, <2>2, <3>1 DEF AppendCol, ram, Counts, AuditPC
  <2> QED
    BY <1>8, <2>1, <2>2 DEF AppendColumns
<1>9. CASE FinishWrite
  <2>1. Len(buf') = 0 /\ Rows' = Rows /\ rd' = rd /\ pc = "meta" /\ pc' = "idle"
    BY <1>9 DEF FinishWrite, Rows
  <2>2. count' <= Rows /\ meta'.count = count'
    BY <1>0, <1>9 DEF FinishWrite, MetaOf, Counts
  <2> QED
    BY <1>0, <2>1, <2>2 DEF Counts, AuditPC
<1>10. ASSUME NEW batch \in TurboBatch, NEW src \in Source \cup {0}, Turbo(batch, src)
       PROVE CountInv'
  <2>1. /\ buf = <<>> /\ pc = "idle" /\ pc' = "s" /\ mode' = "turbo"
        /\ UNCHANGED <<col, meta, count, rd>>
    BY <1>10 DEF Turbo
  <2>2. count <= Rows
    BY <1>0, <2>1 DEF Counts
  <2> QED
    BY <2>1, <2>2 DEF Rows, AuditPC
<1>11. ASSUME NEW f \in Retractable, Retract(f)
       PROVE CountInv'
  BY <1>11 DEF Retract, ram, Rows
<1>12. ASSUME NEW ts \in 1..MaxGen, RebuildStart(ts)
       PROVE CountInv'
  BY <1>0, <1>12 DEF RebuildStart, Counts, Rows, AuditPC, ReindexPC
<1>13. CASE RebuildSorted \/ RebuildMeta
  BY <1>0, <1>13 DEF RebuildSorted, RebuildMeta, MetaOf, Counts, ram, Rows, AuditPC, ReindexPC
<1>14. CASE RebuildUnlink
  BY <1>0, <1>14 DEF RebuildUnlink, Counts, ram, Rows, AuditPC, ReindexPC
<1>15. CASE AuditStart \/ AuditColumns \/ AuditFinish
  BY <1>15 DEF AuditStart, AuditColumns, RewriteCol, AuditFinish, AuditPC
<1>16. CASE ReaderOpen
  BY <1>0, <1>16 DEF ReaderOpen, Counts, disk, ram, Rows
<1>17. CASE ReaderQuery
  BY <1>0, <1>17 DEF ReaderQuery, MetaOf, Counts, Reader, ram, Rows
<1>18. CASE UNCHANGED vars
  BY <1>18 DEF vars, disk, ram, Rows
<1> QED
  BY <1>1, <1>2, <1>3, <1>4, <1>5, <1>6, <1>7, <1>8, <1>9, <1>10, <1>11, <1>12, <1>13,
     <1>14, <1>15, <1>16, <1>17, <1>18 DEF Next

(* Where no sweep shortens the columns, meta.json never counts a row that  *)
(* s.col does not hold: at any point of a flush, a turbo batch or an index *)
(* rebuild, with any crashes, and with readers that write meta.json from   *)
(* their own, older counts.                                                *)
THEOREM CountCorrect ==
    ASSUME ~AuditOn
    PROVE  Spec => []CountWithinRows
<1>1. Init => TypeInv /\ CountInv
  BY InitType, InitCount
<1>2. TypeInv /\ CountInv /\ [Next]_vars => (TypeInv /\ CountInv)'
  BY TypeStep, CountStep
<1>3. CountInv => CountWithinRows
  BY DEF CountInv, CountWithinRows
<1> QED
  BY <1>1, <1>2, <1>3, PTL DEF Spec
-----------------------------------------------------------------------------
(* Provenance *)

(* src.col is padded before a flush appends to s.col, so between that      *)
(* append and its own it lacks exactly the buffered rows' sources.         *)
Aligned(n) == \A k \in 1..Len(buf) : origin[n + k].src = buf[k].src

SourceInv ==
    /\ pc \notin AuditPC /\ mode # "turbo"
    /\ Len(col["src"]) <= Rows
    /\ \A i \in 1..Len(col["src"]) : col["src"][i] \in {0, origin[i].src}
    /\ pc = "s" => Len(col["src"]) = Rows
    /\ pc \in {"p", "o", "src"} =>
          Len(col["src"]) + Len(buf) = Rows /\ Aligned(Len(col["src"]))

(* What each sequence is, for the arithmetic on positions.                 *)
Files == /\ col \in [Column -> Seq(Nat)] /\ buf \in Seq(RowType)
         /\ col["s"] \in Seq(Nat) /\ col["src"] \in Seq(Nat)
         /\ Len(col["src"]) \in Nat /\ Len(buf) \in Nat
         /\ Rows \in Nat /\ Len(origin) = Rows

LEMMA FilesType == TypeInv => Files
<1> SUFFICES ASSUME TypeInv PROVE Files
  OBVIOUS
<1>1. /\ col \in [Column -> Seq(Nat)] /\ buf \in Seq(RowType)
      /\ col["s"] \in Seq(Nat) /\ col["src"] \in Seq(Nat) /\ Len(origin) = Rows
  BY DEF TypeInv, TypeOK, Column
<1>2. Len(col["src"]) \in Nat /\ Len(buf) \in Nat /\ Rows \in Nat
  BY <1>1 DEF Rows
<1> QED
  BY <1>1, <1>2 DEF Files

LEMMA InitSource == Init => SourceInv
<1> SUFFICES ASSUME Init PROVE SourceInv
  OBVIOUS
<1>1. col["src"] = <<>> /\ pc = "down" /\ mode = "flush"
  BY DEF Init, Column
<1>2. Rows \in Nat
  BY InitType, FilesType DEF Files
<1> QED
  BY <1>1, <1>2 DEF SourceInv, AuditPC

(* The padding: existing sources stay, new ones are the legacy tier.       *)
LEMMA PaddedSource ==
    ASSUME Files, Len(col["src"]) <= Rows
    PROVE  LET pad == col["src"] \o Zeros(Max2(Rows - Len(col["src"]), 0))
           IN  /\ pad \in Seq(Nat) /\ Len(pad) = Rows
               /\ \A i \in 1..Rows :
                     pad[i] = IF i <= Len(col["src"]) THEN col["src"][i] ELSE 0
<1> DEFINE n == Len(col["src"])
           z == Zeros(Rows - n)
<1>1. n \in Nat /\ Rows \in Nat /\ n <= Rows /\ Rows - n \in Nat
  BY DEF Files
<1>2. Max2(Rows - n, 0) = Rows - n
  <2>1. \A m \in Nat : Max2(m, 0) = m
    BY DEF Max2
  <2> QED
    BY <1>1, <2>1
<1>3. z \in Seq(Nat) /\ Len(z) = Rows - n /\ \A i \in 1..(Rows - n) : z[i] = 0
  BY <1>1 DEF Zeros
<1>4. col["src"] \in Seq(Nat)
  BY DEF Files
<1> HIDE DEF z
<1>5. /\ col["src"] \o z \in Seq(Nat) /\ Len(col["src"] \o z) = n + Len(z)
      /\ \A i \in 1..(n + Len(z)) :
            (col["src"] \o z)[i] = IF i <= n THEN col["src"][i] ELSE z[i - n]
  BY <1>3, <1>4, ConcatProperties
<1>6. \A i \in 1..Rows : ~ (i <= n) => i - n \in 1..(Rows - n)
  BY <1>1
<1> DEFINE pad == col["src"] \o z
<1>7. Len(pad) = Rows
  BY <1>1, <1>3, <1>5
<1>8. \A i \in 1..Rows : pad[i] = IF i <= n THEN col["src"][i] ELSE 0
  <2> TAKE i \in 1..Rows
  <2>1. i \in 1..(n + Len(z))
    BY <1>1, <1>3
  <2>2. pad[i] = IF i <= n THEN col["src"][i] ELSE z[i - n]
    BY <1>5, <2>1
  <2> QED
    BY <1>3, <1>6, <2>2
<1>9. pad = col["src"] \o Zeros(Max2(Rows - Len(col["src"]), 0))
  BY <1>2 DEF z
<1> HIDE DEF pad
<1> QED
  BY <1>5, <1>7, <1>8, <1>9 DEF pad

(* Without turbo batches and sweeps, no step moves a source to another row. *)
LEMMA SourceStep ==
    ASSUME ~AuditOn, TurboBatch = {}, TypeInv, SourceInv, [Next]_vars
    PROVE  SourceInv'
<1>0. Files
  BY FilesType
<1>1. CASE Open \/ Crash
  BY <1>1 DEF Open, Crash, disk, SourceInv, Rows, AuditPC
<1>2. ASSUME NEW f \in Fact, NEW src \in Source \cup {0}, AddNew(f, src)
      PROVE SourceInv'
  BY <1>2 DEF AddNew, disk, SourceInv, Rows, AuditPC
<1>3. ASSUME NEW f \in Fact, AddDuplicate(f)
      PROVE SourceInv'
  BY <1>3 DEF AddDuplicate, disk, SourceInv, Rows, Aligned
<1>4. CASE FlushStart \/ FlushEmpty
  BY <1>4 DEF FlushStart, FlushEmpty, SourceInv, Rows, AuditPC
<1>5. CASE Backfill
  <2> DEFINE pad == col["src"] \o Zeros(Max2(Rows - Len(col["src"]), 0))
  <2>1. /\ Len(pad) = Rows
        /\ \A i \in 1..Rows : pad[i] = IF i <= Len(col["src"]) THEN col["src"][i] ELSE 0
    BY <1>0, PaddedSource DEF SourceInv
  <2>2. col' = [col EXCEPT !["src"] = pad]
    BY <1>5 DEF Backfill
  <2> HIDE DEF pad
  <2>3. col'["src"] = pad /\ Rows' = Rows /\ pc' = "s" /\ UNCHANGED <<origin, mode>>
    BY <1>0, <1>5, <2>2 DEF Backfill, Files, Column, Rows
  <2>4. \A i \in 1..Rows : pad[i] \in {0, origin[i].src}
    <3> TAKE i \in 1..Rows
    <3>1. CASE i <= Len(col["src"])
      <4>1. i \in 1..Len(col["src"])
        BY <1>0, <3>1 DEF Files
      <4> QED
        BY <2>1, <3>1, <4>1 DEF SourceInv
    <3>2. CASE ~ (i <= Len(col["src"]))
      BY <2>1, <3>2
    <3> QED
      BY <3>1, <3>2
  <2>5. Len(col'["src"]) = Rows' /\ Rows' <= Rows' /\ mode' # "turbo"
    BY <1>0, <2>1, <2>3 DEF Files, SourceInv
  <2> QED
    BY <2>1, <2>3, <2>4, <2>5 DEF SourceInv, AuditPC
<1>6. CASE AppendCol("s", "p")
  <2> DEFINE n == Len(col["src"])
  <2>1. n = Rows /\ n \in Nat /\ Len(buf) \in Nat
    BY <1>0, <1>6 DEF AppendCol, SourceInv, Files
  <2>2. col'["src"] = col["src"] /\ col'["s"] = col["s"] \o BufCol("s")
    BY <1>0, <1>6 DEF AppendCol, Files, Column
  <2>3. Rows' = Rows + Len(buf)
    BY <1>0, <2>2, AppendedRows DEF Rows, Files
  <2>4. origin' = origin \o BufOrigin /\ buf' = buf /\ mode' = mode /\ pc' = "p"
    BY <1>6 DEF AppendCol, ram
  <2>5. /\ \A i \in 1..n : origin'[i] = origin[i]
        /\ \A k \in 1..Len(buf) : origin'[n + k] = BufOrigin[k]
    <3> DEFINE T == [src : Nat, run : Nat]
    <3>1. origin \in Seq(T) /\ BufOrigin \in Seq(T) /\ Len(BufOrigin) = Len(buf)
          /\ Len(origin) = n
      BY <1>0, <2>1, BufOriginType, BoundAssumption DEF TypeInv, TypeOK, Files
    <3> HIDE DEF T
    <3>2. \A i \in 1..(Len(origin) + Len(BufOrigin)) :
            (origin \o BufOrigin)[i] =
              IF i <= Len(origin) THEN origin[i] ELSE BufOrigin[i - Len(origin)]
      BY <3>1, ConcatProperties
    <3>3. \A i \in 1..n : i \in 1..(n + Len(buf)) /\ i <= n
      BY <2>1
    <3>4. \A k \in 1..Len(buf) :
            n + k \in 1..(n + Len(buf)) /\ ~ (n + k <= n) /\ (n + k) - n = k
      BY <2>1
    <3> HIDE DEF n
    <3> QED
      BY <2>4, <3>1, <3>2, <3>3, <3>4
  <2>6. \A k \in 1..Len(buf) : BufOrigin[k].src = buf[k].src
    BY DEF BufOrigin
  <2>7. \A i \in 1..n : col'["src"][i] \in {0, origin'[i].src}
    BY <2>2, <2>5 DEF SourceInv
  <2>8. Len(col'["src"]) <= Rows' /\ Len(col'["src"]) + Len(buf') = Rows'
    <3>1. Len(col'["src"]) = Rows /\ Len(buf') = Len(buf) /\ Rows \in Nat
      BY <2>1, <2>2, <2>4
    <3>2. Rows <= Rows + Len(buf)
      BY <2>1, <3>1
    <3> QED
      BY <2>3, <3>1, <3>2
  <2>9. Aligned(Len(col["src"]))'
    BY <2>2, <2>4, <2>5, <2>6 DEF Aligned
  <2> QED
    BY <2>2, <2>4, <2>7, <2>8, <2>9 DEF SourceInv, AuditPC
<1>7. ASSUME NEW c \in {"p", "o"}, NEW next \in {"o", "src"}, AppendCol(c, next)
      PROVE SourceInv'
  <2>1. col'["s"] = col["s"] /\ col'["src"] = col["src"]
    BY <1>0, <1>7 DEF AppendCol, Files, Column
  <2> QED
    BY <1>7, <2>1 DEF AppendCol, ram, SourceInv, Aligned, Rows, AuditPC
<1>8. CASE AppendCol("src", "meta")
  <2> DEFINE n == Len(col["src"])
             q == col["src"] \o BufCol("src")
  <2>1. n \in Nat /\ Len(buf) \in Nat /\ n + Len(buf) = Rows /\ Aligned(n)
    BY <1>0, <1>8 DEF AppendCol, SourceInv, Files
  <2>2. BufCol("src") \in Seq(Nat) /\ Len(BufCol("src")) = Len(buf)
    BY <1>0, BufColType DEF Files, Column
  <2>3. /\ Len(q) = n + Len(buf)
        /\ \A i \in 1..(n + Len(buf)) :
              q[i] = IF i <= n THEN col["src"][i] ELSE BufCol("src")[i - n]
    <3>1. col["src"] \in Seq(Nat)
      BY <1>0 DEF Files
    <3>2. /\ Len(q) = Len(col["src"]) + Len(BufCol("src"))
          /\ \A i \in 1..(Len(col["src"]) + Len(BufCol("src"))) :
                q[i] = IF i <= Len(col["src"]) THEN col["src"][i]
                       ELSE BufCol("src")[i - Len(col["src"])]
      BY <2>2, <3>1, ConcatProperties, Zenon
    <3> QED
      BY <2>2, <3>2
  <2>4. \A k \in 1..Len(buf) : BufCol("src")[k] = buf[k].src
    BY DEF BufCol
  <2>5. \A i \in 1..Rows : q[i] \in {0, origin[i].src}
    <3> TAKE i \in 1..Rows
    <3>1. CASE i <= n
      <4>1. i \in 1..n /\ i \in 1..(n + Len(buf))
        BY <2>1, <3>1
      <4>2. q[i] = col["src"][i]
        BY <2>3, <3>1, <4>1
      <4> QED
        BY <4>1, <4>2 DEF SourceInv
    <3>2. CASE ~ (i <= n)
      <4>1. i - n \in 1..Len(buf) /\ n + (i - n) = i /\ i \in 1..(n + Len(buf))
        BY <2>1, <3>2
      <4>2. q[i] = buf[i - n].src
        BY <2>3, <2>4, <3>2, <4>1
      <4>3. origin[n + (i - n)].src = buf[i - n].src
        BY <2>1, <4>1 DEF Aligned
      <4> QED
        BY <4>1, <4>2, <4>3
    <3> QED
      BY <3>1, <3>2
  <2> HIDE DEF q
  <2>6. col'["src"] = q /\ col'["s"] = col["s"]
    BY <1>0, <1>8 DEF AppendCol, Files, Column, q
  <2>7. Rows' = Rows /\ Len(col'["src"]) = Rows'
    BY <2>1, <2>3, <2>6 DEF Rows
  <2>8. pc' = "meta" /\ UNCHANGED <<origin, mode>>
    BY <1>8 DEF AppendCol, ram
  <2>9. Len(col'["src"]) <= Rows'
    BY <1>0, <2>7 DEF Files
  <2> QED
    BY <2>5, <2>6, <2>7, <2>8, <2>9 DEF SourceInv, AuditPC
<1>9. CASE FinishWrite
  BY <1>9 DEF FinishWrite, SourceInv, Rows, AuditPC
<1>10. ASSUME NEW f \in Retractable, Retract(f)
       PROVE SourceInv'
  BY <1>10 DEF Retract, ram, SourceInv, Aligned, Rows
<1>11. ASSUME NEW ts \in 1..MaxGen, RebuildStart(ts)
       PROVE SourceInv'
  BY <1>11 DEF RebuildStart, SourceInv, Rows, AuditPC
<1>12. CASE RebuildSorted \/ RebuildMeta \/ RebuildUnlink
  BY <1>12 DEF RebuildSorted, RebuildMeta, RebuildUnlink, ram, SourceInv, Rows, AuditPC
<1>13. CASE AuditStart \/ AuditColumns \/ AuditFinish
  BY <1>13 DEF AuditStart, AuditColumns, RewriteCol, AuditFinish, SourceInv, AuditPC
<1>14. CASE ReaderOpen \/ ReaderQuery
  BY <1>14 DEF ReaderOpen, ReaderQuery, disk, ram, SourceInv, Aligned, Rows
<1>15. CASE UNCHANGED vars
  BY <1>15 DEF vars, disk, ram, SourceInv, Aligned, Rows
<1>16. CASE AppendColumns
  BY <1>6, <1>7, <1>8, <1>16 DEF AppendColumns
<1> QED
  BY <1>1, <1>2, <1>3, <1>4, <1>5, <1>9, <1>10, <1>11, <1>12, <1>13, <1>14, <1>15, <1>16
     DEF Next

(* Without turbo batches and sweeps, a row on disk cites the source it was *)
(* added with, or the legacy tier where that source was never written,     *)
(* wherever the writer crashes (also between two column appends) and over  *)
(* any legacy store: _backfill_src keeps src.col in step with s.col.       *)
THEOREM SourceCorrect ==
    ASSUME ~AuditOn, TurboBatch = {}
    PROVE  Spec => []NoForeignSource
<1>1. Init => TypeInv /\ SourceInv
  BY InitType, InitSource
<1>2. TypeInv /\ SourceInv /\ [Next]_vars => (TypeInv /\ SourceInv)'
  BY TypeStep, SourceStep
<1>3. SourceInv => NoForeignSource
  BY DEF SourceInv, NoForeignSource
<1> QED
  BY <1>1, <1>2, <1>3, PTL DEF Spec
-----------------------------------------------------------------------------
(* What a compaction keeps *)

(* Keep takes each position of S once, in an order that does not depend on *)
(* the sequence it is applied to: rows and history are compacted alike.    *)
LEMMA KeepPicks ==
    ASSUME NEW n \in Nat, NEW S \in SUBSET (1..n)
    PROVE  \E g \in [1..Cardinality(S) -> S] :
              /\ \A k, l \in 1..Cardinality(S) : g[k] = g[l] => k = l
              /\ \A i \in S : \E k \in 1..Cardinality(S) : g[k] = i
              /\ \A q : DOMAIN q = 1..n =>
                    \A k \in 1..Cardinality(S) : Keep(q, S)[k] = q[g[k]]
<1>1. IsFiniteSet(1..n) /\ Cardinality(1..n) = n
  <2>1. Cardinality(1..n) = IF 1 > n THEN 0 ELSE n - 1 + 1
    BY FS_Interval
  <2> QED BY <2>1, FS_Interval
<1>2. IsFiniteSet(S) /\ Cardinality(S) \in Nat
  BY <1>1, FS_Subset, FS_CardinalityType
<1>3. CASE S = 1..n
  <2> DEFINE g == [k \in 1..Cardinality(S) |-> k]
  <2>1. g \in [1..Cardinality(S) -> S]
    BY <1>1, <1>3
  <2>2. \A q : DOMAIN q = 1..n => \A k \in 1..Cardinality(S) : Keep(q, S)[k] = q[g[k]]
    BY <1>3 DEF Keep
  <2>3. \A i \in S : i \in 1..Cardinality(S) /\ g[i] = i
    BY <1>1, <1>3
  <2>4. \A k, l \in 1..Cardinality(S) : g[k] = g[l] => k = l
    OBVIOUS
  <2> QED BY <2>1, <2>2, <2>3, <2>4
<1>4. CASE S # 1..n
  <2> DEFINE g == [k \in 1..Cardinality(S) |-> NthOf(S, k)]
             c(i) == Cardinality(UpTo(S, i))
  <2>1. \A k \in 1..Cardinality(S) : NthOf(S, k) \in S /\ c(NthOf(S, k)) = k
    BY NthOfType
  <2>2. \A i \in S : c(i) \in 1..Cardinality(S)
    <3> TAKE i \in S
    <3>1. UpTo(S, i) \in SUBSET S /\ i \in UpTo(S, i)
      BY DEF UpTo
    <3>2. IsFiniteSet(UpTo(S, i)) /\ c(i) \in Nat /\ c(i) <= Cardinality(S)
      BY <1>2, <3>1, FS_Subset, FS_CardinalityType
    <3>3. c(i) # 0
      BY <3>1, <3>2, FS_EmptySet
    <3> QED BY <1>2, <3>2, <3>3
  <2>3. \A i, j \in S : i < j => c(i) # c(j)
    <3> TAKE i, j \in S
    <3> HAVE i < j
    <3>1. UpTo(S, j) \in SUBSET S /\ IsFiniteSet(UpTo(S, j))
      BY <1>2, FS_Subset DEF UpTo
    <3>2. UpTo(S, i) \in SUBSET UpTo(S, j)
      <4>1. \A l \in S : l <= i => l <= j
        OBVIOUS
      <4> QED BY <4>1, Zenon DEF UpTo
    <3>3. j \in UpTo(S, j) /\ j \notin UpTo(S, i)
      BY DEF UpTo
    <3> QED BY <3>1, <3>2, <3>3, FS_Subset
  <2>4. \A i, j \in S : c(i) = c(j) => i = j
    <3>1. \A i, j \in S : i < j \/ j < i \/ i = j
      OBVIOUS
    <3> HIDE DEF c
    <3> QED BY <2>3, <3>1
  <2> HIDE DEF c
  <2>5. \A i \in S : g[c(i)] = i
    BY <2>1, <2>2, <2>4
  <2>6. \A k, l \in 1..Cardinality(S) : g[k] = g[l] => k = l
    BY <2>1
  <2>7. \A q : DOMAIN q = 1..n => \A k \in 1..Cardinality(S) : Keep(q, S)[k] = q[g[k]]
    BY <1>4 DEF Keep
  <2>8. g \in [1..Cardinality(S) -> S]
    BY <2>1
  <2> HIDE DEF g
  <2> QED BY <2>2, <2>5, <2>6, <2>7, <2>8
<1> QED BY <1>3, <1>4

(* The triple of a row held in memory. *)
BufTriple(j) == <<buf[j].s, buf[j].p, buf[j].o>>

SweptTriple(k) == <<SweptRows[k].s, SweptRows[k].p, SweptRows[k].o>>

(* A sweep holds each triple of the store once, with the history entries   *)
(* of the rows it keeps.                                                   *)
LEMMA SweptOnce ==
    ASSUME TypeInv, Len(col["p"]) = Rows, Len(col["o"]) = Rows
    PROVE  \E g \in [1..Len(SweptRows) -> 1..Rows] :
              /\ \A k \in 1..Len(SweptRows) :
                    /\ SweptTriple(k) = Triple(g[k])
                    /\ Keep(origin, FirstCopies)[k] = origin[g[k]]
              /\ \A k, l \in 1..Len(SweptRows) :
                    k # l => g[k] # g[l] /\ SweptTriple(k) # SweptTriple(l)
              /\ \A i \in 1..Rows : \E k \in 1..Len(SweptRows) : SweptTriple(k) = Triple(i)
<1>1. /\ FirstCopies \in SUBSET (1..Rows) /\ Rows \in Nat
      /\ SweptRows \in Seq(RowType) /\ Len(SweptRows) = Cardinality(FirstCopies)
      /\ DOMAIN origin = 1..Rows
  <2>1. Rows \in Nat
    BY FirstCopiesType DEF TypeInv, TypeOK
  <2> QED BY <2>1, FirstCopiesType, SweptRowsType DEF TypeInv, TypeOK
<1> DEFINE n == Len(SweptRows)
           rows == [i \in 1..Rows |-> RowAt(i)]
<1>2. PICK g \in [1..n -> FirstCopies] :
        /\ \A k, l \in 1..n : g[k] = g[l] => k = l
        /\ \A i \in FirstCopies : \E k \in 1..n : g[k] = i
        /\ \A q : DOMAIN q = 1..Rows =>
              \A k \in 1..n : Keep(q, FirstCopies)[k] = q[g[k]]
  <2> DEFINE m == Cardinality(FirstCopies)
  <2>1. \E f \in [1..m -> FirstCopies] :
          /\ \A k, l \in 1..m : f[k] = f[l] => k = l
          /\ \A i \in FirstCopies : \E k \in 1..m : f[k] = i
          /\ \A q : DOMAIN q = 1..Rows =>
                \A k \in 1..m : Keep(q, FirstCopies)[k] = q[f[k]]
    BY <1>1, KeepPicks, Zenon
  <2>2. n = m
    BY <1>1
  <2> HIDE DEF n, m
  <2> QED BY <2>1, <2>2, Zenon
<1>3. \A k \in 1..n : SweptRows[k] = RowAt(g[k])
  <2>1. SweptRows = Keep(rows, FirstCopies) /\ DOMAIN rows = 1..Rows
    BY DEF SweptRows
  <2>2. \A k \in 1..n : g[k] \in 1..Rows
    BY <1>1, <1>2
  <2> HIDE DEF n
  <2>3. \A k \in 1..n : Keep(rows, FirstCopies)[k] = rows[g[k]]
    BY <1>2, <2>1
  <2> QED BY <2>1, <2>2, <2>3
<1>4. \A k \in 1..n : SweptTriple(k) = Triple(g[k])
  <2>1. \A i : RowAt(i).s = col["s"][i] /\ RowAt(i).p = col["p"][i] /\ RowAt(i).o = col["o"][i]
    BY DEF RowAt
  <2> HIDE DEF n
  <2> QED BY <1>3, <2>1, Zenon DEF SweptTriple, Triple
<1>5. \A i, j \in 1..Rows : i < j /\ j \in FirstCopies => Triple(i) # Triple(j)
  <2> DEFINE q == [i \in 1..Rows |-> Triple(i)]
  <2> TAKE i, j \in 1..Rows
  <2> HAVE i < j /\ j \in FirstCopies
  <2>1. FirstCopies = Firsts(q) /\ q[i] = Triple(i) /\ q[j] = Triple(j)
    BY DEF FirstCopies
  <2>2. i \in 1..(j - 1)
    BY <1>1
  <2> HIDE DEF q
  <2> QED BY <2>1, <2>2, Zenon DEF Firsts
<1>6. \A i, j \in FirstCopies : i # j => Triple(i) # Triple(j)
  BY <1>1, <1>5
<1>7. \A i \in 1..Rows : \E j \in FirstCopies : Triple(j) = Triple(i)
  <2> TAKE i \in 1..Rows
  <2> DEFINE Same == {j \in 1..Rows : Triple(j) = Triple(i)}
  <2>1. Same \in SUBSET Nat /\ Same # {}
    BY <1>1
  <2>2. PICK j \in Same : \A l \in Same : j <= l
    BY <2>1, LeastNat
  <2>3. \A l \in 1..(j - 1) : l \in 1..Rows /\ Triple(l) # Triple(j)
    BY <1>1, <2>2
  <2>4. j \in FirstCopies
    BY <1>1, <2>3 DEF FirstCopies, Firsts
  <2> QED BY <2>4
<1>8. \A k, l \in 1..n : k # l => g[k] # g[l] /\ SweptTriple(k) # SweptTriple(l)
  <2> HIDE DEF n
  <2> QED BY <1>2, <1>4, <1>6
<1>9. \A i \in 1..Rows : \E k \in 1..n : SweptTriple(k) = Triple(i)
  <2> HIDE DEF n
  <2> TAKE i \in 1..Rows
  <2>1. PICK j \in FirstCopies : Triple(j) = Triple(i)
    BY <1>7
  <2>2. PICK k \in 1..n : g[k] = j
    BY <1>2
  <2> QED BY <1>4, <2>1, <2>2
<1>10. \A k \in 1..n : Keep(origin, FirstCopies)[k] = origin[g[k]]
  BY <1>1, <1>2
<1>11. g \in [1..n -> 1..Rows]
  BY <1>1, <1>2
<1> QED BY <1>4, <1>8, <1>9, <1>10, <1>11

(* A sweep that finds no copies holds the rows as they are. *)
LEMMA SweptClean ==
    ASSUME TypeInv, Len(col["p"]) = Rows, Len(col["o"]) = Rows, ~ (Len(SweptRows) < Rows)
    PROVE  SweptRows = [i \in 1..Rows |-> RowAt(i)]
<1>1. /\ FirstCopies \in SUBSET (1..Rows) /\ Rows \in Nat
      /\ Len(SweptRows) = Cardinality(FirstCopies)
  <2>1. Rows \in Nat
    BY FirstCopiesType DEF TypeInv, TypeOK
  <2> QED BY <2>1, FirstCopiesType, SweptRowsType DEF TypeInv, TypeOK
<1>2. IsFiniteSet(1..Rows) /\ Cardinality(1..Rows) = Rows
  <2>1. Cardinality(1..Rows) = IF 1 > Rows THEN 0 ELSE Rows - 1 + 1
    BY <1>1, FS_Interval
  <2> QED BY <1>1, <2>1, FS_Interval
<1>3. Cardinality(FirstCopies) \in Nat /\ Cardinality(FirstCopies) <= Rows
  BY <1>1, <1>2, FS_Subset, FS_CardinalityType
<1>4. FirstCopies = 1..Rows
  <2>1. Cardinality(FirstCopies) = Cardinality(1..Rows)
    BY <1>1, <1>2, <1>3
  <2> QED BY <1>1, <1>2, <2>1, FS_Subset, Zenon
<1> QED BY <1>4 DEF SweptRows, Keep
-----------------------------------------------------------------------------
(* The store as a sequence of rows *)

(* The crash points that leave columns of different lengths behind are     *)
(* left out: what happens after them is the finding of ts_torn.            *)
WholeRows == CrashPoint \cap ({"p", "o"} \cup AuditPC) = {}

BufRun == IF mode = "turbo" THEN 0 ELSE opens

(* A sweep has begun to rewrite the files. *)
Rewritten == AuditPC \ {"audit_s"}

(* The complete rows, with their history; those a sweep holds once it has  *)
(* begun to rewrite the files.                                             *)
Store ==
    IF pc \in Rewritten
    THEN [k \in 1..Len(buf) |-> [t |-> BufTriple(k), run |-> origin[k].run]]
    ELSE [i \in 1..Len(col["o"]) |-> [t |-> Triple(i), run |-> origin[i].run]]

(* What is written of the rows in memory, at each point of a flush, a      *)
(* turbo batch and a sweep.                                                *)
ShapeInv ==
    /\ pc \notin {"p", "o"} \cup Rewritten =>
          Len(col["p"]) = Rows /\ Len(col["o"]) = Rows
    /\ pc \in {"p", "o"} =>
          /\ Rows = Len(col["o"]) + Len(buf)
          /\ \A k \in 1..Len(buf) :
                /\ col["s"][Len(col["o"]) + k] = buf[k].s
                /\ origin[Len(col["o"]) + k].run = BufRun
    /\ pc = "p" => Len(col["p"]) = Len(col["o"])
    /\ pc = "o" =>
          /\ Len(col["p"]) = Rows
          /\ \A k \in 1..Len(buf) : col["p"][Len(col["o"]) + k] = buf[k].p
    /\ pc = "audit_s" => buf = SweptRows
    /\ pc \in Rewritten => col["s"] = BufCol("s")
    /\ pc \in Rewritten \ {"audit_p"} => col["p"] = BufCol("p")
    /\ pc \in {"audit_src", "audit_meta"} => col["o"] = BufCol("o")
    /\ pc \in Rewritten =>
          \A i, j \in 1..Len(buf) : i # j => BufTriple(i) # BufTriple(j)

(* What the columns, the buffer and the history are. *)
Typed ==
    /\ col \in [Column -> Seq(Nat)] /\ buf \in Seq(RowType)
    /\ col["s"] \in Seq(Nat) /\ col["p"] \in Seq(Nat) /\ col["o"] \in Seq(Nat)
    /\ Rows \in Nat /\ Len(col["p"]) \in Nat /\ Len(col["o"]) \in Nat /\ Len(buf) \in Nat
    /\ Len(origin) = Rows /\ DOMAIN origin = 1..Rows
    /\ origin \in Seq([src : Nat, run : Nat])

LEMMA TypedHolds == TypeInv => Typed
<1> SUFFICES ASSUME TypeInv PROVE Typed
  OBVIOUS
<1>1. /\ col \in [Column -> Seq(Nat)] /\ buf \in Seq(RowType)
      /\ origin \in Seq([src : Nat, run : Nat]) /\ Len(origin) = Rows
  BY DEF TypeInv, TypeOK
<1>2. col["s"] \in Seq(Nat) /\ col["p"] \in Seq(Nat) /\ col["o"] \in Seq(Nat)
  BY <1>1 DEF Column
<1>3. /\ Len(col["s"]) \in Nat /\ Len(col["p"]) \in Nat /\ Len(col["o"]) \in Nat
      /\ Len(buf) \in Nat
  BY <1>1, <1>2
<1>4. DOMAIN origin = 1..Len(origin)
  BY <1>1
<1> QED BY <1>1, <1>2, <1>3, <1>4 DEF Typed, Rows

(* One column is appended to: it has its old entries and the buffer's, the *)
(* others are as they were.                                                *)
LEMMA Appended ==
    ASSUME Typed, NEW c \in {"s", "p", "o", "src"}, NEW next, AppendCol(c, next)
    PROVE  /\ Len(col'[c]) = Len(col[c]) + Len(buf)
           /\ \A i \in 1..Len(col[c]) : col'[c][i] = col[c][i]
           /\ \A k \in 1..Len(buf) : col'[c][Len(col[c]) + k] = buf[k][c]
           /\ \A d \in Column : d # c => col'[d] = col[d]
<1>1. col'[c] = col[c] \o BufCol(c) /\ \A d \in Column : d # c => col'[d] = col[d]
  BY DEF Typed, AppendCol, Column
<1>2. /\ BufCol(c) \in Seq(Nat) /\ Len(BufCol(c)) = Len(buf) /\ Len(buf) \in Nat
      /\ col[c] \in Seq(Nat) /\ Len(col[c]) \in Nat
  <2>1. BufCol(c) \in Seq(Nat) /\ Len(BufCol(c)) = Len(buf) /\ col[c] \in Seq(Nat)
    BY BufColType DEF Typed, Column
  <2> QED BY <2>1 DEF Typed
<1> DEFINE n == Len(col[c])
<1>3. /\ Len(col'[c]) = n + Len(buf)
      /\ \A i \in 1..(n + Len(buf)) :
            col'[c][i] = IF i <= n THEN col[c][i] ELSE BufCol(c)[i - n]
  <2> DEFINE q == col[c] \o BufCol(c)
  <2>1. /\ Len(q) = Len(col[c]) + Len(BufCol(c))
        /\ \A i \in 1..(Len(col[c]) + Len(BufCol(c))) :
              q[i] = IF i <= Len(col[c]) THEN col[c][i] ELSE BufCol(c)[i - Len(col[c])]
    BY <1>2, ConcatProperties, Zenon
  <2> QED BY <1>1, <1>2, <2>1
<1>4. \A i \in 1..n : i \in 1..(n + Len(buf)) /\ i <= n
  BY <1>2
<1>5. \A k \in 1..Len(buf) : n + k \in 1..(n + Len(buf)) /\ ~ (n + k <= n) /\ (n + k) - n = k
  BY <1>2
<1>6. \A k \in 1..Len(buf) : BufCol(c)[k] = buf[k][c]
  BY DEF BufCol
<1> HIDE DEF n
<1>7. \A i \in 1..n : col'[c][i] = col[c][i]
  BY <1>3, <1>4
<1>8. \A k \in 1..Len(buf) : col'[c][n + k] = buf[k][c]
  <2> TAKE k \in 1..Len(buf)
  <2>1. col'[c][n + k] = BufCol(c)[(n + k) - n]
    BY <1>3, <1>5
  <2> QED BY <1>5, <1>6, <2>1
<1> QED BY <1>1, <1>3, <1>7, <1>8 DEF n

(* The history grows with s.col. *)
LEMMA AppendedOrigin ==
    ASSUME Typed, opens \in Nat, NEW next, AppendCol("s", next)
    PROVE  /\ \A i \in 1..Rows : origin'[i] = origin[i]
           /\ \A k \in 1..Len(buf) : origin'[Rows + k].run = BufRun
<1> DEFINE T == [src : Nat, run : Nat]
           n == Rows
<1>1. /\ origin \in Seq(T) /\ BufOrigin \in Seq(T) /\ Len(BufOrigin) = Len(buf)
      /\ Len(origin) = n /\ n \in Nat /\ Len(buf) \in Nat
  BY BufOriginType DEF Typed
<1>0. origin' = origin \o BufOrigin
  BY DEF AppendCol
<1> HIDE DEF T, n
<1>2. \A i \in 1..(n + Len(buf)) :
        origin'[i] = IF i <= n THEN origin[i] ELSE BufOrigin[i - n]
  BY <1>0, <1>1, ConcatProperties
<1>3. \A i \in 1..n : i \in 1..(n + Len(buf)) /\ i <= n
  BY <1>1
<1>4. \A k \in 1..Len(buf) : n + k \in 1..(n + Len(buf)) /\ ~ (n + k <= n) /\ (n + k) - n = k
  BY <1>1
<1>5. \A k \in 1..Len(buf) : BufOrigin[k].run = BufRun
  BY DEF BufOrigin, BufRun
<1>6. \A i \in 1..n : origin'[i] = origin[i]
  BY <1>2, <1>3
<1>7. \A k \in 1..Len(buf) : origin'[n + k].run = BufRun
  <2> TAKE k \in 1..Len(buf)
  <2>1. origin'[n + k] = BufOrigin[(n + k) - n]
    BY <1>2, <1>4
  <2> QED BY <1>4, <1>5, <2>1
<1> QED BY <1>6, <1>7 DEF n

(* A step that leaves the columns, the rows in memory and the history      *)
(* alone, and stays where it is.                                           *)
LEMMA ShapeSame ==
    ASSUME ShapeInv, UNCHANGED <<col, buf, origin, pc, mode, opens>>
    PROVE  ShapeInv' /\ Store' = Store
<1>1. SweptRows' = SweptRows
  BY DEF SweptRows, FirstCopies, RowAt, SrcAt, Triple, Rows
<1>2. BufCol("s")' = BufCol("s") /\ BufCol("p")' = BufCol("p") /\ BufCol("o")' = BufCol("o")
  BY DEF BufCol
<1>3. Rows' = Rows /\ BufRun' = BufRun
  BY DEF Rows, BufRun
<1>4. \A j : BufTriple(j)' = BufTriple(j)
  BY DEF BufTriple
<1>5. \A i : Triple(i)' = Triple(i)
  BY DEF Triple
<1>6. Store' = Store
  BY <1>4, <1>5 DEF Store
<1> QED BY <1>1, <1>2, <1>3, <1>4, <1>6 DEF ShapeInv

(* Between two operations, and wherever no column is being written, the    *)
(* columns are of one length.                                              *)
LEMMA ShapeCalm ==
    ASSUME pc \notin {"p", "o"} \cup AuditPC, Len(col["p"]) = Rows, Len(col["o"]) = Rows
    PROVE  ShapeInv
BY DEF ShapeInv, Rewritten, AuditPC

LEMMA InitShape == Init => ShapeInv
<1> SUFFICES ASSUME Init PROVE ShapeInv
  OBVIOUS
<1>1. PICK old \in Legacy \cup {<<>>} : \E dict \in Orderings(TermsOf(old)) :
          col = [c \in Column |->
                    IF c = "src" THEN <<>>
                    ELSE [i \in 1..Len(old) |-> Row(dict, old[i], 0)[c]]]
  BY DEF Init
<1>2. Len(old) \in Nat
  <2>1. <<>> \in Seq(Fact)
    BY EmptySeq
  <2>2. old \in Seq(Fact)
    BY <2>1, LegacyAssumption, Zenon
  <2> QED BY <2>2
<1>3. Len(col["s"]) = Len(old) /\ Len(col["p"]) = Len(old) /\ Len(col["o"]) = Len(old)
  BY <1>1, <1>2 DEF Column
<1>4. pc = "down"
  BY DEF Init
<1> QED BY <1>3, <1>4, ShapeCalm DEF Rows, AuditPC

(* A sweep that starts holds each triple once; when there were no copies,  *)
(* what it holds is what the files hold.                                   *)
LEMMA ShapeAudit ==
    ASSUME TypeInv, ShapeInv, AuditStart
    PROVE  ShapeInv' /\ Store' = Store
<1>1. Typed
  BY TypedHolds
<1>2. /\ pc = "idle" /\ buf' = SweptRows /\ UNCHANGED <<col, origin, opens>>
      /\ Len(col["p"]) = Rows /\ Len(col["o"]) = Rows
  BY DEF AuditStart, ShapeInv, disk, Rewritten, AuditPC
<1>3. SweptRows' = SweptRows /\ Rows' = Rows
  BY <1>2 DEF SweptRows, FirstCopies, RowAt, SrcAt, Triple, Rows
<1>4. \A j : BufTriple(j)' = SweptTriple(j)
  BY <1>2 DEF BufTriple, SweptTriple
<1>5. \A i, j \in 1..Len(SweptRows) : i # j => SweptTriple(i) # SweptTriple(j)
  BY <1>2, SweptOnce
<1>6. \A i : Triple(i)' = Triple(i)
  BY <1>2 DEF Triple
<1>7. Store = [i \in 1..Len(col["o"]) |-> [t |-> Triple(i), run |-> origin[i].run]]
  BY <1>2 DEF Store, Rewritten, AuditPC
<1>8. CASE Len(SweptRows) < Rows
  <2>1. pc' = "audit_s"
    BY <1>8 DEF AuditStart
  <2>2. Store' = Store
    BY <1>2, <1>6, <1>7, <2>1 DEF Store, Rewritten, AuditPC
  <2> QED BY <1>2, <1>3, <2>1, <2>2 DEF ShapeInv, Rewritten, AuditPC
<1>9. CASE ~ (Len(SweptRows) < Rows)
  <2>1. pc' = "audit_meta"
    BY <1>9 DEF AuditStart
  <2>2. SweptRows = [i \in 1..Rows |-> RowAt(i)]
    BY <1>2, <1>9, SweptClean
  <2>3. Len(SweptRows) = Rows /\ \A i \in 1..Rows : buf'[i] = RowAt(i)
    BY <1>1, <1>2, <2>2 DEF Typed
  <2>4. \A i \in 1..Rows : /\ buf'[i].s = col["s"][i] /\ buf'[i].p = col["p"][i]
                           /\ buf'[i].o = col["o"][i]
    <3>1. \A i : RowAt(i).s = col["s"][i] /\ RowAt(i).p = col["p"][i] /\ RowAt(i).o = col["o"][i]
      BY DEF RowAt
    <3> QED BY <2>3, <3>1, Zenon
  <2>5. /\ col["s"] = [i \in 1..Rows |-> col["s"][i]]
        /\ col["p"] = [i \in 1..Rows |-> col["p"][i]]
        /\ col["o"] = [i \in 1..Rows |-> col["o"][i]]
    <3>1. \A q \in Seq(Nat) : q = [i \in 1..Len(q) |-> q[i]]
      OBVIOUS
    <3>2. /\ col["s"] \in Seq(Nat) /\ Len(col["s"]) = Rows
          /\ col["p"] \in Seq(Nat) /\ Len(col["p"]) = Rows
          /\ col["o"] \in Seq(Nat) /\ Len(col["o"]) = Rows
      BY <1>1, <1>2 DEF Typed, Rows
    <3> QED BY <3>1, <3>2, Zenon
  <2>6. /\ col'["s"] = BufCol("s")' /\ col'["p"] = BufCol("p")' /\ col'["o"] = BufCol("o")'
    <3>1. col' = col /\ Len(buf') = Rows
      BY <1>2, <2>3
    <3>2. /\ BufCol("s")' = [i \in 1..Rows |-> buf'[i].s]
          /\ BufCol("p")' = [i \in 1..Rows |-> buf'[i].p]
          /\ BufCol("o")' = [i \in 1..Rows |-> buf'[i].o]
      BY <3>1, Zenon DEF BufCol
    <3>3. /\ [i \in 1..Rows |-> buf'[i].s] = [i \in 1..Rows |-> col["s"][i]]
          /\ [i \in 1..Rows |-> buf'[i].p] = [i \in 1..Rows |-> col["p"][i]]
          /\ [i \in 1..Rows |-> buf'[i].o] = [i \in 1..Rows |-> col["o"][i]]
      BY <2>4
    <3> QED BY <2>5, <3>1, <3>2, <3>3, Zenon
  <2>7. \A i \in 1..Rows : BufTriple(i)' = Triple(i)
    BY <1>4, <2>2, <2>3, <2>4 DEF BufTriple, Triple
  <2>8. Store' = [i \in 1..Rows |-> [t |-> BufTriple(i)', run |-> origin[i].run]]
    BY <1>2, <2>1, <2>3 DEF Store, Rewritten, AuditPC
  <2>9. Store' = Store
    BY <1>2, <1>7, <2>7, <2>8
  <2> QED BY <1>2, <1>3, <1>4, <1>5, <2>1, <2>6, <2>9 DEF ShapeInv, Rewritten, AuditPC
<1> QED BY <1>8, <1>9

(* What a sweep leaves of the store: of every triple one row, with the     *)
(* history of a row that had it.                                           *)
Deduped(old, new) ==
    /\ \A k \in DOMAIN new : \E i \in DOMAIN old : new[k] = old[i]
    /\ \A i \in DOMAIN old : \E k \in DOMAIN new : new[k].t = old[i].t
    /\ \A k, l \in DOMAIN new : k # l => new[k].t # new[l].t

(* The first rewrite of a sweep. *)
LEMMA ShapeSweep ==
    ASSUME TypeInv, ShapeInv, RewriteCol("audit_s", "s", "audit_p")
    PROVE  ShapeInv' /\ Deduped(Store, Store')
<1>1. Typed
  BY TypedHolds
<1>2. /\ pc = "audit_s" /\ pc' = "audit_p" /\ UNCHANGED <<buf, mode, opens>>
      /\ buf = SweptRows /\ Len(col["p"]) = Rows /\ Len(col["o"]) = Rows
      /\ col'["s"] = BufCol("s") /\ origin' = Keep(origin, FirstCopies)
  BY <1>1 DEF RewriteCol, ShapeInv, ram, Rewritten, AuditPC, Typed, Column
<1>3. \A j : BufTriple(j)' = SweptTriple(j) /\ BufTriple(j) = SweptTriple(j)
  BY <1>2 DEF BufTriple, SweptTriple
<1>4. PICK g \in [1..Len(buf) -> 1..Rows] :
        /\ \A k \in 1..Len(buf) :
              /\ SweptTriple(k) = Triple(g[k])
              /\ origin'[k] = origin[g[k]]
        /\ \A k, l \in 1..Len(buf) : k # l => g[k] # g[l] /\ SweptTriple(k) # SweptTriple(l)
        /\ \A i \in 1..Rows : \E k \in 1..Len(buf) : SweptTriple(k) = Triple(i)
  <2>1. Len(col["p"]) = Rows /\ Len(col["o"]) = Rows
    BY <1>2
  <2>2. buf = SweptRows /\ origin' = Keep(origin, FirstCopies)
    BY <1>2
  <2>3. PICK g \in [1..Len(SweptRows) -> 1..Rows] :
          /\ \A k \in 1..Len(SweptRows) :
                /\ SweptTriple(k) = Triple(g[k])
                /\ Keep(origin, FirstCopies)[k] = origin[g[k]]
          /\ \A k, l \in 1..Len(SweptRows) :
                k # l => g[k] # g[l] /\ SweptTriple(k) # SweptTriple(l)
          /\ \A i \in 1..Rows : \E k \in 1..Len(SweptRows) : SweptTriple(k) = Triple(i)
    BY <2>1, SweptOnce
  <2>4. g \in [1..Len(buf) -> 1..Rows]
    BY <2>2, <2>3
  <2>5. \A k \in 1..Len(buf) : SweptTriple(k) = Triple(g[k]) /\ origin'[k] = origin[g[k]]
    BY <2>2, <2>3
  <2> QED BY <2>2, <2>3, <2>4, <2>5
<1>5. Store = [i \in 1..Rows |-> [t |-> Triple(i), run |-> origin[i].run]]
  BY <1>2 DEF Store, Rewritten, AuditPC
<1>6. Store' = [k \in 1..Len(buf) |-> [t |-> SweptTriple(k), run |-> origin'[k].run]]
  BY <1>2, <1>3 DEF Store, Rewritten, AuditPC
<1>7. BufCol("s")' = BufCol("s")
  BY <1>2 DEF BufCol
<1>8. Deduped(Store, Store')
  <2>1. \A k \in 1..Len(buf) : g[k] \in 1..Rows /\ Store'[k] = Store[g[k]]
    BY <1>4, <1>5, <1>6
  <2>2. \A i \in 1..Rows : \E k \in 1..Len(buf) : Store'[k].t = Store[i].t
    <3>1. \A i \in 1..Rows : Store[i].t = Triple(i)
      BY <1>5
    <3>2. \A k \in 1..Len(buf) : Store'[k].t = SweptTriple(k)
      BY <1>6
    <3> QED BY <1>4, <3>1, <3>2
  <2>3. \A k, l \in 1..Len(buf) : k # l => Store'[k].t # Store'[l].t
    BY <1>4, <1>6
  <2>4. DOMAIN Store = 1..Rows /\ DOMAIN Store' = 1..Len(buf)
    BY <1>5, <1>6
  <2> QED BY <2>1, <2>2, <2>3, <2>4 DEF Deduped
<1>9. \A k, l \in 1..Len(buf) : k # l => BufTriple(k)' # BufTriple(l)'
  BY <1>3, <1>4
<1> QED BY <1>2, <1>7, <1>8, <1>9 DEF ShapeInv, Rewritten, AuditPC

(* No column of the triples is being written, before or after. *)
LEMMA ShapeQuiet ==
    ASSUME ShapeInv, pc \notin {"p", "o"} \cup AuditPC, pc' \notin {"p", "o"} \cup AuditPC,
           UNCHANGED <<col["s"], col["p"], col["o"], origin>>
    PROVE  ShapeInv' /\ Store' = Store
<1>1. Len(col["p"]) = Rows /\ Len(col["o"]) = Rows /\ Rows' = Rows
  BY DEF ShapeInv, Rewritten, Rows
<1>2. \A i : Triple(i)' = Triple(i)
  BY DEF Triple
<1>3. ShapeInv'
  BY <1>1 DEF ShapeInv, Rewritten, AuditPC
<1>4. Store' = Store
  BY <1>2 DEF Store, Rewritten
<1> QED BY <1>3, <1>4

(* The first two appends add to no complete row. *)
LEMMA ShapeAppendS ==
    ASSUME TypeInv, ShapeInv, AppendCol("s", "p")
    PROVE  ShapeInv' /\ Store' = Store
<1>1. Typed /\ opens \in Nat
  BY TypedHolds, BoundAssumption DEF TypeInv, TypeOK
<1>2. /\ pc = "s" /\ pc' = "p" /\ UNCHANGED <<buf, mode, opens>>
      /\ Len(col["p"]) = Rows /\ Len(col["o"]) = Rows
  BY DEF AppendCol, ShapeInv, ram, Rewritten, AuditPC
<1>3. /\ Rows' = Rows + Len(buf)
      /\ \A i \in 1..Rows : col'["s"][i] = col["s"][i]
      /\ \A k \in 1..Len(buf) : col'["s"][Rows + k] = buf[k].s
      /\ col'["p"] = col["p"] /\ col'["o"] = col["o"]
  BY <1>1, Appended DEF Rows, Column
<1>4. /\ \A i \in 1..Rows : origin'[i] = origin[i]
      /\ \A k \in 1..Len(buf) : origin'[Rows + k].run = BufRun
  BY <1>1, AppendedOrigin
<1>5. BufRun' = BufRun
  BY <1>2 DEF BufRun
<1>6. ShapeInv'
  <2>1. Rows' = Len(col'["o"]) + Len(buf') /\ Len(col'["p"]) = Len(col'["o"])
    BY <1>1, <1>2, <1>3 DEF Typed
  <2>2. \A k \in 1..Len(buf') :
          /\ col'["s"][Len(col'["o"]) + k] = buf'[k].s
          /\ origin'[Len(col'["o"]) + k].run = BufRun'
    BY <1>2, <1>3, <1>4, <1>5
  <2>3. pc' = "p"
    BY <1>2
  <2> QED BY <2>1, <2>2, <2>3 DEF ShapeInv, Rewritten, AuditPC
<1>7. \A i \in 1..Len(col["o"]) : Triple(i)' = Triple(i) /\ origin'[i] = origin[i]
  BY <1>2, <1>3, <1>4 DEF Triple
<1>8. Store' = Store
  BY <1>2, <1>3, <1>7 DEF Store, Rewritten, AuditPC
<1> QED BY <1>6, <1>8

LEMMA ShapeAppendP ==
    ASSUME TypeInv, ShapeInv, AppendCol("p", "o")
    PROVE  ShapeInv' /\ Store' = Store
<1>1. Typed
  BY TypedHolds
<1>2. /\ pc = "p" /\ pc' = "o" /\ UNCHANGED <<buf, mode, opens, origin>>
      /\ Len(col["p"]) = Len(col["o"]) /\ Rows = Len(col["o"]) + Len(buf)
      /\ \A k \in 1..Len(buf) : /\ col["s"][Len(col["o"]) + k] = buf[k].s
                                /\ origin[Len(col["o"]) + k].run = BufRun
  BY DEF AppendCol, ShapeInv, ram, Rewritten, AuditPC
<1>3. /\ Len(col'["p"]) = Len(col["p"]) + Len(buf)
      /\ \A i \in 1..Len(col["p"]) : col'["p"][i] = col["p"][i]
      /\ \A k \in 1..Len(buf) : col'["p"][Len(col["p"]) + k] = buf[k].p
      /\ col'["s"] = col["s"] /\ col'["o"] = col["o"]
  BY <1>1, Appended DEF Column
<1>5. BufRun' = BufRun /\ Rows' = Rows
  BY <1>2, <1>3 DEF BufRun, Rows
<1>6. ShapeInv'
  BY <1>2, <1>3, <1>5 DEF ShapeInv, Rewritten, AuditPC
<1>7. \A i \in 1..Len(col["o"]) : Triple(i)' = Triple(i)
  BY <1>2, <1>3 DEF Triple
<1>8. Store' = Store
  BY <1>2, <1>3, <1>7 DEF Store, Rewritten, AuditPC
<1> QED BY <1>6, <1>8

(* The rows in memory follow the rows there were. *)
Joined(old, new) ==
    /\ DOMAIN old = 1..Len(old) /\ Len(old) \in Nat /\ Len(buf) \in Nat
    /\ DOMAIN new = 1..(Len(old) + Len(buf))
    /\ \A i \in 1..Len(old) : new[i] = old[i]
    /\ \A k \in 1..Len(buf) :
          new[Len(old) + k] = [t |-> BufTriple(k), run |-> BufRun]

(* The o append completes the rows. *)
LEMMA ShapeCommit ==
    ASSUME TypeInv, ShapeInv, AppendCol("o", "src")
    PROVE  ShapeInv' /\ Joined(Store, Store')
<1>1. Typed
  BY TypedHolds
<1>0. PICK n \in Nat : n = Len(col["o"])
  BY <1>1 DEF Typed
<1>2. /\ pc = "o" /\ pc' = "src" /\ UNCHANGED <<buf, mode, opens, origin>>
      /\ Len(col["p"]) = Rows /\ Rows = n + Len(buf) /\ n \in Nat /\ Len(buf) \in Nat
      /\ \A k \in 1..Len(buf) : /\ col["s"][n + k] = buf[k].s
                                /\ col["p"][n + k] = buf[k].p
                                /\ origin[n + k].run = BufRun
  BY <1>0, <1>1 DEF AppendCol, ShapeInv, ram, Rewritten, AuditPC, Typed
<1>3. /\ Len(col'["o"]) = n + Len(buf)
      /\ \A i \in 1..n : col'["o"][i] = col["o"][i]
      /\ \A k \in 1..Len(buf) : col'["o"][n + k] = buf[k].o
      /\ col'["s"] = col["s"] /\ col'["p"] = col["p"]
  BY <1>0, <1>1, Appended DEF Column
<1>4. ShapeInv'
  BY <1>2, <1>3 DEF ShapeInv, Rewritten, AuditPC, Rows
<1>5. Store = [i \in 1..n |-> [t |-> Triple(i), run |-> origin[i].run]]
  BY <1>0, <1>2 DEF Store, Rewritten, AuditPC
<1>6. Store' = [i \in 1..(n + Len(buf)) |-> [t |-> Triple(i)', run |-> origin[i].run]]
  BY <1>2, <1>3 DEF Store, Rewritten, AuditPC
<1>7. \A i \in 1..n : Triple(i)' = Triple(i)
  BY <1>3 DEF Triple
<1>8. \A k \in 1..Len(buf) : Triple(n + k)' = BufTriple(k)
  <2> TAKE k \in 1..Len(buf)
  <2>1. /\ col'["s"][n + k] = buf[k].s /\ col'["p"][n + k] = buf[k].p
        /\ col'["o"][n + k] = buf[k].o
    BY <1>2, <1>3
  <2> QED BY <2>1 DEF Triple, BufTriple
<1>9. Len(Store) = n /\ DOMAIN Store = 1..n /\ DOMAIN Store' = 1..(n + Len(buf))
  <2> DEFINE f == [i \in 1..n |-> [t |-> Triple(i), run |-> origin[i].run]]
  <2>2. Len(f) = n
    OBVIOUS
  <2>3. DOMAIN Store = 1..n /\ DOMAIN Store' = 1..(n + Len(buf))
    BY <1>5, <1>6
  <2> QED BY <1>5, <2>2, <2>3
<1>10. /\ \A i \in 1..n : i \in 1..(n + Len(buf))
       /\ \A k \in 1..Len(buf) : n + k \in 1..(n + Len(buf))
  BY <1>2
<1>11. \A i \in 1..n : Store'[i] = Store[i]
  BY <1>5, <1>6, <1>7, <1>10
<1>12. \A k \in 1..Len(buf) : Store'[n + k] = [t |-> BufTriple(k), run |-> BufRun]
  <2> TAKE k \in 1..Len(buf)
  <2>1. Store'[n + k] = [t |-> Triple(n + k)', run |-> origin[n + k].run]
    <3>1. n + k \in 1..(n + Len(buf))
      BY <1>10
    <3> QED BY <1>6, <3>1, Zenon
  <2>2. origin[n + k].run = BufRun
    BY <1>2
  <2>3. Triple(n + k)' = BufTriple(k)
    BY <1>8
  <2> QED BY <2>1, <2>2, <2>3, Zenon
<1> QED BY <1>2, <1>4, <1>9, <1>11, <1>12 DEF Joined

(* The later rewrites of a sweep, and its end, when the files have the     *)
(* rows it held.                                                           *)
LEMMA ShapeRewrite ==
    ASSUME TypeInv, ShapeInv,
           \/ RewriteCol("audit_p", "p", "audit_o") \/ RewriteCol("audit_o", "o", "audit_src")
           \/ RewriteCol("audit_src", "src", "audit_meta") \/ AuditFinish
    PROVE  ShapeInv' /\ Store' = Store
<1>1. Typed
  BY TypedHolds
<1>2. CASE AuditFinish
  <2>1. /\ pc = "audit_meta" /\ pc' = "idle" /\ UNCHANGED <<col, origin>>
        /\ col["s"] = BufCol("s") /\ col["p"] = BufCol("p") /\ col["o"] = BufCol("o")
    BY <1>2 DEF AuditFinish, ShapeInv, Rewritten, AuditPC
  <2>2. /\ Len(BufCol("s")) = Len(buf) /\ Len(BufCol("p")) = Len(buf)
        /\ Len(BufCol("o")) = Len(buf)
    BY <1>1, BufColType DEF Typed, Column
  <2>3. ShapeInv'
    BY <2>1, <2>2 DEF ShapeInv, Rewritten, AuditPC, Rows
  <2>4. \A k \in 1..Len(buf) : Triple(k)' = BufTriple(k)
    BY <2>1 DEF Triple, BufTriple, BufCol
  <2>5. Store = [k \in 1..Len(buf) |-> [t |-> BufTriple(k), run |-> origin[k].run]]
    BY <2>1 DEF Store, Rewritten, AuditPC
  <2>6. Store' = [k \in 1..Len(buf) |-> [t |-> Triple(k)', run |-> origin[k].run]]
    BY <2>1, <2>2 DEF Store, Rewritten, AuditPC
  <2>7. Store' = Store
    BY <2>4, <2>5, <2>6
  <2> QED BY <2>3, <2>7
<1>3. CASE ~ AuditFinish
  <2>0. \A j : BufTriple(j)' = BufTriple(j)
    BY <1>3 DEF RewriteCol, ram, BufTriple
  <2>1. UNCHANGED <<buf, origin>> /\ pc \in Rewritten /\ pc' \in Rewritten
    BY <1>3 DEF RewriteCol, ram, Rewritten, AuditPC
  <2>2. Store' = Store
    BY <2>0, <2>1 DEF Store
  <2>3. BufCol("s")' = BufCol("s") /\ BufCol("p")' = BufCol("p") /\ BufCol("o")' = BufCol("o")
    BY <2>1 DEF BufCol
  <2>4. CASE RewriteCol("audit_p", "p", "audit_o")
    <3>1. /\ pc = "audit_p" /\ pc' = "audit_o" /\ col'["s"] = col["s"] /\ col'["p"] = BufCol("p")
      BY <1>1, <2>4 DEF RewriteCol, Typed, Column
    <3> QED BY <2>0, <2>1, <2>2, <2>3, <3>1 DEF ShapeInv, Rewritten, AuditPC
  <2>5. CASE RewriteCol("audit_o", "o", "audit_src")
    <3>1. /\ pc = "audit_o" /\ pc' = "audit_src" /\ col'["s"] = col["s"]
          /\ col'["p"] = col["p"] /\ col'["o"] = BufCol("o")
      BY <1>1, <2>5 DEF RewriteCol, Typed, Column
    <3> QED BY <2>0, <2>1, <2>2, <2>3, <3>1 DEF ShapeInv, Rewritten, AuditPC
  <2>6. CASE RewriteCol("audit_src", "src", "audit_meta")
    <3>1. /\ pc = "audit_src" /\ pc' = "audit_meta" /\ col'["s"] = col["s"]
          /\ col'["p"] = col["p"] /\ col'["o"] = col["o"]
      BY <1>1, <2>6 DEF RewriteCol, Typed, Column
    <3> QED BY <2>0, <2>1, <2>2, <2>3, <3>1 DEF ShapeInv, Rewritten, AuditPC
  <2> QED BY <1>3, <2>4, <2>5, <2>6
<1> QED BY <1>2, <1>3

(* Complete rows come with the o append only, and go with the first        *)
(* rewrite of a sweep only.                                                *)
LEMMA ShapeStep ==
    ASSUME WholeRows, TypeInv, ShapeInv, [Next]_vars
    PROVE  /\ ShapeInv'
           /\ AppendCol("o", "src") => Joined(Store, Store')
           /\ RewriteCol("audit_s", "s", "audit_p") => Deduped(Store, Store')
           /\ ~ AppendCol("o", "src") /\ ~ RewriteCol("audit_s", "s", "audit_p") => Store' = Store
<1>a. CASE AppendCol("o", "src")
  <2>1. ~ RewriteCol("audit_s", "s", "audit_p")
    BY <1>a DEF AppendCol, RewriteCol
  <2> QED BY <1>a, <2>1, ShapeCommit
<1>b. CASE RewriteCol("audit_s", "s", "audit_p")
  <2>1. ~ AppendCol("o", "src")
    BY <1>b DEF AppendCol, RewriteCol
  <2> QED BY <1>b, <2>1, ShapeSweep
<1>c. ASSUME ~ AppendCol("o", "src"), ~ RewriteCol("audit_s", "s", "audit_p")
      PROVE  ShapeInv' /\ Store' = Store
  <2>1. CASE Open \/ Crash
    <3>1. pc \notin {"p", "o"} \cup AuditPC /\ pc' \notin {"p", "o"} \cup AuditPC
      BY <2>1 DEF Open, Crash, WholeRows, AuditPC
    <3> QED BY <2>1, <3>1, ShapeQuiet DEF Open, Crash, disk
  <2>2. CASE (\E f \in Fact, src \in Source \cup {0} : AddNew(f, src)) \/ (\E f \in Fact : AddDuplicate(f))
    <3>1. pc \notin {"p", "o"} \cup AuditPC /\ pc' \notin {"p", "o"} \cup AuditPC
          /\ UNCHANGED <<col, origin>>
      BY <2>2 DEF AddNew, AddDuplicate, AuditPC, disk
    <3> QED BY <3>1, ShapeQuiet
  <2>3. CASE FlushStart \/ FlushEmpty \/ FinishWrite \/ RebuildSorted \/ RebuildMeta \/ RebuildUnlink
    <3>1. pc \notin {"p", "o"} \cup AuditPC /\ pc' \notin {"p", "o"} \cup AuditPC
          /\ UNCHANGED <<col, origin>>
      BY <2>3 DEF FlushStart, FlushEmpty, FinishWrite, RebuildSorted, RebuildMeta, RebuildUnlink, AuditPC
    <3> QED BY <3>1, ShapeQuiet
  <2>4. CASE Backfill
    <3>0. Typed
      BY TypedHolds
    <3>1. pc \notin {"p", "o"} \cup AuditPC /\ pc' \notin {"p", "o"} \cup AuditPC
          /\ UNCHANGED <<col["s"], col["p"], col["o"], origin>>
      BY <2>4, <3>0 DEF Backfill, AuditPC, Typed, Column
    <3> QED BY <3>1, ShapeQuiet
  <2>5. CASE AppendColumns
    <3>1. CASE AppendCol("src", "meta")
      <4>0. Typed
        BY TypedHolds
      <4>1. pc \notin {"p", "o"} \cup AuditPC /\ pc' \notin {"p", "o"} \cup AuditPC
            /\ UNCHANGED <<col["s"], col["p"], col["o"], origin>>
        BY <3>1, <4>0 DEF AppendCol, AuditPC, Typed, Column
      <4> QED BY <4>1, ShapeQuiet
    <3> QED BY <1>c, <2>5, <3>1, ShapeAppendS, ShapeAppendP DEF AppendColumns
  <2>6. CASE \E batch \in TurboBatch, src \in Source \cup {0} : Turbo(batch, src)
    <3>1. pc \notin {"p", "o"} \cup AuditPC /\ pc' \notin {"p", "o"} \cup AuditPC
          /\ UNCHANGED <<col, origin>>
      BY <2>6 DEF Turbo, AuditPC
    <3> QED BY <3>1, ShapeQuiet
  <2>7. CASE (\E f \in Retractable : Retract(f)) \/ (\E ts \in 1..MaxGen : RebuildStart(ts))
    <3>1. pc \notin {"p", "o"} \cup AuditPC /\ pc' \notin {"p", "o"} \cup AuditPC
          /\ UNCHANGED <<col, origin>>
      BY <2>7 DEF Retract, RebuildStart, AuditPC
    <3> QED BY <3>1, ShapeQuiet
  <2>8. CASE AuditStart
    BY <2>8, ShapeAudit
  <2>9. CASE AuditColumns \/ AuditFinish
    BY <1>c, <2>9, ShapeRewrite DEF AuditColumns
  <2>10. CASE ReaderOpen \/ ReaderQuery \/ UNCHANGED vars
    <3>1. UNCHANGED <<col, buf, origin, pc, mode, opens>>
      BY <2>10 DEF ReaderOpen, ReaderQuery, vars, disk, ram
    <3> QED BY <3>1, ShapeSame
  <2> QED BY <2>1, <2>2, <2>3, <2>4, <2>5, <2>6, <2>7, <2>8, <2>9, <2>10 DEF Next
<1> QED BY <1>a, <1>b, <1>c
-----------------------------------------------------------------------------
(* What one store object writes *)

KeyOf(t) == TriKey(t[1], t[2], t[3])

(* Rows in memory, if any, were added by this object through add.          *)
Adding ==
    \/ pc \in {"idle", "terms", "backfill", "reindex_sorted", "reindex_meta", "reindex_unlink"}
    \/ pc \in {"s", "p", "o"} /\ mode # "turbo"

(* The object's rows on disk are different triples, with their keys in its *)
(* de-dup set.                                                             *)
OwnRows ==
    \A i \in DOMAIN Store : Store[i].run = opens =>
        /\ KeyOf(Store[i].t) \in seen
        /\ \A j \in DOMAIN Store : Store[j].run = opens /\ i # j => Store[i].t # Store[j].t

(* So are those in its buffer, which are not on disk either. *)
OwnBuffer ==
    \A j \in 1..Len(buf) :
        /\ KeyOf(BufTriple(j)) \in seen
        /\ \A k \in 1..Len(buf) : j # k => BufTriple(j) # BufTriple(k)
        /\ \A i \in DOMAIN Store : Store[i].run = opens => Store[i].t # BufTriple(j)

RunInv ==
    /\ \A i \in DOMAIN Store : Store[i].run \in Nat /\ Store[i].run <= opens
    /\ pc # "down" => opens >= 1 /\ OwnRows
    /\ Adding => OwnBuffer

(* Every complete row has a history entry of its type. *)
LEMMA StoreRuns ==
    ASSUME Typed, pc \notin Rewritten, Len(col["o"]) <= Rows
    PROVE  \A i \in DOMAIN Store : Store[i].run = origin[i].run /\ Store[i].run \in Nat
<1>1. Store = [i \in 1..Len(col["o"]) |-> [t |-> Triple(i), run |-> origin[i].run]]
  BY DEF Store
<1>2. \A i \in 1..Len(col["o"]) : i \in 1..Len(origin)
  BY DEF Typed
<1>3. \A i \in 1..Len(origin) : origin[i].run \in Nat
  <2> DEFINE T == [src : Nat, run : Nat]
  <2>1. \A i \in 1..Len(origin) : origin[i] \in T
    <3>1. origin \in Seq(T)
      BY DEF Typed
    <3> HIDE DEF T
    <3> QED BY <3>1, ElementOfSeq
  <2> QED BY <2>1
<1> QED BY <1>1, <1>2, <1>3

LEMMA InitRuns == Init => RunInv
<1> SUFFICES ASSUME Init PROVE RunInv
  OBVIOUS
<1>1. PICK old \in Legacy \cup {<<>>} : origin = [i \in 1..Len(old) |-> LegacyOrigin]
  BY DEF Init
<1>2. Len(old) \in Nat
  <2>1. <<>> \in Seq(Fact)
    BY EmptySeq
  <2>2. old \in Seq(Fact)
    BY <2>1, LegacyAssumption, Zenon
  <2> QED BY <2>2
<1>3. Typed /\ ShapeInv /\ pc = "down" /\ opens = 0
  BY InitType, InitShape, TypedHolds DEF Init
<1>4. Len(col["o"]) = Rows /\ Rows = Len(old)
  BY <1>1, <1>2, <1>3 DEF ShapeInv, Rewritten, AuditPC, Typed
<1>5. \A i \in DOMAIN Store : Store[i].run = 0
  BY <1>1, <1>3, <1>4 DEF Store, LegacyOrigin, Rewritten, AuditPC
<1> QED BY <1>3, <1>5 DEF RunInv, Adding

(* A new triple is none of the rows or buffered rows whose keys are known. *)
LEMMA RunsAdd ==
    ASSUME TypeInv, RunInv, Store' = Store,
           NEW f \in Fact, NEW src \in Source \cup {0}, AddNew(f, src)
    PROVE  RunInv'
<1> DEFINE dict == InternFact(i2s, f)
           row  == Row(dict, f, src)
           new  == <<row.s, row.p, row.o>>
<1>1. /\ pc = "idle" /\ pc' \in {"idle", "terms"} /\ opens' = opens
      /\ KeyOf(new) \notin seen /\ seen' = seen \cup {KeyOf(new)}
      /\ buf' = Append(buf, row)
  BY DEF AddNew, KeyOf
<1>2. PICK n \in Nat : n = Len(buf)
  BY TypedHolds DEF Typed
<1>3. buf \in Seq(RowType)
  BY DEF TypeInv, TypeOK
<1> HIDE DEF row
<1>4. /\ Len(buf') = n + 1 /\ buf'[n + 1] = row
      /\ \A j \in 1..n : buf'[j] = buf[j]
  BY <1>1, <1>2, <1>3
<1>5. BufTriple(n + 1)' = new /\ \A j \in 1..n : BufTriple(j)' = BufTriple(j)
  BY <1>4 DEF BufTriple
<1> HIDE DEF new
<1>6. OwnRows /\ OwnBuffer /\ opens >= 1
  BY <1>1 DEF RunInv, Adding
<1>7. \A j \in 1..n : KeyOf(BufTriple(j)) \in seen /\ BufTriple(j) # new
  BY <1>1, <1>2, <1>6 DEF OwnBuffer
<1>8. \A i \in DOMAIN Store : Store[i].run = opens => Store[i].t # new
  BY <1>1, <1>6 DEF OwnRows
<1>9. OwnRows'
  BY <1>1, <1>6 DEF OwnRows
<1>10. OwnBuffer'
  <2>1. \A j \in 1..(n + 1) : j \in 1..n \/ j = n + 1
    OBVIOUS
  <2>2. \A j \in 1..n : /\ KeyOf(BufTriple(j)') \in seen'
                        /\ \A i \in DOMAIN Store : Store[i].run = opens => Store[i].t # BufTriple(j)'
                        /\ \A k \in 1..n : j # k => BufTriple(j)' # BufTriple(k)'
                        /\ BufTriple(j)' # BufTriple(n + 1)'
    BY <1>1, <1>2, <1>5, <1>6, <1>7 DEF OwnBuffer
  <2>3. /\ KeyOf(BufTriple(n + 1)') \in seen'
        /\ \A i \in DOMAIN Store : Store[i].run = opens => Store[i].t # BufTriple(n + 1)'
    BY <1>1, <1>5, <1>8
  <2> QED BY <1>1, <1>4, <2>1, <2>2, <2>3 DEF OwnBuffer
<1> QED BY <1>1, <1>6, <1>9, <1>10 DEF RunInv

(* A step that leaves rows, buffer and de-dup set alone.                   *)
LEMMA RunsSame ==
    ASSUME RunInv, UNCHANGED <<Store, buf, seen, opens>>, Adding' => Adding,
           pc = "down" => pc' = "down"
    PROVE  RunInv'
<1>1. \A j : BufTriple(j)' = BufTriple(j)
  BY DEF BufTriple
<1>2. OwnRows => OwnRows'
  BY DEF OwnRows
<1>3. OwnBuffer => OwnBuffer'
  BY <1>1 DEF OwnBuffer
<1> QED BY <1>2, <1>3 DEF RunInv

(* A step after which nothing is in memory.                                *)
LEMMA RunsEmptied ==
    ASSUME RunInv, UNCHANGED <<Store, seen, opens>>, buf' = <<>>, pc # "down"
    PROVE  RunInv'
<1>1. OwnRows => OwnRows'
  BY DEF OwnRows
<1>2. OwnBuffer'
  BY DEF OwnBuffer
<1> QED BY <1>1, <1>2 DEF RunInv

(* The o append makes rows of the buffer: the object's own, or none's.     *)
LEMMA RunsCommit ==
    ASSUME TypeInv, RunInv, AppendCol("o", "src"), Joined(Store, Store')
    PROVE  RunInv'
<1>1. /\ pc = "o" /\ pc' = "src" /\ UNCHANGED <<buf, seen, mode, opens>>
      /\ opens >= 1 /\ OwnRows /\ opens \in Nat
  BY BoundAssumption DEF AppendCol, ram, RunInv, TypeInv, TypeOK
<1>2. BufRun = IF mode = "turbo" THEN 0 ELSE opens
  BY DEF BufRun
<1>3. PICK n \in Nat, m \in Nat : n = Len(Store) /\ m = Len(buf)
  BY DEF Joined
<1>4. /\ DOMAIN Store = 1..n /\ DOMAIN Store' = 1..(n + m)
      /\ \A i \in 1..n : Store'[i] = Store[i]
      /\ \A k \in 1..m : Store'[n + k] = [t |-> BufTriple(k), run |-> BufRun]
  BY <1>3 DEF Joined
<1>5. \A i \in 1..(n + m) : i \in 1..n \/ \E k \in 1..m : i = n + k
  <2> TAKE i \in 1..(n + m)
  <2>1. i <= n => i \in 1..n
    OBVIOUS
  <2>2. ~ (i <= n) => i - n \in 1..m /\ i = n + (i - n)
    OBVIOUS
  <2> QED BY <2>1, <2>2
<1>6. \A k \in 1..m : Store'[n + k].t = BufTriple(k) /\ Store'[n + k].run = BufRun
  <2> TAKE k \in 1..m
  <2>1. Store'[n + k] = [t |-> BufTriple(k), run |-> BufRun]
    BY <1>4, Zenon
  <2> QED BY <2>1
<1>7. \A i \in 1..(n + m) : Store'[i].run \in Nat /\ Store'[i].run <= opens
  <2>1. \A i \in 1..n : Store'[i].run \in Nat /\ Store'[i].run <= opens
    BY <1>4 DEF RunInv
  <2>2. BufRun \in Nat /\ BufRun <= opens
    BY <1>1, <1>2
  <2> QED BY <1>5, <1>6, <2>1, <2>2
<1>8. OwnRows'
  <2>1. CASE mode = "turbo"
    <3>1. BufRun # opens
      BY <1>1, <1>2, <2>1
    <3>2. \A i \in 1..(n + m) : Store'[i].run = opens => i \in 1..n
      BY <1>5, <1>6, <3>1
    <3> QED BY <1>1, <1>4, <3>2 DEF OwnRows
  <2>2. CASE mode # "turbo"
    <3>1. OwnBuffer
      BY <1>1, <2>2 DEF RunInv, Adding
    <3>2. \A i \in 1..n : Store'[i].run = opens =>
             /\ KeyOf(Store'[i].t) \in seen
             /\ \A j \in 1..n : Store'[j].run = opens /\ i # j => Store'[i].t # Store'[j].t
             /\ \A k \in 1..m : Store'[i].t # BufTriple(k)
      BY <1>1, <1>3, <1>4, <3>1 DEF OwnRows, OwnBuffer
    <3>3. \A k \in 1..m :
             /\ KeyOf(BufTriple(k)) \in seen
             /\ \A l \in 1..m : k # l => BufTriple(k) # BufTriple(l)
      BY <1>3, <3>1 DEF OwnBuffer
    <3>4. \A i, j \in 1..(n + m) :
             Store'[i].run = opens /\ Store'[j].run = opens /\ i # j =>
                 Store'[i].t # Store'[j].t
      <4> TAKE i, j \in 1..(n + m)
      <4> HAVE Store'[i].run = opens /\ Store'[j].run = opens /\ i # j
      <4>1. CASE i \in 1..n
        BY <1>5, <1>6, <3>2, <4>1
      <4>2. CASE j \in 1..n
        BY <1>5, <1>6, <3>2, <4>2
      <4>3. CASE i \notin 1..n /\ j \notin 1..n
        BY <1>5, <1>6, <3>3, <4>3
      <4> QED BY <4>1, <4>2, <4>3
    <3>5. \A i \in 1..(n + m) : Store'[i].run = opens => KeyOf(Store'[i].t) \in seen
      BY <1>5, <1>6, <3>2, <3>3
    <3> QED BY <1>1, <1>4, <3>4, <3>5 DEF OwnRows
  <2> QED BY <2>1, <2>2
<1> QED BY <1>1, <1>4, <1>7, <1>8 DEF RunInv, Adding

LEMMA RunStep ==
    ASSUME WholeRows, TypeInv, ShapeInv, RunInv, [Next]_vars
    PROVE  RunInv'
<1>1. CASE AppendCol("o", "src")
  BY <1>1, ShapeStep, RunsCommit
<1>2. CASE RewriteCol("audit_s", "s", "audit_p")
  <2>1. Deduped(Store, Store')
    BY <1>2, ShapeStep
  <2>2. UNCHANGED <<seen, opens>> /\ pc = "audit_s" /\ pc' = "audit_p"
    BY <1>2 DEF RewriteCol, ram
  <2>3. OwnRows /\ opens >= 1
    BY <2>2 DEF RunInv
  <2>4. OwnRows'
    BY <2>1, <2>2, <2>3 DEF OwnRows, Deduped
  <2>5. \A i \in DOMAIN Store' : Store'[i].run \in Nat /\ Store'[i].run <= opens
    BY <2>1 DEF RunInv, Deduped
  <2> QED BY <2>2, <2>3, <2>4, <2>5 DEF RunInv, Adding
<1>3. ASSUME ~ AppendCol("o", "src"), ~ RewriteCol("audit_s", "s", "audit_p")
      PROVE  RunInv'
  <2>0. Store' = Store
    BY <1>3, ShapeStep
  <2>1. CASE Open
    <3>1. opens \in Nat /\ opens' = opens + 1 /\ buf' = <<>>
      BY <2>1, BoundAssumption DEF Open, TypeInv, TypeOK
    <3>2. \A i \in DOMAIN Store : Store[i].run \in Nat /\ Store[i].run <= opens' /\ Store[i].run # opens'
      BY <3>1 DEF RunInv
    <3>3. OwnRows' /\ OwnBuffer'
      BY <2>0, <3>1, <3>2 DEF OwnRows, OwnBuffer
    <3>4. opens' >= 1
      BY <3>1
    <3> QED BY <2>0, <3>2, <3>3, <3>4 DEF RunInv
  <2>2. CASE Crash
    BY <2>0, <2>2 DEF Crash, RunInv, Adding
  <2>3. CASE \E f \in Fact, src \in Source \cup {0} : AddNew(f, src)
    BY <2>0, <2>3, RunsAdd
  <2>4. CASE (\E f \in Fact : AddDuplicate(f)) \/ FlushStart \/ FlushEmpty
    <3>1. UNCHANGED <<buf, seen, opens>> /\ (Adding' => Adding) /\ pc # "down"
      BY <2>4 DEF AddDuplicate, FlushStart, FlushEmpty, Adding
    <3> QED BY <2>0, <3>1, RunsSame
  <2>5. CASE Backfill \/ AppendColumns
    <3>1. UNCHANGED <<buf, seen, opens>> /\ (Adding' => Adding) /\ pc # "down"
      BY <2>5 DEF Backfill, AppendColumns, AppendCol, ram, Adding
    <3> QED BY <2>0, <3>1, RunsSame
  <2>6. CASE FinishWrite \/ AuditFinish
    <3>1. UNCHANGED <<seen, opens>> /\ buf' = <<>> /\ pc # "down"
      BY <2>6 DEF FinishWrite, AuditFinish
    <3> QED BY <2>0, <3>1, RunsEmptied
  <2>7. CASE (\E batch \in TurboBatch, src \in Source \cup {0} : Turbo(batch, src)) \/ AuditStart
    <3>1. UNCHANGED <<seen, opens>> /\ pc # "down" /\ ~ Adding'
      BY <2>7 DEF Turbo, AuditStart, Adding
    <3>2. OwnRows => OwnRows'
      BY <2>0, <3>1 DEF OwnRows
    <3> QED BY <2>0, <3>1, <3>2 DEF RunInv
  <2>8. CASE (\E f \in Retractable : Retract(f)) \/ (\E ts \in 1..MaxGen : RebuildStart(ts))
    <3>1. UNCHANGED <<buf, seen, opens>> /\ (Adding' => Adding) /\ pc # "down"
      BY <2>8 DEF Retract, RebuildStart, ram, Adding
    <3> QED BY <2>0, <3>1, RunsSame
  <2>9. CASE RebuildSorted \/ RebuildMeta \/ RebuildUnlink
    <3>1. UNCHANGED <<buf, seen, opens>> /\ (Adding' => Adding) /\ pc # "down"
      BY <2>9 DEF RebuildSorted, RebuildMeta, RebuildUnlink, ram, Adding
    <3> QED BY <2>0, <3>1, RunsSame
  <2>10. CASE AuditColumns
    <3>1. UNCHANGED <<buf, seen, opens>> /\ ~ Adding' /\ pc # "down"
      BY <2>10 DEF AuditColumns, RewriteCol, ram, Adding
    <3> QED BY <2>0, <3>1, RunsSame
  <2>11. CASE ReaderOpen \/ ReaderQuery \/ UNCHANGED vars
    <3>1. UNCHANGED <<buf, seen, opens, pc, mode>>
      BY <2>11 DEF ReaderOpen, ReaderQuery, vars, ram
    <3>2. Adding' => Adding
      BY <3>1 DEF Adding
    <3> QED BY <2>0, <3>1, <3>2, RunsSame
  <2> QED BY <2>1, <2>2, <2>3, <2>4, <2>5, <2>6, <2>7, <2>8, <2>9, <2>10, <2>11 DEF Next
<1> QED BY <1>1, <1>2, <1>3

LEMMA RunsHold ==
    ASSUME WholeRows
    PROVE  Spec => [](TypeInv /\ ShapeInv /\ RunInv)
<1>1. Init => TypeInv /\ ShapeInv /\ RunInv
  BY InitType, InitShape, InitRuns
<1>2. TypeInv /\ ShapeInv /\ RunInv /\ [Next]_vars => (TypeInv /\ ShapeInv /\ RunInv)'
  BY TypeStep, ShapeStep, RunStep
<1> QED BY <1>1, <1>2, PTL DEF Spec

(* One store object never writes a triple twice through add, however adds, *)
(* flushes, turbo batches and sweeps interleave, over any legacy store and *)
(* with readers; the writer may crash wherever columns are of one length.  *)
THEOREM DistinctCorrect ==
    ASSUME WholeRows
    PROVE  Spec => []DistinctInRun
<1>1. TypeInv /\ ShapeInv /\ RunInv => DistinctInRun
  <2> SUFFICES ASSUME TypeInv, ShapeInv, RunInv, pc \in {"idle", "terms"}
               PROVE  LET Mine == {i \in 1..Rows : origin[i].run = opens}
                      IN  /\ \A i, j \in Mine : i # j => Triple(i) # Triple(j)
                          /\ \A i, j \in DOMAIN buf : i # j => BufTriple(i) # BufTriple(j)
                          /\ \A i \in Mine, j \in DOMAIN buf : Triple(i) # BufTriple(j)
    BY DEF DistinctInRun, BufTriple
  <2>1. Len(col["o"]) = Rows /\ DOMAIN buf = 1..Len(buf) /\ OwnRows /\ OwnBuffer
    <3>1. buf \in Seq(RowType)
      BY DEF TypeInv, TypeOK
    <3> QED BY <3>1 DEF ShapeInv, RunInv, Adding, Rewritten, AuditPC
  <2>2. Store = [i \in 1..Rows |-> [t |-> Triple(i), run |-> origin[i].run]]
    BY <2>1 DEF Store, Rewritten, AuditPC
  <2>3. DOMAIN Store = 1..Rows /\ \A i \in 1..Rows : Store[i].t = Triple(i) /\ Store[i].run = origin[i].run
    BY <2>2
  <2> QED BY <2>1, <2>3 DEF OwnRows, OwnBuffer
<1> QED BY <1>1, RunsHold, PTL
-----------------------------------------------------------------------------
(* What sweeps are for *)

(* When a sweep ends, the files have the rows it held: each triple once,   *)
(* whichever lane wrote it, however many copies there were.                *)
THEOREM SweepCorrect ==
    ASSUME WholeRows
    PROVE  Spec => SweepRestoresExactness
<1>1. TypeInv /\ ShapeInv =>
        (AuditFinish => \A i, j \in 1..Rows : i # j => Triple(i) # Triple(j))
  <2> SUFFICES ASSUME TypeInv, ShapeInv, AuditFinish
               PROVE  \A i, j \in 1..Rows : i # j => Triple(i) # Triple(j)
    OBVIOUS
  <2>1. /\ col["s"] = BufCol("s") /\ col["p"] = BufCol("p") /\ col["o"] = BufCol("o")
        /\ \A i, j \in 1..Len(buf) : i # j => BufTriple(i) # BufTriple(j)
    BY DEF AuditFinish, ShapeInv, Rewritten, AuditPC
  <2>2. Rows = Len(buf)
    BY <2>1, TypedHolds, BufColType DEF Typed, Rows, Column
  <2>3. \A i \in 1..Len(buf) : Triple(i) = BufTriple(i)
    BY <2>1 DEF Triple, BufTriple, BufCol
  <2> QED BY <2>1, <2>2, <2>3
<1> QED BY <1>1, RunsHold, PTL DEF SweepRestoresExactness

(* Rows of no object's own, of a turbo batch, repeat no older row unless a *)
(* sweep is on record as pending; a batch puts it on record as it ends.    *)
DebtInv ==
    ~ meta.audit /\ ~ (mode = "turbo" /\ pc \in {"src", "meta"}) =>
        \A j \in DOMAIN Store : Store[j].run = 0 =>
            \A i \in 1..(j - 1) : Store[i].t # Store[j].t

(* The fact a triple of ids spells. *)
Spells(dict, t) == FactOf(dict, t[1], t[2], t[3])

(* A store whose rows are all different owes nothing. *)
LEMMA DebtExact ==
    ASSUME NEW S, NEW n \in Nat, DOMAIN S = 1..n,
           \A k, l \in DOMAIN S : k # l => S[k].t # S[l].t
    PROVE  \A j \in DOMAIN S : \A i \in 1..(j - 1) : S[i].t # S[j].t
<1> TAKE j \in DOMAIN S
<1> TAKE i \in 1..(j - 1)
<1>1. i \in DOMAIN S /\ i # j
  OBVIOUS
<1> QED BY <1>1

LEMMA InitDebt ==
    ASSUME \A old \in Legacy : \A i, j \in DOMAIN old : i # j => old[i] # old[j],
           Init
    PROVE  DebtInv
<1>1. PICK old \in Legacy \cup {<<>>} : \E dict \in Orderings(TermsOf(old)) :
        /\ termsFile = dict
        /\ col = [c \in Column |->
                    IF c = "src" THEN <<>>
                    ELSE [i \in 1..Len(old) |-> Row(dict, old[i], 0)[c]]]
  BY DEF Init
<1>2. old \in Seq(Fact) /\ Len(old) \in Nat
  <2>1. <<>> \in Seq(Fact)
    BY EmptySeq
  <2>2. old \in Seq(Fact)
    BY <2>1, LegacyAssumption, Zenon
  <2> QED BY <2>2
<1>3. IsFiniteSet(TermsOf(old)) /\ TermsOf(old) \in SUBSET Term
  BY <1>2, TermsOfFinite
<1>4. termsFile \in Seq(Term) /\ Ran(termsFile) = TermsOf(old)
  BY <1>1, <1>3, OrderingsType
<1>5. \A i \in 1..Len(old) :
        /\ Triple(i) = <<Row(termsFile, old[i], 0).s, Row(termsFile, old[i], 0).p,
                         Row(termsFile, old[i], 0).o>>
        /\ Spells(termsFile, Triple(i)) = old[i]
  <2> TAKE i \in 1..Len(old)
  <2>1. old[i] \in Fact /\ {old[i][1], old[i][2], old[i][3]} \subseteq TermsOf(old)
    BY <1>2 DEF TermsOf
  <2>2. FactOf(termsFile, Row(termsFile, old[i], 0).s, Row(termsFile, old[i], 0).p,
               Row(termsFile, old[i], 0).o) = old[i]
    BY <1>4, <2>1, RowSpellsFact
  <2>3. Triple(i) = <<Row(termsFile, old[i], 0).s, Row(termsFile, old[i], 0).p,
                      Row(termsFile, old[i], 0).o>>
    BY <1>1 DEF Triple, Column
  <2> QED BY <2>2, <2>3 DEF Spells
<1>6. \A i, j \in 1..Len(old) : i # j => old[i] # old[j]
  <2>1. CASE old = <<>>
    BY <2>1
  <2>2. CASE old \in Legacy
    BY <1>2, <2>2
  <2> QED BY <2>1, <2>2
<1>7. \A i, j \in 1..Len(old) : i # j => Triple(i) # Triple(j)
  <2> TAKE i, j \in 1..Len(old)
  <2> HAVE i # j
  <2>1. Spells(termsFile, Triple(i)) # Spells(termsFile, Triple(j))
    BY <1>5, <1>6
  <2> QED BY <2>1
<1>8. pc = "down" /\ Len(col["o"]) = Len(old)
  BY <1>1, <1>2 DEF Init, Column
<1>9. Store = [i \in 1..Len(old) |-> [t |-> Triple(i), run |-> origin[i].run]]
  BY <1>8 DEF Store, Rewritten, AuditPC
<1>10. DOMAIN Store = 1..Len(old) /\ \A i \in 1..Len(old) : Store[i].t = Triple(i)
  BY <1>9
<1>11. \A k, l \in DOMAIN Store : k # l => Store[k].t # Store[l].t
  BY <1>7, <1>10
<1> QED BY <1>2, <1>10, <1>11, DebtExact DEF DebtInv

(* A flush adds rows of its own; a batch adds rows under the condition     *)
(* that its end will record.                                               *)
LEMMA DebtCommit ==
    ASSUME RunInv, DebtInv, AppendCol("o", "src"), Joined(Store, Store')
    PROVE  DebtInv'
<1>1. /\ pc = "o" /\ pc' = "src" /\ UNCHANGED <<buf, meta, mode, opens>> /\ opens >= 1
  BY DEF AppendCol, ram, RunInv
<1>2. CASE mode = "turbo"
  BY <1>1, <1>2 DEF DebtInv
<1>3. CASE mode # "turbo"
  <2>1. BufRun = opens /\ BufRun # 0
    BY <1>1, <1>3 DEF BufRun
  <2>2. PICK n \in Nat, m \in Nat : n = Len(Store) /\ m = Len(buf)
    BY DEF Joined
  <2>3. /\ DOMAIN Store = 1..n /\ DOMAIN Store' = 1..(n + m)
        /\ \A i \in 1..n : Store'[i] = Store[i]
        /\ \A k \in 1..m : Store'[n + k] = [t |-> BufTriple(k), run |-> BufRun]
    BY <2>2 DEF Joined
  <2>4. \A j \in 1..(n + m) : Store'[j].run = 0 => j \in 1..n
    <3> TAKE j \in 1..(n + m)
    <3>1. CASE j \notin 1..n
      <4>1. j - n \in 1..m /\ n + (j - n) = j
        BY <3>1
      <4>2. Store'[j] = [t |-> BufTriple(j - n), run |-> BufRun]
        BY <2>3, <4>1
      <4>3. Store'[j].run = BufRun
        BY <4>2
      <4> QED BY <2>1, <4>3
    <3> QED BY <3>1
  <2>5. \A j \in 1..n : \A i \in 1..(j - 1) : i \in 1..n
    OBVIOUS
  <2> QED BY <1>1, <1>3, <2>3, <2>4, <2>5 DEF DebtInv
<1> QED BY <1>2, <1>3

LEMMA DebtStep ==
    ASSUME WholeRows, CrashPoint \cap {"src", "meta"} = {},
           TypeInv, ShapeInv, RunInv, DebtInv, [Next]_vars
    PROVE  DebtInv'
<1>1. CASE AppendCol("o", "src")
  BY <1>1, ShapeStep, DebtCommit
<1>2. CASE RewriteCol("audit_s", "s", "audit_p")
  <2>1. Deduped(Store, Store')
    BY <1>2, ShapeStep
  <2>2. PICK n \in Nat : n = Len(buf)
    BY TypedHolds DEF Typed
  <2>3. DOMAIN Store' = 1..n
    <3>1. pc' = "audit_p" /\ buf' = buf
      BY <1>2 DEF RewriteCol, ram
    <3> QED BY <2>2, <3>1 DEF Store, Rewritten, AuditPC
  <2>4. \A k, l \in DOMAIN Store' : k # l => Store'[k].t # Store'[l].t
    BY <2>1 DEF Deduped
  <2> HIDE DEF Store
  <2>5. \A j \in DOMAIN Store' : \A i \in 1..(j - 1) : Store'[i].t # Store'[j].t
    BY <2>3, <2>4, DebtExact
  <2> QED BY <2>5 DEF DebtInv
<1>3. ASSUME ~ AppendCol("o", "src"), ~ RewriteCol("audit_s", "s", "audit_p")
      PROVE  DebtInv'
  <2>0. Store' = Store
    BY <1>3, ShapeStep
  <2>1. CASE Open \/ Crash
    BY <2>0, <2>1 DEF Open, Crash, disk, DebtInv
  <2>2. CASE (\E f \in Fact, src \in Source \cup {0} : AddNew(f, src)) \/ (\E f \in Fact : AddDuplicate(f))
    BY <2>0, <2>2 DEF AddNew, AddDuplicate, disk, DebtInv
  <2>3. CASE FlushStart \/ FlushEmpty \/ FinishWrite
    <3>1. CASE FinishWrite
      <4>1. /\ meta'.audit = (meta.audit \/ mode = "turbo") /\ mode' = mode
            /\ pc = "meta" /\ pc' = "idle"
        BY <3>1 DEF FinishWrite, MetaOf
      <4> QED BY <2>0, <4>1 DEF DebtInv
    <3> QED BY <2>0, <2>3, <3>1 DEF FlushStart, FlushEmpty, MetaOf, DebtInv
  <2>4. CASE Backfill \/ AppendColumns
    BY <1>3, <2>0, <2>4 DEF Backfill, AppendColumns, AppendCol, ram, DebtInv
  <2>5. CASE \E batch \in TurboBatch, src \in Source \cup {0} : Turbo(batch, src)
    BY <2>0, <2>5 DEF Turbo, DebtInv
  <2>6. CASE (\E f \in Retractable : Retract(f)) \/ (\E ts \in 1..MaxGen : RebuildStart(ts))
    BY <2>0, <2>6 DEF Retract, RebuildStart, ram, DebtInv
  <2>7. CASE RebuildSorted \/ RebuildMeta \/ RebuildUnlink
    BY <2>0, <2>7 DEF RebuildSorted, RebuildMeta, RebuildUnlink, MetaOf, ram, DebtInv
  <2>8. CASE AuditStart \/ AuditColumns
    BY <2>0, <2>8 DEF AuditStart, AuditColumns, RewriteCol, disk, ram, DebtInv
  <2>9. CASE AuditFinish
    <3>1. pc = "audit_meta" /\ \A i, j \in 1..Len(buf) : i # j => BufTriple(i) # BufTriple(j)
      BY <2>9 DEF AuditFinish, ShapeInv, Rewritten, AuditPC
    <3>2. Store = [k \in 1..Len(buf) |-> [t |-> BufTriple(k), run |-> origin[k].run]]
      BY <3>1 DEF Store, Rewritten, AuditPC
    <3>3. DOMAIN Store = 1..Len(buf) /\ \A k \in 1..Len(buf) : Store[k].t = BufTriple(k)
      BY <3>2
    <3>4. PICK n \in Nat : n = Len(buf)
      BY TypedHolds DEF Typed
    <3>5. \A j \in DOMAIN Store : \A i \in 1..(j - 1) : Store[i].t # Store[j].t
      BY <3>1, <3>3, <3>4, DebtExact
    <3> QED BY <2>0, <3>5 DEF DebtInv
  <2>10. CASE ReaderOpen \/ ReaderQuery \/ UNCHANGED vars
    BY <2>0, <2>10 DEF ReaderOpen, ReaderQuery, vars, disk, ram, MetaOf, DebtInv
  <2> QED BY <2>1, <2>2, <2>3, <2>4, <2>5, <2>6, <2>7, <2>8, <2>9, <2>10 DEF Next
<1> QED BY <1>1, <1>2, <1>3

(* Turbo's debt stays on record, through flushes, queries of an old        *)
(* reader, reopens and sweeps, over legacy stores without copies, unless   *)
(* the writer dies between a batch's columns and its meta.json.            *)
THEOREM DebtCorrect ==
    ASSUME WholeRows, CrashPoint \cap {"src", "meta"} = {},
           \A old \in Legacy : \A i, j \in DOMAIN old : i # j => old[i] # old[j]
    PROVE  Spec => []DebtFlagged
<1>1. Init => TypeInv /\ ShapeInv /\ RunInv /\ DebtInv
  BY InitType, InitShape, InitRuns, InitDebt
<1>2. TypeInv /\ ShapeInv /\ RunInv /\ DebtInv /\ [Next]_vars =>
        (TypeInv /\ ShapeInv /\ RunInv /\ DebtInv)'
  BY TypeStep, ShapeStep, RunStep, DebtStep
<1>3. TypeInv /\ ShapeInv /\ DebtInv => DebtFlagged
  <2> SUFFICES ASSUME TypeInv, ShapeInv, DebtInv, pc = "idle", ~ meta.audit,
                      NEW j \in 1..Rows, origin[j].run = 0, NEW i \in 1..(j - 1)
               PROVE  Triple(i) # Triple(j)
    BY DEF DebtFlagged
  <2>1. Len(col["o"]) = Rows /\ Rows \in Nat
    BY TypedHolds DEF ShapeInv, Rewritten, AuditPC, Typed
  <2>2. Store = [k \in 1..Rows |-> [t |-> Triple(k), run |-> origin[k].run]]
    BY <2>1 DEF Store, Rewritten, AuditPC
  <2>3. \A k \in 1..Rows : Store[k].t = Triple(k) /\ Store[k].run = origin[k].run
    BY <2>2
  <2>4. DOMAIN Store = 1..Rows /\ i \in 1..Rows
    BY <2>1, <2>2
  <2> QED BY <2>3, <2>4 DEF DebtInv
<1> QED BY <1>1, <1>2, <1>3, PTL DEF Spec
-----------------------------------------------------------------------------
(* Dictionaries that grow *)

(* No fact has an empty string in it: loading skips empty lines, and so    *)
(* would shift all later ids.                                              *)
NoBlanks == \A f \in Fact : Blank \notin {f[1], f[2], f[3]}

(* q2 goes on where q1 ends. *)
Begins(q1, q2) == Len(q1) <= Len(q2) /\ \A i \in 1..Len(q1) : q2[i] = q1[i]

(* The dictionary has the ids of a triple. *)
Known(dict, t) == {t[1] + 1, t[2] + 1, t[3] + 1} \subseteq DOMAIN dict

Good(dict, t) == Known(dict, t) /\ Spells(dict, t) \in Fact

(* A dictionary gives every term one id, and none to the empty string. *)
Proper(dict) ==
    /\ \A i, j \in DOMAIN dict : dict[i] = dict[j] => i = j
    /\ Blank \notin Ran(dict)

LEMMA BeginsSelf ==
    ASSUME NEW q \in Seq(Term)
    PROVE  Begins(q, q)
BY DEF Begins

LEMMA BeginsOn ==
    ASSUME NEW q1 \in Seq(Term), NEW q2 \in Seq(Term), NEW q3 \in Seq(Term),
           Begins(q1, q2), Begins(q2, q3)
    PROVE  Begins(q1, q3)
<1>1. Len(q1) \in Nat /\ Len(q2) \in Nat /\ Len(q3) \in Nat
  OBVIOUS
<1>2. \A i \in 1..Len(q1) : i \in 1..Len(q2)
  BY <1>1 DEF Begins
<1> QED BY <1>1, <1>2 DEF Begins

(* What a dictionary spells, every later one spells.                       *)
LEMMA BeginsSpells ==
    ASSUME NEW d1 \in Seq(Term), NEW d2 \in Seq(Term), Begins(d1, d2),
           NEW t, Known(d1, t)
    PROVE  Known(d2, t) /\ Spells(d2, t) = Spells(d1, t)
<1>1. /\ DOMAIN d1 = 1..Len(d1) /\ DOMAIN d2 = 1..Len(d2)
      /\ Len(d1) \in Nat /\ Len(d2) \in Nat
  OBVIOUS
<1>2. \A i \in DOMAIN d1 : i \in DOMAIN d2 /\ d2[i] = d1[i]
  BY <1>1 DEF Begins
<1>3. \A id : id + 1 \in DOMAIN d1 => TermOf(d2, id) = TermOf(d1, id)
  BY <1>2 DEF TermOf
<1>4. t[1] + 1 \in DOMAIN d1 /\ t[2] + 1 \in DOMAIN d1 /\ t[3] + 1 \in DOMAIN d1
  BY DEF Known
<1>5. Known(d2, t)
  BY <1>2, <1>4 DEF Known
<1>6. /\ TermOf(d2, t[1]) = TermOf(d1, t[1]) /\ TermOf(d2, t[2]) = TermOf(d1, t[2])
      /\ TermOf(d2, t[3]) = TermOf(d1, t[3])
  BY <1>3, <1>4
<1> QED BY <1>5, <1>6 DEF Spells, FactOf

LEMMA BeginsGood ==
    ASSUME NEW d1 \in Seq(Term), NEW d2 \in Seq(Term), Begins(d1, d2),
           NEW t, Good(d1, t)
    PROVE  Good(d2, t)
BY BeginsSpells DEF Good

LEMMA BeginsConcat ==
    ASSUME NEW q1 \in Seq(Term), NEW q2 \in Seq(Term)
    PROVE  Begins(q1, q1 \o q2)
<1>1. Len(q1) \in Nat /\ Len(q2) \in Nat /\ Len(q1 \o q2) = Len(q1) + Len(q2)
      /\ \A i \in 1..Len(q1) : (q1 \o q2)[i] = q1[i]
  OBVIOUS
<1>2. Len(q1) <= Len(q1 \o q2)
  BY <1>1
<1> QED BY <1>1, <1>2 DEF Begins

(* New terms, each once, after those there were. *)
LEMMA ProperConcat ==
    ASSUME NEW q1 \in Seq(Term), NEW q2 \in Seq(Term), Proper(q1), Proper(q2),
           Ran(q1) \cap Ran(q2) = {}
    PROVE  Proper(q1 \o q2)
<1> DEFINE q == q1 \o q2
           m == Len(q1)
           n == Len(q2)
<1>1. /\ m \in Nat /\ n \in Nat /\ DOMAIN q1 = 1..m /\ DOMAIN q2 = 1..n
      /\ DOMAIN q = 1..(m + n)
      /\ \A i \in 1..m : q[i] = q1[i]
      /\ \A i \in 1..n : q[m + i] = q2[i]
  OBVIOUS
<1>2. \A i \in 1..(m + n) : i \in 1..m \/ (i - m \in 1..n /\ i = m + (i - m))
  BY <1>1
<1> HIDE DEF q, m, n
<1>3. \A i \in DOMAIN q : \/ i \in DOMAIN q1 /\ q[i] = q1[i]
                          \/ i - m \in DOMAIN q2 /\ q[i] = q2[i - m]
  <2> TAKE i \in DOMAIN q
  <2>1. CASE i \in 1..m
    BY <1>1, <2>1
  <2>2. CASE i - m \in 1..n /\ i = m + (i - m)
    <3>1. q[m + (i - m)] = q2[i - m]
      BY <1>1, <2>2
    <3> QED BY <1>1, <2>2, <3>1
  <2> QED BY <1>1, <1>2, <2>1, <2>2
<1>4. \A i \in DOMAIN q1 : q1[i] \in Ran(q1)
  BY DEF Ran
<1>5. \A i \in DOMAIN q2 : q2[i] \in Ran(q2)
  BY DEF Ran
<1>6. ASSUME NEW i \in DOMAIN q, NEW j \in DOMAIN q, q[i] = q[j]
      PROVE  i = j
  <2>1. CASE i \in DOMAIN q1 /\ q[i] = q1[i] /\ j \in DOMAIN q1 /\ q[j] = q1[j]
    BY <1>6, <2>1 DEF Proper
  <2>2. CASE i - m \in DOMAIN q2 /\ q[i] = q2[i - m] /\ j - m \in DOMAIN q2 /\ q[j] = q2[j - m]
    <3>1. i - m = j - m
      BY <1>6, <2>2 DEF Proper
    <3> QED BY <1>1, <3>1
  <2>3. ~ (i \in DOMAIN q1 /\ q[i] = q1[i] /\ j - m \in DOMAIN q2 /\ q[j] = q2[j - m])
    BY <1>4, <1>5, <1>6
  <2>4. ~ (j \in DOMAIN q1 /\ q[j] = q1[j] /\ i - m \in DOMAIN q2 /\ q[i] = q2[i - m])
    BY <1>4, <1>5, <1>6
  <2> QED BY <1>3, <2>1, <2>2, <2>3, <2>4
<1>7. Blank \notin Ran(q)
  <2>1. \A i \in DOMAIN q : q[i] # Blank
    BY <1>3, <1>4, <1>5 DEF Proper
  <2> QED BY <2>1 DEF Ran
<1> QED BY <1>6, <1>7 DEF Proper, q

LEMMA InternGrows ==
    ASSUME NEW dict \in Seq(Term), NEW t \in Term, t # Blank, Proper(dict)
    PROVE  Begins(dict, Intern(dict, t)) /\ Proper(Intern(dict, t))
<1>1. CASE t \in Ran(dict)
  BY <1>1, BeginsSelf DEF Intern
<1>2. CASE t \notin Ran(dict)
  <2> DEFINE q == <<t>>
  <2>1. q \in Seq(Term) /\ Append(dict, t) = dict \o q
    OBVIOUS
  <2>2. DOMAIN q = {1} /\ q[1] = t
    OBVIOUS
  <2> HIDE DEF q
  <2>3. Proper(q) /\ Ran(q) = {t}
    BY <2>2 DEF Proper, Ran
  <2>4. Ran(dict) \cap Ran(q) = {}
    BY <1>2, <2>3
  <2> QED BY <1>2, <2>1, <2>3, <2>4, ProperConcat, BeginsConcat DEF Intern
<1> QED BY <1>1, <1>2

LEMMA InternFactGrows ==
    ASSUME NoBlanks, NEW dict \in Seq(Term), NEW f \in Fact, Proper(dict)
    PROVE  Begins(dict, InternFact(dict, f)) /\ Proper(InternFact(dict, f))
<1>1. /\ f[1] \in Term /\ f[2] \in Term /\ f[3] \in Term
      /\ f[1] # Blank /\ f[2] # Blank /\ f[3] # Blank
  BY FactAssumption DEF NoBlanks
<1> DEFINE d1 == Intern(dict, f[1])
           d2 == Intern(d1, f[2])
           d3 == Intern(d2, f[3])
<1>2. d1 \in Seq(Term) /\ d2 \in Seq(Term) /\ d3 \in Seq(Term)
  BY <1>1, InternType
<1>3. InternFact(dict, f) = d3
  BY DEF InternFact
<1>4. Begins(dict, d1) /\ Proper(d1)
  BY <1>1, InternGrows
<1>5. Begins(d1, d2) /\ Proper(d2)
  BY <1>1, <1>2, <1>4, InternGrows
<1>6. Begins(d2, d3) /\ Proper(d3)
  BY <1>1, <1>2, <1>5, InternGrows
<1>7. Begins(dict, d3)
  BY <1>2, <1>4, <1>5, <1>6, BeginsOn
<1> QED BY <1>3, <1>6, <1>7

(* A row is good for the dictionary that spelled it, and stands for the    *)
(* fact.                                                                   *)
LEMMA RowGood ==
    ASSUME NEW dict \in Seq(Term), NEW f \in Fact, NEW src \in Nat,
           {f[1], f[2], f[3]} \subseteq Ran(dict)
    PROVE  LET row == Row(dict, f, src)
               t == <<row.s, row.p, row.o>>
           IN  Good(dict, t) /\ Spells(dict, t) = f
<1> DEFINE row == Row(dict, f, src)
           t == <<row.s, row.p, row.o>>
<1>1. Spells(dict, t) = f
  BY RowSpellsFact DEF Spells
<1>2. \A x \in Ran(dict) : IdOf(dict, x) + 1 \in DOMAIN dict
  <2> TAKE x \in Ran(dict)
  <2> DEFINE c == CHOOSE i \in DOMAIN dict : dict[i] = x
  <2>1. c \in DOMAIN dict
    BY DEF Ran
  <2>2. DOMAIN dict = 1..Len(dict) /\ Len(dict) \in Nat
    OBVIOUS
  <2>3. IdOf(dict, x) = c - 1
    BY DEF IdOf
  <2> HIDE DEF c
  <2> QED BY <2>1, <2>2, <2>3
<1>3. t[1] = IdOf(dict, f[1]) /\ t[2] = IdOf(dict, f[2]) /\ t[3] = IdOf(dict, f[3])
  BY DEF Row
<1>4. Known(dict, t)
  BY <1>2, <1>3 DEF Known
<1> QED BY <1>1, <1>4 DEF Good

(* A dictionary without empty lines is loaded as it was written. *)
LEMMA LoadWhole ==
    ASSUME NEW dict \in Seq(Term), Proper(dict)
    PROVE  LoadTerms(dict) = dict
<1>1. \A i \in DOMAIN dict : dict[i] # Blank
  BY DEF Proper, Ran
<1>2. {i \in DOMAIN dict : i = 1 \/ dict[i] # Blank} = DOMAIN dict
  BY <1>1
<1> QED BY <1>2 DEF LoadTerms, Keep
-----------------------------------------------------------------------------
(* Every complete row spells a fact in the dictionary on disk, every row   *)
(* in memory one in the dictionary in memory, which goes on where the one  *)
(* on disk ends; while columns are written the two are the same.           *)
DictInv ==
    /\ Proper(termsFile) /\ Proper(i2s)
    /\ pc # "down" => Begins(termsFile, i2s)
    /\ pc \in FlushPC \ {"terms"} => i2s = termsFile
    /\ \A i \in DOMAIN Store : Good(termsFile, Store[i].t)
    /\ \A j \in 1..Len(buf) : Good(i2s, BufTriple(j))

(* Both dictionaries are sequences of terms. *)
LEMMA DictTypes == TypeInv => termsFile \in Seq(Term) /\ i2s \in Seq(Term)
BY DEF TypeInv, TypeOK

LEMMA ProperEmpty == Proper(<<>>)
<1>1. DOMAIN <<>> = {}
  OBVIOUS
<1> QED BY <1>1 DEF Proper, Ran

LEMMA OrderingsProper ==
    ASSUME NEW S \in SUBSET Term, IsFiniteSet(S), NEW q \in Orderings(S), Blank \notin S
    PROVE  q \in Seq(Term) /\ Ran(q) = S /\ Proper(q)
<1>1. q \in Seq(Term) /\ Ran(q) = S
  BY OrderingsType
<1>2. \A i, j \in DOMAIN q : q[i] = q[j] => i = j
  BY DEF Orderings
<1> QED BY <1>1, <1>2 DEF Proper

LEMMA BatchTerms ==
    ASSUME NoBlanks, NEW batch \in Seq(Fact)
    PROVE  Blank \notin TermsOf(batch)
<1> SUFFICES ASSUME NEW i \in DOMAIN batch, NEW j \in 1..3
             PROVE  batch[i][j] # Blank
  BY DEF TermsOf
<1>1. batch[i] \in Fact
  OBVIOUS
<1>2. j = 1 \/ j = 2 \/ j = 3
  OBVIOUS
<1> QED BY <1>1, <1>2 DEF NoBlanks

LEMMA InitDict == NoBlanks /\ Init => DictInv
<1> SUFFICES ASSUME NoBlanks, Init PROVE DictInv
  OBVIOUS
<1>1. PICK old \in Legacy \cup {<<>>} : \E dict \in Orderings(TermsOf(old)) :
        /\ termsFile = dict
        /\ col = [c \in Column |->
                    IF c = "src" THEN <<>>
                    ELSE [i \in 1..Len(old) |-> Row(dict, old[i], 0)[c]]]
  BY DEF Init
<1>2. old \in Seq(Fact) /\ Len(old) \in Nat
  <2>1. <<>> \in Seq(Fact)
    BY EmptySeq
  <2>2. old \in Seq(Fact)
    BY <2>1, LegacyAssumption, Zenon
  <2> QED BY <2>2
<1>3. IsFiniteSet(TermsOf(old)) /\ TermsOf(old) \in SUBSET Term /\ Blank \notin TermsOf(old)
  BY <1>2, TermsOfFinite, BatchTerms
<1>4. termsFile \in Seq(Term) /\ Ran(termsFile) = TermsOf(old) /\ Proper(termsFile)
  BY <1>1, <1>3, OrderingsProper
<1>5. \A i \in 1..Len(old) : Good(termsFile, Triple(i))
  <2> TAKE i \in 1..Len(old)
  <2> DEFINE row == Row(termsFile, old[i], 0)
  <2>1. old[i] \in Fact /\ {old[i][1], old[i][2], old[i][3]} \subseteq TermsOf(old)
    BY <1>2 DEF TermsOf
  <2>2. Good(termsFile, <<row.s, row.p, row.o>>)
    BY <1>4, <2>1, RowGood
  <2>3. Triple(i) = <<row.s, row.p, row.o>>
    BY <1>1 DEF Triple, Column
  <2> QED BY <2>2, <2>3
<1>6. pc = "down" /\ Len(col["o"]) = Len(old) /\ i2s = <<>> /\ buf = <<>>
  BY <1>1, <1>2 DEF Init, Column
<1>7. Store = [i \in 1..Len(old) |-> [t |-> Triple(i), run |-> origin[i].run]]
  BY <1>6 DEF Store, Rewritten, AuditPC
<1>8. DOMAIN Store = 1..Len(old) /\ \A i \in 1..Len(old) : Store[i].t = Triple(i)
  BY <1>7
<1> QED BY <1>4, <1>5, <1>6, <1>8, ProperEmpty DEF DictInv, FlushPC

(* A step that writes no term and leaves the complete rows alone.          *)
LEMMA DictSame ==
    ASSUME DictInv, UNCHANGED <<termsFile, i2s, Store>>,
           buf' = buf \/ buf' = <<>>, pc # "down",
           pc' \in FlushPC \ {"terms"} => pc \in FlushPC \ {"terms"}
    PROVE  DictInv'
<1>1. \A j \in 1..Len(buf') : j \in 1..Len(buf) /\ BufTriple(j)' = BufTriple(j)
  BY DEF BufTriple
<1> QED BY <1>1 DEF DictInv

(* The dictionary in memory grows by the terms of rows added to memory.    *)
LEMMA DictGrows ==
    ASSUME TypeInv, DictInv, UNCHANGED <<termsFile, Store>>, pc # "down",
           pc' \notin FlushPC \ {"terms"},
           i2s' \in Seq(Term), Begins(i2s, i2s'), Proper(i2s'),
           \A j \in 1..Len(buf') :
              \/ j \in 1..Len(buf) /\ BufTriple(j)' = BufTriple(j)
              \/ Good(i2s', BufTriple(j)')
    PROVE  DictInv'
<1>1. termsFile \in Seq(Term) /\ i2s \in Seq(Term)
  BY DictTypes
<1>2. Begins(termsFile, i2s')
  BY <1>1, BeginsOn DEF DictInv
<1>3. \A j \in 1..Len(buf) : Good(i2s', BufTriple(j))
  BY <1>1, BeginsGood DEF DictInv
<1>4. \A j \in 1..Len(buf') : Good(i2s', BufTriple(j)')
  BY <1>3
<1> QED BY <1>2, <1>4 DEF DictInv

(* The dictionary on disk catches up. *)
LEMMA DictFlushed ==
    ASSUME TypeInv, DictInv, UNCHANGED <<i2s, buf, Store>>, termsFile' = i2s, pc # "down"
    PROVE  DictInv'
<1>1. termsFile \in Seq(Term) /\ i2s \in Seq(Term)
  BY DictTypes
<1>2. \A i \in DOMAIN Store : Good(i2s, Store[i].t)
  BY <1>1, BeginsGood DEF DictInv
<1>3. \A j : BufTriple(j)' = BufTriple(j)
  BY DEF BufTriple
<1> QED BY <1>1, <1>2, <1>3, BeginsSelf DEF DictInv

LEMMA DictAdd ==
    ASSUME NoBlanks, TypeInv, DictInv, Store' = Store,
           NEW f \in Fact, NEW src \in Source \cup {0}, AddNew(f, src)
    PROVE  DictInv'
<1> DEFINE dict == InternFact(i2s, f)
           row  == Row(dict, f, src)
<1>1. /\ pc = "idle" /\ pc' \in {"idle", "terms"} /\ termsFile' = termsFile
      /\ i2s' = dict /\ buf' = Append(buf, row)
  BY DEF AddNew, disk
<1>2. i2s \in Seq(Term) /\ src \in Nat /\ buf \in Seq(RowType)
  BY SourceAssumption DEF TypeInv, TypeOK
<1>3. dict \in Seq(Term) /\ {f[1], f[2], f[3]} \subseteq Ran(dict)
  BY <1>2, InternFactType
<1>4. Begins(i2s, dict) /\ Proper(dict)
  BY <1>2, InternFactGrows DEF DictInv
<1> HIDE DEF dict
<1>5. Good(dict, <<row.s, row.p, row.o>>)
  BY <1>2, <1>3, RowGood
<1> HIDE DEF row
<1>6. PICK n \in Nat : n = Len(buf)
  BY TypedHolds DEF Typed
<1>7. /\ Len(buf') = n + 1 /\ buf'[n + 1] = row
      /\ \A j \in 1..n : buf'[j] = buf[j]
  BY <1>1, <1>2, <1>6
<1>8. \A j \in 1..(n + 1) : j \in 1..n \/ j = n + 1
  OBVIOUS
<1>9. BufTriple(n + 1)' = <<row.s, row.p, row.o>> /\ \A j \in 1..n : BufTriple(j)' = BufTriple(j)
  BY <1>7 DEF BufTriple
<1>10. \A j \in 1..Len(buf') :
         \/ j \in 1..Len(buf) /\ BufTriple(j)' = BufTriple(j)
         \/ Good(i2s', BufTriple(j)')
  BY <1>1, <1>5, <1>6, <1>7, <1>8, <1>9
<1>11. pc # "down" /\ pc' \notin FlushPC \ {"terms"}
  BY <1>1 DEF FlushPC
<1> QED BY <1>1, <1>3, <1>4, <1>10, <1>11, DictGrows

LEMMA DictTurbo ==
    ASSUME NoBlanks, TypeInv, DictInv, Store' = Store,
           NEW batch \in TurboBatch, NEW src \in Source \cup {0}, Turbo(batch, src)
    PROVE  DictInv'
<1>1. batch \in Seq(Fact) /\ i2s \in Seq(Term) /\ termsFile \in Seq(Term) /\ src \in Nat
  BY BatchAssumption, SourceAssumption DEF TypeInv, TypeOK
<1> DEFINE kept == Distinct(batch)
           added == TermsOf(batch) \ Ran(i2s)
<1>2. PICK new \in Orderings(added) :
        /\ i2s' = i2s \o new /\ termsFile' = i2s \o new
        /\ buf' = [i \in DOMAIN kept |-> Row(i2s \o new, kept[i], src)]
  BY DEF Turbo
<1> DEFINE dict == i2s \o new
<1>3. pc # "down" /\ pc' = "s"
  BY DEF Turbo
<1>4. added \in SUBSET Term /\ IsFiniteSet(added) /\ Blank \notin added
  BY <1>1, TermsOfFinite, BatchTerms, FS_Subset
<1>5. new \in Seq(Term) /\ Ran(new) = added /\ Proper(new)
  BY <1>2, <1>4, OrderingsProper
<1>6. Begins(i2s, dict) /\ dict \in Seq(Term) /\ Ran(i2s) \cup Ran(new) \subseteq Ran(dict)
  BY <1>1, <1>5, BeginsConcat, RanConcat
<1>7. Proper(dict)
  BY <1>1, <1>5, ProperConcat DEF DictInv
<1>8. TermsOf(batch) \subseteq Ran(dict)
  BY <1>5, <1>6
<1>9. \A i \in DOMAIN Store : Good(dict, Store[i].t)
  <2>1. Begins(termsFile, dict)
    BY <1>1, <1>3, <1>6, BeginsOn DEF DictInv
  <2> HIDE DEF dict
  <2> QED BY <1>1, <1>6, <2>1, BeginsGood DEF DictInv
<1>10. kept \in Seq(Fact) /\ \A i \in DOMAIN kept : {kept[i][1], kept[i][2], kept[i][3]} \subseteq TermsOf(batch)
  <2>1. kept \in Seq(Fact)
    BY <1>1, DistinctType
  <2>2. \A i \in DOMAIN kept : \E j \in DOMAIN batch : kept[i] = batch[j]
    <3>1. CASE Firsts(batch) = DOMAIN batch
      BY <3>1 DEF Distinct, Keep
    <3>2. CASE Firsts(batch) # DOMAIN batch
      <4>1. DOMAIN batch = 1..Len(batch) /\ Len(batch) \in Nat
        BY <1>1
      <4>2. Firsts(batch) \in SUBSET (1..Len(batch))
        BY <4>1 DEF Firsts
      <4>3. \A k \in 1..Cardinality(Firsts(batch)) : NthOf(Firsts(batch), k) \in Firsts(batch)
        BY <4>1, <4>2, NthOfType
      <4>4. kept = [k \in 1..Cardinality(Firsts(batch)) |-> batch[NthOf(Firsts(batch), k)]]
        BY <3>2 DEF Distinct, Keep
      <4> HIDE DEF kept
      <4> QED BY <4>1, <4>2, <4>3, <4>4
    <3> QED BY <3>1, <3>2
  <2>3. \A j \in DOMAIN batch : {batch[j][1], batch[j][2], batch[j][3]} \subseteq TermsOf(batch)
    BY DEF TermsOf
  <2> QED BY <2>1, <2>2, <2>3
<1> HIDE DEF dict, kept
<1>11. \A j \in 1..Len(buf') : Good(dict, BufTriple(j)')
  <2>1. DOMAIN kept = 1..Len(kept) /\ Len(kept) \in Nat
    BY <1>10
  <2>2. Len(buf') = Len(kept) /\ \A j \in 1..Len(kept) : buf'[j] = Row(dict, kept[j], src)
    BY <1>2, <2>1 DEF dict, kept
  <2>3. \A j \in 1..Len(kept) :
          LET row == Row(dict, kept[j], src) IN Good(dict, <<row.s, row.p, row.o>>)
    <3> TAKE j \in 1..Len(kept)
    <3>1. kept[j] \in Fact /\ {kept[j][1], kept[j][2], kept[j][3]} \subseteq Ran(dict)
      BY <1>8, <1>10, <2>1
    <3> QED BY <1>1, <1>6, <3>1, RowGood
  <2>4. \A j \in 1..Len(kept) :
          BufTriple(j)' = <<Row(dict, kept[j], src).s, Row(dict, kept[j], src).p,
                            Row(dict, kept[j], src).o>>
    BY <2>2 DEF BufTriple
  <2> QED BY <2>2, <2>3, <2>4
<1>12. i2s' = dict /\ termsFile' = dict
  BY <1>2 DEF dict
<1> QED BY <1>3, <1>6, <1>7, <1>9, <1>11, <1>12, BeginsSelf DEF DictInv

(* The o append makes complete rows of the buffer, which the dictionary on *)
(* disk spells by then.                                                    *)
LEMMA DictCommit ==
    ASSUME DictInv, AppendCol("o", "src"), Joined(Store, Store')
    PROVE  DictInv'
<1>1. pc = "o" /\ pc' = "src" /\ UNCHANGED <<buf, i2s, termsFile>> /\ i2s = termsFile
  BY DEF AppendCol, ram, DictInv, FlushPC
<1>2. PICK n \in Nat, m \in Nat : n = Len(Store) /\ m = Len(buf)
  BY DEF Joined
<1>3. /\ DOMAIN Store = 1..n /\ DOMAIN Store' = 1..(n + m)
      /\ \A i \in 1..n : Store'[i] = Store[i]
      /\ \A k \in 1..m : Store'[n + k] = [t |-> BufTriple(k), run |-> BufRun]
  BY <1>2 DEF Joined
<1>4. \A k \in 1..m : Store'[n + k].t = BufTriple(k)
  <2> TAKE k \in 1..m
  <2>1. Store'[n + k] = [t |-> BufTriple(k), run |-> BufRun]
    BY <1>3, Zenon
  <2> QED BY <2>1
<1>5. \A i \in 1..(n + m) : i \in 1..n \/ \E k \in 1..m : i = n + k
  <2> TAKE i \in 1..(n + m)
  <2>1. i <= n => i \in 1..n
    OBVIOUS
  <2>2. ~ (i <= n) => i - n \in 1..m /\ i = n + (i - n)
    OBVIOUS
  <2> QED BY <2>1, <2>2
<1>6. \A i \in 1..n : Good(termsFile, Store'[i].t)
  BY <1>3 DEF DictInv
<1>7. \A k \in 1..m : Good(termsFile, Store'[n + k].t)
  BY <1>1, <1>2, <1>4 DEF DictInv
<1>8. \A i \in DOMAIN Store' : Good(termsFile, Store'[i].t)
  BY <1>3, <1>5, <1>6, <1>7
<1>9. \A j : BufTriple(j)' = BufTriple(j)
  BY <1>1 DEF BufTriple
<1> QED BY <1>1, <1>8, <1>9 DEF DictInv

(* A sweep holds rows of the store. *)
LEMMA DictAudit ==
    ASSUME TypeInv, ShapeInv, DictInv, AuditStart, Store' = Store
    PROVE  DictInv'
<1>1. /\ pc = "idle" /\ pc' \in {"audit_s", "audit_meta"}
      /\ UNCHANGED <<termsFile, i2s>> /\ buf' = SweptRows
      /\ Len(col["p"]) = Rows /\ Len(col["o"]) = Rows
  BY DEF AuditStart, disk, ShapeInv, Rewritten, AuditPC
<1>2. PICK g \in [1..Len(SweptRows) -> 1..Rows] :
        \A k \in 1..Len(SweptRows) : SweptTriple(k) = Triple(g[k])
  BY <1>1, SweptOnce
<1>3. Store = [i \in 1..Rows |-> [t |-> Triple(i), run |-> origin[i].run]]
  BY <1>1 DEF Store, Rewritten, AuditPC
<1>4. DOMAIN Store = 1..Rows /\ \A i \in 1..Rows : Store[i].t = Triple(i)
  BY <1>3
<1>5. \A i \in 1..Rows : Good(i2s, Triple(i))
  <2>1. termsFile \in Seq(Term) /\ i2s \in Seq(Term) /\ Begins(termsFile, i2s)
    BY <1>1, DictTypes DEF DictInv
  <2> QED BY <1>4, <2>1, BeginsGood DEF DictInv
<1>6. \A k \in 1..Len(SweptRows) : Good(i2s, SweptTriple(k))
  BY <1>2, <1>5
<1>7. \A j : BufTriple(j)' = SweptTriple(j)
  BY <1>1 DEF BufTriple, SweptTriple
<1> QED BY <1>1, <1>6, <1>7 DEF DictInv, FlushPC

LEMMA DictStep ==
    ASSUME NoBlanks, WholeRows, TypeInv, ShapeInv, DictInv, [Next]_vars
    PROVE  DictInv'
<1>1. CASE AppendCol("o", "src")
  BY <1>1, ShapeStep, DictCommit
<1>2. CASE RewriteCol("audit_s", "s", "audit_p")
  <2>1. Deduped(Store, Store')
    BY <1>2, ShapeStep
  <2>2. UNCHANGED <<termsFile, i2s, buf>> /\ pc = "audit_s" /\ pc' = "audit_p"
    BY <1>2 DEF RewriteCol, ram
  <2>3. \A j : BufTriple(j)' = BufTriple(j)
    BY <2>2 DEF BufTriple
  <2>4. \A i \in DOMAIN Store' : Good(termsFile, Store'[i].t)
    BY <2>1 DEF DictInv, Deduped
  <2> QED BY <2>2, <2>3, <2>4 DEF DictInv, FlushPC
<1>3. ASSUME ~ AppendCol("o", "src"), ~ RewriteCol("audit_s", "s", "audit_p")
      PROVE  DictInv'
  <2>0. Store' = Store /\ termsFile \in Seq(Term) /\ i2s \in Seq(Term)
    BY <1>3, ShapeStep, DictTypes
  <2>1. CASE Open
    <3>1. i2s' = termsFile /\ termsFile' = termsFile /\ buf' = <<>> /\ pc' = "idle"
      BY <2>0, <2>1, LoadWhole DEF Open, disk, DictInv
    <3> QED BY <2>0, <3>1, BeginsSelf DEF DictInv, FlushPC
  <2>2. CASE Crash
    <3>1. i2s' = <<>> /\ termsFile' = termsFile /\ buf' = <<>> /\ pc' = "down"
      BY <2>2 DEF Crash, disk
    <3> QED BY <2>0, <3>1, ProperEmpty DEF DictInv, FlushPC
  <2>3. CASE \E f \in Fact, src \in Source \cup {0} : AddNew(f, src)
    BY <2>0, <2>3, DictAdd
  <2>4. CASE \E f \in Fact : AddDuplicate(f)
    <3>1. PICK f \in Fact : AddDuplicate(f)
      BY <2>4
    <3>2. /\ i2s' = InternFact(i2s, f) /\ UNCHANGED <<termsFile, buf>> /\ pc = "idle" /\ pc' = "idle"
      BY <3>1 DEF AddDuplicate, disk
    <3>3. i2s' \in Seq(Term) /\ Begins(i2s, i2s') /\ Proper(i2s')
      BY <2>0, <3>2, InternFactType, InternFactGrows DEF DictInv
    <3>4. \A j : BufTriple(j)' = BufTriple(j)
      BY <3>2 DEF BufTriple
    <3> QED BY <2>0, <3>2, <3>3, <3>4, DictGrows DEF FlushPC
  <2>5. CASE FlushStart \/ FlushEmpty
    <3>1. UNCHANGED <<i2s, buf>> /\ termsFile' = i2s /\ pc # "down"
      BY <2>5 DEF FlushStart, FlushEmpty
    <3> QED BY <2>0, <3>1, DictFlushed
  <2>6. CASE Backfill \/ AppendColumns
    <3>1. UNCHANGED <<termsFile, i2s, buf>> /\ pc \in FlushPC \ {"terms"} /\ pc # "down"
      BY <2>6 DEF Backfill, AppendColumns, AppendCol, ram, FlushPC
    <3> QED BY <2>0, <3>1, DictSame
  <2>7. CASE FinishWrite \/ AuditFinish
    <3>1. UNCHANGED <<termsFile, i2s>> /\ buf' = <<>> /\ pc # "down" /\ pc' = "idle"
      BY <2>7 DEF FinishWrite, AuditFinish
    <3> QED BY <2>0, <3>1, DictSame DEF FlushPC
  <2>8. CASE \E batch \in TurboBatch, src \in Source \cup {0} : Turbo(batch, src)
    BY <2>0, <2>8, DictTurbo
  <2>9. CASE (\E f \in Retractable : Retract(f)) \/ (\E ts \in 1..MaxGen : RebuildStart(ts))
    <3>1. /\ UNCHANGED <<termsFile, i2s, buf>> /\ pc # "down"
          /\ pc' \notin FlushPC \ {"terms"}
      BY <2>9 DEF Retract, RebuildStart, ram, FlushPC
    <3> QED BY <2>0, <3>1, DictSame
  <2>10. CASE RebuildSorted \/ RebuildMeta \/ RebuildUnlink
    <3>1. /\ UNCHANGED <<termsFile, i2s, buf>> /\ pc # "down"
          /\ pc' \notin FlushPC \ {"terms"}
      BY <2>10 DEF RebuildSorted, RebuildMeta, RebuildUnlink, ram, FlushPC
    <3> QED BY <2>0, <3>1, DictSame
  <2>11. CASE AuditStart
    BY <2>0, <2>11, DictAudit
  <2>12. CASE AuditColumns
    <3>1. /\ UNCHANGED <<termsFile, i2s, buf>> /\ pc # "down"
          /\ pc' \notin FlushPC \ {"terms"}
      BY <2>12 DEF AuditColumns, RewriteCol, ram, FlushPC
    <3> QED BY <2>0, <3>1, DictSame
  <2>13. CASE ReaderOpen \/ ReaderQuery \/ UNCHANGED vars
    <3>1. UNCHANGED <<termsFile, i2s, buf, pc>>
      BY <2>13 DEF ReaderOpen, ReaderQuery, vars, disk, ram
    <3>2. \A j : BufTriple(j)' = BufTriple(j)
      BY <3>1 DEF BufTriple
    <3> QED BY <2>0, <3>1, <3>2 DEF DictInv
  <2> QED BY <2>1, <2>2, <2>3, <2>4, <2>5, <2>6, <2>7, <2>8, <2>9, <2>10, <2>11, <2>12, <2>13 DEF Next
<1> QED BY <1>1, <1>2, <1>3

LEMMA DictHolds ==
    ASSUME NoBlanks, WholeRows
    PROVE  Spec => [](TypeInv /\ ShapeInv /\ DictInv)
<1>1. Init => TypeInv /\ ShapeInv /\ DictInv
  BY InitType, InitShape, InitDict
<1>2. TypeInv /\ ShapeInv /\ DictInv /\ [Next]_vars => (TypeInv /\ ShapeInv /\ DictInv)'
  BY TypeStep, ShapeStep, DictStep
<1> QED BY <1>1, <1>2, PTL DEF Spec
-----------------------------------------------------------------------------
(* What the files spell *)

(* The facts of the complete rows. *)
StoreFacts == {Spells(termsFile, Store[i].t) : i \in DOMAIN Store}

(* Unless a sweep is rewriting them, these are the facts a load finds.     *)
LEMMA StoredAre ==
    ASSUME TypeInv, DictInv, pc \notin Rewritten
    PROVE  StoredFacts = StoreFacts
<1>1. LoadTerms(termsFile) = termsFile
  BY DictTypes, LoadWhole DEF DictInv
<1>2. Store = [i \in 1..Len(col["o"]) |-> [t |-> Triple(i), run |-> origin[i].run]]
  BY DEF Store
<1>3. DOMAIN Store = 1..Len(col["o"]) /\ \A i \in 1..Len(col["o"]) : Store[i].t = Triple(i)
  BY <1>2
<1>4. \A i : FactOf(termsFile, col["s"][i], col["p"][i], col["o"][i]) = Spells(termsFile, Triple(i))
  BY DEF Spells, Triple
<1>5. StoreFacts = {Spells(termsFile, Triple(i)) : i \in 1..Len(col["o"])}
  BY <1>3 DEF StoreFacts
<1> QED BY <1>1, <1>4, <1>5 DEF StoredFacts

(* The store invents nothing as long as no crash leaves columns of         *)
(* different lengths: what the files spell was added, by some process,     *)
(* whatever dictionaries were written, reloaded and extended in between.   *)
THEOREM StoreInventsNothing ==
    ASSUME NoBlanks, WholeRows
    PROVE  Spec => []NothingInvented
<1>1. TypeInv /\ ShapeInv /\ DictInv => NothingInvented
  <2> SUFFICES ASSUME TypeInv, DictInv, pc \in {"idle", "down"}
               PROVE  StoredFacts \subseteq Fact
    BY DEF NothingInvented
  <2>1. StoredFacts = StoreFacts
    BY StoredAre DEF Rewritten, AuditPC
  <2>2. \A i \in DOMAIN Store : Spells(termsFile, Store[i].t) \in Fact
    BY DEF DictInv, Good
  <2> QED BY <2>1, <2>2 DEF StoreFacts
<1> QED BY <1>1, DictHolds, PTL
-----------------------------------------------------------------------------
(* What the de-dup set stands for *)

(* Where rows in memory were added or batched but are not complete yet.    *)
Held == {"idle", "terms", "backfill", "s", "p", "o"}

(* Every key is that of a complete row, or of a row in memory.             *)
SeenInv ==
    \A k \in seen :
        \/ \E i \in DOMAIN Store : KeyOf(Store[i].t) = k
        \/ pc \in Held /\ \E j \in 1..Len(buf) : KeyOf(BufTriple(j)) = k

LEMMA SeenSame ==
    ASSUME SeenInv, UNCHANGED <<Store, buf>>, seen' \subseteq seen, pc \in Held => pc' \in Held
    PROVE  SeenInv'
<1>1. \A j : BufTriple(j)' = BufTriple(j)
  BY DEF BufTriple
<1> QED BY <1>1 DEF SeenInv

(* Memory is emptied of rows that are complete, or of no rows. *)
LEMMA SeenEmptied ==
    ASSUME SeenInv, Store' = Store, seen' = seen, pc \notin Held \/ buf = <<>>
    PROVE  SeenInv'
BY DEF SeenInv

LEMMA SeenAdd ==
    ASSUME TypeInv, SeenInv, Store' = Store,
           NEW f \in Fact, NEW src \in Source \cup {0}, AddNew(f, src)
    PROVE  SeenInv'
<1> DEFINE dict == InternFact(i2s, f)
           row  == Row(dict, f, src)
           new  == <<row.s, row.p, row.o>>
<1>1. /\ pc' \in Held /\ seen' = seen \cup {KeyOf(new)} /\ buf' = Append(buf, row)
  BY DEF AddNew, KeyOf, Held
<1>2. PICK n \in Nat : n = Len(buf)
  BY TypedHolds DEF Typed
<1>3. buf \in Seq(RowType)
  BY DEF TypeInv, TypeOK
<1> HIDE DEF row
<1>4. /\ Len(buf') = n + 1 /\ buf'[n + 1] = row
      /\ \A j \in 1..n : buf'[j] = buf[j]
  BY <1>1, <1>2, <1>3
<1>5. BufTriple(n + 1)' = new /\ \A j \in 1..n : BufTriple(j)' = BufTriple(j)
  BY <1>4 DEF BufTriple
<1> HIDE DEF new
<1>6. n + 1 \in 1..(n + 1) /\ \A j \in 1..n : j \in 1..(n + 1)
  OBVIOUS
<1> QED BY <1>1, <1>2, <1>4, <1>5, <1>6 DEF SeenInv

LEMMA SeenCommit ==
    ASSUME SeenInv, AppendCol("o", "src"), Joined(Store, Store')
    PROVE  SeenInv'
<1>1. UNCHANGED <<seen, buf>>
  BY DEF AppendCol, ram
<1>2. PICK n \in Nat, m \in Nat : n = Len(Store) /\ m = Len(buf)
  BY DEF Joined
<1>3. /\ DOMAIN Store = 1..n /\ DOMAIN Store' = 1..(n + m)
      /\ \A i \in 1..n : Store'[i] = Store[i]
      /\ \A k \in 1..m : Store'[n + k] = [t |-> BufTriple(k), run |-> BufRun]
  BY <1>2 DEF Joined
<1>4. \A k \in 1..m : n + k \in DOMAIN Store' /\ Store'[n + k].t = BufTriple(k)
  <2> TAKE k \in 1..m
  <2>1. Store'[n + k] = [t |-> BufTriple(k), run |-> BufRun]
    BY <1>3, Zenon
  <2> QED BY <1>3, <2>1
<1>5. \A i \in DOMAIN Store : i \in DOMAIN Store' /\ Store'[i].t = Store[i].t
  BY <1>3
<1> QED BY <1>1, <1>2, <1>4, <1>5 DEF SeenInv

LEMMA SeenStep ==
    ASSUME WholeRows, TypeInv, ShapeInv, SeenInv, [Next]_vars
    PROVE  SeenInv'
<1>1. CASE AppendCol("o", "src")
  BY <1>1, ShapeStep, SeenCommit
<1>2. CASE RewriteCol("audit_s", "s", "audit_p")
  <2>1. Deduped(Store, Store')
    BY <1>2, ShapeStep
  <2>2. seen' = seen /\ pc \notin Held
    BY <1>2 DEF RewriteCol, ram, Held
  <2> QED BY <2>1, <2>2 DEF SeenInv, Deduped
<1>3. ASSUME ~ AppendCol("o", "src"), ~ RewriteCol("audit_s", "s", "audit_p")
      PROVE  SeenInv'
  <2>0. Store' = Store
    BY <1>3, ShapeStep
  <2>1. CASE Open \/ Crash
    <3>1. seen' = {}
      BY <2>1 DEF Open, Crash
    <3> QED BY <3>1 DEF SeenInv
  <2>2. CASE \E f \in Fact, src \in Source \cup {0} : AddNew(f, src)
    BY <2>0, <2>2, SeenAdd
  <2>3. CASE (\E f \in Fact : AddDuplicate(f)) \/ FlushStart \/ FlushEmpty \/ Backfill
    <3>1. UNCHANGED <<buf, seen>> /\ (pc \in Held => pc' \in Held)
      BY <2>3 DEF AddDuplicate, FlushStart, FlushEmpty, Backfill, ram, Held
    <3> QED BY <2>0, <3>1, SeenSame
  <2>4. CASE AppendColumns
    <3>1. UNCHANGED <<buf, seen>> /\ (pc \in Held => pc' \in Held)
      BY <1>3, <2>4 DEF AppendColumns, AppendCol, ram, Held
    <3> QED BY <2>0, <3>1, SeenSame
  <2>5. CASE FinishWrite \/ AuditFinish
    <3>1. seen' = seen /\ pc \notin Held
      BY <2>5 DEF FinishWrite, AuditFinish, Held
    <3> QED BY <2>0, <3>1, SeenEmptied
  <2>6. CASE (\E batch \in TurboBatch, src \in Source \cup {0} : Turbo(batch, src)) \/ AuditStart
    <3>1. seen' = seen /\ buf = <<>>
      BY <2>6 DEF Turbo, AuditStart
    <3> QED BY <2>0, <3>1, SeenEmptied
  <2>7. CASE \E f \in Retractable : Retract(f)
    <3>1. UNCHANGED <<buf, seen>> /\ pc' = pc
      BY <2>7 DEF Retract, ram
    <3> QED BY <2>0, <3>1, SeenSame
  <2>8. CASE (\E ts \in 1..MaxGen : RebuildStart(ts))
    <3>1. seen' = seen /\ buf = <<>>
      BY <2>8 DEF RebuildStart
    <3> QED BY <2>0, <3>1, SeenEmptied
  <2>9. CASE RebuildSorted \/ RebuildMeta \/ RebuildUnlink \/ AuditColumns
    <3>1. UNCHANGED <<buf, seen>> /\ pc \notin Held
      BY <2>9 DEF RebuildSorted, RebuildMeta, RebuildUnlink, AuditColumns, RewriteCol, ram, Held
    <3> QED BY <2>0, <3>1, SeenEmptied
  <2>10. CASE ReaderOpen \/ ReaderQuery \/ UNCHANGED vars
    <3>1. UNCHANGED <<buf, seen, pc>>
      BY <2>10 DEF ReaderOpen, ReaderQuery, vars, ram
    <3> QED BY <2>0, <3>1, SeenSame
  <2> QED BY <2>1, <2>2, <2>3, <2>4, <2>5, <2>6, <2>7, <2>8, <2>9, <2>10 DEF Next
<1> QED BY <1>1, <1>2, <1>3

(* Two digits below the base are told apart. *)
LEMMA DigitsDiffer ==
    ASSUME NEW K \in Nat, NEW x \in Nat, NEW y \in Nat, NEW a \in Nat, NEW b \in Nat,
           a < K, b < K, x * K + a = y * K + b
    PROVE  x = y /\ a = b
<1>1. \A m, n \in Nat : m * n \in Nat
  OBVIOUS
<1>2. ~ (x < y)
  <2> SUFFICES ASSUME x < y PROVE FALSE
    OBVIOUS
  <2>1. PICK d \in Nat : y = x + 1 + d
    <3>1. y - x - 1 \in Nat /\ y = x + 1 + (y - x - 1)
      OBVIOUS
    <3> QED BY <3>1
  <2>2. y * K = x * K + K + d * K
    BY <2>1
  <2>3. d * K \in Nat /\ x * K \in Nat
    BY <1>1
  <2> DEFINE u == d * K
             v == x * K
             w == y * K
  <2>4. w = v + K + u /\ v + a = w + b /\ u \in Nat /\ v \in Nat
    BY <2>2, <2>3
  <2> HIDE DEF u, v, w
  <2> QED BY <2>4
<1>3. ~ (y < x)
  <2> SUFFICES ASSUME y < x PROVE FALSE
    OBVIOUS
  <2>1. PICK d \in Nat : x = y + 1 + d
    <3>1. x - y - 1 \in Nat /\ x = y + 1 + (x - y - 1)
      OBVIOUS
    <3> QED BY <3>1
  <2>2. x * K = y * K + K + d * K
    BY <2>1
  <2>3. d * K \in Nat /\ y * K \in Nat
    BY <1>1
  <2> DEFINE u == d * K
             v == x * K
             w == y * K
  <2>4. v = w + K + u /\ v + a = w + b /\ u \in Nat /\ w \in Nat
    BY <2>2, <2>3
  <2> HIDE DEF u, v, w
  <2> QED BY <2>4
<1>4. x = y
  BY <1>2, <1>3
<1>5. x * K \in Nat
  BY <1>1
<1> DEFINE v == x * K
<1>6. v + a = v + b /\ v \in Nat
  BY <1>4, <1>5
<1> HIDE DEF v
<1> QED BY <1>4, <1>6

(* A triple of ids. *)
Ids(t) == t[1] \in Nat /\ t[2] \in Nat /\ t[3] \in Nat

(* One more digit. *)
Mix(x, y) == x * KeyBase + y

LEMMA MixDiffers ==
    \A m, n, c, d \in Nat :
        /\ c < KeyBase /\ d < KeyBase /\ Mix(m, c) = Mix(n, d) => m = n /\ c = d
        /\ Mix(m, c) \in Nat
<1> TAKE m, n, c, d \in Nat
<1> DEFINE K == KeyBase
<1>1. K \in Nat
  BY BoundAssumption
<1>2. ASSUME c < K, d < K, m * K + c = n * K + d
      PROVE  m = n /\ c = d
  <2> HIDE DEF K
  <2> QED BY <1>1, <1>2, DigitsDiffer
<1>3. m * K + c \in Nat
  <2>1. \A x, y \in Nat : x * y \in Nat
    OBVIOUS
  <2>2. m * K \in Nat
    BY <1>1, <2>1
  <2> QED BY <2>2
<1> QED BY <1>2, <1>3 DEF Mix

LEMMA KeysDiffer ==
    ASSUME NEW dict \in Seq(Term), Len(dict) <= KeyBase,
           NEW t, Ids(t), Known(dict, t), NEW u, Ids(u), Known(dict, u), KeyOf(t) = KeyOf(u)
    PROVE  t[1] = u[1] /\ t[2] = u[2] /\ t[3] = u[3]
<1>1. DOMAIN dict = 1..Len(dict) /\ Len(dict) \in Nat /\ KeyBase \in Nat /\ Len(dict) <= KeyBase
  BY BoundAssumption
<1>2. \A x \in Nat : x + 1 \in DOMAIN dict => x < KeyBase
  BY <1>1
<1>3. t[2] < KeyBase /\ t[3] < KeyBase /\ u[2] < KeyBase /\ u[3] < KeyBase
  BY <1>2 DEF Known, Ids
<1>4. PICK s1 \in Nat, p1 \in Nat, o1 \in Nat : s1 = t[1] /\ p1 = t[2] /\ o1 = t[3]
  BY DEF Ids
<1>5. PICK s2 \in Nat, p2 \in Nat, o2 \in Nat : s2 = u[1] /\ p2 = u[2] /\ o2 = u[3]
  BY DEF Ids
<1>6. p1 < KeyBase /\ o1 < KeyBase /\ p2 < KeyBase /\ o2 < KeyBase
  BY <1>3, <1>4, <1>5
<1>7. Mix(Mix(s1, p1), o1) = Mix(Mix(s2, p2), o2)
  BY <1>4, <1>5 DEF KeyOf, TriKey, Mix
<1>8. PICK x \in Nat, y \in Nat : x = Mix(s1, p1) /\ y = Mix(s2, p2)
  BY MixDiffers
<1>9. Mix(x, o1) = Mix(y, o2)
  BY <1>7, <1>8
<1>10. x = y /\ o1 = o2
  BY <1>6, <1>9, MixDiffers
<1>11. Mix(s1, p1) = Mix(s2, p2)
  BY <1>8, <1>10
<1>12. s1 = s2 /\ p1 = p2
  BY <1>6, <1>11, MixDiffers
<1> QED BY <1>4, <1>5, <1>10, <1>12

(* The rows of the store and of memory are triples of ids. *)
LEMMA RowIds ==
    ASSUME Typed, Len(col["p"]) = Rows, Len(col["o"]) = Rows
    PROVE  /\ \A i \in 1..Rows : Ids(Triple(i))
           /\ \A j \in 1..Len(buf) : Ids(BufTriple(j))
<1>1. /\ \A i \in 1..Rows : col["s"][i] \in Nat
      /\ \A i \in 1..Rows : col["p"][i] \in Nat
      /\ \A i \in 1..Rows : col["o"][i] \in Nat
  <2>1. \A q \in Seq(Nat) : \A i \in 1..Len(q) : q[i] \in Nat
    BY ElementOfSeq
  <2> QED BY <2>1 DEF Typed, Rows
<1>2. \A j \in 1..Len(buf) : buf[j].s \in Nat /\ buf[j].p \in Nat /\ buf[j].o \in Nat
  <2> DEFINE T == RowType
  <2>1. \A j \in 1..Len(buf) : buf[j] \in T
    <3>1. buf \in Seq(T)
      BY DEF Typed
    <3> HIDE DEF T
    <3> QED BY <3>1, ElementOfSeq
  <2> QED BY <2>1 DEF RowType
<1> QED BY <1>1, <1>2 DEF Ids, Triple, BufTriple

(* The rows of a term are those whose id the dictionary spells as the term. *)
LEMMA SubjectSpells ==
    ASSUME NEW dict \in Seq(Term), Proper(dict), NEW t \in Ran(dict), NEW id \in Nat
    PROVE  id = IdOf(dict, t) <=> id + 1 \in DOMAIN dict /\ dict[id + 1] = t
<1> DEFINE c == CHOOSE i \in DOMAIN dict : dict[i] = t
<1>1. c \in DOMAIN dict /\ dict[c] = t
  BY DEF Ran
<1>2. IdOf(dict, t) = c - 1
  BY DEF IdOf
<1>3. DOMAIN dict = 1..Len(dict) /\ Len(dict) \in Nat
  OBVIOUS
<1> HIDE DEF c
<1>4. c \in Nat /\ (id = c - 1 <=> id + 1 = c)
  BY <1>1, <1>3
<1>5. id + 1 \in DOMAIN dict /\ dict[id + 1] = t => id + 1 = c
  BY <1>1 DEF Proper
<1> QED BY <1>1, <1>2, <1>4, <1>5

(* A dictionary of distinct terms gives a triple it spells its ids back. *)
LEMMA SpelledKey ==
    ASSUME NEW dict \in Seq(Term), Proper(dict), NEW u, Ids(u), Known(dict, u)
    PROVE  LET row == Row(dict, Spells(dict, u), 0)
           IN  TriKey(row.s, row.p, row.o) = KeyOf(u)
<1> DEFINE g == Spells(dict, u)
<1>1. \A k \in {u[1], u[2], u[3]} :
         k \in Nat /\ k + 1 \in DOMAIN dict /\ TermOf(dict, k) = dict[k + 1]
  BY DEF Known, Ids, TermOf
<1>2. \A k \in {u[1], u[2], u[3]} : IdOf(dict, TermOf(dict, k)) = k
  <2> TAKE k \in {u[1], u[2], u[3]}
  <2>1. k \in Nat /\ TermOf(dict, k) \in Ran(dict) /\ dict[k + 1] = TermOf(dict, k)
        /\ k + 1 \in DOMAIN dict
    BY <1>1 DEF Ran
  <2> QED BY <2>1, SubjectSpells
<1>3. g[1] = TermOf(dict, u[1]) /\ g[2] = TermOf(dict, u[2]) /\ g[3] = TermOf(dict, u[3])
  BY DEF Spells, FactOf
<1> HIDE DEF g
<1>4. IdOf(dict, g[1]) = u[1] /\ IdOf(dict, g[2]) = u[2] /\ IdOf(dict, g[3]) = u[3]
  BY <1>2, <1>3
<1> QED BY <1>4 DEF Row, KeyOf, g

(* A key in the de-dup set is that of a fact on disk or in the buffer. *)
LEMMA SeenIsBacked ==
    ASSUME TypeInv, ShapeInv, DictInv, SeenInv, pc = "idle", NEW k \in seen
    PROVE  \E u : Ids(u) /\ Known(i2s, u) /\ KeyOf(u) = k /\ Spells(i2s, u) \in HeldFacts
<1>1. termsFile \in Seq(Term) /\ i2s \in Seq(Term) /\ Begins(termsFile, i2s) /\ Proper(i2s)
  BY DictTypes DEF DictInv
<1>2. Typed /\ Len(col["p"]) = Rows /\ Len(col["o"]) = Rows
  BY TypedHolds DEF ShapeInv, Rewritten, AuditPC
<1>3. CASE \E i \in DOMAIN Store : KeyOf(Store[i].t) = k
  <2>1. PICK i \in DOMAIN Store : KeyOf(Store[i].t) = k
    BY <1>3
  <2>2. Store = [j \in 1..Rows |-> [t |-> Triple(j), run |-> origin[j].run]]
    BY <1>2 DEF Store, Rewritten, AuditPC
  <2>3. DOMAIN Store = 1..Rows /\ \A j \in 1..Rows : Store[j].t = Triple(j)
    BY <2>2
  <2>4. Ids(Store[i].t)
    BY <1>2, <2>1, <2>3, RowIds
  <2>5. Known(termsFile, Store[i].t)
    BY <2>1 DEF DictInv, Good
  <2>6. Known(i2s, Store[i].t) /\ Spells(i2s, Store[i].t) = Spells(termsFile, Store[i].t)
    BY <1>1, <2>5, BeginsSpells
  <2>7. Spells(i2s, Store[i].t) \in StoreFacts
    BY <2>1, <2>6 DEF StoreFacts
  <2>8. StoredFacts = StoreFacts
    BY StoredAre DEF Rewritten, AuditPC
  <2> QED BY <2>1, <2>4, <2>6, <2>7, <2>8 DEF HeldFacts
<1>4. CASE \E j \in 1..Len(buf) : KeyOf(BufTriple(j)) = k
  <2>1. PICK j \in 1..Len(buf) : KeyOf(BufTriple(j)) = k
    BY <1>4
  <2>2. Ids(BufTriple(j)) /\ Known(i2s, BufTriple(j))
    BY <1>2, RowIds DEF DictInv, Good
  <2>3. j \in DOMAIN buf
    BY DEF TypeInv, TypeOK
  <2>4. Spells(i2s, BufTriple(j)) \in BufFacts
    BY <2>3 DEF Spells, BufTriple, BufFacts
  <2> QED BY <2>1, <2>2, <2>4 DEF HeldFacts
<1> QED BY <1>3, <1>4 DEF SeenInv

LEMMA SeenIsHeld ==
    ASSUME TypeInv, ShapeInv, DictInv, SeenInv
    PROVE  RefusedIsHeld
<1> SUFFICES ASSUME pc = "idle", NEW f \in Fact, {f[1], f[2], f[3]} \subseteq Ran(i2s),
                    KeyOfFact(f) \in seen
             PROVE  \/ f \in HeldFacts
                    \/ Len(i2s) > KeyBase /\ \E g \in HeldFacts : KeyOfFact(g) = KeyOfFact(f)
  BY DEF RefusedIsHeld, Refused
<1> DEFINE row == Row(i2s, f, 0)
           t == <<row.s, row.p, row.o>>
<1>1. i2s \in Seq(Term) /\ Proper(i2s) /\ Len(i2s) \in Nat /\ KeyBase \in Nat
  BY DictTypes, BoundAssumption DEF DictInv
<1>2. Known(i2s, t) /\ Spells(i2s, t) = f
  BY <1>1, RowGood DEF Good
<1>3. Ids(t)
  <2>1. row \in RowType
    BY <1>1, RowSpellsFact
  <2> HIDE DEF row
  <2> QED BY <2>1 DEF Ids, RowType
<1>4. KeyOf(t) = KeyOfFact(f)
  BY DEF KeyOf, KeyOfFact
<1> HIDE DEF t
<1>5. PICK u : Ids(u) /\ Known(i2s, u) /\ KeyOf(u) = KeyOfFact(f) /\ Spells(i2s, u) \in HeldFacts
  BY SeenIsBacked
<1>6. CASE Len(i2s) <= KeyBase
  <2>1. u[1] = t[1] /\ u[2] = t[2] /\ u[3] = t[3]
    BY <1>1, <1>2, <1>3, <1>4, <1>5, <1>6, KeysDiffer
  <2>2. Spells(i2s, u) = f
    BY <1>2, <2>1 DEF Spells
  <2> QED BY <1>5, <2>2
<1>7. CASE Len(i2s) > KeyBase
  <2>1. KeyOfFact(Spells(i2s, u)) = KeyOf(u)
    BY <1>1, <1>5, SpelledKey DEF KeyOfFact
  <2> QED BY <1>5, <1>7, <2>1
<1> QED BY <1>1, <1>6, <1>7

(* add refuses nothing for no reason: a key in the de-dup set is that of a *)
(* fact on disk or in the buffer, whatever crashed, was reopened, batched  *)
(* or swept before; while the dictionary has no more terms than the key's  *)
(* multiplier that fact is the refused one, beyond that it may be another. *)
THEOREM RefusedCorrect ==
    ASSUME NoBlanks, WholeRows
    PROVE  Spec => []RefusedIsHeld
<1>1. Init => TypeInv /\ ShapeInv /\ DictInv /\ SeenInv
  <2>1. Init => SeenInv
    BY DEF Init, SeenInv
  <2> QED BY <2>1, InitType, InitShape, InitDict
<1>2. TypeInv /\ ShapeInv /\ DictInv /\ SeenInv /\ [Next]_vars =>
        (TypeInv /\ ShapeInv /\ DictInv /\ SeenInv)'
  BY TypeStep, ShapeStep, DictStep, SeenStep
<1>3. TypeInv /\ ShapeInv /\ DictInv /\ SeenInv => RefusedIsHeld
  BY SeenIsHeld
<1> QED BY <1>1, <1>2, <1>3, PTL DEF Spec
-----------------------------------------------------------------------------
(* The index *)

(* The crash that leaves a generation of two rebuilds behind is left out:  *)
(* what happens after it is the finding of ts_same_second.                 *)
WholePairs == ~SameSecond \/ "reindex_sorted" \notin CrashPoint

(* The two files of every complete generation are of one rebuild. *)
Paired == \A ts \in DOMAIN gens \cap DOMAIN sorts : gens[ts] = sorts[ts]

(* No sweep runs, every generation of the index was built from a prefix of *)
(* s.col, and its files belong together, except those of a generation that *)
(* a second rebuild of the same second has written one file of.            *)
IndexInv ==
    /\ pc \notin AuditPC
    /\ \A ts \in DOMAIN gens : Begins(gens[ts], col["s"])
    /\ DOMAIN sorts \subseteq DOMAIN gens
    /\ \A ts \in DOMAIN gens \cap DOMAIN sorts :
          gens[ts] = sorts[ts] \/ (SameSecond /\ pc = "reindex_sorted" /\ ts = indexTs)
    /\ pc = "reindex_sorted" => indexTs \in DOMAIN gens /\ gens[indexTs] = col["s"]

LEMMA IndexGrows ==
    ASSUME Typed, IndexInv, UNCHANGED <<gens, sorts>>, pc' \notin AuditPC,
           pc # "reindex_sorted", pc' # "reindex_sorted",
           Rows <= Rows', \A i \in 1..Rows : col'["s"][i] = col["s"][i], Rows' \in Nat,
           \A ts \in DOMAIN gens : gens[ts] \in Seq(Nat)
    PROVE  IndexInv'
<1> SUFFICES ASSUME NEW ts \in DOMAIN gens
             PROVE  Begins(gens[ts], col'["s"])
  BY DEF IndexInv
<1>1. Len(gens[ts]) \in Nat /\ Rows \in Nat /\ Begins(gens[ts], col["s"])
  BY DEF IndexInv, Typed
<1>2. \A i \in 1..Len(gens[ts]) : i \in 1..Rows
  BY <1>1 DEF Begins, Rows
<1> QED BY <1>1, <1>2 DEF Begins, Rows

LEMMA IndexStep ==
    ASSUME WholePairs, ~AuditOn, TypeInv, IndexInv, [Next]_vars
    PROVE  IndexInv'
<1>0. Typed /\ \A ts \in DOMAIN gens : gens[ts] \in Seq(Nat)
  BY TypedHolds DEF TypeInv, TypeOK
<1>1. CASE AppendCol("s", "p")
  <2>1. /\ Rows' = Rows + Len(buf) /\ UNCHANGED <<gens, sorts>> /\ pc' \notin AuditPC
        /\ \A i \in 1..Rows : col'["s"][i] = col["s"][i]
        /\ pc # "reindex_sorted" /\ pc' # "reindex_sorted"
    BY <1>0, <1>1, Appended DEF AppendCol, AuditPC, Rows
  <2>2. Rows' \in Nat /\ Rows <= Rows'
    BY <1>0, <2>1 DEF Typed
  <2> QED BY <1>0, <2>1, <2>2, IndexGrows
<1>2. ASSUME UNCHANGED <<col["s"], gens, sorts>>, pc' \notin AuditPC,
             pc # "reindex_sorted", pc' # "reindex_sorted"
      PROVE  IndexInv'
  BY <1>2 DEF IndexInv
<1>3. CASE Open
  BY <1>2, <1>3 DEF Open, disk, AuditPC
<1>15. CASE Crash
  <2>1. UNCHANGED <<col, gens, sorts>> /\ pc' = "down" /\ pc \in CrashPoint
    BY <1>15 DEF Crash, disk
  <2>2. \A ts \in DOMAIN gens \cap DOMAIN sorts : gens[ts] = sorts[ts]
    BY <2>1 DEF IndexInv, WholePairs
  <2> QED BY <2>1, <2>2 DEF IndexInv, AuditPC
<1>4. CASE (\E f \in Fact, src \in Source \cup {0} : AddNew(f, src)) \/ (\E f \in Fact : AddDuplicate(f))
  <2>1. UNCHANGED <<col, gens, sorts>> /\ pc = "idle" /\ pc' \in {"idle", "terms"}
    BY <1>4 DEF AddNew, AddDuplicate, disk
  <2> QED BY <1>2, <2>1 DEF AuditPC
<1>5. CASE FlushStart \/ FlushEmpty \/ FinishWrite
  BY <1>2, <1>5 DEF FlushStart, FlushEmpty, FinishWrite, AuditPC
<1>6. CASE Backfill
  <2>1. UNCHANGED <<col["s"], gens, sorts>> /\ pc = "backfill" /\ pc' = "s"
    BY <1>0, <1>6 DEF Backfill, Typed, Column
  <2> QED BY <1>2, <2>1 DEF AuditPC
<1>7. CASE AppendColumns /\ ~ AppendCol("s", "p")
  <2>1. UNCHANGED <<col["s"], gens, sorts>> /\ pc \in {"p", "o", "src"}
        /\ pc' \in {"o", "src", "meta"}
    BY <1>0, <1>7 DEF AppendColumns, AppendCol, Typed, Column
  <2> QED BY <1>2, <2>1 DEF AuditPC
<1>8. CASE \E batch \in TurboBatch, src \in Source \cup {0} : Turbo(batch, src)
  BY <1>2, <1>8 DEF Turbo, AuditPC
<1>9. CASE \E f \in Retractable : Retract(f)
  BY <1>2, <1>9 DEF Retract, AuditPC
<1>10. CASE \E ts \in 1..MaxGen : RebuildStart(ts)
  <2>1. PICK ts \in 1..MaxGen : RebuildStart(ts)
    BY <1>10
  <2>2. /\ gens' = [t \in DOMAIN gens \cup {ts} |-> IF t = ts THEN col["s"] ELSE gens[t]]
        /\ col' = col /\ pc = "idle" /\ pc' = "reindex_sorted" /\ sorts' = sorts
        /\ indexTs' = ts
    BY <2>1 DEF RebuildStart
  <2>3. Begins(col["s"], col["s"])
    BY <1>0 DEF Typed, Begins
  <2>4. \A t \in DOMAIN gens' : Begins(gens'[t], col["s"])
    BY <2>2, <2>3 DEF IndexInv
  <2>5. ts \in DOMAIN gens => SameSecond
    <3>1. ts \in Nat
      BY BoundAssumption
    <3> QED BY <2>1, <3>1 DEF RebuildStart
  <2>6. \A t \in DOMAIN gens' \cap DOMAIN sorts' :
           gens'[t] = sorts'[t] \/ (SameSecond /\ t = ts)
    BY <2>2, <2>5 DEF IndexInv
  <2>7. DOMAIN sorts' \subseteq DOMAIN gens' /\ ts \in DOMAIN gens' /\ gens'[ts] = col["s"]
    BY <2>2 DEF IndexInv
  <2> QED BY <2>2, <2>4, <2>6, <2>7 DEF IndexInv, AuditPC
<1>16. CASE RebuildSorted
  <2>1. /\ sorts' = [t \in DOMAIN sorts \cup {indexTs} |->
                       IF t = indexTs THEN col["s"] ELSE sorts[t]]
        /\ UNCHANGED <<col, gens, indexTs>> /\ pc = "reindex_sorted" /\ pc' = "reindex_meta"
    BY <1>16 DEF RebuildSorted, ram
  <2>2. \A t \in DOMAIN gens' \cap DOMAIN sorts' : gens'[t] = sorts'[t]
    BY <2>1 DEF IndexInv
  <2>3. DOMAIN sorts' \subseteq DOMAIN gens'
    BY <2>1 DEF IndexInv
  <2> QED BY <2>1, <2>2, <2>3 DEF IndexInv, AuditPC
<1>11. CASE RebuildMeta
  BY <1>2, <1>11 DEF RebuildMeta, AuditPC
<1>12. CASE RebuildUnlink
  <2>1. PICK kept \in SUBSET DOMAIN gens :
           /\ gens' = [t \in kept |-> gens[t]]
           /\ sorts' = [t \in kept \cap DOMAIN sorts |-> sorts[t]]
    BY <1>12 DEF RebuildUnlink
  <2>2. col' = col /\ pc' = "idle" /\ pc = "reindex_unlink"
    BY <1>12 DEF RebuildUnlink
  <2>3. /\ DOMAIN gens' = kept /\ DOMAIN sorts' = kept \cap DOMAIN sorts
        /\ \A t \in DOMAIN gens' : t \in DOMAIN gens /\ gens'[t] = gens[t]
        /\ \A t \in DOMAIN sorts' : t \in DOMAIN sorts /\ sorts'[t] = sorts[t]
    BY <2>1
  <2> QED BY <2>2, <2>3 DEF IndexInv, AuditPC
<1>13. CASE AuditStart \/ AuditColumns \/ AuditFinish
  BY <1>13 DEF AuditStart, AuditColumns, RewriteCol, AuditFinish, IndexInv, AuditPC
<1>14. CASE ReaderOpen \/ ReaderQuery \/ UNCHANGED vars
  <2>1. UNCHANGED <<col, gens, sorts, pc, indexTs>>
    BY <1>14 DEF ReaderOpen, ReaderQuery, vars, disk, ram
  <2> QED BY <2>1 DEF IndexInv
<1> QED BY <1>1, <1>3, <1>4, <1>5, <1>6, <1>7, <1>8, <1>9, <1>10, <1>11, <1>12, <1>13, <1>14,
           <1>15, <1>16 DEF Next

(* The part of a column its elements meet a test is finite. *)
LEMMA PartFinite ==
    ASSUME NEW q \in Seq(Nat), NEW S \in SUBSET DOMAIN q
    PROVE  IsFiniteSet(S) /\ Cardinality(S) \in Nat
<1>1. DOMAIN q = 1..Len(q) /\ Len(q) \in Nat
  OBVIOUS
<1>2. IsFiniteSet(DOMAIN q)
  BY <1>1, FS_Interval
<1> QED BY <1>2, FS_Subset, FS_CardinalityType

(* A smaller part has fewer elements. *)
LEMMA PartSmaller ==
    ASSUME NEW q \in Seq(Nat), NEW S \in SUBSET DOMAIN q, NEW T \in SUBSET DOMAIN q,
           S \subseteq T
    PROVE  /\ Cardinality(S) <= Cardinality(T)
           /\ (\E i \in T : i \notin S) => Cardinality(S) + 1 <= Cardinality(T)
<1>1. IsFiniteSet(S) /\ IsFiniteSet(T) /\ Cardinality(S) \in Nat /\ Cardinality(T) \in Nat
  BY PartFinite
<1>2. Cardinality(S) <= Cardinality(T)
  BY <1>1, FS_Subset
<1>3. ASSUME NEW i \in T, i \notin S
      PROVE  Cardinality(S) + 1 <= Cardinality(T)
  <2>1. S \cup {i} \in SUBSET DOMAIN q /\ S \cup {i} \subseteq T
    BY <1>3
  <2>2. Cardinality(S \cup {i}) = Cardinality(S) + 1
    BY <1>1, <1>3, FS_AddElement
  <2>3. Cardinality(S \cup {i}) <= Cardinality(T)
    BY <1>1, <2>1, FS_Subset
  <2> QED BY <2>2, <2>3
<1> QED BY <1>2, <1>3

(* If both files are of one rebuild, the bisection finds the rows of the   *)
(* subject, all of them and no other.                                      *)
LEMMA BisectExact ==
    ASSUME NEW q \in Seq(Nat), NEW id \in Nat
    PROVE  Bisect(q, q, id) = {i \in DOMAIN q : q[i] = id}
<1> DEFINE D == DOMAIN q
           L == {j \in D : q[j] < id}
           U == {j \in D : q[j] <= id}
           R(i) == {j \in D : q[j] < q[i] \/ (q[j] = q[i] /\ j <= i)}
<1>1. \A i \in D : i \in Nat /\ q[i] \in Nat
  OBVIOUS
<1>2. L \in SUBSET D /\ U \in SUBSET D /\ \A i \in D : R(i) \in SUBSET D
  OBVIOUS
<1>3. Cardinality(L) \in Nat /\ Cardinality(U) \in Nat
      /\ \A i \in D : Cardinality(R(i)) \in Nat
  BY <1>2, PartFinite
<1>4. ASSUME NEW i \in D, q[i] < id
      PROVE  Cardinality(R(i)) <= Cardinality(L)
  <2>1. R(i) \subseteq L
    BY <1>1, <1>4
  <2> HIDE DEF R, L, D
  <2> QED BY <1>2, <2>1, PartSmaller DEF D
<1>5. ASSUME NEW i \in D, q[i] > id
      PROVE  Cardinality(U) + 1 <= Cardinality(R(i))
  <2>1. U \subseteq R(i) /\ i \in R(i) /\ i \notin U
    BY <1>1, <1>5
  <2> HIDE DEF R, U, D
  <2> QED BY <1>2, <2>1, PartSmaller DEF D
<1>6. ASSUME NEW i \in D, q[i] = id
      PROVE  Cardinality(L) + 1 <= Cardinality(R(i)) /\ Cardinality(R(i)) <= Cardinality(U)
  <2>1. L \subseteq R(i) /\ i \in R(i) /\ i \notin L /\ R(i) \subseteq U
    BY <1>1, <1>6
  <2> HIDE DEF R, U, L, D
  <2> QED BY <1>2, <2>1, PartSmaller DEF D
<1>7. Bisect(q, q, id) = {i \in D : Cardinality(R(i)) \in (Cardinality(L) + 1)..Cardinality(U)}
  BY DEF Bisect, Rank, SearchLeft, SearchRight
<1>8. \A i \in D : Cardinality(R(i)) \in (Cardinality(L) + 1)..Cardinality(U) <=> q[i] = id
  <2> TAKE i \in D
  <2>1. q[i] < id \/ q[i] > id \/ q[i] = id
    BY <1>1
  <2>2. PICK cr \in Nat, cl \in Nat, cu \in Nat :
           cr = Cardinality(R(i)) /\ cl = Cardinality(L) /\ cu = Cardinality(U)
    BY <1>3
  <2>3. q[i] < id => cr <= cl
    BY <1>4, <2>2
  <2>4. q[i] > id => cu + 1 <= cr
    BY <1>5, <2>2
  <2>5. q[i] = id => cl + 1 <= cr /\ cr <= cu
    BY <1>6, <2>2
  <2>6. q[i] \in Nat
    BY <1>1
  <2> HIDE DEF R, U, L, D
  <2> QED BY <2>1, <2>2, <2>3, <2>4, <2>5, <2>6
<1> HIDE DEF R, U, L
<1> QED BY <1>7, <1>8

(* Head and tail together are a full scan. *)
LEMMA SubjectRowsAre ==
    ASSUME Typed, IndexInv, Paired, \A ts \in DOMAIN gens : gens[ts] \in Seq(Nat),
           NEW id \in Nat
    PROVE  SubjectRows(id) = {i \in 1..Rows : col["s"][i] = id}
<1>1. CASE ~ Indexed
  BY <1>1 DEF SubjectRows, Scan
<1>2. CASE Indexed
  <2> DEFINE q == gens[meta.index]
  <2>1. q \in Seq(Nat) /\ Begins(q, col["s"]) /\ sorts[meta.index] = q
    BY <1>2 DEF Indexed, IndexInv, Paired
  <2>2. SubjectRows(id) = Bisect(q, q, id) \cup Scan(Len(q) + 1, id)
    BY <1>2, <2>1 DEF SubjectRows
  <2> HIDE DEF q
  <2>3. PICK n \in Nat : n = Len(q)
    BY <2>1
  <2>4. DOMAIN q = 1..n
    BY <2>1, <2>3
  <2>5. Rows \in Nat /\ n <= Rows /\ \A i \in 1..n : q[i] = col["s"][i]
    BY <2>1, <2>3 DEF Begins, Rows, Typed
  <2>6. Bisect(q, q, id) = {i \in 1..n : q[i] = id}
    BY <2>1, <2>4, BisectExact
  <2>7. SubjectRows(id) = {i \in 1..n : q[i] = id} \cup {i \in (n + 1)..Rows : col["s"][i] = id}
    BY <2>2, <2>3, <2>6 DEF Scan
  <2>8. \A i : i \in 1..Rows <=> i \in 1..n \/ i \in (n + 1)..Rows
    BY <2>5
  <2>9. \A i : i \in SubjectRows(id) <=> i \in 1..Rows /\ col["s"][i] = id
    BY <2>5, <2>7, <2>8
  <2> QED BY <2>9
<1> QED BY <1>1, <1>2

(* A query finds the rows whose subject its dictionary spells as the term, *)
(* and spells each of them.                                                *)
LEMMA Answer ==
    ASSUME Typed, IndexInv, Paired, \A ts \in DOMAIN gens : gens[ts] \in Seq(Nat),
           NEW dict \in Seq(Term), Proper(dict), NEW t \in Term
    PROVE  FactsAbout(dict, t) =
             {Spells(dict, Triple(i)) : i \in {j \in 1..Rows :
                col["s"][j] + 1 \in DOMAIN dict /\ dict[col["s"][j] + 1] = t}} \ tomb
<1> DEFINE Mine == {j \in 1..Rows : col["s"][j] + 1 \in DOMAIN dict /\ dict[col["s"][j] + 1] = t}
<1>1. \A i \in 1..Rows : col["s"][i] \in Nat
  <2>1. \A q \in Seq(Nat) : \A i \in 1..Len(q) : q[i] \in Nat
    BY ElementOfSeq
  <2> QED BY <2>1 DEF Typed, Rows
<1>2. CASE t \notin Ran(dict)
  <2>1. Mine = {}
    BY <1>2 DEF Ran
  <2>2. {Spells(dict, Triple(i)) : i \in Mine} = {}
    BY <2>1
  <2> QED BY <1>2, <2>2 DEF FactsAbout
<1>3. CASE t \in Ran(dict)
  <2>1. SubjectRows(IdOf(dict, t)) = {i \in 1..Rows : col["s"][i] = IdOf(dict, t)}
    BY <1>3, SubjectRowsAre, IdOfType
  <2>2. \A i \in 1..Rows : col["s"][i] = IdOf(dict, t) <=> i \in Mine
    BY <1>1, <1>3, SubjectSpells
  <2>3. SubjectRows(IdOf(dict, t)) = Mine
    BY <2>1, <2>2
  <2>4. \A i \in Mine : Spells(dict, Triple(i)) = <<t, TermOf(dict, col["p"][i]), TermOf(dict, col["o"][i])>>
    BY DEF Spells, FactOf, Triple, TermOf
  <2> HIDE DEF Mine
  <2>5. {<<t, TermOf(dict, col["p"][i]), TermOf(dict, col["o"][i])>> : i \in Mine}
          = {Spells(dict, Triple(i)) : i \in Mine}
    BY <2>4
  <2> QED BY <1>3, <2>3, <2>5 DEF FactsAbout, Mine
<1> QED BY <1>2, <1>3

LEMMA AnswerExact ==
    ASSUME TypeInv, ShapeInv, DictInv, IndexInv
    PROVE  QueryExact
<1> SUFFICES ASSUME pc = "idle", NEW t \in Term
             PROVE  /\ ~ QueryFails(i2s, t)
                    /\ FactsAbout(i2s, t) = {f \in StoredFacts : f[1] = t} \ tomb
  BY DEF QueryExact
<1>1. /\ Typed /\ (\A ts \in DOMAIN gens : gens[ts] \in Seq(Nat)) /\ Paired
      /\ Len(col["p"]) = Rows /\ Len(col["o"]) = Rows
  BY TypedHolds DEF TypeInv, TypeOK, ShapeInv, Rewritten, AuditPC, IndexInv, Paired
<1>2. termsFile \in Seq(Term) /\ i2s \in Seq(Term) /\ Proper(i2s) /\ Begins(termsFile, i2s)
  BY DictTypes DEF DictInv
<1>3. ~ QueryFails(i2s, t)
  <2>1. \A id \in Nat : \A i \in SubjectRows(id) : i \in 1..Rows
    BY <1>1, SubjectRowsAre
  <2>2. \A i \in 1..Rows : ~ (i > Rows)
    BY <1>1 DEF Typed
  <2> QED BY <1>1, <1>2, <2>1, <2>2, IdOfType DEF QueryFails
<1> DEFINE Mine == {j \in 1..Rows : col["s"][j] + 1 \in DOMAIN i2s /\ i2s[col["s"][j] + 1] = t}
<1>4. FactsAbout(i2s, t) = {Spells(i2s, Triple(i)) : i \in Mine} \ tomb
  BY <1>1, <1>2, Answer
<1>5. Store = [i \in 1..Rows |-> [t |-> Triple(i), run |-> origin[i].run]]
  BY <1>1 DEF Store, Rewritten, AuditPC
<1>6. DOMAIN Store = 1..Rows /\ \A i \in 1..Rows : Store[i].t = Triple(i)
  BY <1>5
<1>7. \A i \in 1..Rows : Known(termsFile, Triple(i))
  BY <1>6 DEF DictInv, Good
<1>8. \A i \in 1..Rows : Known(i2s, Triple(i)) /\ Spells(i2s, Triple(i)) = Spells(termsFile, Triple(i))
  BY <1>2, <1>7, BeginsSpells
<1>9. \A i \in 1..Rows : i \in Mine <=> Spells(i2s, Triple(i))[1] = t
  <2> TAKE i \in 1..Rows
  <2>1. col["s"][i] + 1 \in DOMAIN i2s
    BY <1>8 DEF Known, Triple
  <2>2. Spells(i2s, Triple(i))[1] = i2s[col["s"][i] + 1]
    BY <2>1 DEF Spells, FactOf, Triple, TermOf
  <2> QED BY <2>1, <2>2
<1>10. StoredFacts = {Spells(i2s, Triple(i)) : i \in 1..Rows}
  <2>1. StoredFacts = StoreFacts
    BY StoredAre DEF Rewritten, AuditPC
  <2>2. StoreFacts = {Spells(termsFile, Triple(i)) : i \in 1..Rows}
    BY <1>6 DEF StoreFacts
  <2> QED BY <1>8, <2>1, <2>2
<1>11. Mine \in SUBSET (1..Rows)
  OBVIOUS
<1> HIDE DEF Mine
<1>12. {Spells(i2s, Triple(i)) : i \in Mine} = {f \in StoredFacts : f[1] = t}
  BY <1>9, <1>10, <1>11
<1> QED BY <1>3, <1>4, <1>12

LEMMA InitIndex == Init => IndexInv
<1> SUFFICES ASSUME Init PROVE IndexInv
  OBVIOUS
<1>1. gens = <<>> /\ sorts = <<>> /\ pc = "down"
  BY DEF Init
<1>2. DOMAIN gens = {} /\ DOMAIN sorts = {}
  BY <1>1
<1> QED BY <1>1, <1>2 DEF IndexInv, AuditPC

(* If no sweep runs, a query by subject returns exactly the stored,        *)
(* unretracted facts of the subject that a full scan finds, whatever index *)
(* a rebuild, a crash between any two of its writes or a reader's late     *)
(* write left behind, unless a crash cuts off a rebuild that overwrites    *)
(* the generation of one within the same second.                           *)
THEOREM QueryCorrect ==
    ASSUME NoBlanks, WholeRows, WholePairs, ~AuditOn
    PROVE  Spec => []QueryExact
<1>1. Init => TypeInv /\ ShapeInv /\ DictInv /\ IndexInv
  BY InitType, InitShape, InitDict, InitIndex
<1>2. TypeInv /\ ShapeInv /\ DictInv /\ IndexInv /\ [Next]_vars =>
        (TypeInv /\ ShapeInv /\ DictInv /\ IndexInv)'
  BY TypeStep, ShapeStep, DictStep, IndexStep
<1>3. TypeInv /\ ShapeInv /\ DictInv /\ IndexInv => QueryExact
  BY AnswerExact
<1> QED BY <1>1, <1>2, <1>3, PTL DEF Spec
-----------------------------------------------------------------------------
(* The reader *)

(* The dictionary on disk only grows. *)
LEMMA TermsGrow ==
    ASSUME TypeInv, DictInv, [Next]_vars
    PROVE  Begins(termsFile, termsFile')
<1>0. termsFile \in Seq(Term) /\ i2s \in Seq(Term) /\ Begins(termsFile, termsFile)
  BY DictTypes, BeginsSelf
<1>1. CASE FlushStart \/ FlushEmpty
  BY <1>1 DEF FlushStart, FlushEmpty, DictInv
<1>2. CASE \E batch \in TurboBatch, src \in Source \cup {0} : Turbo(batch, src)
  <2>1. PICK batch \in TurboBatch, src \in Source \cup {0} : Turbo(batch, src)
    BY <1>2
  <2>2. PICK new \in Orderings(TermsOf(batch) \ Ran(i2s)) : termsFile' = i2s \o new
    BY <2>1 DEF Turbo
  <2>3. IsFiniteSet(TermsOf(batch) \ Ran(i2s)) /\ TermsOf(batch) \ Ran(i2s) \in SUBSET Term
    BY TermsOfFinite, BatchAssumption, FS_Subset
  <2>4. new \in Seq(Term)
    BY <2>3, OrderingsType
  <2>5. Begins(i2s, i2s \o new) /\ i2s \o new \in Seq(Term)
    BY <1>0, <2>4, BeginsConcat
  <2>6. Begins(termsFile, i2s)
    BY <2>1 DEF Turbo, DictInv
  <2> QED BY <1>0, <2>2, <2>5, <2>6, BeginsOn
<1>3. CASE (\E f \in Fact, src \in Source \cup {0} : AddNew(f, src)) \/ (\E f \in Fact : AddDuplicate(f))
  BY <1>0, <1>3 DEF AddNew, AddDuplicate, disk
<1>4. CASE Open \/ Crash \/ Backfill \/ AppendColumns \/ FinishWrite
  BY <1>0, <1>4 DEF Open, Crash, Backfill, AppendColumns, AppendCol, FinishWrite, disk
<1>5. CASE (\E f \in Retractable : Retract(f)) \/ (\E ts \in 1..MaxGen : RebuildStart(ts)) \/ RebuildSorted \/ RebuildMeta \/ RebuildUnlink
  BY <1>0, <1>5 DEF Retract, RebuildStart, RebuildSorted, RebuildMeta, RebuildUnlink
<1>6. CASE AuditStart \/ AuditColumns \/ AuditFinish
  BY <1>0, <1>6 DEF AuditStart, AuditColumns, RewriteCol, AuditFinish, disk
<1>7. CASE ReaderOpen \/ ReaderQuery \/ UNCHANGED vars
  BY <1>0, <1>7 DEF ReaderOpen, ReaderQuery, vars, disk
<1> QED BY <1>1, <1>2, <1>3, <1>4, <1>5, <1>6, <1>7 DEF Next

(* Without sweeps, rows stay. *)
LEMMA StoreGrows ==
    ASSUME WholeRows, TypeInv, ShapeInv, IndexInv, [Next]_vars
    PROVE  \A i \in DOMAIN Store : i \in DOMAIN Store' /\ Store'[i].t = Store[i].t
<1>1. ~ RewriteCol("audit_s", "s", "audit_p")
  BY DEF RewriteCol, IndexInv, AuditPC
<1>2. CASE AppendCol("o", "src")
  <2>1. Joined(Store, Store')
    BY <1>2, ShapeStep
  <2>2. PICK n \in Nat, m \in Nat : n = Len(Store) /\ m = Len(buf)
    BY <2>1 DEF Joined
  <2>3. /\ DOMAIN Store = 1..n /\ DOMAIN Store' = 1..(n + m)
        /\ \A i \in 1..n : Store'[i] = Store[i]
    BY <2>1, <2>2 DEF Joined
  <2> QED BY <2>3
<1>3. CASE ~ AppendCol("o", "src")
  BY <1>1, <1>3, ShapeStep
<1> QED BY <1>2, <1>3

(* The reader's dictionary is where the one on disk began, and what it     *)
(* knew when it opened are facts of complete rows.                         *)
ReaderInv ==
    rd.up =>
        /\ Begins(rd.dict, termsFile)
        /\ \A f \in rd.known : \E i \in DOMAIN Store :
              Known(rd.dict, Store[i].t) /\ f = Spells(rd.dict, Store[i].t)

LEMMA ReaderStep ==
    ASSUME WholeRows, TypeInv, ShapeInv, DictInv, IndexInv, ReaderInv, [Next]_vars
    PROVE  ReaderInv'
<1>0. /\ termsFile \in Seq(Term) /\ rd.dict \in Seq(Term) /\ termsFile' \in Seq(Term)
  <2>1. TypeInv'
    BY TypeStep
  <2> QED BY <2>1 DEF TypeInv, TypeOK, Reader
<1>1. Begins(termsFile, termsFile')
  BY TermsGrow
<1>2. \A i \in DOMAIN Store : i \in DOMAIN Store' /\ Store'[i].t = Store[i].t
  BY StoreGrows
<1>3. CASE ReaderOpen
  <2>1. rd'.dict = termsFile /\ termsFile' = termsFile /\ rd'.known = StoreFacts
    <3>1. LoadTerms(termsFile) = termsFile
      BY <1>0, LoadWhole DEF DictInv
    <3>2. StoredFacts = StoreFacts
      BY StoredAre DEF IndexInv, Rewritten
    <3> QED BY <1>3, <3>1, <3>2 DEF ReaderOpen, disk
  <2>2. \A f \in StoreFacts : \E i \in DOMAIN Store :
           Known(termsFile, Store[i].t) /\ f = Spells(termsFile, Store[i].t)
    BY DEF StoreFacts, DictInv, Good
  <2>3. Begins(termsFile, termsFile)
    BY <1>0, BeginsSelf
  <2>4. \A f \in StoreFacts : \E i \in DOMAIN Store' :
           Known(termsFile, Store'[i].t) /\ f = Spells(termsFile, Store'[i].t)
    BY <1>2, <2>2
  <2> QED BY <2>1, <2>3, <2>4 DEF ReaderInv
<1>4. ASSUME rd'.up = rd.up, rd'.dict = rd.dict, rd'.known = rd.known
      PROVE  ReaderInv'
  <2> SUFFICES ASSUME rd.up
               PROVE  /\ Begins(rd.dict, termsFile')
                      /\ \A f \in rd.known : \E i \in DOMAIN Store' :
                            Known(rd.dict, Store'[i].t) /\ f = Spells(rd.dict, Store'[i].t)
    BY <1>4 DEF ReaderInv
  <2>1. Begins(rd.dict, termsFile')
    BY <1>0, <1>1, BeginsOn DEF ReaderInv
  <2>2. \A f \in rd.known : \E i \in DOMAIN Store' :
           Known(rd.dict, Store'[i].t) /\ f = Spells(rd.dict, Store'[i].t)
    BY <1>2 DEF ReaderInv
  <2> QED BY <2>1, <2>2
<1>5. CASE ReaderQuery
  <2>1. rd'.up = rd.up /\ rd'.dict = rd.dict /\ rd'.known = rd.known
    BY <1>5 DEF ReaderQuery, TypeInv, TypeOK, Reader
  <2> QED BY <1>4, <2>1
<1>6. ASSUME rd' = rd
      PROVE  ReaderInv'
  BY <1>4, <1>6
<1>7. CASE (\E f \in Fact, src \in Source \cup {0} : AddNew(f, src)) \/ (\E f \in Fact : AddDuplicate(f))
  BY <1>6, <1>7 DEF AddNew, AddDuplicate
<1>8. CASE Open \/ Crash \/ FlushStart \/ FlushEmpty \/ Backfill \/ AppendColumns \/ FinishWrite
  BY <1>6, <1>8 DEF Open, Crash, FlushStart, FlushEmpty, Backfill, AppendColumns, AppendCol, FinishWrite
<1>9. CASE \E batch \in TurboBatch, src \in Source \cup {0} : Turbo(batch, src)
  BY <1>6, <1>9 DEF Turbo
<1>10. CASE (\E f \in Retractable : Retract(f)) \/ (\E ts \in 1..MaxGen : RebuildStart(ts)) \/ RebuildSorted \/ RebuildMeta \/ RebuildUnlink
  BY <1>6, <1>10 DEF Retract, RebuildStart, RebuildSorted, RebuildMeta, RebuildUnlink
<1>11. CASE AuditStart \/ AuditColumns \/ AuditFinish
  BY <1>6, <1>11 DEF AuditStart, AuditColumns, RewriteCol, AuditFinish
<1>12. CASE UNCHANGED vars
  BY <1>6, <1>12 DEF vars
<1> QED BY <1>3, <1>5, <1>7, <1>8, <1>9, <1>10, <1>11, <1>12 DEF Next

LEMMA ReaderAnswers ==
    ASSUME ~SameSecond, TypeInv, ShapeInv, DictInv, IndexInv, ReaderInv
    PROVE  ReaderAgrees
<1> DEFINE dict == rd.dict
<1> SUFFICES ASSUME rd.up, NEW t \in Term \ {Blank}, ~ QueryFails(dict, t)
             PROVE  /\ {f \in rd.known : f[1] = t} \ tomb \subseteq FactsAbout(dict, t)
                    /\ \A f \in FactsAbout(dict, t) : f \in StoredFacts \/ Blank \in {f[2], f[3]}
  BY DEF ReaderAgrees
<1>1. /\ Typed /\ (\A ts \in DOMAIN gens : gens[ts] \in Seq(Nat)) /\ Paired
      /\ termsFile \in Seq(Term) /\ dict \in Seq(Term) /\ Begins(dict, termsFile)
  BY TypedHolds DEF TypeInv, TypeOK, Reader, ReaderInv, IndexInv, Paired
<1>2. Proper(dict)
  <2>1. DOMAIN dict = 1..Len(dict) /\ DOMAIN termsFile = 1..Len(termsFile)
        /\ Len(dict) \in Nat /\ Len(termsFile) \in Nat
    BY <1>1
  <2>2. \A i \in DOMAIN dict : i \in DOMAIN termsFile /\ termsFile[i] = dict[i]
    BY <1>1, <2>1 DEF Begins
  <2>3. Proper(termsFile)
    BY DEF DictInv
  <2>4. \A i, j \in DOMAIN dict : dict[i] = dict[j] => i = j
    BY <2>2, <2>3 DEF Proper
  <2>5. Blank \notin Ran(dict)
    BY <2>2, <2>3 DEF Proper, Ran
  <2> QED BY <2>4, <2>5 DEF Proper
<1> HIDE DEF dict
<1> DEFINE Mine == {j \in 1..Rows : col["s"][j] + 1 \in DOMAIN dict /\ dict[col["s"][j] + 1] = t}
<1>3. FactsAbout(dict, t) = {Spells(dict, Triple(i)) : i \in Mine} \ tomb
  BY <1>1, <1>2, Answer
<1>4. PICK n \in Nat : n = Len(col["o"]) /\ n <= Rows
  <2>1. Len(col["o"]) <= Rows
    BY <1>1 DEF ShapeInv, IndexInv, Rewritten, Typed
  <2> QED BY <1>1, <2>1 DEF Typed
<1>5. Store = [i \in 1..n |-> [t |-> Triple(i), run |-> origin[i].run]]
  BY <1>4 DEF Store, Rewritten, IndexInv
<1>6. DOMAIN Store = 1..n /\ \A i \in 1..n : Store[i].t = Triple(i)
  BY <1>5
<1>7. \A i \in 1..n : i \in 1..Rows
  BY <1>1, <1>4 DEF Typed
<1>8. \A i \in Mine : i \in 1..n
  <2> TAKE i \in Mine
  <2>1. t \in Ran(dict)
    BY DEF Ran
  <2>2. \A j \in 1..Rows : col["s"][j] \in Nat
    <3>1. \A q \in Seq(Nat) : \A j \in 1..Len(q) : q[j] \in Nat
      BY ElementOfSeq
    <3> QED BY <1>1, <3>1 DEF Typed, Rows
  <2>3. i \in 1..Rows /\ col["s"][i] = IdOf(dict, t)
    BY <1>1, <1>2, <2>1, <2>2, SubjectSpells
  <2>4. i \in SubjectRows(IdOf(dict, t))
    BY <1>1, <2>1, <2>3, SubjectRowsAre, IdOfType
  <2>5. ~ (i > n)
    BY <1>4, <2>1, <2>4 DEF QueryFails
  <2>6. Rows \in Nat
    BY <1>1 DEF Typed
  <2> HIDE DEF Mine
  <2> QED BY <1>4, <2>3, <2>5, <2>6
<1>9. ASSUME NEW f \in rd.known, f[1] = t, f \notin tomb
      PROVE  f \in FactsAbout(dict, t)
  <2>1. PICK i \in 1..n : Known(dict, Triple(i)) /\ f = Spells(dict, Triple(i))
    BY <1>6, <1>9 DEF ReaderInv, dict
  <2>2. f[1] = dict[col["s"][i] + 1] /\ col["s"][i] + 1 \in DOMAIN dict
    BY <2>1 DEF Known, Spells, FactOf, Triple, TermOf
  <2>3. i \in Mine
    BY <1>7, <1>9, <2>1, <2>2
  <2> HIDE DEF Mine
  <2> QED BY <1>3, <1>9, <2>1, <2>3
<1>10. ASSUME NEW f \in FactsAbout(dict, t), Blank \notin {f[2], f[3]}
       PROVE  f \in StoredFacts
  <2>0. \E i \in Mine : f = Spells(dict, Triple(i))
    <3> HIDE DEF Mine
    <3> QED BY <1>3, <1>10
  <2>1. PICK i \in Mine : f = Spells(dict, Triple(i))
    BY <2>0
  <2>2. i \in 1..n /\ col["s"][i] + 1 \in DOMAIN dict
    BY <1>8, <2>1
  <2>3. f[2] = TermOf(dict, col["p"][i]) /\ f[3] = TermOf(dict, col["o"][i])
    BY <2>1 DEF Spells, FactOf, Triple
  <2>4. Known(dict, Triple(i))
    BY <1>10, <2>2, <2>3 DEF Known, Triple, TermOf
  <2>5. Spells(termsFile, Triple(i)) = f
    BY <1>1, <2>1, <2>4, BeginsSpells
  <2>6. f \in StoreFacts
    BY <1>6, <2>2, <2>5 DEF StoreFacts
  <2> QED BY <2>6, StoredAre DEF IndexInv, Rewritten
<1> QED BY <1>9, <1>10

(* If no sweep runs and no two rebuilds fall in one second, a reader that  *)
(* looks at the files between any two writes, those of a rebuild included, *)
(* answers everything that was stored when it opened, and otherwise only   *)
(* what is stored or has a blank where its dictionary is too old, whatever *)
(* it has itself written back to meta.json.                                *)
THEOREM ReaderCorrect ==
    ASSUME NoBlanks, WholeRows, ~SameSecond, ~AuditOn
    PROVE  Spec => []ReaderAgrees
<1>1. Init => TypeInv /\ ShapeInv /\ DictInv /\ IndexInv /\ ReaderInv
  <2>1. Init => ReaderInv
    BY DEF Init, ReaderInv, NoReader
  <2> QED BY <2>1, InitType, InitShape, InitDict, InitIndex
<1>2. TypeInv /\ ShapeInv /\ DictInv /\ IndexInv /\ ReaderInv /\ [Next]_vars =>
        (TypeInv /\ ShapeInv /\ DictInv /\ IndexInv /\ ReaderInv)'
  BY TypeStep, ShapeStep, DictStep, IndexStep, ReaderStep DEF WholePairs
<1>3. TypeInv /\ ShapeInv /\ DictInv /\ IndexInv /\ ReaderInv => ReaderAgrees
  BY ReaderAnswers
<1> QED BY <1>1, <1>2, <1>3, PTL DEF Spec
-----------------------------------------------------------------------------
(* The refinement of FactLog *)

(* What the mapping of Log makes durable and pending. *)
Durable == IF pc \in AuditPC THEN BufFacts ELSE StoredFacts
Pending == IF pc \in AuditPC \cup {"src", "meta"} THEN {} ELSE BufFacts

(* What is durable is what the complete rows spell, even while a sweep     *)
(* has them in memory only.                                                *)
LogInv == Durable = StoreFacts /\ StoreFacts \subseteq Fact /\ Pending \subseteq Fact

LEMMA BufFactsAre ==
    ASSUME Typed
    PROVE  BufFacts = {Spells(i2s, BufTriple(j)) : j \in 1..Len(buf)}
<1>1. DOMAIN buf = 1..Len(buf)
  BY DEF Typed
<1>2. \A j : FactOf(i2s, buf[j].s, buf[j].p, buf[j].o) = Spells(i2s, BufTriple(j))
  BY DEF Spells, BufTriple
<1> QED BY <1>1, <1>2 DEF BufFacts

LEMMA LogHolds ==
    ASSUME TypeInv, ShapeInv, DictInv
    PROVE  LogInv
<1>1. Typed /\ termsFile \in Seq(Term) /\ i2s \in Seq(Term)
  BY TypedHolds, DictTypes
<1>2. BufFacts = {Spells(i2s, BufTriple(j)) : j \in 1..Len(buf)}
  BY <1>1, BufFactsAre
<1>3. Pending \subseteq Fact
  BY <1>2 DEF Pending, DictInv, Good
<1>4. StoreFacts \subseteq Fact
  BY DEF StoreFacts, DictInv, Good
<1>5. \A i \in DOMAIN Store : pc # "down" => Spells(i2s, Store[i].t) = Spells(termsFile, Store[i].t)
  <2> TAKE i \in DOMAIN Store
  <2> HAVE pc # "down"
  <2>1. Known(termsFile, Store[i].t) /\ Begins(termsFile, i2s)
    BY DEF DictInv, Good
  <2> QED BY <1>1, <2>1, BeginsSpells
<1>6. ASSUME pc \notin AuditPC PROVE Durable = StoreFacts
  BY <1>6, StoredAre DEF Durable, Rewritten
<1>7. ASSUME pc \in Rewritten PROVE Durable = StoreFacts
  <2>1. Store = [k \in 1..Len(buf) |-> [t |-> BufTriple(k), run |-> origin[k].run]]
    BY <1>7 DEF Store
  <2>2. DOMAIN Store = 1..Len(buf) /\ \A k \in 1..Len(buf) : Store[k].t = BufTriple(k)
    BY <2>1
  <2>3. pc # "down" /\ pc \in AuditPC
    BY <1>7 DEF Rewritten, AuditPC
  <2>4. StoreFacts = BufFacts
    BY <1>2, <1>5, <2>2, <2>3 DEF StoreFacts
  <2> QED BY <2>3, <2>4 DEF Durable
<1>8. ASSUME pc = "audit_s" PROVE Durable = StoreFacts
  <2>1. buf = SweptRows /\ Len(col["p"]) = Rows /\ Len(col["o"]) = Rows
    BY <1>8 DEF ShapeInv, Rewritten, AuditPC
  <2>2. PICK g \in [1..Len(SweptRows) -> 1..Rows] :
          /\ \A k \in 1..Len(SweptRows) : SweptTriple(k) = Triple(g[k])
          /\ \A i \in 1..Rows : \E k \in 1..Len(SweptRows) : SweptTriple(k) = Triple(i)
    BY <2>1, SweptOnce
  <2>3. Store = [i \in 1..Rows |-> [t |-> Triple(i), run |-> origin[i].run]]
    BY <1>8, <2>1 DEF Store, Rewritten, AuditPC
  <2>4. DOMAIN Store = 1..Rows /\ \A i \in 1..Rows : Store[i].t = Triple(i)
    BY <2>3
  <2>5. \A j : BufTriple(j) = SweptTriple(j)
    BY <2>1 DEF BufTriple, SweptTriple
  <2>6. StoreFacts = {Spells(i2s, Triple(i)) : i \in 1..Rows}
    BY <1>5, <1>8, <2>4 DEF StoreFacts
  <2>7. BufFacts = {Spells(i2s, SweptTriple(k)) : k \in 1..Len(SweptRows)}
    BY <1>2, <2>1, <2>5
  <2>8. StoreFacts = BufFacts
    BY <2>2, <2>6, <2>7
  <2> QED BY <1>8, <2>8 DEF Durable, AuditPC
<1> QED BY <1>3, <1>4, <1>6, <1>7, <1>8 DEF LogInv, Rewritten

(* Growing dictionaries spell old rows as before. *)
LEMMA FactsKept ==
    ASSUME TypeInv, DictInv, Store' = Store, Begins(termsFile, termsFile'), termsFile' \in Seq(Term)
    PROVE  StoreFacts' = StoreFacts
<1>1. \A i \in DOMAIN Store : Spells(termsFile', Store[i].t) = Spells(termsFile, Store[i].t)
  BY DictTypes, BeginsSpells DEF DictInv, Good
<1> QED BY <1>1 DEF StoreFacts

(* The o append makes durable what was pending, all of it. *)
LEMMA LogCommits ==
    ASSUME TypeInv, DictInv, LogInv, LogInv', AppendCol("o", "src"), Joined(Store, Store')
    PROVE  Durable' = Durable \cup Pending /\ Pending' = {}
<1>1. pc = "o" /\ pc' = "src" /\ UNCHANGED <<buf, i2s, termsFile>> /\ i2s = termsFile
  BY DEF AppendCol, ram, DictInv, FlushPC
<1>2. PICK n \in Nat, m \in Nat : n = Len(Store) /\ m = Len(buf)
  BY DEF Joined
<1>3. /\ DOMAIN Store = 1..n /\ DOMAIN Store' = 1..(n + m)
      /\ \A i \in 1..n : Store'[i] = Store[i]
      /\ \A k \in 1..m : Store'[n + k] = [t |-> BufTriple(k), run |-> BufRun]
  BY <1>2 DEF Joined
<1>4. \A k \in 1..m : n + k \in 1..(n + m) /\ Store'[n + k].t = BufTriple(k)
  <2> TAKE k \in 1..m
  <2>1. Store'[n + k] = [t |-> BufTriple(k), run |-> BufRun]
    BY <1>3, Zenon
  <2> QED BY <2>1
<1>5. \A i \in 1..(n + m) : i \in 1..n \/ \E k \in 1..m : i = n + k
  <2> TAKE i \in 1..(n + m)
  <2>1. i <= n => i \in 1..n
    OBVIOUS
  <2>2. ~ (i <= n) => i - n \in 1..m /\ i = n + (i - n)
    OBVIOUS
  <2> QED BY <2>1, <2>2
<1>6. \A i \in 1..n : i \in 1..(n + m)
  OBVIOUS
<1>7. BufFacts = {Spells(termsFile, BufTriple(j)) : j \in 1..m}
  BY <1>1, <1>2, TypedHolds, BufFactsAre
<1>8. StoreFacts' = {Spells(termsFile, Store'[i].t) : i \in 1..(n + m)}
  BY <1>1, <1>3 DEF StoreFacts
<1>9. StoreFacts = {Spells(termsFile, Store[i].t) : i \in 1..n}
  BY <1>3 DEF StoreFacts
<1>10. StoreFacts' = StoreFacts \cup BufFacts
  <2>1. \A i \in 1..n : Store'[i].t = Store[i].t
    BY <1>3
  <2>2. ASSUME NEW f \in StoreFacts' PROVE f \in StoreFacts \cup BufFacts
    BY <1>4, <1>5, <1>7, <1>8, <1>9, <2>1, <2>2
  <2>3. ASSUME NEW f \in StoreFacts PROVE f \in StoreFacts'
    BY <1>6, <1>8, <1>9, <2>1, <2>3
  <2>4. ASSUME NEW f \in BufFacts PROVE f \in StoreFacts'
    BY <1>4, <1>7, <1>8, <2>4
  <2> QED BY <2>2, <2>3, <2>4
<1>11. Pending = BufFacts /\ Pending' = {}
  BY <1>1 DEF Pending, AuditPC
<1> QED BY <1>10, <1>11 DEF LogInv

(* Every other step accepts more, loses all, or empties memory of what is  *)
(* durable already.                                                        *)
LEMMA PendingStep ==
    ASSUME NoBlanks, TypeInv, DictInv, [Next]_vars, ~ AppendCol("o", "src")
    PROVE  Pending \subseteq Pending' \/ Pending' = {}
<1>0. Typed /\ i2s \in Seq(Term)
  BY TypedHolds, DictTypes
<1>1. ASSUME buf' = <<>> PROVE Pending' = {}
  <2>1. BufFacts' = {}
    BY <1>1 DEF BufFacts
  <2> QED BY <2>1 DEF Pending
<1>2. ASSUME pc \in AuditPC \cup {"src", "meta"} \/ buf = <<>> PROVE Pending \subseteq Pending'
  <2>1. buf = <<>> => BufFacts = {}
    BY DEF BufFacts
  <2> QED BY <1>2, <2>1 DEF Pending
<1>3. ASSUME i2s' = i2s, buf' = buf, pc' \notin AuditPC \cup {"src", "meta"}
      PROVE  Pending \subseteq Pending'
  <2>1. BufFacts' = BufFacts
    BY <1>3 DEF BufFacts
  <2> QED BY <1>3, <2>1 DEF Pending
<1>4. BufFacts = {Spells(i2s, BufTriple(j)) : j \in 1..Len(buf)}
  BY <1>0, BufFactsAre
<1>5. CASE \E f \in Fact, src \in Source \cup {0} : AddNew(f, src)
  <2>1. PICK f \in Fact, src \in Source \cup {0} : AddNew(f, src)
    BY <1>5
  <2> DEFINE row == Row(InternFact(i2s, f), f, src)
  <2>2. /\ i2s' = InternFact(i2s, f) /\ buf' = Append(buf, row) /\ pc' \in {"idle", "terms"}
    BY <2>1 DEF AddNew
  <2>3. i2s' \in Seq(Term) /\ Begins(i2s, i2s')
    BY <1>0, <2>2, InternFactType, InternFactGrows DEF DictInv
  <2> HIDE DEF row
  <2>4. PICK n \in Nat : n = Len(buf)
    BY <1>0 DEF Typed
  <2>5. \A j \in 1..n : j \in DOMAIN buf' /\ buf'[j] = buf[j]
    BY <1>0, <2>2, <2>4 DEF Typed
  <2>6. \A j \in 1..n : Spells(i2s, BufTriple(j)) = Spells(i2s', BufTriple(j))
    BY <1>0, <2>3, <2>4, BeginsSpells DEF DictInv, Good
  <2>7. \A j \in 1..n : Spells(i2s', BufTriple(j)) = FactOf(i2s', buf'[j].s, buf'[j].p, buf'[j].o)
    BY <2>5 DEF Spells, BufTriple
  <2>8. BufFacts \subseteq BufFacts'
    BY <1>4, <2>4, <2>5, <2>6, <2>7 DEF BufFacts
  <2> QED BY <2>2, <2>8 DEF Pending, AuditPC
<1>6. CASE \E f \in Fact : AddDuplicate(f)
  <2>1. PICK f \in Fact : AddDuplicate(f)
    BY <1>6
  <2>2. /\ i2s' = InternFact(i2s, f) /\ buf' = buf /\ pc' = "idle"
    BY <2>1 DEF AddDuplicate
  <2>3. i2s' \in Seq(Term) /\ Begins(i2s, i2s')
    BY <1>0, <2>2, InternFactType, InternFactGrows DEF DictInv
  <2>4. \A j \in 1..Len(buf) : Spells(i2s, BufTriple(j)) = Spells(i2s', BufTriple(j))
    BY <1>0, <2>3, BeginsSpells DEF DictInv, Good
  <2>5. \A j \in 1..Len(buf) : j \in DOMAIN buf
    BY <1>0 DEF Typed
  <2>6. \A j : Spells(i2s', BufTriple(j)) = FactOf(i2s', buf'[j].s, buf'[j].p, buf'[j].o)
    BY <2>2 DEF Spells, BufTriple
  <2>7. BufFacts \subseteq BufFacts'
    BY <1>4, <2>2, <2>4, <2>5, <2>6 DEF BufFacts
  <2> QED BY <2>2, <2>7 DEF Pending, AuditPC
<1>7. CASE Open \/ Crash \/ FinishWrite \/ AuditFinish
  BY <1>1, <1>7 DEF Open, Crash, FinishWrite, AuditFinish
<1>8. CASE FlushStart \/ FlushEmpty \/ Backfill
  BY <1>3, <1>8 DEF FlushStart, FlushEmpty, Backfill, ram, AuditPC
<1>9. CASE AppendColumns
  <2>1. CASE AppendCol("src", "meta")
    BY <1>2, <2>1 DEF AppendCol
  <2>2. CASE AppendCol("s", "p") \/ AppendCol("p", "o")
    BY <1>3, <2>2 DEF AppendCol, ram, AuditPC
  <2> QED BY <1>9, <2>1, <2>2 DEF AppendColumns
<1>10. CASE (\E batch \in TurboBatch, src \in Source \cup {0} : Turbo(batch, src)) \/ (\E ts \in 1..MaxGen : RebuildStart(ts)) \/ AuditStart
  BY <1>2, <1>10 DEF Turbo, RebuildStart, AuditStart
<1>11. CASE (\E f \in Retractable : Retract(f)) \/ RebuildSorted \/ RebuildMeta \/ RebuildUnlink
  BY <1>3, <1>11 DEF Retract, RebuildSorted, RebuildMeta, RebuildUnlink, ram, AuditPC
<1>12. CASE AuditColumns
  BY <1>2, <1>12 DEF AuditColumns, RewriteCol, AuditPC
<1>13. CASE ReaderOpen \/ ReaderQuery \/ UNCHANGED vars
  <2>1. i2s' = i2s /\ buf' = buf /\ pc' = pc
    BY <1>13 DEF ReaderOpen, ReaderQuery, vars, ram
  <2>2. BufFacts' = BufFacts
    BY <2>1 DEF BufFacts
  <2> QED BY <2>1, <2>2 DEF Pending
<1> QED BY <1>5, <1>6, <1>7, <1>8, <1>9, <1>10, <1>11, <1>12, <1>13 DEF Next

LEMMA LogStep ==
    ASSUME NoBlanks, WholeRows, TypeInv, ShapeInv, DictInv, LogInv, TypeInv', LogInv', [Next]_vars
    PROVE  \/ Durable' = Durable \cup Pending /\ Pending' = {}
           \/ Durable' = Durable /\ Pending' \subseteq Fact /\ Pending \subseteq Pending'
           \/ Durable' = Durable /\ Pending' = {}
<1>1. CASE AppendCol("o", "src")
  BY <1>1, ShapeStep, LogCommits
<1>2. CASE ~ AppendCol("o", "src")
  <2>1. Begins(termsFile, termsFile') /\ termsFile' \in Seq(Term)
    BY TermsGrow DEF TypeInv, TypeOK
  <2>2. StoreFacts' = StoreFacts
    <3>1. CASE RewriteCol("audit_s", "s", "audit_p")
      <4>1. Deduped(Store, Store')
        BY <3>1, ShapeStep
      <4>2. termsFile' = termsFile
        BY <3>1 DEF RewriteCol
      <4>3. ASSUME NEW f \in StoreFacts PROVE f \in StoreFacts'
        <5>1. PICK i \in DOMAIN Store : f = Spells(termsFile, Store[i].t)
          BY <4>3 DEF StoreFacts
        <5>2. PICK k \in DOMAIN Store' : Store'[k].t = Store[i].t
          BY <4>1 DEF Deduped
        <5> QED BY <4>2, <5>1, <5>2 DEF StoreFacts
      <4>4. ASSUME NEW f \in StoreFacts' PROVE f \in StoreFacts
        <5>1. PICK k \in DOMAIN Store' : f = Spells(termsFile, Store'[k].t)
          BY <4>2, <4>4 DEF StoreFacts
        <5>2. PICK i \in DOMAIN Store : Store'[k] = Store[i]
          BY <4>1 DEF Deduped
        <5> QED BY <5>1, <5>2 DEF StoreFacts
      <4> QED BY <4>3, <4>4
    <3>2. CASE ~ RewriteCol("audit_s", "s", "audit_p")
      BY <1>2, <2>1, <3>2, ShapeStep, FactsKept
    <3> QED BY <3>1, <3>2
  <2>3. Durable' = Durable
    BY <2>2 DEF LogInv
  <2>4. Pending' \subseteq Fact
    BY DEF LogInv
  <2> QED BY <1>2, <2>3, <2>4, PendingStep
<1> QED BY <1>1, <1>2

(* The store implements the log, with turbo batches, sweeps, readers and   *)
(* crashes that leave whole rows: the facts the files spell are facts that *)
(* were added, none disappears, and a flush commits all of its rows at     *)
(* once, with the append to o.col.                                         *)
THEOREM StoreImplementsLog ==
    ASSUME NoBlanks, WholeRows
    PROVE  Spec => ImplementsLog
<1>1. Init => Log!Init
  <2> SUFFICES ASSUME Init PROVE Log!Init
    OBVIOUS
  <2>1. LogInv
    BY InitType, InitShape, InitDict, LogHolds
  <2>2. pc = "down" /\ buf = <<>>
    BY DEF Init
  <2>3. BufFacts = {}
    BY <2>2 DEF BufFacts
  <2>4. StoredFacts \subseteq Fact
    BY <2>1, <2>2 DEF LogInv, Durable, AuditPC
  <2> QED BY <2>2, <2>3, <2>4 DEF Log!Init, AuditPC
<1>2. TypeInv /\ ShapeInv /\ DictInv => LogInv
  BY LogHolds
<1>3. NoBlanks /\ WholeRows /\ TypeInv /\ ShapeInv /\ DictInv /\ LogInv /\ TypeInv' /\ LogInv' /\ [Next]_vars
        => [Log!Next]_Log!vars
  <2> SUFFICES ASSUME TypeInv, ShapeInv, DictInv, LogInv, TypeInv', LogInv', [Next]_vars
               PROVE  Log!Next
    OBVIOUS
  <2>1. \/ Durable' = Durable \cup Pending /\ Pending' = {}
        \/ Durable' = Durable /\ Pending' \subseteq Fact /\ Pending \subseteq Pending'
        \/ Durable' = Durable /\ Pending' = {}
    BY LogStep
  <2> QED BY <2>1 DEF Log!Next, Log!Accept, Log!Commit, Log!Lose, Durable, Pending
<1>4. Spec => [](TypeInv /\ ShapeInv /\ DictInv)
  BY DictHolds
<1> QED BY <1>1, <1>2, <1>3, <1>4, PTL DEF Spec, ImplementsLog, Log!Spec
=============================================================================
