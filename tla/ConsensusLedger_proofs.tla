----------------------- MODULE ConsensusLedger_proofs -----------------------
(***************************************************************************)
(* Theorems about ConsensusLedger for any sentences, aliases, voices and   *)
(* bounds: what reaches the store was confirmed, and what is marked as     *)
(* promoted is in the store.                                               *)
(***************************************************************************)
EXTENDS ConsensusLedger, NumberLemmas, FiniteSetTheorems, SequenceTheorems
-----------------------------------------------------------------------------
(* Aliases: clusters are the classes of an equivalence that only grow *)

LEMMA Forms ==
    /\ Form \in SUBSET Nat
    /\ \A s \in Sentence :
          Subject[s] \in Form /\ Object[s] \in Form /\ Pairs[s] \in SUBSET AllPairs
    /\ \A pr \in AllPairs : pr \in SUBSET Form
<1>1. \A s \in Sentence :
         Subject[s] \in Nat /\ Object[s] \in Nat /\ Pairs[s] \in SUBSET SUBSET Nat
  BY FormAssumption
<1>2. UNION UNION {Pairs[s] : s \in Sentence} \in SUBSET Nat
  BY <1>1
<1>3. \A pr \in AllPairs : pr \subseteq UNION UNION {Pairs[s] : s \in Sentence}
  BY DEF AllPairs
<1> QED
  BY <1>1, <1>2, <1>3 DEF Form, AllPairs

LEMMA ClusterOf ==
    ASSUME NEW f \in Form, NEW P \in SUBSET AllPairs
    PROVE  /\ f \in Cluster(f, P) /\ Cluster(f, P) \in SUBSET Form
           /\ Closed(Cluster(f, P), P)
<1>1. f \in Cluster(f, P) /\ Cluster(f, P) \in SUBSET Form
  BY DEF Cluster
<1>2. ASSUME NEW pr \in P, NEW g \in pr, g \in Cluster(f, P), NEW h \in pr
      PROVE  h \in Cluster(f, P)
  <2>1. h \in Form
    BY Forms
  <2>2. ASSUME NEW S \in SUBSET Form, f \in S, Closed(S, P) PROVE h \in S
    BY <1>2, <2>2 DEF Cluster, Closed
  <2> QED
    BY <2>1, <2>2 DEF Cluster
<1>3. Closed(Cluster(f, P), P)
  BY <1>2 DEF Closed
<1> QED
  BY <1>1, <1>3

LEMMA ClusterWithin ==
    ASSUME NEW f \in Form, NEW P \in SUBSET AllPairs, NEW g \in Cluster(f, P)
    PROVE  Cluster(g, P) \subseteq Cluster(f, P)
  BY ClusterOf DEF Cluster

LEMMA ClusterBack ==
    ASSUME NEW f \in Form, NEW P \in SUBSET AllPairs, NEW g \in Cluster(f, P)
    PROVE  f \in Cluster(g, P)
<1>1. g \in Form /\ f \in Cluster(f, P) /\ Closed(Cluster(f, P), P) /\ Cluster(f, P) \in SUBSET Form
  BY ClusterOf
<1>2. g \in Cluster(g, P) /\ Closed(Cluster(g, P), P)
  BY <1>1, ClusterOf
<1> SUFFICES ASSUME f \notin Cluster(g, P) PROVE FALSE
  OBVIOUS
<1> DEFINE S == Cluster(f, P) \ Cluster(g, P)
<1>3. S \in SUBSET Form /\ f \in S
  BY <1>1
<1>4. ASSUME NEW pr \in P, NEW h \in pr, h \in S, NEW k \in pr PROVE k \in S
  <2>1. k \in Cluster(f, P)
    BY <1>1, <1>4 DEF Closed
  <2>2. k \notin Cluster(g, P)
    BY <1>2, <1>4 DEF Closed
  <2> QED
    BY <2>1, <2>2
<1>5. Closed(S, P)
  BY <1>4 DEF Closed
<1>6. g \in S
  BY <1>3, <1>5 DEF Cluster
<1> QED
  BY <1>2, <1>6

LEMMA ClusterSame ==
    ASSUME NEW f \in Form, NEW P \in SUBSET AllPairs, NEW g \in Cluster(f, P)
    PROVE  Cluster(g, P) = Cluster(f, P)
<1>1. g \in Form
  BY ClusterOf
<1>2. f \in Cluster(g, P)
  BY ClusterBack
<1> QED
  BY <1>1, <1>2, ClusterWithin

(* More aliases only merge clusters. *)
LEMMA ClusterGrows ==
    ASSUME NEW f \in Form, NEW P \in SUBSET AllPairs, NEW Q \in SUBSET AllPairs, P \subseteq Q
    PROVE  Cluster(f, P) \subseteq Cluster(f, Q)
<1>1. \A S \in SUBSET Form : Closed(S, Q) => Closed(S, P)
  BY DEF Closed
<1> QED
  BY <1>1 DEF Cluster

(* The representative is a member of the cluster. *)
LEMMA ResolveIs ==
    ASSUME NEW f \in Form, NEW P \in SUBSET AllPairs
    PROVE  /\ Resolve(f, P) = Smallest(Cluster(f, P))
           /\ Resolve(f, P) \in Cluster(f, P)
<1>1. \E r \in Roots : r.form = f /\ r.pairs = P
  <2> DEFINE m == Smallest(Cluster(f, P))
             r == [form |-> f, pairs |-> P, root |-> m]
  <2>1. \E f2 \in Form, P2 \in SUBSET AllPairs :
           r = [form |-> f2, pairs |-> P2, root |-> Smallest(Cluster(f2, P2))]
    OBVIOUS
  <2>3. r \in Roots
    BY <2>1 DEF Roots
  <2>2. r.form = f /\ r.pairs = P
    OBVIOUS
  <2> QED
    BY <2>2, <2>3
<1>2. \A r \in Roots : r.form = f /\ r.pairs = P => r.root = Smallest(Cluster(f, P))
  BY DEF Roots
<1>3. Resolve(f, P) = Smallest(Cluster(f, P))
  BY <1>1, <1>2 DEF Resolve
<1>4. Cluster(f, P) \in SUBSET Nat /\ Cluster(f, P) # {}
  BY ClusterOf, Forms
<1>5. \E g \in Cluster(f, P) : \A k \in Cluster(f, P) : g <= k
  BY <1>4, LeastNat
<1>6. Smallest(Cluster(f, P)) \in Cluster(f, P)
  BY <1>5 DEF Smallest
<1> QED
  BY <1>3, <1>6

(* The key k is, or was under fewer aliases, the key of sentence s. *)
Fits(k, s, P) == k[1] \in Cluster(Subject[s], P) /\ k[2] \in Cluster(Object[s], P)

LEMMA KeyFits ==
    ASSUME NEW s \in Sentence, NEW P \in SUBSET AllPairs
    PROVE  KeyOf(s, P) \in Key /\ Fits(KeyOf(s, P), s, P)
<1>1. Subject[s] \in Form /\ Object[s] \in Form
  BY Forms
<1>2. \A f \in Form : Resolve(f, P) \in Cluster(f, P) /\ Cluster(f, P) \in SUBSET Form
  BY ResolveIs, ClusterOf
<1>3. /\ Resolve(Subject[s], P) \in Cluster(Subject[s], P) /\ Resolve(Subject[s], P) \in Form
      /\ Resolve(Object[s], P) \in Cluster(Object[s], P) /\ Resolve(Object[s], P) \in Form
  BY <1>1, <1>2
<1> QED
  BY <1>3 DEF KeyOf, Key, Fits

LEMMA FitsGrows ==
    ASSUME NEW s \in Sentence, NEW P \in SUBSET AllPairs, NEW Q \in SUBSET AllPairs, P \subseteq Q,
           NEW k, Fits(k, s, P)
    PROVE  Fits(k, s, Q)
  BY Forms, ClusterGrows DEF Fits

(* A key that fits resolves to the key the sentence has today. *)
LEMMA FitsKey ==
    ASSUME NEW s \in Sentence, NEW P \in SUBSET AllPairs, NEW k \in Key, Fits(k, s, P)
    PROVE  KeyOf(s, P) = <<Resolve(k[1], P), Resolve(k[2], P)>>
<1>1. \A f \in Form : \A g \in Cluster(f, P) : Resolve(g, P) = Resolve(f, P)
  <2> SUFFICES ASSUME NEW f \in Form, NEW g \in Cluster(f, P)
               PROVE  Resolve(g, P) = Resolve(f, P)
    OBVIOUS
  <2>1. Cluster(g, P) = Cluster(f, P) /\ g \in Form
    BY ClusterSame, ClusterOf
  <2> QED
    BY <2>1, ResolveIs
<1>2. Subject[s] \in Form /\ Object[s] \in Form
  BY Forms
<1>3. k[1] \in Cluster(Subject[s], P) /\ k[2] \in Cluster(Object[s], P)
  BY DEF Fits
<1>4. Resolve(k[1], P) = Resolve(Subject[s], P) /\ Resolve(k[2], P) = Resolve(Object[s], P)
  BY <1>1, <1>2, <1>3
<1> QED
  BY <1>4 DEF KeyOf

(* Sentences that state the same relation go on to do so. *)
LEMMA KeyKept ==
    ASSUME NEW s \in Sentence, NEW r \in Sentence,
           NEW P \in SUBSET AllPairs, NEW Q \in SUBSET AllPairs, P \subseteq Q,
           KeyOf(s, P) = KeyOf(r, P)
    PROVE  KeyOf(s, Q) = KeyOf(r, Q)
<1>1. KeyOf(s, P) \in Key /\ Fits(KeyOf(s, P), s, P) /\ Fits(KeyOf(s, P), r, P)
  BY KeyFits
<1>2. Fits(KeyOf(s, P), s, Q) /\ Fits(KeyOf(s, P), r, Q)
  BY <1>1, FitsGrows
<1> QED
  BY <1>1, <1>2, FitsKey
-----------------------------------------------------------------------------
(* The aggregate *)

LEMMA EntryType ==
    ASSUME NEW a \in Seq([key : Key, sent : Sentence])
    PROVE  /\ DOMAIN a = 1..Len(a) /\ Len(a) \in Nat
           /\ \A i \in DOMAIN a : a[i].key \in Key /\ a[i].sent \in Sentence
<1>1. DOMAIN a = 1..Len(a) /\ Len(a) \in Nat
  BY LenProperties
<1>2. ASSUME NEW i \in DOMAIN a PROVE a[i] \in [key : Key, sent : Sentence]
  BY <1>1, <1>2, ElementOfSeq
<1> QED
  BY <1>1, <1>2

(* The last sentence of a key is one of its sentences. *)
LEMMA LastIsAt ==
    ASSUME NEW a \in Seq([key : Key, sent : Sentence]), NEW k \in KeysOf(a)
    PROVE  /\ \E i \in DOMAIN a : a[i].key = k /\ a[i].sent = LastAt(a, k)
           /\ LastAt(a, k) \in Sentence
<1>1. DOMAIN a = 1..Len(a) /\ Len(a) \in Nat /\ \A i \in DOMAIN a : a[i].sent \in Sentence
  BY EntryType
<1>2. At(a, k) \in SUBSET (1..Len(a)) /\ At(a, k) # {}
  BY <1>1 DEF At, KeysOf
<1>3. \E i \in At(a, k) : \A j \in At(a, k) : i >= j
  BY <1>1, <1>2, GreatestNat
<1> DEFINE last == CHOOSE i \in At(a, k) : \A j \in At(a, k) : i >= j
<1>4. last \in At(a, k)
  BY <1>3
<1>5. LastAt(a, k) = a[last].sent
  BY DEF LastAt
<1> HIDE DEF last
<1> QED
  BY <1>1, <1>4, <1>5 DEF At

LEMMA RangeFinite ==
    ASSUME NEW S, IsFiniteSet(S), NEW g, DOMAIN g = S
    PROVE  IsFiniteSet({g[x] : x \in S})
<1> DEFINE T == {g[x] : x \in S}
           h == [x \in S |-> g[x]]
<1>1. h \in [S -> T] /\ \A t \in T : \E x \in S : h[x] = t
  OBVIOUS
<1>2. h \in Surjection(S, T)
  BY <1>1 DEF Surjection
<1> QED
  BY <1>2, FS_Surjection

(* Voices on record are finitely many, and only come. *)
LEMMA VoicesOf ==
    ASSUME NEW q \in Seq(Sentence), NEW S \in SUBSET Elems(q)
    PROVE  IsFiniteSet({Voice[e] : e \in S})
<1>1. IsFiniteSet(1..Len(q)) /\ DOMAIN q = 1..Len(q)
  BY FS_Interval
<1>2. IsFiniteSet(Elems(q))
  BY <1>1, RangeFinite DEF Elems
<1>3. IsFiniteSet(S)
  BY <1>2, FS_Subset
<1> DEFINE g == [e \in S |-> Voice[e]]
<1>4. DOMAIN g = S /\ {g[e] : e \in S} = {Voice[e] : e \in S}
  OBVIOUS
<1> HIDE DEF g
<1>5. IsFiniteSet({g[e] : e \in S})
  BY <1>3, <1>4, RangeFinite
<1> QED
  BY <1>4, <1>5

(* The aggregate tells of recorded events, under keys that still fit.      *)
AggFits ==
    \A i \in DOMAIN agg :
        agg[i].sent \in Elems(events) /\ Fits(agg[i].key, agg[i].sent, aliases)

(* The voices of a key of the aggregate are on record for its sentences.   *)
LEMMA VoicesRecorded ==
    ASSUME TypeOK, AggFits, NEW k \in KeysOf(agg), NEW s \in Sentence, Fits(k, s, aliases)
    PROVE  /\ Cardinality(Voices(agg, k)) <= Cardinality(RecordedVoices(s))
           /\ Cardinality(Voices(agg, k)) \in Nat /\ Cardinality(RecordedVoices(s)) \in Nat
<1>1. /\ events \in Seq(Sentence) /\ agg \in Seq([key : Key, sent : Sentence])
      /\ aliases \in SUBSET AllPairs
  BY DEF TypeOK
<1> DEFINE S == {f \in Elems(events) : KeyOf(f, aliases) = KeyOf(s, aliases)}
<1>2. \A i \in DOMAIN agg : agg[i].key \in Key /\ agg[i].sent \in Sentence
  BY <1>1, EntryType
<1>3. k \in Key
  BY <1>2 DEF KeysOf
<1>4. Sources(agg, k) \subseteq S
  <2> SUFFICES ASSUME NEW i \in DOMAIN agg, agg[i].key = k PROVE agg[i].sent \in S
    BY DEF Sources, At
  <2>1. agg[i].sent \in Elems(events) /\ agg[i].sent \in Sentence /\ Fits(k, agg[i].sent, aliases)
    BY <1>2 DEF AggFits
  <2>2. KeyOf(agg[i].sent, aliases) = KeyOf(s, aliases)
    BY <1>1, <1>3, <2>1, FitsKey
  <2> QED
    BY <2>1, <2>2
<1>5. RecordedVoices(s) = {Voice[e] : e \in S}
  BY DEF RecordedVoices
<1>6. IsFiniteSet(RecordedVoices(s))
  BY <1>1, <1>5, VoicesOf
<1>7. Voices(agg, k) \subseteq RecordedVoices(s)
  BY <1>4, <1>5 DEF Voices
<1> QED
  BY <1>6, <1>7, FS_Subset, FS_CardinalityType
-----------------------------------------------------------------------------
(* The inductive invariant *)

(* The objects of a tick say what the files say. *)
Synced == pc # "down" => known = aliases /\ done = promoted /\ keys = index

(* What a tick has still to write has enough voices. *)
TodoEnough ==
    /\ \A k \in todo : k \in KeysOf(agg) /\ Cardinality(Voices(agg, k)) >= MinSources
    /\ pc \notin {"promote", "row", "mark"} => todo = {}
    /\ pc \in {"row", "mark"} => todo # {}
    /\ pc = "event" => cur \in Sentence

LedgerInv == TypeOK /\ Synced /\ AggFits /\ TodoEnough /\ EnoughVoices

(* The step of a tick that writes has a key in hand, whose row fits. *)
LEMMA InHand ==
    ASSUME TypeOK, AggFits, TodoEnough, todo # {}
    PROVE  /\ Current \in todo /\ Current \in Key /\ Current \in KeysOf(agg)
           /\ RowOf(Current).key = Current /\ RowOf(Current).sent \in Sentence
           /\ RowOf(Current) \in [key : Key, sent : Sentence]
           /\ Fits(Current, RowOf(Current).sent, aliases)
           /\ RowOf(Current).sent \in Elems(events)
<1>1. Current \in todo
  BY DEF Current
<1>2. Current \in Key /\ Current \in KeysOf(agg) /\ agg \in Seq([key : Key, sent : Sentence])
  BY <1>1 DEF TypeOK, TodoEnough
<1>3. PICK i \in DOMAIN agg : agg[i].key = Current /\ agg[i].sent = LastAt(agg, Current)
  BY <1>2, LastIsAt
<1>4. LastAt(agg, Current) \in Sentence
  BY <1>2, LastIsAt
<1>5. RowOf(Current) = [key |-> Current, sent |-> LastAt(agg, Current)]
  BY DEF RowOf
<1> HIDE DEF Current
<1> QED
  BY <1>1, <1>2, <1>3, <1>4, <1>5 DEF AggFits

(* More events and more aliases keep what was said of rows and keys.       *)
LEMMA MoreVoices ==
    ASSUME TypeOK, events' \in Seq(Sentence), Elems(events) \subseteq Elems(events'),
           aliases' \in SUBSET AllPairs, aliases \subseteq aliases',
           NEW s \in Sentence
    PROVE  /\ Cardinality(RecordedVoices(s)) <= Cardinality(RecordedVoices(s)')
           /\ Cardinality(RecordedVoices(s)) \in Nat /\ Cardinality(RecordedVoices(s)') \in Nat
<1>1. aliases \in SUBSET AllPairs /\ events \in Seq(Sentence)
  BY DEF TypeOK
<1> DEFINE S == {f \in Elems(events) : KeyOf(f, aliases) = KeyOf(s, aliases)}
           T == {f \in Elems(events') : KeyOf(f, aliases') = KeyOf(s, aliases')}
<1>2. \A f \in Elems(events) : f \in Sentence
  BY <1>1, LenProperties, ElementOfSeq DEF Elems
<1>3. S \subseteq T
  BY <1>1, <1>2, KeyKept
<1>4. RecordedVoices(s) = {Voice[e] : e \in S} /\ RecordedVoices(s)' = {Voice[e] : e \in T}
  BY DEF RecordedVoices
<1>5. IsFiniteSet({Voice[e] : e \in T})
  BY VoicesOf
<1>6. {Voice[e] : e \in S} \subseteq {Voice[e] : e \in T}
  BY <1>3
<1> HIDE DEF S, T
<1> QED
  BY <1>4, <1>5, <1>6, FS_Subset, FS_CardinalityType

(* Steps that leave evidence, aliases, rows and aggregate alone. *)
LEMMA QuietStep ==
    ASSUME AggFits, EnoughVoices, UNCHANGED <<events, aliases, rows, agg>>
    PROVE  AggFits' /\ EnoughVoices'
  BY DEF AggFits, EnoughVoices, RecordedVoices

(* The tick's objects are dropped. *)
LEMMA DroppedStep ==
    ASSUME LedgerInv, Dropped, UNCHANGED <<events, aliases, promoted, index, rows>>,
           frozen' \in BOOLEAN, ticks' \in 0..MinTicks,
           crashes' \in 0..MaxCrashes, holds' \in 0..MaxHolds
    PROVE  LedgerInv'
<1>1. TypeOK'
  BY EmptySeq DEF LedgerInv, TypeOK, Dropped, PC
<1>2. AggFits' /\ Synced' /\ TodoEnough'
  BY DEF Dropped, AggFits, Synced, TodoEnough
<1>3. EnoughVoices'
  BY DEF LedgerInv, EnoughVoices, RecordedVoices
<1> QED
  BY <1>1, <1>2, <1>3 DEF LedgerInv

LEMMA LoadStep ==
    ASSUME LedgerInv, Load
    PROVE  LedgerInv'
<1>1. /\ TypeOK /\ TodoEnough /\ EnoughVoices /\ aliases \in SUBSET AllPairs
      /\ events \in Seq(Sentence)
  BY DEF LedgerInv, TypeOK
<1>2. /\ DOMAIN events = 1..Len(events) /\ Len(events) \in Nat
      /\ \A i \in DOMAIN events : events[i] \in Sentence
  BY <1>1, LenProperties, ElementOfSeq
<1>3. \A i \in DOMAIN events : /\ KeyOf(events[i], aliases) \in Key
                               /\ Fits(KeyOf(events[i], aliases), events[i], aliases)
  BY <1>1, <1>2, KeyFits
<1>4. agg' = [i \in 1..Len(events) |-> [key |-> KeyOf(events[i], aliases), sent |-> events[i]]]
  BY <1>2 DEF Load, LoadAgg
<1>5. /\ \A i \in 1..Len(events) : agg'[i] \in [key : Key, sent : Sentence]
      /\ agg' \in Seq([key : Key, sent : Sentence])
  <2>1. \A i \in 1..Len(events) : agg'[i] \in [key : Key, sent : Sentence]
    BY <1>2, <1>3, <1>4
  <2> QED
    BY <1>2, <1>4, <2>1, IsASeq
<1>6. TypeOK'
  BY <1>1, <1>5 DEF TypeOK, Load, files, PC
<1>7. AggFits'
  BY <1>2, <1>3, <1>4 DEF AggFits, Load, files, Elems
<1>8. Synced' /\ TodoEnough' /\ EnoughVoices'
  BY <1>1 DEF Load, files, Synced, TodoEnough, EnoughVoices, RecordedVoices
<1> QED
  BY <1>6, <1>7, <1>8 DEF LedgerInv

LEMMA LearnStep ==
    ASSUME LedgerInv, NEW s \in Sentence, LearnAliases(s)
    PROVE  LedgerInv'
<1>1. /\ TypeOK /\ Synced /\ AggFits /\ TodoEnough /\ EnoughVoices
      /\ aliases \in SUBSET AllPairs /\ known = aliases
      /\ events \in Seq(Sentence) /\ agg \in Seq([key : Key, sent : Sentence])
      /\ rows \subseteq [key : Key, sent : Sentence]
  BY DEF LedgerInv, TypeOK, Synced, LearnAliases
<1>2. /\ aliases' \in SUBSET AllPairs /\ aliases \subseteq aliases' /\ known' = aliases'
      /\ UNCHANGED <<events, agg, rows>>
  BY <1>1, Forms DEF LearnAliases, Learned
<1>3. TypeOK'
  BY <1>1, <1>2 DEF TypeOK, LearnAliases, PC
<1>4. AggFits'
  <2> SUFFICES ASSUME NEW i \in DOMAIN agg
               PROVE  /\ agg[i].sent \in Elems(events)
                      /\ Fits(agg[i].key, agg[i].sent, aliases')
    BY <1>2 DEF AggFits
  <2>1. agg[i].sent \in Elems(events) /\ Fits(agg[i].key, agg[i].sent, aliases)
    BY <1>1 DEF AggFits
  <2>2. agg[i].sent \in Sentence
    BY <1>1, EntryType
  <2> QED
    BY <1>1, <1>2, <2>1, <2>2, FitsGrows
<1>5. EnoughVoices'
  <2> SUFFICES ASSUME NEW row \in rows
               PROVE  Cardinality(RecordedVoices(row.sent)') >= MinSources
    BY <1>2 DEF EnoughVoices, RecordedVoices
  <2>1. row.sent \in Sentence /\ Cardinality(RecordedVoices(row.sent)) >= MinSources
    BY <1>1 DEF EnoughVoices
  <2>2. /\ Cardinality(RecordedVoices(row.sent)) <= Cardinality(RecordedVoices(row.sent)')
        /\ Cardinality(RecordedVoices(row.sent)) \in Nat
        /\ Cardinality(RecordedVoices(row.sent)') \in Nat
    BY <1>1, <1>2, <2>1, MoreVoices
  <2> QED
    BY <2>1, <2>2, GateAssumption
<1>6. Synced' /\ TodoEnough'
  BY <1>1, <1>2 DEF LearnAliases, Synced, TodoEnough
<1> QED
  BY <1>3, <1>4, <1>5, <1>6 DEF LedgerInv

LEMMA RecordStep ==
    ASSUME LedgerInv, RecordEvent
    PROVE  LedgerInv'
<1>1. /\ TypeOK /\ Synced /\ AggFits /\ TodoEnough /\ EnoughVoices
      /\ aliases \in SUBSET AllPairs /\ known = aliases /\ cur \in Sentence
      /\ events \in Seq(Sentence) /\ agg \in Seq([key : Key, sent : Sentence])
      /\ rows \subseteq [key : Key, sent : Sentence]
  BY DEF LedgerInv, TypeOK, Synced, TodoEnough, RecordEvent
<1> DEFINE e == [key |-> KeyOf(cur, known), sent |-> cur]
<1>2. KeyOf(cur, known) \in Key /\ Fits(KeyOf(cur, known), cur, aliases)
  BY <1>1, KeyFits
<1>3. e \in [key : Key, sent : Sentence] /\ e.sent = cur /\ e.key = KeyOf(cur, known)
  BY <1>1, <1>2
<1>4. /\ UNCHANGED <<aliases, promoted, frozen, ticks, index, rows, known, done, keys, todo, crashes, holds>>
      /\ pc' = "fed" /\ cur' = Nothing
      /\ agg' = Append(agg, e) /\ events' = Append(events, cur)
  BY DEF RecordEvent
<1> HIDE DEF e
<1>5. /\ agg' \in Seq([key : Key, sent : Sentence]) /\ events' \in Seq(Sentence)
      /\ DOMAIN agg = 1..Len(agg) /\ DOMAIN agg' = 1..(Len(agg) + 1)
      /\ DOMAIN events = 1..Len(events) /\ DOMAIN events' = 1..(Len(events) + 1)
      /\ Len(agg) \in Nat /\ Len(events) \in Nat
      /\ \A i \in DOMAIN agg : agg'[i] = agg[i]
      /\ \A i \in DOMAIN events : events'[i] = events[i]
      /\ agg'[Len(agg) + 1] = e /\ events'[Len(events) + 1] = cur
  BY <1>1, <1>3, <1>4, AppendProperties, LenProperties
<1>6. Elems(events) \subseteq Elems(events') /\ cur \in Elems(events')
  BY <1>5 DEF Elems
<1>7. TypeOK'
  BY <1>1, <1>4, <1>5 DEF TypeOK, PC
<1>8. AggFits'
  <2> SUFFICES ASSUME NEW i \in DOMAIN agg'
               PROVE  agg'[i].sent \in Elems(events') /\ Fits(agg'[i].key, agg'[i].sent, aliases)
    BY <1>4 DEF AggFits
  <2>1. CASE i \in DOMAIN agg
    BY <1>1, <1>5, <1>6, <2>1 DEF AggFits
  <2>2. CASE i = Len(agg) + 1
    BY <1>2, <1>3, <1>5, <1>6, <2>2
  <2> QED
    BY <1>5, <2>1, <2>2
<1>9. EnoughVoices'
  <2> SUFFICES ASSUME NEW row \in rows
               PROVE  Cardinality(RecordedVoices(row.sent)') >= MinSources
    BY <1>4 DEF EnoughVoices, RecordedVoices
  <2>1. row.sent \in Sentence /\ Cardinality(RecordedVoices(row.sent)) >= MinSources
    BY <1>1 DEF EnoughVoices
  <2>2. /\ Cardinality(RecordedVoices(row.sent)) <= Cardinality(RecordedVoices(row.sent)')
        /\ Cardinality(RecordedVoices(row.sent)) \in Nat
        /\ Cardinality(RecordedVoices(row.sent)') \in Nat
    BY <1>1, <1>4, <1>5, <1>6, <2>1, MoreVoices
  <2> QED
    BY <2>1, <2>2, GateAssumption
<1>10. todo = {}
  BY <1>1 DEF TodoEnough, RecordEvent
<1>11. Synced' /\ TodoEnough'
  BY <1>1, <1>4, <1>10 DEF Synced, TodoEnough, RecordEvent
<1> QED
  BY <1>7, <1>8, <1>9, <1>11 DEF LedgerInv

LEMMA StartStep ==
    ASSUME LedgerInv, PromoteStart
    PROVE  LedgerInv'
<1>1. TypeOK /\ Synced /\ AggFits /\ TodoEnough /\ EnoughVoices
  BY DEF LedgerInv
<1>2. PICK held \in SUBSET Promotable :
         todo' = Promotable \ held /\ holds' = IF held = {} THEN holds ELSE holds + 1
  BY DEF PromoteStart
<1>3. /\ UNCHANGED <<files, objects, cur, crashes>> /\ pc = "fed" /\ pc' = "promote"
      /\ holds' \in 0..MaxHolds
  BY <1>1, <1>2, GateAssumption DEF PromoteStart, TypeOK
<1>4. \A k \in Promotable : k \in KeysOf(agg) /\ k \in Key /\ Cardinality(Voices(agg, k)) >= MinSources
  <2> SUFFICES ASSUME NEW k \in Promotable
               PROVE  k \in KeysOf(agg) /\ k \in Key /\ Cardinality(Voices(agg, k)) >= MinSources
    OBVIOUS
  <2>1. k \in KeysOf(agg) /\ Cardinality(Voices(agg, k)) >= Required(k)
    BY DEF Promotable
  <2>2. agg \in Seq([key : Key, sent : Sentence])
    BY <1>1 DEF TypeOK
  <2>3. PICK i \in DOMAIN agg : agg[i].key = k
    BY <2>1 DEF KeysOf
  <2>4. k \in Key /\ agg[i].sent \in Sentence /\ Fits(k, agg[i].sent, aliases)
    BY <1>1, <2>2, <2>3, EntryType DEF AggFits
  <2>5. Cardinality(Voices(agg, k)) \in Nat
    BY <1>1, <2>1, <2>4, VoicesRecorded
  <2>6. Required(k) >= MinSources /\ Required(k) \in Nat
    BY GateAssumption DEF Required
  <2> QED
    BY <2>1, <2>4, <2>5, <2>6, GateAssumption
<1>5. TypeOK'
  BY <1>1, <1>2, <1>3, <1>4 DEF TypeOK, files, objects, PC
<1>6. AggFits' /\ EnoughVoices'
  BY <1>1, <1>3, QuietStep DEF files, objects
<1>7. Synced' /\ TodoEnough'
  BY <1>1, <1>2, <1>3, <1>4 DEF Synced, TodoEnough, files, objects, Voices, Sources, At, KeysOf
<1> QED
  BY <1>5, <1>6, <1>7 DEF LedgerInv

LEMMA AppendStep ==
    ASSUME LedgerInv, AppendIndex \/ AppendDeduped \/ AppendRow \/ Mark
    PROVE  LedgerInv'
<1>1. /\ TypeOK /\ Synced /\ AggFits /\ TodoEnough /\ EnoughVoices
      /\ todo # {} /\ pc \in {"promote", "row", "mark"}
  BY DEF LedgerInv, TodoEnough, AppendIndex, AppendDeduped, AppendRow, Mark
<1>2. /\ Current \in todo /\ Current \in Key /\ Current \in KeysOf(agg)
      /\ RowOf(Current).sent \in Sentence /\ RowOf(Current) \in [key : Key, sent : Sentence]
      /\ Fits(Current, RowOf(Current).sent, aliases)
  BY <1>1, InHand
<1>3. UNCHANGED <<events, aliases, frozen, ticks, agg, known, cur, crashes, holds>>
  BY DEF AppendIndex, AppendDeduped, AppendRow, Mark, files, objects
<1>4. /\ todo' \subseteq todo
      /\ pc' \in {"promote", "row", "mark"} /\ (pc' \in {"row", "mark"} => todo' = todo)
  BY DEF AppendIndex, AppendDeduped, AppendRow, Mark
<1>5. /\ rows' \subseteq rows \cup {RowOf(Current)}
      /\ index' = index \/ index' = index \cup {RowOf(Current).sent}
      /\ promoted' = promoted \/ promoted' = promoted \cup {Current}
      /\ known' = aliases' /\ done' = promoted' /\ keys' = index'
  BY <1>1 DEF AppendIndex, AppendDeduped, AppendRow, Mark, files, objects, Synced
<1> HIDE DEF Current
<1>6. TypeOK'
  BY <1>1, <1>2, <1>3, <1>4, <1>5 DEF TypeOK, PC
<1>7. AggFits'
  BY <1>1, <1>3 DEF AggFits
<1>8. EnoughVoices'
  <2> SUFFICES ASSUME NEW row \in rows'
               PROVE  Cardinality(RecordedVoices(row.sent)) >= MinSources
    BY <1>3 DEF EnoughVoices, RecordedVoices
  <2>1. CASE row \in rows
    BY <1>1, <2>1 DEF EnoughVoices
  <2>2. CASE row = RowOf(Current)
    <3>1. Cardinality(Voices(agg, Current)) >= MinSources
      BY <1>1, <1>2 DEF TodoEnough
    <3>2. /\ Cardinality(Voices(agg, Current)) <= Cardinality(RecordedVoices(row.sent))
          /\ Cardinality(Voices(agg, Current)) \in Nat
          /\ Cardinality(RecordedVoices(row.sent)) \in Nat
      BY <1>1, <1>2, <2>2, VoicesRecorded
    <3> QED
      BY <3>1, <3>2, GateAssumption
  <2> QED
    BY <1>5, <2>1, <2>2
<1>9. Synced' /\ TodoEnough'
  BY <1>1, <1>3, <1>4, <1>5 DEF Synced, TodoEnough, Voices, Sources, At, KeysOf
<1> QED
  BY <1>6, <1>7, <1>8, <1>9 DEF LedgerInv

LEMMA LedgerStep ==
    ASSUME LedgerInv, [Next]_vars
    PROVE  LedgerInv'
<1>1. TypeOK /\ Synced /\ AggFits /\ TodoEnough /\ EnoughVoices
  BY DEF LedgerInv
<1>2. CASE Crash \/ NoneAccepted \/ PromoteFrozen \/ Finish
  <2>1. Dropped /\ UNCHANGED <<events, aliases, promoted, index, rows>>
    BY <1>2 DEF Crash, NoneAccepted, PromoteFrozen, Finish, files
  <2>2. /\ frozen \in BOOLEAN /\ ticks \in 0..MinTicks
        /\ crashes \in 0..MaxCrashes /\ holds \in 0..MaxHolds
    BY <1>1 DEF TypeOK
  <2>3. MinTicks \in Nat /\ MaxCrashes \in Nat
    BY GateAssumption
  <2>4. crashes' \in 0..MaxCrashes /\ holds' \in 0..MaxHolds
    <3>1. /\ holds' = holds
          /\ crashes' = crashes \/ (crashes < MaxCrashes /\ crashes' = crashes + 1)
      BY <1>2, Zenon DEF Crash, NoneAccepted, PromoteFrozen, Finish
    <3> QED
      BY <2>2, <2>3, <3>1
  <2>5. ticks' \in 0..MinTicks
    <3>1. ticks' = ticks \/ ticks' = IF ticks < MinTicks THEN ticks + 1 ELSE ticks
      BY <1>2, Zenon DEF Crash, NoneAccepted, PromoteFrozen, Finish, files
    <3> QED
      BY <2>2, <2>3, <3>1
  <2>6. frozen' \in BOOLEAN
    <3>1. CASE Crash \/ NoneAccepted \/ PromoteFrozen
      BY <2>2, <3>1 DEF Crash, NoneAccepted, PromoteFrozen, files
    <3>2. CASE Finish
      <4>1. (IF ticks >= MinTicks THEN {FALSE, TRUE} ELSE {FALSE}) \in SUBSET BOOLEAN
        OBVIOUS
      <4> QED
        BY <3>2, <4>1 DEF Finish
    <3> QED
      BY <1>2, <3>1, <3>2
  <2> QED
    BY <2>1, <2>4, <2>5, <2>6, DroppedStep
<1>3. CASE RecordNothing \/ ClearFreeze \/ UNCHANGED vars
  <2>1. /\ UNCHANGED <<events, aliases, promoted, ticks, index, rows, agg, known, done, keys, todo, crashes, holds>>
        /\ frozen' \in BOOLEAN /\ cur' \in Sentence \cup {Nothing}
        /\ \/ pc' = pc /\ cur' = cur
           \/ pc = "event" /\ pc' = "fed"
    BY <1>1, <1>3 DEF RecordNothing, ClearFreeze, vars, files, objects, TypeOK
  <2>2. TypeOK'
    BY <1>1, <2>1 DEF TypeOK, PC
  <2>3. AggFits' /\ EnoughVoices'
    BY <1>1, <2>1, QuietStep
  <2>4. Synced' /\ TodoEnough'
    BY <1>1, <2>1 DEF Synced, TodoEnough, Voices, Sources, At, KeysOf
  <2> QED
    BY <2>2, <2>3, <2>4 DEF LedgerInv
<1> QED
  BY <1>2, <1>3, LoadStep, LearnStep, RecordStep, StartStep, AppendStep DEF Next, Promote, Record

LEMMA LedgerStart == Init => LedgerInv
<1> SUFFICES ASSUME Init PROVE LedgerInv
  OBVIOUS
<1>1. events = <<>> /\ agg = <<>> /\ DOMAIN agg = {} /\ rows = {} /\ todo = {} /\ pc = "down"
  BY DEF Init
<1>2. events \in Seq(Sentence) /\ agg \in Seq([key : Key, sent : Sentence])
  BY <1>1, EmptySeq
<1>3. /\ 0 \in 0..MinTicks /\ 0 \in 0..MaxCrashes /\ 0 \in 0..MaxHolds
  BY GateAssumption
<1>4. /\ aliases = {} /\ promoted = {} /\ frozen = FALSE /\ ticks = 0 /\ index = {}
      /\ known = {} /\ done = {} /\ keys = {} /\ cur = Nothing /\ crashes = 0 /\ holds = 0
  BY DEF Init
<1> HIDE DEF Init
<1>5. TypeOK
  BY <1>1, <1>2, <1>3, <1>4 DEF TypeOK, PC
<1> QED
  BY <1>1, <1>5 DEF LedgerInv, Synced, AggFits, TodoEnough, EnoughVoices

(* Files and objects keep their types. *)
THEOREM LedgerTypes == Spec => []TypeOK
<1>1. LedgerInv /\ [Next]_vars => LedgerInv'
  BY LedgerStep
<1>2. LedgerInv => TypeOK
  BY DEF LedgerInv
<1> QED
  BY <1>1, <1>2, LedgerStart, PTL DEF Spec

(* What reaches the verified store has the voices it needs on record,      *)
(* wherever the process dies and whatever aliases are learned.             *)
THEOREM LedgerEnoughVoices == Spec => []EnoughVoices
<1>1. LedgerInv /\ [Next]_vars => LedgerInv'
  BY LedgerStep
<1>2. LedgerInv => EnoughVoices
  BY DEF LedgerInv
<1> QED
  BY <1>1, <1>2, LedgerStart, PTL DEF Spec
-----------------------------------------------------------------------------
(* Nothing marked is missing: the second invariant *)

(* An entry of the dedupe index stands for a row, or for the one at hand. *)
IndexBacked ==
    \A s \in index :
        \/ \E row \in rows : row.sent = s
        \/ pc = "row" /\ s = RowOf(Current).sent

(* A key is marked once its row is there. *)
MarkBacked == pc = "mark" => \E row \in rows : row.sent = RowOf(Current).sent

PromotedFits == \A k \in promoted : \E row \in rows : Fits(k, row.sent, aliases)

StoredInv == LedgerInv /\ IndexBacked /\ MarkBacked /\ PromotedFits

LEMMA StoredIsStored == StoredInv => PromotedIsStored
<1> SUFFICES ASSUME StoredInv, NEW k \in promoted
             PROVE  \E row \in rows : KeyOf(row.sent, aliases)
                                  = <<Resolve(k[1], aliases), Resolve(k[2], aliases)>>
  BY DEF PromotedIsStored
<1>1. /\ aliases \in SUBSET AllPairs /\ k \in Key /\ rows \subseteq [key : Key, sent : Sentence]
  BY DEF StoredInv, LedgerInv, TypeOK
<1>2. PICK row \in rows : Fits(k, row.sent, aliases)
  BY DEF StoredInv, PromotedFits
<1>3. row.sent \in Sentence
  BY <1>1
<1> QED
  BY <1>1, <1>2, <1>3, FitsKey

(* Steps that mark nothing and write nothing to the store, taken where no  *)
(* row is at hand, or keeping the one that is.                             *)
LEMMA StoreQuiet ==
    ASSUME StoredInv, UNCHANGED <<promoted, index, rows>>,
           aliases' \in SUBSET AllPairs, aliases \subseteq aliases',
           pc' # "mark", pc # "row"
    PROVE  IndexBacked' /\ MarkBacked' /\ PromotedFits'
<1>1. /\ aliases \in SUBSET AllPairs /\ rows \subseteq [key : Key, sent : Sentence]
      /\ IndexBacked /\ PromotedFits
  BY DEF StoredInv, LedgerInv, TypeOK
<1>2. IndexBacked' /\ MarkBacked'
  BY <1>1 DEF IndexBacked, MarkBacked
<1>3. \A s \in Sentence : \A k : Fits(k, s, aliases) => Fits(k, s, aliases')
  BY <1>1, FitsGrows
<1>4. PromotedFits'
  BY <1>1, <1>3 DEF PromotedFits
<1> QED
  BY <1>2, <1>4

LEMMA StoreWrite ==
    ASSUME StoredInv, AppendIndex \/ AppendDeduped \/ AppendRow \/ Mark
    PROVE  IndexBacked' /\ MarkBacked' /\ PromotedFits'
<1>1. /\ TypeOK /\ Synced /\ AggFits /\ TodoEnough /\ IndexBacked /\ MarkBacked /\ PromotedFits
      /\ todo # {}
  BY DEF StoredInv, LedgerInv, TodoEnough, AppendIndex, AppendDeduped, AppendRow, Mark
<1>2. RowOf(Current).sent \in Sentence /\ Fits(Current, RowOf(Current).sent, aliases)
  BY <1>1, InHand
<1>3. aliases' = aliases /\ agg' = agg
  BY DEF AppendIndex, AppendDeduped, AppendRow, Mark, files, objects
<1>4. CASE AppendIndex
  <2>1. /\ pc = "promote" /\ pc' = "row" /\ index' = index \cup {RowOf(Current).sent}
        /\ UNCHANGED <<rows, promoted, todo>>
    BY <1>4 DEF AppendIndex
  <2>2. RowOf(Current)' = RowOf(Current)
    BY <1>3, <2>1 DEF RowOf, Current, LastAt, At
  <2> QED
    BY <1>1, <1>3, <2>1, <2>2 DEF IndexBacked, MarkBacked, PromotedFits
<1>5. CASE AppendDeduped
  <2>1. /\ pc = "promote" /\ pc' = "mark" /\ RowOf(Current).sent \in index
        /\ UNCHANGED <<index, rows, promoted, todo>>
    BY <1>1, <1>5 DEF AppendDeduped, files, objects, Synced
  <2>2. RowOf(Current)' = RowOf(Current)
    BY <1>3, <2>1 DEF RowOf, Current, LastAt, At
  <2> QED
    BY <1>1, <1>3, <2>1, <2>2 DEF IndexBacked, MarkBacked, PromotedFits
<1>6. CASE AppendRow
  <2>1. /\ pc = "row" /\ pc' = "mark" /\ rows' = rows \cup {RowOf(Current)}
        /\ UNCHANGED <<index, promoted, todo>>
    BY <1>6 DEF AppendRow, objects
  <2>2. RowOf(Current)' = RowOf(Current)
    BY <1>3, <2>1 DEF RowOf, Current, LastAt, At
  <2> QED
    BY <1>1, <1>3, <2>1, <2>2 DEF IndexBacked, MarkBacked, PromotedFits
<1>7. CASE Mark
  <2>1. /\ pc = "mark" /\ pc' = "promote" /\ promoted' = promoted \cup {Current}
        /\ UNCHANGED <<index, rows>>
    BY <1>7 DEF Mark
  <2>2. \E row \in rows : row.sent = RowOf(Current).sent
    BY <1>1, <2>1 DEF MarkBacked
  <2> QED
    BY <1>1, <1>2, <1>3, <2>1, <2>2 DEF IndexBacked, MarkBacked, PromotedFits
<1> QED
  BY <1>4, <1>5, <1>6, <1>7

LEMMA StoredStep ==
    ASSUME "row" \notin CrashPoint, StoredInv, [Next]_vars
    PROVE  StoredInv'
<1>1. LedgerInv /\ aliases \in SUBSET AllPairs /\ rows \subseteq [key : Key, sent : Sentence]
  BY DEF StoredInv, LedgerInv, TypeOK
<1>2. LedgerInv'
  BY <1>1, LedgerStep
<1>3. CASE AppendIndex \/ AppendDeduped \/ AppendRow \/ Mark
  BY <1>2, <1>3, StoreWrite DEF StoredInv
<1>4. CASE UNCHANGED vars \/ ClearFreeze
  <2>1. UNCHANGED <<promoted, index, rows, aliases, pc, todo, agg>>
    BY <1>4 DEF vars, files, objects, ClearFreeze
  <2>2. RowOf(Current)' = RowOf(Current)
    BY <2>1 DEF RowOf, Current, LastAt, At
  <2>3. IndexBacked' /\ MarkBacked' /\ PromotedFits'
    BY <2>1, <2>2 DEF StoredInv, IndexBacked, MarkBacked, PromotedFits
  <2> QED
    BY <1>2, <2>3 DEF StoredInv
<1>5. CASE Load \/ NoneAccepted \/ Crash \/ Record \/ PromoteFrozen \/ PromoteStart \/ Finish
  <2>1. /\ UNCHANGED <<promoted, index, rows, aliases>> /\ pc' # "mark"
    BY <1>5 DEF Load, NoneAccepted, Crash, Record, RecordNothing, RecordEvent, PromoteFrozen, PromoteStart,
                Finish, Dropped, files, objects
  <2>2. pc # "row"
    BY <1>5 DEF Load, NoneAccepted, Crash, Record, RecordNothing, RecordEvent, PromoteFrozen, PromoteStart, Finish
  <2> QED
    BY <1>1, <1>2, <2>1, <2>2, StoreQuiet DEF StoredInv
<1>6. ASSUME NEW s \in Sentence, LearnAliases(s) PROVE StoredInv'
  <2>1. /\ UNCHANGED <<promoted, index, rows>> /\ pc' # "mark" /\ pc # "row"
        /\ aliases \subseteq aliases'
    BY <1>6 DEF LearnAliases
  <2>2. aliases' \in SUBSET AllPairs
    BY <1>2 DEF LedgerInv, TypeOK
  <2> QED
    BY <1>2, <2>1, <2>2, StoreQuiet DEF StoredInv
<1> QED
  BY <1>3, <1>4, <1>5, <1>6 DEF Next, Promote

(* What is marked as promoted is in the store, under a key aliases made    *)
(* equal, as long as no tick dies between the dedupe index and the row.    *)
THEOREM LedgerPromotedIsStored ==
    ASSUME "row" \notin CrashPoint
    PROVE  Spec => []PromotedIsStored
<1>1. Init => StoredInv
  BY LedgerStart DEF StoredInv, IndexBacked, MarkBacked, PromotedFits, Init
<1>2. StoredInv /\ [Next]_vars => StoredInv'
  BY StoredStep
<1> QED
  BY <1>1, <1>2, StoredIsStored, PTL DEF Spec
=============================================================================
