------------------------ MODULE BrainLinkWork_proofs ------------------------
(***************************************************************************)
(* Every piece of work is in one place and none slips away, and so the     *)
(* coordinator implements the abstract pool of work, for any peers,        *)
(* corpora, batch sizes and bounds.                                        *)
(***************************************************************************)
EXTENDS BrainLinkPool_proofs, NumberLemmas, SequenceTheorems

(* The conjuncts of TypeOK, by what changes together. *)
QueueTypes == queue \in Seq(Work) /\ seeded \in BOOLEAN /\ seeds \in Nat
PeerTypes ==
    /\ DOMAIN peers \subseteq Peer
    /\ \A p \in DOMAIN peers : peers[p] \in [claimed : Nat, completed : Nat]
TableTypes ==
    /\ inflight = [b \in DOMAIN inflight |-> inflight[b]]
    /\ \A b \in DOMAIN inflight :
          inflight[b] \in [peer : Peer, work : Seq(Work), stale : BOOLEAN]
LedgerTypes ==
    /\ burned \subseteq Claimed
    /\ DOMAIN mints \subseteq Claimed /\ \A b \in DOMAIN mints : mints[b] \in Seq(Peer)
RecordTypes ==
    /\ registry \in [Peer -> [jobs : Nat, failed : Nat]]
    /\ jailed \subseteq Peer /\ merged \subseteq Work /\ refused \subseteq Work
WorkerTypes ==
    /\ worker \in [Peer -> [state : {"off", "joining", "working"}, held : Nat]]
    /\ restarts \in Nat

(* A batch in flight is its claimant's; a handler that pays for a batch or *)
(* settles it has it from its own peer, and a settled one is out of flight *)
(* for good.  A handler that has not popped yet has no work.               *)
Holding ==
    /\ \A b \in DOMAIN inflight : b \in Claimed /\ inflight[b].peer = claimant[b]
    /\ \A p \in Peer :
          /\ h[p].pc \in Paying \cup Popped =>
                h[p].batch \in Claimed /\ claimant[h[p].batch] = p
          /\ h[p].pc \in Popped => h[p].batch \notin DOMAIN inflight
          /\ h[p].pc = "sub_pop" => h[p].work = <<>>

TypeInv ==
    /\ h \in [Peer -> Request] /\ Numbered
    /\ QueueTypes /\ PeerTypes /\ TableTypes /\ LedgerTypes /\ RecordTypes /\ WorkerTypes
    /\ Holding

LEMMA TypesImplied == TypeInv => TypeOK
<1>1. ASSUME Numbered PROVE Claimed \subseteq Batch /\ \A b \in Claimed : claimant[b] \in Peer
  BY <1>1 DEF Numbered, Batch
<1> QED BY <1>1 DEF TypeInv, TypeOK, QueueTypes, PeerTypes, TableTypes, LedgerTypes, RecordTypes,
           WorkerTypes, Holding

LEMMA InitTypes == Init => TypeInv
<1> SUFFICES ASSUME Init PROVE TypeInv
  OBVIOUS
<1>1. Claimed = {} /\ Claimed = 1..0 /\ DOMAIN inflight = {} /\ DOMAIN peers = {} /\ DOMAIN mints = {}
  BY DEF Init, Claimed
<1>2. h \in [Peer -> Request]
  BY EmptySeq DEF Init, NoRequest, Request, HandlerPC, Answer
<1>3. Numbered /\ Holding
  BY <1>1 DEF Init, Numbered, Holding, NoRequest, Paying, Popped
<1>4. QueueTypes /\ PeerTypes /\ LedgerTypes
  BY <1>1, EmptySeq DEF Init, QueueTypes, PeerTypes, LedgerTypes
<1>5. RecordTypes /\ WorkerTypes
  BY DEF Init, RecordTypes, WorkerTypes
<1>6. TableTypes
  BY <1>1 DEF Init, TableTypes
<1> QED BY <1>2, <1>3, <1>4, <1>5, <1>6 DEF TypeInv
-----------------------------------------------------------------------------
(* What becomes of the handlers. *)

LEMMA GotoTypes ==
    ASSUME h \in [Peer -> Request], NEW p \in Peer, NEW x \in HandlerPC, Goto(p, x)
    PROVE  /\ h' \in [Peer -> Request] /\ h'[p].pc = x
           /\ h'[p].batch = h[p].batch /\ h'[p].work = h[p].work /\ h'[p].answer = h[p].answer
           /\ \A q \in Peer : q # p => h'[q] = h[q]
BY DEF Goto, Request

LEMMA AnsweredTypes ==
    ASSUME h \in [Peer -> Request], NEW p \in Peer, Answered(p)
    PROVE  /\ h' \in [Peer -> Request] /\ h'[p] = NoRequest /\ NoRequest.pc = "none"
           /\ \A q \in Peer : q # p => h'[q] = h[q]
BY EmptySeq DEF Answered, NoRequest, Request, HandlerPC, Answer

LEMMA SubmitAnsweredTypes ==
    ASSUME TypeInv, NEW p \in Peer, SubmitAnswered(p)
    PROVE  /\ Answered(p)
           /\ worker' \in [Peer -> [state : {"off", "joining", "working"}, held : Nat]]
BY DEF SubmitAnswered, TypeInv, WorkerTypes

LEMMA ElemsOf ==
    ASSUME NEW S, NEW q \in Seq(S)
    PROVE  Elems(q) \subseteq S
BY DEF Elems
-----------------------------------------------------------------------------
(* The steps that hand nothing out and pop nothing for a submission. *)

Keeps(q) ==
    \/ h'[q] = h[q]
    \/ h'[q].pc \notin Paying \cup Popped \cup {"sub_pop"}
    \/ h'[q].pc = "sub_pop" /\ h'[q].work = <<>>
    \/ /\ h'[q].batch = h[q].batch
       /\ \/ h[q].pc \in Popped /\ h'[q].pc \in Popped
          \/ h[q].pc \in Paying /\ h'[q].pc \in Paying

LEMMA KeepsHolding ==
    ASSUME TypeInv, UNCHANGED claimant, \A q \in Peer : Keeps(q),
           \A b \in DOMAIN inflight' :
              b \in DOMAIN inflight /\ inflight'[b].peer = inflight[b].peer
    PROVE  Numbered' /\ Holding' /\ Claimed' = Claimed
<1>1. Claimed' = Claimed
  BY DEF Claimed
<1>2. Numbered'
  BY <1>1 DEF TypeInv, Numbered
<1>3. ASSUME NEW q \in Peer
      PROVE  /\ h'[q].pc \in Paying \cup Popped =>
                   h'[q].batch \in Claimed /\ claimant[h'[q].batch] = q
             /\ h'[q].pc \in Popped => h'[q].batch \notin DOMAIN inflight'
             /\ h'[q].pc = "sub_pop" => h'[q].work = <<>>
  <2>1. Keeps(q)
    OBVIOUS
  <2> QED BY <2>1 DEF Keeps, TypeInv, Holding, Paying, Popped
<1>4. \A b \in DOMAIN inflight' : b \in Claimed /\ inflight'[b].peer = claimant[b]
  BY DEF TypeInv, Holding
<1>5. Holding'
  BY <1>1, <1>3, <1>4 DEF Holding
<1> QED BY <1>1, <1>2, <1>5

(* The tables, the ledger and the records are typed when they stay. *)
LEMMA UntouchedTypes ==
    ASSUME TypeInv
    PROVE  /\ UNCHANGED <<queue, seeded, seeds>> => QueueTypes'
           /\ UNCHANGED peers => PeerTypes'
           /\ UNCHANGED inflight => TableTypes'
           /\ UNCHANGED <<burned, mints, claimant>> => LedgerTypes'
           /\ UNCHANGED <<registry, jailed, merged, refused>> => RecordTypes'
           /\ UNCHANGED <<worker, restarts>> => WorkerTypes'
BY DEF TypeInv, QueueTypes, PeerTypes, TableTypes, LedgerTypes, RecordTypes, WorkerTypes, Claimed

LEMMA RegisterTypes ==
    ASSUME TypeInv, NEW p \in Peer,
           RegisterCheck(p) \/ RegisterCommit(p)
    PROVE  TypeInv'
<1>0. h \in [Peer -> Request]
  BY DEF TypeInv
<1>1. CASE RegisterCheck(p)
  <2>1. Answered(p) \/ Goto(p, "reg_commit")
    BY <1>1 DEF RegisterCheck
  <2>2. h' \in [Peer -> Request] /\ \A q \in Peer : Keeps(q)
    BY <1>0, <2>1, GotoTypes, AnsweredTypes DEF Keeps, Paying, Popped, HandlerPC
  <2>3. WorkerTypes'
    BY <1>1 DEF RegisterCheck, TypeInv, WorkerTypes, past
  <2> QED BY <1>1, <2>2, <2>3, KeepsHolding, UntouchedTypes
          DEF RegisterCheck, TypeInv, pool, files, past
<1>2. CASE RegisterCommit(p)
  <2>1. h' \in [Peer -> Request] /\ \A q \in Peer : Keeps(q)
    BY <1>0, <1>2, GotoTypes DEF RegisterCommit, Keeps, Paying, Popped, HandlerPC, SeedPC
  <2>2. PeerTypes'
    <3>1. peers' = [q \in DOMAIN peers \cup {p} |->
                       IF q \in DOMAIN peers THEN peers[q] ELSE [claimed |-> 0, completed |-> 0]]
      BY <1>2 DEF RegisterCommit
    <3> QED BY <3>1 DEF TypeInv, PeerTypes
  <2> QED BY <1>2, <2>1, <2>2, KeepsHolding, UntouchedTypes
          DEF RegisterCommit, TypeInv, files, past
<1> QED BY <1>1, <1>2

LEMMA EndSeedTypes ==
    ASSUME TypeInv, NEW p \in Peer, EndSeed(p)
    PROVE  /\ h' \in [Peer -> Request] /\ \A q \in Peer : Keeps(q)
           /\ worker' \in [Peer -> [state : {"off", "joining", "working"}, held : Nat]]
<1>1. Goto(p, "none") \/ Goto(p, "reclaim")
  BY DEF EndSeed, AfterSeed
<1>2. h' \in [Peer -> Request] /\ \A q \in Peer : Keeps(q)
  BY <1>1, GotoTypes DEF TypeInv, Keeps, Paying, Popped, HandlerPC, ClaimPC
<1>3. worker' = worker \/ worker' = [worker EXCEPT ![p].state = "working"]
  BY DEF EndSeed
<1> QED BY <1>2, <1>3 DEF TypeInv, WorkerTypes

LEMMA NewWork ==
    ASSUME NEW n \in Nat
    PROVE  [i \in 1..CorpusSize |-> <<n, i>>] \in Seq(Work)
BY CorpusAssumption DEF Work

LEMMA SeedTypes ==
    ASSUME TypeInv, NEW p \in Peer, SeedSkip(p) \/ SeedRead(p) \/ SeedFill(p)
    PROVE  TypeInv'
<1>1. CASE SeedSkip(p)
  BY <1>1, EndSeedTypes, KeepsHolding, UntouchedTypes
     DEF SeedSkip, TypeInv, WorkerTypes, pool, files, past
<1>2. CASE SeedRead(p)
  <2>1. Goto(p, "reg_fill") \/ Goto(p, "claim_fill")
    BY <1>2 DEF SeedRead
  <2>2. h' \in [Peer -> Request] /\ \A q \in Peer : Keeps(q)
    BY <2>1, GotoTypes DEF TypeInv, Keeps, Paying, Popped, HandlerPC, SeedPC
  <2> QED BY <1>2, <2>2, KeepsHolding, UntouchedTypes DEF SeedRead, TypeInv, pool, files, past
<1>3. CASE SeedFill(p)
  <2>1. seeds' = seeds + 1 /\ seeds' \in Nat /\ queue \in Seq(Work)
    BY <1>3 DEF SeedFill, TypeInv, QueueTypes
  <2>2. [i \in 1..CorpusSize |-> <<seeds', i>>] \in Seq(Work)
    BY <2>1, NewWork
  <2>3. queue' \in Seq(Work)
    BY <1>3, <2>1, <2>2, ConcatProperties DEF SeedFill
  <2>4. QueueTypes'
    BY <1>3, <2>1, <2>3 DEF SeedFill, QueueTypes
  <2>5. WorkerTypes'
    BY <1>3, EndSeedTypes DEF SeedFill, TypeInv, WorkerTypes
  <2> QED BY <1>3, <2>4, <2>5, EndSeedTypes, KeepsHolding, UntouchedTypes
          DEF SeedFill, TypeInv, files
<1> QED BY <1>1, <1>2, <1>3
-----------------------------------------------------------------------------
(* Sequences of work: what they hold, and that none of it is held twice. *)

Once(q) == \A i, j \in DOMAIN q : i # j => q[i] # q[j]

LEMMA ConcatElems ==
    ASSUME NEW S, NEW q \in Seq(S), NEW r \in Seq(S)
    PROVE  /\ q \o r \in Seq(S) /\ Elems(q \o r) = Elems(q) \cup Elems(r)
           /\ Once(q) /\ Once(r) /\ Elems(q) \cap Elems(r) = {} => Once(q \o r)
<1>1. /\ q \o r \in Seq(S) /\ Len(q \o r) = Len(q) + Len(r)
      /\ \A i \in 1..(Len(q) + Len(r)) :
            (q \o r)[i] = IF i <= Len(q) THEN q[i] ELSE r[i - Len(q)]
  BY ConcatProperties
<1>2. /\ Len(q) \in Nat /\ Len(r) \in Nat /\ DOMAIN q = 1..Len(q) /\ DOMAIN r = 1..Len(r)
      /\ DOMAIN (q \o r) = 1..(Len(q) + Len(r))
  BY <1>1
<1>3. ASSUME NEW i \in 1..(Len(q) + Len(r))
      PROVE  \/ i \in DOMAIN q /\ (q \o r)[i] = q[i]
             \/ i - Len(q) \in DOMAIN r /\ ~ (i \in DOMAIN q) /\ (q \o r)[i] = r[i - Len(q)]
  BY <1>1, <1>2
<1>4. ASSUME NEW i \in DOMAIN r
      PROVE  i + Len(q) \in 1..(Len(q) + Len(r)) /\ (q \o r)[i + Len(q)] = r[i]
  <2>1. /\ i + Len(q) \in 1..(Len(q) + Len(r)) /\ ~ (i + Len(q) <= Len(q))
        /\ (i + Len(q)) - Len(q) = i
    BY <1>2
  <2> QED BY <1>1, <2>1
<1>5. \A i \in DOMAIN q : i \in 1..(Len(q) + Len(r)) /\ (q \o r)[i] = q[i]
  BY <1>1, <1>2
<1> DEFINE c == q \o r
<1> HIDE DEF c
<1>6. \A i \in 1..(Len(q) + Len(r)) : c[i] \in Elems(q) \cup Elems(r)
  BY <1>3 DEF Elems, c
<1>7. Elems(q) \subseteq Elems(c) /\ Elems(r) \subseteq Elems(c)
  BY <1>2, <1>4, <1>5 DEF Elems, c
<1>8. Elems(c) = Elems(q) \cup Elems(r)
  <2>1. DOMAIN c = 1..(Len(q) + Len(r))
    BY <1>2 DEF c
  <2>2. Elems(c) \subseteq Elems(q) \cup Elems(r)
    BY <1>6, <2>1 DEF Elems
  <2> QED BY <1>7, <2>2
<1>9. ASSUME Once(q), Once(r), Elems(q) \cap Elems(r) = {} PROVE Once(c)
  <2> SUFFICES ASSUME NEW i \in 1..(Len(q) + Len(r)), NEW j \in 1..(Len(q) + Len(r)), i # j
               PROVE  c[i] # c[j]
    BY <1>2 DEF Once, c
  <2>1. CASE i \in DOMAIN q /\ c[i] = q[i]
    <3>1. CASE j \in DOMAIN q /\ c[j] = q[j]
      BY <1>9, <2>1, <3>1 DEF Once
    <3>2. CASE j - Len(q) \in DOMAIN r /\ c[j] = r[j - Len(q)]
      BY <1>9, <2>1, <3>2 DEF Elems
    <3> QED BY <1>3, <3>1, <3>2 DEF c
  <2>2. CASE i - Len(q) \in DOMAIN r /\ c[i] = r[i - Len(q)]
    <3>1. CASE j \in DOMAIN q /\ c[j] = q[j]
      BY <1>9, <2>2, <3>1 DEF Elems
    <3>2. CASE j - Len(q) \in DOMAIN r /\ c[j] = r[j - Len(q)]
      <4>1. i - Len(q) # j - Len(q)
        BY <1>2
      <4> QED BY <1>9, <2>2, <3>2, <4>1 DEF Once
    <3> QED BY <1>3, <3>1, <3>2 DEF c
  <2> QED BY <1>3, <2>1, <2>2 DEF c
<1> QED BY <1>1, <1>8, <1>9 DEF c

LEMMA ReversedElems ==
    ASSUME NEW S, NEW q \in Seq(S)
    PROVE  /\ Reversed(q) \in Seq(S) /\ Elems(Reversed(q)) = Elems(q)
           /\ Once(q) => Once(Reversed(q))
<1>1. Len(q) \in Nat /\ DOMAIN q = 1..Len(q) /\ \A i \in 1..Len(q) : q[i] \in S
  OBVIOUS
<1>2. \A i \in 1..Len(q) : Len(q) + 1 - i \in 1..Len(q) /\ Len(q) + 1 - (Len(q) + 1 - i) = i
  BY <1>1
<1> DEFINE r == Reversed(q)
<1>3. DOMAIN r = 1..Len(q) /\ \A i \in 1..Len(q) : r[i] = q[Len(q) + 1 - i]
  BY <1>1 DEF Reversed
<1>4. r \in [1..Len(q) -> S]
  BY <1>1, <1>2 DEF Reversed
<1>5. r \in Seq(S)
  BY <1>1, <1>4
<1> HIDE DEF r
<1>6. Elems(r) = Elems(q)
  <2>1. ASSUME NEW i \in 1..Len(q) PROVE r[i] \in Elems(q) /\ q[i] \in Elems(r)
    <3> DEFINE j == Len(q) + 1 - i
    <3>1. j \in 1..Len(q) /\ Len(q) + 1 - j = i
      BY <1>2
    <3>2. r[i] = q[j] /\ r[j] = q[Len(q) + 1 - j]
      BY <1>3, <3>1
    <3> HIDE DEF j
    <3> QED BY <1>1, <1>3, <3>1, <3>2 DEF Elems
  <2> QED BY <1>1, <1>3, <2>1 DEF Elems
<1>7. Once(q) => Once(r)
  <2>1. \A i, j \in 1..Len(q) : i # j => Len(q) + 1 - i # Len(q) + 1 - j
    BY <1>1
  <2> QED BY <1>1, <1>2, <1>3, <2>1 DEF Once
<1> QED BY <1>5, <1>6, <1>7 DEF r

(* The front of a queue and its rest. *)
LEMMA PopElems ==
    ASSUME NEW S, NEW q \in Seq(S), NEW n \in 1..Len(q)
    PROVE  LET front == SubSeq(q, 1, n)
               rest  == SubSeq(q, n + 1, Len(q))
           IN  /\ front \in Seq(S) /\ rest \in Seq(S)
               /\ Elems(q) = Elems(front) \cup Elems(rest)
               /\ Once(q) => /\ Once(front) /\ Once(rest)
                             /\ Elems(front) \cap Elems(rest) = {}
<1> DEFINE front == SubSeq(q, 1, n)
           rest  == SubSeq(q, n + 1, Len(q))
           m == Len(q) - n
<1>1. /\ Len(q) \in Nat /\ n \in Nat /\ n <= Len(q) /\ m \in Nat /\ DOMAIN q = 1..Len(q)
      /\ \A i \in 1..Len(q) : q[i] \in S
  OBVIOUS
<1>2. front \in Seq(S) /\ DOMAIN front = 1..n /\ \A i \in 1..n : front[i] = q[i]
  BY <1>1
<1>3. rest \in Seq(S) /\ DOMAIN rest = 1..m /\ \A i \in 1..m : rest[i] = q[n + i]
  BY <1>1
<1>4. /\ \A i \in 1..n : i \in 1..Len(q)
      /\ \A i \in 1..m : n + i \in 1..Len(q) /\ n + i \notin 1..n
      /\ \A i \in 1..Len(q) : i \in 1..n \/ (i - n \in 1..m /\ n + (i - n) = i)
  BY <1>1
<1> HIDE DEF front, rest, m
<1>5. Elems(q) = Elems(front) \cup Elems(rest)
  <2>1. Elems(front) = {q[i] : i \in 1..n}
    BY <1>2 DEF Elems
  <2>2. Elems(rest) = {q[n + i] : i \in 1..m}
    BY <1>3 DEF Elems
  <2>3. Elems(q) = {q[i] : i \in 1..Len(q)}
    BY <1>1 DEF Elems
  <2>4. ASSUME NEW i \in 1..Len(q) PROVE q[i] \in Elems(front) \cup Elems(rest)
    <3>1. CASE i \in 1..n
      BY <2>1, <3>1
    <3>2. CASE i - n \in 1..m /\ n + (i - n) = i
      BY <2>2, <3>2
    <3> QED BY <1>4, <3>1, <3>2
  <2>5. Elems(front) \subseteq Elems(q) /\ Elems(rest) \subseteq Elems(q)
    BY <1>4, <2>1, <2>2, <2>3
  <2> QED BY <2>3, <2>4, <2>5
<1>6. ASSUME Once(q) PROVE Once(front) /\ Once(rest) /\ Elems(front) \cap Elems(rest) = {}
  <2>1. Once(front)
    BY <1>1, <1>2, <1>4, <1>6 DEF Once
  <2>2. \A i, j \in 1..m : i # j => n + i # n + j
    BY <1>1
  <2>3. Once(rest)
    BY <1>1, <1>3, <1>4, <1>6, <2>2 DEF Once
  <2>4. \A i \in 1..n, j \in 1..m : front[i] # rest[j]
    BY <1>1, <1>2, <1>3, <1>4, <1>6 DEF Once
  <2> QED BY <1>2, <1>3, <2>1, <2>3, <2>4 DEF Elems
<1> QED BY <1>2, <1>3, <1>5, <1>6 DEF front, rest, m
(* What _reclaim_stale puts in front of the queue: the work of every stale *)
(* batch and nothing else, and none of it twice unless batches share it.   *)
StaleShare(n) == UNION {Elems(inflight[b].work) : b \in {c \in StaleBatches : c <= n}}

Apart ==
    /\ \A b \in DOMAIN inflight : Once(inflight[b].work)
    /\ \A b, c \in DOMAIN inflight :
          b # c => Elems(inflight[b].work) \cap Elems(inflight[c].work) = {}

LEMMA StaleFrontHas ==
    ASSUME TypeInv
    PROVE  /\ StaleFront \in Seq(Work)
           /\ Elems(StaleFront) = UNION {Elems(inflight[b].work) : b \in StaleBatches}
           /\ Apart => Once(StaleFront)
<1> DEFINE F(n) == IF n \in StaleBatches THEN Reversed(inflight[n].work) ELSE <<>>
           A == [n \in Nat |-> F(n)]
<1>1. ASSUME NEW n \in Nat
      PROVE  /\ F(n) \in Seq(Work)
             /\ n \in StaleBatches => /\ n \in DOMAIN inflight
                                      /\ Elems(F(n)) = Elems(inflight[n].work)
                                      /\ Once(inflight[n].work) => Once(F(n))
             /\ n \notin StaleBatches => F(n) = <<>>
  <2>1. CASE n \in StaleBatches
    <3>1. n \in DOMAIN inflight /\ inflight[n].work \in Seq(Work)
      BY <2>1 DEF TypeInv, TableTypes, StaleBatches
    <3> QED BY <2>1, <3>1, ReversedElems
  <2>2. CASE n \notin StaleBatches
    BY <2>2, EmptySeq
  <2> QED BY <2>1, <2>2
<1>2. \A n \in Nat : A[n] = F(n)
  OBVIOUS
<1> HIDE DEF A
<1>3. PICK f \in [Nat -> Seq(Work)] : f = [n \in Nat |-> IF n = 0 THEN <<>> ELSE A[n] \o f[n - 1]]
  <2>1. \A n \in Nat : A[n] \in Seq(Work)
    BY <1>1, <1>2
  <2> HIDE DEF F
  <2>2. \A B : (\A n \in Nat : B[n] \in Seq(Work)) =>
                 \E f \in [Nat -> Seq(Work)] :
                    f = [n \in Nat |-> IF n = 0 THEN <<>> ELSE B[n] \o f[n - 1]]
    BY JoinFunction
  <2> QED BY <2>1, <2>2
<1>4. f = [n \in Nat |-> IF n = 0 THEN <<>> ELSE F(n) \o f[n - 1]]
  <2> HIDE DEF F
  <2> QED BY <1>2, <1>3
<1> DEFINE g == CHOOSE k : k = [n \in Nat |-> IF n = 0 THEN <<>> ELSE F(n) \o k[n - 1]]
<1>5. g = [n \in Nat |-> IF n = 0 THEN <<>> ELSE F(n) \o g[n - 1]]
  <2> HIDE DEF F
  <2> QED BY <1>4
<1>6. StaleFront = g[Cardinality(Claimed)]
  BY DEF StaleFront
<1> HIDE DEF F, g
<1>7. g[0] = <<>> /\ \A n \in Nat : g[n + 1] = F(n + 1) \o g[n]
  <2>1. \A n \in Nat : n + 1 \in Nat /\ n + 1 # 0 /\ (n + 1) - 1 = n
    OBVIOUS
  <2> QED BY <1>5, <2>1
<1>8. DOMAIN inflight \subseteq Claimed /\ Claimed \subseteq Nat \ {0}
  BY DEF TypeInv, Holding, Numbered
<1>9. StaleBatches \subseteq DOMAIN inflight
  BY DEF StaleBatches
<1> DEFINE Right(n) == /\ g[n] \in Seq(Work) /\ Elems(g[n]) = StaleShare(n)
                       /\ Apart => Once(g[n])
           T == {n \in Nat : Right(n)}
<1>10. 0 \in T
  <2>1. StaleShare(0) = {}
    <3>1. \A c \in StaleBatches : c \in Nat \ {0}
      BY <1>8, <1>9
    <3>2. {c \in StaleBatches : c <= 0} = {}
      BY <3>1
    <3> QED BY <3>2 DEF StaleShare
  <2>2. <<>> \in Seq(Work) /\ Elems(<<>>) = {} /\ Once(<<>>)
    BY EmptySeq DEF Elems, Once
  <2> QED BY <1>7, <2>1, <2>2
<1>11. ASSUME NEW n \in T PROVE n + 1 \in T
  <2>0. Right(n)
    <3> HIDE DEF Right
    <3> QED OBVIOUS
  <2>9. n \in Nat /\ n + 1 \in Nat
    <3> HIDE DEF Right
    <3> QED OBVIOUS
  <2> SUFFICES Right(n + 1)
    BY <2>9
  <2> HIDE DEF T
  <2>1. n + 1 \in Nat /\ g[n] \in Seq(Work) /\ g[n + 1] = F(n + 1) \o g[n]
    <3>1. g[n] \in Seq(Work)
      BY <2>0
    <3> HIDE DEF Right
    <3> QED BY <1>7, <2>9, <3>1
  <2>2. F(n + 1) \in Seq(Work)
    BY <1>1, <2>1
  <2>3. /\ g[n + 1] \in Seq(Work) /\ Elems(g[n + 1]) = Elems(F(n + 1)) \cup StaleShare(n)
        /\ Once(F(n + 1)) /\ Once(g[n]) /\ Elems(F(n + 1)) \cap StaleShare(n) = {} => Once(g[n + 1])
    <3>1. Elems(g[n]) = StaleShare(n)
      BY <2>0
    <3> HIDE DEF Right
    <3> DEFINE u == F(n + 1)
               v == g[n]
    <3>2. u \in Seq(Work) /\ v \in Seq(Work) /\ g[n + 1] = u \o v
      BY <2>1, <2>2
    <3>3. Elems(v) = StaleShare(n)
      BY <3>1
    <3> HIDE DEF u, v, g, F
    <3>4. /\ u \o v \in Seq(Work) /\ Elems(u \o v) = Elems(u) \cup Elems(v)
          /\ Once(u) /\ Once(v) /\ Elems(u) \cap Elems(v) = {} => Once(u \o v)
      BY <3>2, ConcatElems
    <3>5. /\ g[n + 1] \in Seq(Work) /\ Elems(g[n + 1]) = Elems(u) \cup StaleShare(n)
          /\ Once(u) /\ Once(v) /\ Elems(u) \cap StaleShare(n) = {} => Once(g[n + 1])
      BY <3>2, <3>3, <3>4, Zenon
    <3> QED BY <3>5 DEF u, v
  <2>4. \A c \in StaleBatches : c \in Nat /\ (c <= n + 1 <=> (c <= n \/ c = n + 1))
    <3>1. \A c \in StaleBatches : c \in Nat
      BY <1>8, <1>9
    <3>2. \A c, m \in Nat : c <= m + 1 <=> (c <= m \/ c = m + 1)
      OBVIOUS
    <3> QED BY <2>9, <3>1, <3>2, Zenon
  <2>5. CASE n + 1 \in StaleBatches
    <3>1. Elems(F(n + 1)) = Elems(inflight[n + 1].work) /\ n + 1 \in DOMAIN inflight
      BY <1>1, <2>1, <2>5
    <3>2. StaleShare(n + 1) = Elems(inflight[n + 1].work) \cup StaleShare(n)
      <4>1. {c \in StaleBatches : c <= n + 1} = {c \in StaleBatches : c <= n} \cup {n + 1}
        <5>1. n + 1 <= n + 1
          BY <2>1
        <5> QED BY <2>4, <2>5, <5>1, Zenon
      <4> QED BY <4>1 DEF StaleShare
    <3>3. ASSUME Apart PROVE Once(g[n + 1])
      <4>1. Once(F(n + 1))
        BY <1>1, <2>1, <2>5, <3>1, <3>3 DEF Apart
      <4>2. Elems(inflight[n + 1].work) \cap StaleShare(n) = {}
        <5>1. \A c \in StaleBatches : c <= n => c \in DOMAIN inflight /\ c # n + 1
          BY <1>9, <2>9, <2>4
        <5>2. \A c \in StaleBatches :
                 c <= n => Elems(inflight[n + 1].work) \cap Elems(inflight[c].work) = {}
          BY <3>1, <3>3, <5>1 DEF Apart
        <5> QED BY <5>2 DEF StaleShare
      <4> QED BY <2>0, <2>3, <3>1, <3>3, <4>1, <4>2
    <3> QED BY <2>1, <2>3, <3>1, <3>2, <3>3
  <2>6. CASE n + 1 \notin StaleBatches
    <3>1. Elems(F(n + 1)) = {} /\ Once(F(n + 1))
      <4>1. F(n + 1) = <<>>
        BY <1>1, <2>1, <2>6
      <4>2. Elems(<<>>) = {} /\ Once(<<>>)
        BY DEF Elems, Once
      <4> QED BY <4>1, <4>2
    <3>2. StaleShare(n + 1) = StaleShare(n)
      <4>1. {c \in StaleBatches : c <= n + 1} = {c \in StaleBatches : c <= n}
        BY <2>4, <2>6
      <4> QED BY <4>1 DEF StaleShare
    <3> QED BY <2>0, <2>3, <3>1, <3>2
  <2> QED BY <2>5, <2>6
<1> HIDE DEF T
<1>12. T = Nat
  <2>1. T \in SUBSET Nat
    BY DEF T
  <2> QED BY <1>10, <1>11, <2>1, NatSetInduction
<1>13. PICK n \in Nat : Claimed = 1..n
  BY DEF TypeInv, Numbered
<1>14. Cardinality(Claimed) = n
  <2>1. \A m \in Nat : Cardinality(1..m) = IF 1 > m THEN 0 ELSE m - 1 + 1
    BY FS_Interval
  <2> QED BY <1>13, <2>1
<1>15. {c \in StaleBatches : c <= n} = StaleBatches
  BY <1>8, <1>9, <1>13
<1> QED BY <1>6, <1>12, <1>14, <1>15 DEF T, StaleShare

LEMMA ReclaimTypes ==
    ASSUME TypeInv, Reclaim
    PROVE  /\ queue' \in Seq(Work) /\ TableTypes'
           /\ \A b \in DOMAIN inflight' :
                 b \in DOMAIN inflight /\ inflight'[b] = inflight[b]
           /\ DOMAIN inflight' = DOMAIN inflight \ StaleBatches
<1>1. queue' = StaleFront \o queue /\ queue \in Seq(Work)
  BY DEF Reclaim, TypeInv, QueueTypes
<1>2. inflight' = [b \in DOMAIN inflight \ StaleBatches |-> inflight[b]]
  BY DEF Reclaim
<1>3. queue' \in Seq(Work)
  BY <1>1, StaleFrontHas, ConcatProperties
<1>4. TableTypes'
  BY <1>2 DEF TypeInv, TableTypes
<1> QED BY <1>2, <1>3, <1>4
-----------------------------------------------------------------------------
(* The claim. *)

LEMMA NextBatch ==
    ASSUME TypeInv
    PROVE  /\ IsFiniteSet(Claimed) /\ Cardinality(Claimed) \in Nat
           /\ Claimed = 1..Cardinality(Claimed)
           /\ Cardinality(Claimed) + 1 \notin Claimed
           /\ Claimed \cup {Cardinality(Claimed) + 1} = 1..(Cardinality(Claimed) + 1)
<1>1. PICK n \in Nat : Claimed = 1..n
  BY DEF TypeInv, Numbered
<1>2. IsFiniteSet(1..n) /\ Cardinality(1..n) = n
  BY FS_Interval
<1>3. n + 1 \notin 1..n /\ (1..n) \cup {n + 1} = 1..(n + 1)
  BY <1>1
<1> QED BY <1>1, <1>2, <1>3

LEMMA ClaimStepTypes ==
    ASSUME TypeInv, NEW p \in Peer,
           ClaimReclaim(p) \/ ClaimLimit(p) \/ ClaimNothing(p) \/ BurnCheck(p) \/ ClaimReply(p)
    PROVE  TypeInv'
<1>0. h \in [Peer -> Request]
  BY DEF TypeInv
<1>1. CASE ClaimReclaim(p)
  <2>1. h' \in [Peer -> Request] /\ \A q \in Peer : Keeps(q)
    BY <1>0, <1>1, GotoTypes DEF ClaimReclaim, Keeps, Paying, Popped, HandlerPC, ClaimPC
  <2>2. /\ UNCHANGED <<peers, seeded, seeds, restarts, claimant, refused>>
        /\ UNCHANGED <<burned, mints, registry, jailed, merged, worker>>
    BY <1>1 DEF ClaimReclaim, files, past
  <2>3. QueueTypes' /\ TableTypes'
    BY <1>1, <2>2, ReclaimTypes DEF ClaimReclaim, QueueTypes, TypeInv
  <2>4. Numbered' /\ Holding'
    BY <1>1, <2>1, <2>2, ReclaimTypes, KeepsHolding DEF ClaimReclaim
  <2> QED BY <2>1, <2>2, <2>3, <2>4, UntouchedTypes DEF TypeInv
<1>2. CASE ClaimLimit(p)
  <2>1. Answered(p) \/ Goto(p, "pop")
    BY <1>2 DEF ClaimLimit
  <2>2. h' \in [Peer -> Request] /\ \A q \in Peer : Keeps(q)
    BY <1>0, <2>1, GotoTypes, AnsweredTypes DEF Keeps, Paying, Popped, HandlerPC, ClaimPC
  <2> QED BY <1>2, <2>2, KeepsHolding, UntouchedTypes DEF ClaimLimit, TypeInv, pool, files, past
<1>3. CASE ClaimNothing(p)
  <2>1. h' \in [Peer -> Request] /\ \A q \in Peer : Keeps(q)
    BY <1>0, <1>3, AnsweredTypes DEF ClaimNothing, Keeps, Paying, Popped
  <2> QED BY <1>3, <2>1, KeepsHolding, UntouchedTypes DEF ClaimNothing, TypeInv, pool, files, past
<1>4. CASE BurnCheck(p)
  <2>1. h[p].pc \in Paying /\ (Goto(p, "reply") \/ Goto(p, "burn"))
    BY <1>4 DEF BurnCheck, At, Paying
  <2>2. h' \in [Peer -> Request] /\ \A q \in Peer : Keeps(q)
    BY <1>0, <2>1, GotoTypes DEF Keeps, Paying, Popped, HandlerPC, ClaimPC
  <2> QED BY <1>4, <2>2, KeepsHolding, UntouchedTypes DEF BurnCheck, TypeInv, pool, files, past
<1>5. CASE ClaimReply(p)
  <2>1. h' \in [Peer -> Request] /\ \A q \in Peer : Keeps(q)
    BY <1>0, <1>5, AnsweredTypes DEF ClaimReply, Keeps, Paying, Popped
  <2>2. h[p].batch \in Nat
    BY <1>0 DEF Request
  <2>3. WorkerTypes'
    BY <1>5, <2>2 DEF ClaimReply, TypeInv, WorkerTypes, past
  <2> QED BY <1>5, <2>1, <2>3, KeepsHolding, UntouchedTypes
          DEF ClaimReply, TypeInv, pool, files, past
<1> QED BY <1>1, <1>2, <1>3, <1>4, <1>5

LEMMA BurnTypes == ASSUME TypeInv, NEW p \in Peer, Burn(p) PROVE TypeInv'
<1>0. h \in [Peer -> Request] /\ h[p].pc \in Paying
  BY DEF TypeInv, Burn, At, Paying
<1>1. h' \in [Peer -> Request] /\ \A q \in Peer : Keeps(q)
  BY <1>0, GotoTypes DEF Burn, Keeps, Paying, Popped, HandlerPC, ClaimPC
<1>2. h[p].batch \in Claimed
  BY <1>0 DEF TypeInv, Holding
<1>3. Numbered' /\ Holding' /\ Claimed' = Claimed
  BY <1>1, KeepsHolding DEF Burn, pool, past
<1>4. LedgerTypes'
  BY <1>2, <1>3 DEF Burn, TypeInv, LedgerTypes
<1> QED BY <1>1, <1>3, <1>4, UntouchedTypes DEF Burn, TypeInv, pool, past

(* The work of a claim is the front of the queue, and the rest stays. *)
LEMMA PopWork ==
    ASSUME TypeInv, queue # <<>>
    PROVE  LET n == Shorter(ClaimSize, Len(queue))
           IN  n \in 1..Len(queue)
BY CorpusAssumption DEF TypeInv, QueueTypes, Shorter

LEMMA ClaimPopTypes == ASSUME TypeInv, NEW p \in Peer, ClaimPop(p) PROVE TypeInv'
<1> DEFINE n == Shorter(ClaimSize, Len(queue))
           b == Cardinality(Claimed) + 1
           work == SubSeq(queue, 1, n)
<1>1. /\ h[p].pc = "pop" /\ p \in DOMAIN peers /\ queue # <<>>
      /\ queue' = SubSeq(queue, n + 1, Len(queue))
      /\ inflight' = [c \in DOMAIN inflight \cup {b} |->
                         IF c = b THEN [peer |-> p, work |-> work, stale |-> FALSE]
                         ELSE inflight[c]]
      /\ claimant' = [c \in Claimed \cup {b} |-> IF c = b THEN p ELSE claimant[c]]
      /\ h' = [h EXCEPT ![p].pc = "burn_check", ![p].batch = b]
      /\ peers' = [peers EXCEPT ![p].claimed = @ + 1]
  BY DEF ClaimPop, At
<1>2. UNCHANGED <<seeded, files, worker, refused, forgotten, seeds, restarts>>
  BY DEF ClaimPop
<1>3. queue \in Seq(Work) /\ n \in 1..Len(queue)
  BY <1>1, PopWork DEF TypeInv, QueueTypes
<1>4. work \in Seq(Work) /\ queue' \in Seq(Work)
  <2> HIDE DEF n
  <2> QED BY <1>1, <1>3, PopElems
<1> HIDE DEF n, work
<1>5. /\ Cardinality(Claimed) \in Nat /\ b \in Nat /\ b \notin Claimed /\ Claimed \cup {b} = 1..b
      /\ Claimed' = Claimed \cup {b} /\ DOMAIN inflight \subseteq Claimed
  <2>1. Claimed' = Claimed \cup {b}
    BY <1>1 DEF Claimed
  <2>2. DOMAIN inflight \subseteq Claimed
    BY DEF TypeInv, Holding
  <2> QED BY <2>1, <2>2, NextBatch
<1> HIDE DEF b
<1>6. claimant'[b] = p /\ \A c \in Claimed : claimant'[c] = claimant[c]
  BY <1>1, <1>5
<1>7. Numbered'
  BY <1>5, <1>6 DEF TypeInv, Numbered
<1>8. /\ h' \in [Peer -> Request] /\ h'[p].pc = "burn_check" /\ h'[p].batch = b
      /\ \A q \in Peer : q # p => h'[q] = h[q]
  BY <1>1, <1>5 DEF TypeInv, Request, HandlerPC, ClaimPC
<1>9. QueueTypes'
  BY <1>2, <1>4 DEF TypeInv, QueueTypes
<1>10. PeerTypes'
  <2>1. peers[p] \in [claimed : Nat, completed : Nat]
    BY <1>1 DEF TypeInv, PeerTypes
  <2>2. /\ DOMAIN peers' = DOMAIN peers
        /\ \A q \in DOMAIN peers : q # p => peers'[q] = peers[q]
        /\ peers'[p] = [peers[p] EXCEPT !.claimed = @ + 1]
    BY <1>1
  <2>3. peers'[p] \in [claimed : Nat, completed : Nat]
    BY <2>1, <2>2
  <2> QED BY <2>2, <2>3 DEF TypeInv, PeerTypes
<1>11. TableTypes'
  <2> SUFFICES ASSUME NEW c \in DOMAIN inflight'
               PROVE  inflight'[c] \in [peer : Peer, work : Seq(Work), stale : BOOLEAN]
    BY <1>1 DEF TableTypes
  <2> QED BY <1>1, <1>4 DEF TypeInv, TableTypes
<1>12. LedgerTypes'
  BY <1>2, <1>5 DEF TypeInv, LedgerTypes, files
<1>13. Holding'
  <2>1. ASSUME NEW c \in DOMAIN inflight'
        PROVE  c \in Claimed' /\ inflight'[c].peer = claimant'[c]
    <3>1. CASE c = b
      BY <1>1, <1>5, <1>6, <3>1
    <3>2. CASE c # b
      <4>1. c \in DOMAIN inflight /\ inflight'[c] = inflight[c] /\ c \in Claimed
        BY <1>1, <1>5, <3>2
      <4> QED BY <1>5, <1>6, <4>1 DEF TypeInv, Holding
    <3> QED BY <3>1, <3>2
  <2>2. ASSUME NEW q \in Peer
        PROVE  /\ h'[q].pc \in Paying \cup Popped =>
                    h'[q].batch \in Claimed' /\ claimant'[h'[q].batch] = q
               /\ h'[q].pc \in Popped => h'[q].batch \notin DOMAIN inflight'
               /\ h'[q].pc = "sub_pop" => h'[q].work = <<>>
    <3>1. CASE q = p
      BY <1>5, <1>6, <1>8, <3>1 DEF Popped
    <3>2. CASE q # p
      <4>1. h'[q] = h[q] /\ DOMAIN inflight' = DOMAIN inflight \cup {b}
        BY <1>1, <1>8, <3>2
      <4> QED BY <1>5, <1>6, <4>1 DEF TypeInv, Holding
    <3> QED BY <3>1, <3>2
  <2> QED BY <2>1, <2>2 DEF Holding
<1>14. RecordTypes' /\ WorkerTypes'
  BY <1>2, UntouchedTypes DEF files
<1> QED BY <1>7, <1>8, <1>9, <1>10, <1>11, <1>12, <1>13, <1>14 DEF TypeInv
-----------------------------------------------------------------------------
(* The submission. *)

(* A batch leaves the table. *)
LEMMA RemoveTypes ==
    ASSUME TypeInv, NEW b \in DOMAIN inflight,
           inflight' = [c \in DOMAIN inflight \ {b} |-> inflight[c]]
    PROVE  /\ TableTypes' /\ DOMAIN inflight' = DOMAIN inflight \ {b}
           /\ \A c \in DOMAIN inflight' : c \in DOMAIN inflight /\ inflight'[c] = inflight[c]
           /\ inflight[b].work \in Seq(Work)
BY DEF TypeInv, TableTypes

LEMMA SubmitRefusedTypes ==
    ASSUME TypeInv, NEW p \in Peer, SubmitUnknown(p) \/ SubmitForeign(p)
    PROVE  TypeInv'
<1>1. SubmitAnswered(p)
  BY DEF SubmitUnknown, SubmitForeign
<1>2. h' \in [Peer -> Request] /\ \A q \in Peer : Keeps(q)
  BY <1>1, SubmitAnsweredTypes, AnsweredTypes DEF TypeInv, Keeps, Paying, Popped
<1>3. WorkerTypes'
  BY <1>1, SubmitAnsweredTypes DEF SubmitUnknown, SubmitForeign, TypeInv, WorkerTypes, past
<1>4. CASE SubmitUnknown(p)
  BY <1>2, <1>3, <1>4, KeepsHolding, UntouchedTypes DEF SubmitUnknown, TypeInv, pool, files, past
<1>5. CASE SubmitForeign(p)
  <2> DEFINE b == h[p].batch
  <2>1. /\ b \in DOMAIN inflight
        /\ inflight' = [c \in DOMAIN inflight \ {b} |-> inflight[c]]
        /\ refused' = refused \cup Elems(inflight[b].work)
        /\ UNCHANGED <<queue, peers, seeded, files, forgotten, claimant, seeds, restarts>>
    BY <1>5 DEF SubmitForeign
  <2> HIDE DEF b
  <2>2. Numbered' /\ Holding'
    BY <1>2, <2>1, RemoveTypes, KeepsHolding
  <2>3. RecordTypes'
    BY <2>1, RemoveTypes, ElemsOf DEF TypeInv, RecordTypes, files
  <2> QED BY <1>2, <1>3, <2>1, <2>2, <2>3, RemoveTypes, UntouchedTypes DEF TypeInv, files
<1> QED BY <1>4, <1>5

LEMMA SubmitPopTypes == ASSUME TypeInv, NEW p \in Peer, SubmitPop(p) PROVE TypeInv'
<1> DEFINE b == h[p].batch
<1>1. /\ h[p].pc = "sub_pop" /\ b \in DOMAIN inflight /\ inflight[b].peer = p
      /\ inflight' = [c \in DOMAIN inflight \ {b} |-> inflight[c]]
      /\ h' = [h EXCEPT ![p].pc = "outcome", ![p].work = inflight[b].work]
      /\ UNCHANGED <<queue, peers, seeded, files, worker, past>>
  BY DEF SubmitPop, At
<1> HIDE DEF b
<1>2. /\ TableTypes' /\ DOMAIN inflight' = DOMAIN inflight \ {b}
      /\ \A c \in DOMAIN inflight' : c \in DOMAIN inflight /\ inflight'[c] = inflight[c]
      /\ inflight[b].work \in Seq(Work)
  BY <1>1, RemoveTypes
<1>3. b \in Claimed /\ claimant[b] = p /\ h[p].batch = b
  BY <1>1 DEF TypeInv, Holding, b
<1>4. /\ h' \in [Peer -> Request] /\ h'[p].pc = "outcome" /\ h'[p].batch = b
      /\ \A q \in Peer : q # p => h'[q] = h[q]
  <2> DEFINE w == inflight[b].work
  <2>1. h' = [h EXCEPT ![p].pc = "outcome", ![p].work = w] /\ w \in Seq(Work)
    BY <1>1, <1>2
  <2>2. h[p] \in Request /\ h \in [Peer -> Request] /\ "outcome" \in HandlerPC
    BY DEF TypeInv, HandlerPC, SubmitPC
  <2> HIDE DEF w
  <2>3. h' = [h EXCEPT ![p] = [h[p] EXCEPT !.pc = "outcome", !.work = w]]
    BY <2>1, <2>2
  <2>4. /\ [h[p] EXCEPT !.pc = "outcome", !.work = w] \in Request
        /\ [h[p] EXCEPT !.pc = "outcome", !.work = w].batch = h[p].batch
    BY <2>1, <2>2 DEF Request
  <2> QED BY <1>3, <2>2, <2>3, <2>4 DEF Request
<1>5. Claimed' = Claimed /\ Numbered'
  BY <1>1 DEF TypeInv, Numbered, Claimed, past
<1>6. Holding'
  <2>1. \A c \in DOMAIN inflight' : c \in Claimed /\ inflight'[c].peer = claimant[c]
    BY <1>2 DEF TypeInv, Holding
  <2>2. ASSUME NEW q \in Peer
        PROVE  /\ h'[q].pc \in Paying \cup Popped =>
                    h'[q].batch \in Claimed /\ claimant[h'[q].batch] = q
               /\ h'[q].pc \in Popped => h'[q].batch \notin DOMAIN inflight'
               /\ h'[q].pc = "sub_pop" => h'[q].work = <<>>
    <3>1. CASE q = p
      BY <1>2, <1>3, <1>4, <3>1
    <3>2. CASE q # p
      <4>1. h'[q] = h[q]
        BY <1>4, <3>2
      <4> QED BY <1>2, <4>1 DEF TypeInv, Holding
    <3> QED BY <3>1, <3>2
  <2> QED BY <1>1, <1>5, <2>1, <2>2 DEF Holding, past
<1> QED BY <1>1, <1>2, <1>4, <1>5, <1>6, UntouchedTypes DEF TypeInv, files, past

LEMMA OutcomeTypes ==
    ASSUME TypeInv, NEW p \in Peer, Outcome(p) \/ Mint(p) \/ Assess(p) \/ Merge(p)
    PROVE  TypeInv'
<1>0. h \in [Peer -> Request] /\ h[p].pc \in Popped
  BY DEF TypeInv, Outcome, Mint, Assess, Merge, At, Popped
<1>00. UNCHANGED <<queue, inflight, peers, seeded, forgotten, claimant, seeds, restarts>>
  BY DEF Outcome, Mint, Assess, Merge, pool, past
<1>1. h' \in [Peer -> Request] /\ \A q \in Peer : Keeps(q)
  <2>1. \/ \E x \in {"mint", "assess", "merge", "count"} : Goto(p, x)
        \/ Answered(p)
    BY DEF Outcome, Mint, Assess, Merge, SubmitAnswered
  <2> QED BY <1>0, <2>1, GotoTypes, AnsweredTypes DEF Keeps, Popped, Paying, HandlerPC, SubmitPC
<1>2. Numbered' /\ Holding' /\ Claimed' = Claimed /\ QueueTypes' /\ PeerTypes' /\ TableTypes'
  BY <1>00, <1>1, KeepsHolding, UntouchedTypes
<1>3. CASE Outcome(p)
  <2>1. registry[p] \in [jobs : Nat, failed : Nat]
    BY DEF TypeInv, RecordTypes
  <2>2. registry' \in [Peer -> [jobs : Nat, failed : Nat]]
    <3> DEFINE r == [jobs |-> registry[p].jobs + 1,
                     failed |-> IF h[p].answer = "bad" THEN registry[p].failed + 1
                                ELSE registry[p].failed]
    <3>1. registry' = [registry EXCEPT ![p] = r]
      BY <1>3 DEF Outcome
    <3>2. r \in [jobs : Nat, failed : Nat]
      BY <2>1
    <3> HIDE DEF r
    <3> QED BY <3>1, <3>2 DEF TypeInv, RecordTypes
  <2>3. RecordTypes'
    BY <1>3, <2>2 DEF Outcome, TypeInv, RecordTypes, past
  <2> QED BY <1>00, <1>1, <1>2, <1>3, <2>3, UntouchedTypes DEF Outcome, TypeInv
<1>4. CASE Mint(p)
  <2> DEFINE b == h[p].batch
             old == IF b \in DOMAIN mints THEN mints[b] ELSE <<>>
  <2>1. b \in Claimed
    BY <1>0 DEF TypeInv, Holding
  <2>2. old \in Seq(Peer)
    BY EmptySeq DEF TypeInv, LedgerTypes
  <2>3. Append(old, p) \in Seq(Peer)
    <3> HIDE DEF old
    <3> QED BY <2>2, AppendProperties
  <2>4. mints' = [c \in DOMAIN mints \cup {b} |-> IF c # b THEN mints[c] ELSE Append(old, p)]
    BY <1>4 DEF Mint
  <2> HIDE DEF b, old
  <2>5. DOMAIN mints' \subseteq Claimed /\ \A c \in DOMAIN mints' : mints'[c] \in Seq(Peer)
    BY <2>1, <2>3, <2>4 DEF TypeInv, LedgerTypes
  <2>6. LedgerTypes'
    BY <1>2, <1>4, <2>5 DEF Mint, TypeInv, LedgerTypes
  <2> QED BY <1>00, <1>1, <1>2, <1>4, <2>6, UntouchedTypes DEF Mint, TypeInv, past
<1>5. CASE Assess(p)
  <2>1. h[p].work \in Seq(Work)
    BY <1>0 DEF Request
  <2>2. jailed' \subseteq Peer /\ refused' \subseteq Work
    BY <1>5, <2>1, ElemsOf DEF Assess, TypeInv, RecordTypes
  <2>3. RecordTypes'
    BY <1>5, <2>2 DEF Assess, TypeInv, RecordTypes
  <2>4. WorkerTypes'
    BY <1>00, <1>5, SubmitAnsweredTypes DEF Assess, TypeInv, WorkerTypes
  <2> QED BY <1>00, <1>1, <1>2, <1>5, <2>3, <2>4, UntouchedTypes DEF Assess, TypeInv
<1>6. CASE Merge(p)
  <2>1. h[p].work \in Seq(Work)
    BY <1>0 DEF Request
  <2>2. RecordTypes'
    BY <1>6, <2>1, ElemsOf DEF Merge, TypeInv, RecordTypes, past
  <2> QED BY <1>00, <1>1, <1>2, <1>6, <2>2, UntouchedTypes DEF Merge, TypeInv
<1> QED BY <1>3, <1>4, <1>5, <1>6

LEMMA CountTypes == ASSUME TypeInv, NEW p \in Peer, Count(p) PROVE TypeInv'
<1>0. h \in [Peer -> Request] /\ SubmitAnswered(p)
  BY DEF TypeInv, Count
<1>1. h' \in [Peer -> Request] /\ \A q \in Peer : Keeps(q)
  BY <1>0, SubmitAnsweredTypes, AnsweredTypes DEF Keeps, Paying, Popped
<1>2. /\ refused' = refused \cup (Elems(h[p].work) \ merged)
      /\ UNCHANGED <<queue, inflight, seeded, files, forgotten, claimant, seeds, restarts>>
  BY DEF Count
<1>3. PeerTypes'
  <2> DEFINE r == IF p \in DOMAIN peers THEN [peers[p] EXCEPT !.completed = @ + 1]
                  ELSE [claimed |-> 0, completed |-> 1]
  <2>1. peers' = [q \in DOMAIN peers \cup {p} |-> IF q # p THEN peers[q] ELSE r]
    BY DEF Count
  <2>2. r \in [claimed : Nat, completed : Nat]
    BY DEF TypeInv, PeerTypes
  <2> HIDE DEF r
  <2> QED BY <2>1, <2>2 DEF TypeInv, PeerTypes
<1>4. RecordTypes'
  <2>1. h[p].work \in Seq(Work)
    BY <1>0 DEF Request
  <2> QED BY <1>2, <2>1, ElemsOf DEF TypeInv, RecordTypes, files
<1>5. WorkerTypes'
  BY <1>0, <1>2, SubmitAnsweredTypes DEF TypeInv, WorkerTypes
<1> QED BY <1>1, <1>2, <1>3, <1>4, <1>5, KeepsHolding, UntouchedTypes DEF TypeInv, files
-----------------------------------------------------------------------------
(* Around the handlers, and the restart. *)

LEMMA SendTypes ==
    ASSUME TypeInv, NEW p \in Peer, Send(p) \/ Start(p) \/ Die(p) \/ Release(p)
    PROVE  TypeInv'
<1>0. h \in [Peer -> Request]
  BY DEF TypeInv
<1>1. /\ UNCHANGED <<queue, inflight, peers, seeded, burned, mints, registry, merged>>
      /\ UNCHANGED <<refused, forgotten, claimant, seeds, restarts>>
  BY DEF Send, SendRegister, GiveUpJoining, SendClaim, SendSubmit, Start, Die, Release,
         pool, files, past
<1>2. h' \in [Peer -> Request] /\ \A q \in Peer : Keeps(q)
  <2>1. CASE SendRegister(p) \/ SendClaim(p)
    <3>1. Goto(p, "reg_check") \/ Goto(p, "claim_seed")
      BY <2>1 DEF SendRegister, SendClaim
    <3> QED BY <1>0, <3>1, GotoTypes DEF Keeps, Paying, Popped, HandlerPC, SeedPC
  <2>2. CASE \E answer \in Answer : SendSubmit(p, answer)
    <3>1. PICK answer \in Answer : SendSubmit(p, answer)
      BY <2>2
    <3>2. PICK b \in {worker[p].held} \cup (IF ForeignOn THEN Claimed ELSE {}) :
             h' = [h EXCEPT ![p] =
                      [pc |-> "sub_pop", batch |-> b, work |-> <<>>, answer |-> answer]]
      BY <3>1 DEF SendSubmit
    <3>3. b \in Nat
      <4>1. worker[p].held \in Nat
        BY DEF TypeInv, WorkerTypes
      <4>2. Claimed \subseteq Nat
        BY NextBatch
      <4> QED BY <4>1, <4>2
    <3>4. [pc |-> "sub_pop", batch |-> b, work |-> <<>>, answer |-> answer] \in Request
      BY <3>1, <3>3, EmptySeq DEF Request, HandlerPC, SubmitPC
    <3> QED BY <1>0, <3>2, <3>4 DEF Keeps
  <2>3. CASE GiveUpJoining(p) \/ Start(p) \/ Die(p) \/ Release(p)
    BY <1>0, <2>3 DEF GiveUpJoining, Start, Die, Release, Keeps
  <2> QED BY <2>1, <2>2, <2>3 DEF Send
<1>3. RecordTypes'
  <2>1. jailed' \subseteq Peer
    BY DEF Send, SendRegister, GiveUpJoining, SendClaim, SendSubmit, Start, Die, Release,
           files, TypeInv, RecordTypes
  <2> QED BY <1>1, <2>1 DEF TypeInv, RecordTypes
<1>4. WorkerTypes'
  <2>1. \/ worker' = worker
        \/ worker' = [worker EXCEPT ![p] = [state |-> "joining", held |-> 0]]
        \/ worker' = [worker EXCEPT ![p].state = "working"]
        \/ worker' = [worker EXCEPT ![p] = [state |-> "off", held |-> 0]]
    BY DEF Send, SendRegister, GiveUpJoining, SendClaim, SendSubmit, Start, Die, Release
  <2> QED BY <1>1, <2>1 DEF TypeInv, WorkerTypes
<1> QED BY <1>1, <1>2, <1>3, <1>4, KeepsHolding, UntouchedTypes DEF TypeInv

LEMMA AgeTypes == ASSUME TypeInv, NEW b \in DOMAIN inflight, Age(b) PROVE TypeInv'
<1>1. /\ inflight' = [inflight EXCEPT ![b].stale = TRUE]
      /\ UNCHANGED <<queue, peers, seeded, h, files, worker, past>>
  BY DEF Age
<1>2. /\ DOMAIN inflight' = DOMAIN inflight
      /\ \A c \in DOMAIN inflight : c # b => inflight'[c] = inflight[c]
      /\ inflight'[b] = [inflight[b] EXCEPT !.stale = TRUE]
  BY <1>1
<1>3. inflight[b] \in [peer : Peer, work : Seq(Work), stale : BOOLEAN]
  BY DEF TypeInv, TableTypes
<1>4. /\ inflight'[b] \in [peer : Peer, work : Seq(Work), stale : BOOLEAN]
      /\ inflight'[b].peer = inflight[b].peer /\ inflight'[b].work = inflight[b].work
  BY <1>2, <1>3
<1>5. TableTypes'
  <2>1. inflight' = [c \in DOMAIN inflight' |-> inflight'[c]]
    BY <1>1
  <2> QED BY <1>2, <1>4, <2>1 DEF TypeInv, TableTypes
<1>6. \A q \in Peer : Keeps(q)
  BY <1>1 DEF Keeps
<1>7. \A c \in DOMAIN inflight' : c \in DOMAIN inflight /\ inflight'[c].peer = inflight[c].peer
  BY <1>2, <1>4
<1> QED BY <1>1, <1>5, <1>6, <1>7, KeepsHolding, UntouchedTypes DEF TypeInv, files, past

LEMMA AroundTypes == ASSUME TypeInv, Around PROVE TypeInv'
<1>1. CASE \E p \in Peer : Send(p) \/ Start(p) \/ Die(p) \/ Release(p)
  BY <1>1, SendTypes
<1>2. CASE \E b \in Claimed : Age(b)
  <2>1. PICK b \in DOMAIN inflight : Age(b)
    BY <1>2 DEF Age
  <2> QED BY <2>1, AgeTypes
<1>3. CASE PoolStatus
  <2>1. Reclaim /\ UNCHANGED <<peers, seeded, h, files, worker, past>>
    BY <1>3 DEF PoolStatus
  <2>2. \A q \in Peer : Keeps(q)
    BY <2>1 DEF Keeps
  <2>3. QueueTypes' /\ TableTypes'
    BY <2>1, ReclaimTypes DEF TypeInv, QueueTypes, past
  <2>4. Numbered' /\ Holding'
    BY <2>1, <2>2, ReclaimTypes, KeepsHolding DEF past
  <2> QED BY <2>1, <2>3, <2>4, UntouchedTypes DEF TypeInv, files, past
<1> QED BY <1>1, <1>2, <1>3 DEF Around

LEMMA RestartTypes == ASSUME TypeInv, Restart PROVE TypeInv'
<1>1. /\ queue' = <<>> /\ inflight' = <<>> /\ peers' = <<>> /\ seeded' = FALSE
      /\ h' = [p \in Peer |-> NoRequest]
      /\ UNCHANGED <<files, refused, claimant, seeds>>
  BY DEF Restart
<1>2. DOMAIN inflight' = {} /\ DOMAIN peers' = {}
  BY <1>1
<1>3. h' \in [Peer -> Request] /\ \A q \in Peer : Keeps(q)
  <2>1. NoRequest \in Request /\ NoRequest.pc = "none"
    BY EmptySeq DEF NoRequest, Request, HandlerPC, Answer
  <2> QED BY <1>1, <2>1 DEF Keeps, Paying, Popped
<1>4. Numbered' /\ Holding'
  BY <1>1, <1>2, <1>3, KeepsHolding
<1>5. QueueTypes' /\ PeerTypes'
  BY <1>1, <1>2, EmptySeq DEF TypeInv, QueueTypes, PeerTypes
<1>6. TableTypes'
  <2>1. inflight' = [b \in DOMAIN inflight' |-> inflight'[b]]
    BY <1>1
  <2> QED BY <1>2, <2>1 DEF TableTypes
<1>7. WorkerTypes'
  BY DEF Restart, TypeInv, WorkerTypes
<1> QED BY <1>1, <1>3, <1>4, <1>5, <1>6, <1>7, UntouchedTypes DEF TypeInv, files

LEMMA StepTypes == ASSUME TypeInv, [Next]_vars PROVE TypeInv'
<1>1. CASE \E p \in Peer : Handle(p)
  <2>1. PICK p \in Peer : Handle(p)
    BY <1>1
  <2> QED BY <2>1, RegisterTypes, SeedTypes, ClaimStepTypes, ClaimPopTypes, BurnTypes,
             SubmitRefusedTypes, SubmitPopTypes, OutcomeTypes, CountTypes DEF Handle, HandleAlone
<1>2. CASE Around
  BY <1>2, AroundTypes
<1>3. CASE Restart
  BY <1>3, RestartTypes
<1>4. CASE UNCHANGED vars
  <2>1. \A q \in Peer : Keeps(q)
    BY <1>4 DEF Keeps, vars
  <2> QED BY <1>4, <2>1, KeepsHolding, UntouchedTypes DEF TypeInv, vars, pool, files, past
<1> QED BY <1>1, <1>2, <1>3, <1>4 DEF Next

(* The coordinator's tables, ledger files and workers keep their types     *)
(* through every interleaving of handlers, reclaims and restarts, and      *)
(* every batch id in the table, the ledger or the mints was handed out.    *)
THEOREM PoolTypes == Spec => []TypeOK
<1>1. TypeInv /\ [Next]_vars => TypeInv'
  BY StepTypes
<1> QED BY <1>1, InitTypes, TypesImplied, PTL DEF Spec
-----------------------------------------------------------------------------
(* Where work is: in the queue, in one batch, in one handler, or settled   *)
(* or forgotten; all of what was read from the corpus and nothing else.    *)

Handled(q) == IF h[q].pc \in SubmitPC THEN Elems(h[q].work) ELSE {}
Gone == merged \cup refused \cup forgotten

PlaceInv ==
    /\ Once(queue) /\ Apart
    /\ Elems(queue) \cap (InflightWork \cup HandledWork) = {}
    /\ InflightWork \cap HandledWork = {}
    /\ \A p, q \in Peer : p # q => Handled(p) \cap Handled(q) = {}
    /\ (Elems(queue) \cup InflightWork) \cap Gone = {}
    /\ Elems(queue) \cup InflightWork \cup HandledWork \cup Gone
          = (1..seeds) \X (1..CorpusSize)

LEMMA HandledSum == HandledWork = UNION {Handled(q) : q \in Peer}
BY DEF HandledWork, Handled

LEMMA PlacesImplied ==
    PlaceInv => OnePlace /\ NothingSlipsAway
<1> SUFFICES ASSUME PlaceInv PROVE OnePlace /\ NothingSlipsAway
  OBVIOUS
<1>1. \A p, q \in Peer : p # q /\ h[p].pc \in SubmitPC /\ h[q].pc \in SubmitPC
          => Elems(h[p].work) \cap Elems(h[q].work) = {}
  BY DEF PlaceInv, Handled
<1> QED BY <1>1 DEF PlaceInv, OnePlace, NothingSlipsAway, Once, Apart, Gone

LEMMA InitPlaces == Init => PlaceInv
<1> SUFFICES ASSUME Init PROVE PlaceInv
  OBVIOUS
<1>1. DOMAIN inflight = {} /\ DOMAIN queue = {}
  BY DEF Init
<1>2. Elems(queue) = {} /\ InflightWork = {} /\ Once(queue) /\ Apart
  BY <1>1 DEF Elems, InflightWork, Once, Apart
<1>3. \A q \in Peer : Handled(q) = {}
  BY DEF Init, NoRequest, SubmitPC, Handled
<1>4. HandledWork = {}
  BY <1>3, HandledSum
<1>5. Gone = {} /\ (1..seeds) \X (1..CorpusSize) = {}
  BY DEF Init, Gone
<1> QED BY <1>2, <1>3, <1>4, <1>5 DEF PlaceInv
-----------------------------------------------------------------------------
(* What a step does to the places. *)

SameTable ==
    /\ DOMAIN inflight' = DOMAIN inflight
    /\ \A b \in DOMAIN inflight : inflight'[b].work = inflight[b].work

SameHands == \A q \in Peer : Handled(q)' = Handled(q)

(* The hands of one handler change. *)
OtherHands(p) == \A q \in Peer : q # p => Handled(q)' = Handled(q)

LEMMA TableSame ==
    ASSUME SameTable
    PROVE  InflightWork' = InflightWork /\ (Apart => Apart')
<1>1. /\ DOMAIN inflight' = DOMAIN inflight
      /\ \A b \in DOMAIN inflight : inflight'[b].work = inflight[b].work
  BY DEF SameTable
<1>2. \A b \in DOMAIN inflight :
        /\ Elems(inflight'[b].work) = Elems(inflight[b].work)
        /\ Once(inflight'[b].work) = Once(inflight[b].work)
  BY <1>1 DEF Elems, Once
<1>3. InflightWork' = InflightWork
  BY <1>1, <1>2 DEF InflightWork
<1>4. Apart => Apart'
  BY <1>1, <1>2 DEF Apart
<1> QED BY <1>3, <1>4

LEMMA HandsSame ==
    ASSUME SameHands
    PROVE  /\ HandledWork' = HandledWork
           /\ (\A p, q \in Peer : p # q => Handled(p) \cap Handled(q) = {})
                 => \A p, q \in Peer : p # q => (Handled(p) \cap Handled(q))' = {}
<1>1. HandledWork' = UNION {Handled(q)' : q \in Peer}
  BY DEF HandledWork, Handled
<1> QED BY <1>1, HandledSum DEF SameHands

(* Nothing moves. *)
LEMMA StillPlaces ==
    ASSUME PlaceInv, SameTable, SameHands, UNCHANGED <<queue, seeds, merged, refused, forgotten>>
    PROVE  PlaceInv'
<1>1. Gone' = Gone /\ Elems(queue') = Elems(queue) /\ (Once(queue))'
  BY DEF Gone, PlaceInv, Once
<1>2. InflightWork' = InflightWork /\ Apart'
  BY TableSame DEF PlaceInv
<1>3. /\ HandledWork' = HandledWork
      /\ \A p, q \in Peer : p # q => (Handled(p) \cap Handled(q))' = {}
  BY HandsSame DEF PlaceInv
<1>4. Elems(queue)' = Elems(queue)
  BY DEF Elems
<1> QED BY <1>1, <1>2, <1>3, <1>4 DEF PlaceInv

(* Work read from the corpus is new. *)
LEMMA FillPlaces ==
    ASSUME TypeInv, PlaceInv, SameTable, SameHands, UNCHANGED <<merged, refused, forgotten>>,
           seeds' = seeds + 1,
           queue' = queue \o [i \in 1..CorpusSize |-> <<seeds', i>>]
    PROVE  /\ PlaceInv'
           /\ \E W : /\ W \cap (Elems(queue) \cup InflightWork \cup HandledWork \cup Gone) = {}
                     /\ Elems(queue)' = Elems(queue) \cup W
                     /\ W \subseteq (1..seeds') \X (1..CorpusSize)
<1> DEFINE new == [i \in 1..CorpusSize |-> <<seeds', i>>]
           W == {seeds'} \X (1..CorpusSize)
<1>1. seeds \in Nat /\ seeds' \in Nat /\ queue \in Seq(Work) /\ CorpusSize \in Nat
  BY CorpusAssumption DEF TypeInv, QueueTypes
<1>2. new \in Seq(Work) /\ Elems(new) = W /\ Once(new)
  <2>1. new \in Seq(Work)
    BY <1>1, NewWork
  <2>2. DOMAIN new = 1..CorpusSize /\ \A i \in 1..CorpusSize : new[i] = <<seeds', i>>
    OBVIOUS
  <2> HIDE DEF new
  <2>3. Elems(new) = {<<seeds', i>> : i \in 1..CorpusSize}
    BY <2>2 DEF Elems
  <2>4. {<<seeds', i>> : i \in 1..CorpusSize} = W
    OBVIOUS
  <2>5. Once(new)
    BY <2>2 DEF Once
  <2> QED BY <2>1, <2>3, <2>4, <2>5
<1>3. /\ (1..seeds') \X (1..CorpusSize) = ((1..seeds) \X (1..CorpusSize)) \cup W
      /\ ((1..seeds) \X (1..CorpusSize)) \cap W = {}
  <2>1. 1..seeds' = (1..seeds) \cup {seeds'} /\ seeds' \notin 1..seeds
    BY <1>1
  <2> QED BY <2>1
<1>4. W \cap (Elems(queue) \cup InflightWork \cup HandledWork \cup Gone) = {}
  <2> HIDE DEF W
  <2> QED BY <1>3 DEF PlaceInv
<1> HIDE DEF new, W
<1>5. /\ Elems(queue \o new) = Elems(queue) \cup W
      /\ Once(queue \o new)
  BY <1>1, <1>2, <1>4, ConcatElems DEF PlaceInv
<1>6. queue' = queue \o new
  BY DEF new
<1>7. Elems(queue)' = Elems(queue) \cup W /\ (Once(queue))'
  BY <1>5, <1>6 DEF Elems, Once
<1>8. InflightWork' = InflightWork /\ Apart' /\ Gone' = Gone
  BY TableSame DEF PlaceInv, Gone
<1>9. /\ HandledWork' = HandledWork
      /\ \A p, q \in Peer : p # q => (Handled(p) \cap Handled(q))' = {}
  BY HandsSame DEF PlaceInv
<1> QED BY <1>3, <1>4, <1>7, <1>8, <1>9 DEF PlaceInv

(* What the store took, was refused or is forgotten, of one handler's work. *)
LEMMA LeavePlaces ==
    ASSUME PlaceInv, NEW p \in Peer, SameTable, OtherHands(p), UNCHANGED <<queue, seeds>>,
           Handled(p)' \in {Handled(p), {}}, Gone' = Gone \cup Handled(p)
    PROVE  /\ PlaceInv' /\ InflightWork' = InflightWork /\ Elems(queue)' = Elems(queue)
           /\ HandledWork' \subseteq HandledWork /\ HandledWork \ Handled(p) \subseteq HandledWork'
           /\ Handled(p) \subseteq HandledWork
           /\ HandledWork' = HandledWork \/ HandledWork' = HandledWork \ Handled(p)
<1>1. InflightWork' = InflightWork /\ Apart'
  BY TableSame DEF PlaceInv
<1>2. Elems(queue)' = Elems(queue) /\ (Once(queue))'
  BY DEF PlaceInv, Once, Elems
<1>3. /\ HandledWork = UNION {Handled(q) : q \in Peer}
      /\ HandledWork' = UNION {Handled(q)' : q \in Peer}
  BY DEF HandledWork, Handled
<1>4. \A q, r \in Peer : q # r => Handled(q)' \cap Handled(r)' = {}
  BY DEF PlaceInv, OtherHands
<1>5. Handled(p) \subseteq HandledWork
  BY <1>3
<1>6. HandledWork' = HandledWork \/ HandledWork' = HandledWork \ Handled(p)
  <2>1. CASE Handled(p)' = Handled(p)
    BY <1>3, <2>1 DEF OtherHands
  <2>2. CASE Handled(p)' = {}
    <3>1. \A q \in Peer : Handled(q)' = Handled(q) \ Handled(p)
      BY <2>2 DEF OtherHands, PlaceInv
    <3> QED BY <1>3, <3>1
  <2> QED BY <2>1, <2>2
<1>7. (\A q, r \in Peer : q # r => Handled(q) \cap Handled(r) = {})'
  BY <1>4
<1>8. /\ Elems(queue) \cap HandledWork' = {} /\ InflightWork \cap HandledWork' = {}
      /\ (Elems(queue) \cup InflightWork) \cap Gone' = {}
      /\ Elems(queue) \cup InflightWork \cup HandledWork' \cup Gone'
            = (1..seeds) \X (1..CorpusSize)
  BY <1>5, <1>6 DEF PlaceInv
<1> QED BY <1>1, <1>2, <1>5, <1>6, <1>7, <1>8 DEF PlaceInv

(* A batch leaves the table. *)
LEMMA TableShorter ==
    ASSUME PlaceInv, NEW B \in SUBSET DOMAIN inflight,
           inflight' = [c \in DOMAIN inflight \ B |-> inflight[c]]
    PROVE  LET W == UNION {Elems(inflight[b].work) : b \in B}
           IN  Apart' /\ InflightWork' = InflightWork \ W /\ W \subseteq InflightWork
<1> DEFINE In(b) == Elems(inflight[b].work)
           W == UNION {In(b) : b \in B}
<1>1. /\ DOMAIN inflight' = DOMAIN inflight \ B
      /\ \A c \in DOMAIN inflight \ B : inflight'[c] = inflight[c]
  OBVIOUS
<1>2. Apart'
  BY <1>1 DEF PlaceInv, Apart, Once, Elems
<1>3. InflightWork' = UNION {In(b) : b \in DOMAIN inflight \ B}
  BY <1>1 DEF InflightWork, Elems
<1>4. InflightWork = UNION {In(b) : b \in DOMAIN inflight}
  BY DEF InflightWork
<1>5. \A b \in DOMAIN inflight \ B, c \in B : In(b) \cap In(c) = {}
  BY DEF PlaceInv, Apart
<1> HIDE DEF In
<1>6. InflightWork' = InflightWork \ W /\ W \subseteq InflightWork
  BY <1>3, <1>4, <1>5
<1> QED BY <1>2, <1>6 DEF In

(* Stale batches go back to the queue. *)
LEMMA ReclaimPlaces ==
    ASSUME TypeInv, PlaceInv, Reclaim, SameHands,
           UNCHANGED <<seeds, merged, refused, forgotten>>
    PROVE  /\ PlaceInv' /\ HandledWork' = HandledWork
           /\ \E W : /\ W \subseteq InflightWork /\ InflightWork' = InflightWork \ W
                     /\ Elems(queue)' = Elems(queue) \cup W
<1> DEFINE W == UNION {Elems(inflight[b].work) : b \in StaleBatches}
<1>1. /\ queue' = StaleFront \o queue
      /\ inflight' = [b \in DOMAIN inflight \ StaleBatches |-> inflight[b]]
      /\ StaleBatches \in SUBSET DOMAIN inflight
  BY DEF Reclaim, StaleBatches
<1>2. Apart' /\ InflightWork' = InflightWork \ W /\ W \subseteq InflightWork
  BY <1>1, TableShorter
<1>3. StaleFront \in Seq(Work) /\ Elems(StaleFront) = W /\ Once(StaleFront)
  BY StaleFrontHas DEF PlaceInv
<1> HIDE DEF W
<1>4. queue \in Seq(Work) /\ Once(queue) /\ W \cap Elems(queue) = {}
  BY <1>2 DEF TypeInv, QueueTypes, PlaceInv
<1>5. Elems(StaleFront \o queue) = W \cup Elems(queue) /\ Once(StaleFront \o queue)
  BY <1>3, <1>4, ConcatElems
<1>6. Elems(queue)' = Elems(queue) \cup W /\ (Once(queue))'
  BY <1>1, <1>5 DEF Elems, Once
<1>7. /\ HandledWork' = HandledWork
      /\ \A p, q \in Peer : p # q => (Handled(p) \cap Handled(q))' = {}
  BY HandsSame DEF PlaceInv
<1>8. Gone' = Gone
  BY DEF Gone
<1>9. /\ Elems(queue)' \cap (InflightWork' \cup HandledWork) = {} /\ InflightWork' \cap HandledWork = {}
      /\ (Elems(queue)' \cup InflightWork') \cap Gone = {}
      /\ Elems(queue)' \cup InflightWork' \cup HandledWork \cup Gone
            = (1..seeds) \X (1..CorpusSize)
  BY <1>2, <1>6 DEF PlaceInv
<1> QED BY <1>2, <1>6, <1>7, <1>8, <1>9 DEF PlaceInv

(* The front of the queue becomes a batch. *)
LEMMA ClaimPopPlaces ==
    ASSUME TypeInv, PlaceInv, NEW p \in Peer, ClaimPop(p)
    PROVE  /\ PlaceInv' /\ HandledWork' = HandledWork
           /\ \E W : /\ W \subseteq Elems(queue) /\ Elems(queue)' = Elems(queue) \ W
                     /\ InflightWork' = InflightWork \cup W
<1> DEFINE n == Shorter(ClaimSize, Len(queue))
           b == Cardinality(Claimed) + 1
           work == SubSeq(queue, 1, n)
           rest == SubSeq(queue, n + 1, Len(queue))
           W == Elems(work)
<1>1. /\ h[p].pc = "pop" /\ queue # <<>> /\ queue' = rest
      /\ inflight' = [c \in DOMAIN inflight \cup {b} |->
                         IF c = b THEN [peer |-> p, work |-> work, stale |-> FALSE]
                         ELSE inflight[c]]
      /\ h' = [h EXCEPT ![p].pc = "burn_check", ![p].batch = b]
      /\ UNCHANGED <<merged, refused, forgotten, seeds>>
  BY DEF ClaimPop, At, files
<1>2. queue \in Seq(Work) /\ n \in 1..Len(queue)
  BY <1>1, PopWork DEF TypeInv, QueueTypes
<1>3. b \notin DOMAIN inflight
  BY NextBatch DEF TypeInv, Holding
<1>4. /\ Elems(queue) = W \cup Elems(rest) /\ W \cap Elems(rest) = {}
      /\ Once(work) /\ Once(rest)
  <2> HIDE DEF n
  <2>1. Once(queue)
    BY DEF PlaceInv
  <2> QED BY <1>2, <2>1, PopElems
<1> HIDE DEF n, b, work, rest
<1>5. Elems(queue)' = Elems(queue) \ W /\ (Once(queue))'
  <2>1. Elems(queue)' = Elems(rest) /\ (Once(queue))'
    BY <1>1, <1>4 DEF Elems, Once
  <2> QED BY <1>4, <2>1
<1>6. /\ DOMAIN inflight' = DOMAIN inflight \cup {b} /\ inflight'[b].work = work
      /\ \A c \in DOMAIN inflight : c # b /\ inflight'[c] = inflight[c]
  BY <1>1, <1>3
<1>7. InflightWork' = InflightWork \cup W
  <2>1. InflightWork' = UNION {Elems(inflight'[c].work) : c \in DOMAIN inflight \cup {b}}
    BY <1>6 DEF InflightWork, Elems
  <2>2. InflightWork = UNION {Elems(inflight[c].work) : c \in DOMAIN inflight}
    BY DEF InflightWork
  <2> HIDE DEF W
  <2>3. Elems(inflight'[b].work) = W /\ \A c \in DOMAIN inflight : Elems(inflight'[c].work) = Elems(inflight[c].work)
    BY <1>6 DEF W
  <2> QED BY <2>1, <2>2, <2>3
<1>8. Apart'
  <2>1. \A c \in DOMAIN inflight : Elems(inflight[c].work) \cap W = {}
    <3>1. \A c \in DOMAIN inflight : Elems(inflight[c].work) \subseteq InflightWork
      BY DEF InflightWork
    <3> HIDE DEF W
    <3> QED BY <1>4, <3>1 DEF PlaceInv
  <2>2. Elems(inflight'[b].work) = W /\ Once(inflight'[b].work)
    BY <1>4, <1>6
  <2>3. \A c \in DOMAIN inflight : inflight'[c] = inflight[c] /\ Once(inflight[c].work)
    BY <1>6 DEF PlaceInv, Apart
  <2>4. \A c, d \in DOMAIN inflight :
           c # d => Elems(inflight[c].work) \cap Elems(inflight[d].work) = {}
    BY DEF PlaceInv, Apart
  <2> HIDE DEF W
  <2>5. \A c \in DOMAIN inflight' : Once(inflight'[c].work)
    BY <1>6, <2>2, <2>3
  <2>6. ASSUME NEW c \in DOMAIN inflight', NEW d \in DOMAIN inflight', c # d
        PROVE  Elems(inflight'[c].work) \cap Elems(inflight'[d].work) = {}
    <3>1. CASE c = b
      BY <1>6, <2>1, <2>2, <2>3, <2>6, <3>1
    <3>2. CASE d = b
      BY <1>6, <2>1, <2>2, <2>3, <2>6, <3>2
    <3>3. CASE c # b /\ d # b
      BY <1>6, <2>3, <2>4, <2>6, <3>3
    <3> QED BY <3>1, <3>2, <3>3
  <2> QED BY <2>5, <2>6 DEF Apart, Once, Elems
<1>9. SameHands
  BY <1>1 DEF SameHands, Handled, SubmitPC, TypeInv, Request, Elems
<1>10. /\ HandledWork' = HandledWork
       /\ \A q, r \in Peer : q # r => (Handled(q) \cap Handled(r))' = {}
  BY <1>9, HandsSame DEF PlaceInv
<1>11. Gone' = Gone
  BY <1>1 DEF Gone
<1> HIDE DEF W
<1>12. W \subseteq Elems(queue)
  BY <1>4
<1>13. /\ Elems(queue)' \cap (InflightWork' \cup HandledWork) = {} /\ InflightWork' \cap HandledWork = {}
       /\ (Elems(queue)' \cup InflightWork') \cap Gone = {}
       /\ Elems(queue)' \cup InflightWork' \cup HandledWork \cup Gone
             = (1..seeds) \X (1..CorpusSize)
  BY <1>5, <1>7, <1>12 DEF PlaceInv
<1> QED BY <1>1, <1>5, <1>7, <1>8, <1>10, <1>11, <1>12, <1>13 DEF PlaceInv

(* A batch is refused to a foreign peer, and does not come back. *)
LEMMA SubmitForeignPlaces ==
    ASSUME TypeInv, PlaceInv, NEW p \in Peer, SubmitForeign(p)
    PROVE  /\ PlaceInv' /\ HandledWork' = HandledWork /\ Elems(queue)' = Elems(queue)
           /\ \E W : /\ W \subseteq InflightWork /\ InflightWork' = InflightWork \ W
                     /\ refused' = refused \cup W /\ merged' = merged
<1> DEFINE b == h[p].batch
           W == UNION {Elems(inflight[c].work) : c \in {b}}
<1>1. /\ h[p].pc = "sub_pop" /\ {b} \in SUBSET DOMAIN inflight
      /\ inflight' = [c \in DOMAIN inflight \ {b} |-> inflight[c]]
      /\ refused' = refused \cup Elems(inflight[b].work)
      /\ SubmitAnswered(p)
      /\ UNCHANGED <<queue, merged, forgotten, seeds>>
  BY DEF SubmitForeign, At, files
<1> HIDE DEF b
<1>2. Apart' /\ InflightWork' = InflightWork \ W /\ W \subseteq InflightWork
  BY <1>1, TableShorter
<1>3. W = Elems(inflight[b].work)
  OBVIOUS
<1> HIDE DEF W
<1>4. refused' = refused \cup W /\ Gone' = Gone \cup W
  BY <1>1, <1>3 DEF Gone
<1>5. SameHands
  <2>1. h[p].work = <<>> /\ Handled(p) = {}
    BY <1>1 DEF TypeInv, Holding, Handled, Elems
  <2>2. /\ h'[p] = NoRequest /\ NoRequest.pc = "none"
        /\ \A q \in Peer : q # p => h'[q] = h[q]
    BY <1>1, SubmitAnsweredTypes, AnsweredTypes DEF TypeInv
  <2> QED BY <2>1, <2>2 DEF SameHands, Handled, SubmitPC, Elems
<1>6. /\ HandledWork' = HandledWork
      /\ \A q, r \in Peer : q # r => (Handled(q) \cap Handled(r))' = {}
  BY <1>5, HandsSame DEF PlaceInv
<1>7. Elems(queue)' = Elems(queue) /\ (Once(queue))'
  BY <1>1 DEF PlaceInv, Once, Elems
<1>8. /\ Elems(queue) \cap (InflightWork' \cup HandledWork) = {} /\ InflightWork' \cap HandledWork = {}
      /\ (Elems(queue) \cup InflightWork') \cap Gone' = {}
      /\ Elems(queue) \cup InflightWork' \cup HandledWork \cup Gone'
            = (1..seeds) \X (1..CorpusSize)
  BY <1>2, <1>4 DEF PlaceInv
<1> QED BY <1>1, <1>2, <1>4, <1>6, <1>7, <1>8 DEF PlaceInv

(* A batch goes from the table to the handler of its peer. *)
LEMMA SubmitPopPlaces ==
    ASSUME TypeInv, PlaceInv, NEW p \in Peer, SubmitPop(p)
    PROVE  /\ PlaceInv' /\ Elems(queue)' = Elems(queue)
           /\ \E W : /\ W \subseteq InflightWork /\ InflightWork' = InflightWork \ W
                     /\ HandledWork' = HandledWork \cup W
<1> DEFINE b == h[p].batch
           W == UNION {Elems(inflight[c].work) : c \in {b}}
<1>1. /\ h[p].pc = "sub_pop" /\ {b} \in SUBSET DOMAIN inflight
      /\ inflight' = [c \in DOMAIN inflight \ {b} |-> inflight[c]]
      /\ h' = [h EXCEPT ![p].pc = "outcome", ![p].work = inflight[b].work]
      /\ UNCHANGED <<queue, merged, refused, forgotten, seeds>>
  BY DEF SubmitPop, At, files, past
<1> HIDE DEF b
<1>2. Apart' /\ InflightWork' = InflightWork \ W /\ W \subseteq InflightWork
  BY <1>1, TableShorter
<1>3. W = Elems(inflight[b].work)
  OBVIOUS
<1> HIDE DEF W
<1>4. /\ Handled(p) = {} /\ Handled(p)' = W
      /\ \A q \in Peer : q # p => Handled(q)' = Handled(q)
  <2>1. h[p].work = <<>> /\ Handled(p) = {}
    BY <1>1 DEF TypeInv, Holding, Handled, Elems
  <2>2. h'[p].pc = "outcome" /\ h'[p].work = inflight[b].work
    BY <1>1 DEF TypeInv, Request
  <2>3. \A q \in Peer : q # p => h'[q] = h[q]
    BY <1>1 DEF TypeInv
  <2> QED BY <1>3, <2>1, <2>2, <2>3 DEF Handled, SubmitPC, Elems
<1>5. /\ HandledWork = UNION {Handled(q) : q \in Peer}
      /\ HandledWork' = UNION {Handled(q)' : q \in Peer}
  BY DEF HandledWork, Handled
<1>6. HandledWork' = HandledWork \cup W
  BY <1>4, <1>5
<1>7. \A q \in Peer : Handled(q) \subseteq HandledWork
  BY <1>5
<1>8. \A q, r \in Peer : q # r => Handled(q)' \cap Handled(r)' = {}
  BY <1>2, <1>4, <1>7 DEF PlaceInv
<1>9. (\A q, r \in Peer : q # r => Handled(q) \cap Handled(r) = {})'
  BY <1>8
<1>10. Elems(queue)' = Elems(queue) /\ (Once(queue))' /\ Gone' = Gone
  BY <1>1 DEF PlaceInv, Once, Elems, Gone
<1>11. /\ Elems(queue) \cap (InflightWork' \cup HandledWork') = {} /\ InflightWork' \cap HandledWork' = {}
       /\ (Elems(queue) \cup InflightWork') \cap Gone = {}
       /\ Elems(queue) \cup InflightWork' \cup HandledWork' \cup Gone
             = (1..seeds) \X (1..CorpusSize)
  BY <1>2, <1>6 DEF PlaceInv
<1> QED BY <1>1, <1>2, <1>6, <1>9, <1>10, <1>11 DEF PlaceInv

(* A restart forgets what was waiting, handed out or being handled. *)
LEMMA RestartPlaces ==
    ASSUME TypeInv, PlaceInv, Restart
    PROVE  /\ PlaceInv' /\ Elems(queue)' = {} /\ InflightWork' = {} /\ HandledWork' = {}
           /\ merged' = merged /\ refused' = refused
<1>1. /\ queue' = <<>> /\ inflight' = <<>> /\ h' = [p \in Peer |-> NoRequest]
      /\ forgotten' = forgotten \cup Elems(queue) \cup InflightWork
                        \cup (HandledWork \ (refused \cup merged))
      /\ merged' = merged /\ refused' = refused /\ seeds' = seeds
  BY DEF Restart, files
<1>2. DOMAIN inflight' = {} /\ DOMAIN queue' = {}
  BY <1>1
<1>3. Elems(queue)' = {} /\ InflightWork' = {} /\ (Once(queue))' /\ Apart'
  BY <1>2 DEF Elems, InflightWork, Once, Apart
<1>4. \A q \in Peer : Handled(q)' = {}
  BY <1>1 DEF NoRequest, SubmitPC, Handled
<1>5. HandledWork' = {}
  <2>1. HandledWork' = UNION {Handled(q)' : q \in Peer}
    BY DEF HandledWork, Handled
  <2> QED BY <1>4, <2>1
<1>6. (\A q, r \in Peer : q # r => Handled(q) \cap Handled(r) = {})'
  BY <1>4
<1>7. Gone' = Elems(queue) \cup InflightWork \cup HandledWork \cup Gone
  BY <1>1 DEF Gone
<1>8. Gone' = (1..seeds') \X (1..CorpusSize)
  BY <1>1, <1>7 DEF PlaceInv
<1> QED BY <1>1, <1>3, <1>5, <1>6, <1>8 DEF PlaceInv
-----------------------------------------------------------------------------
(* Every step keeps the places, and is a step of the abstract pool. *)

Settled == merged \cup refused
Out == InflightWork \cup (HandledWork \ Settled)

PoolStays == Elems(queue)' = Elems(queue) /\ Out' = Out /\ Settled' = Settled

PoolMoves(W) ==
    \/ /\ W \cap (Elems(queue) \cup Out \cup Settled) = {}
       /\ Elems(queue)' = Elems(queue) \cup W /\ Out' = Out /\ Settled' = Settled
    \/ /\ W \subseteq Elems(queue)
       /\ Elems(queue)' = Elems(queue) \ W /\ Out' = Out \cup W /\ Settled' = Settled
    \/ /\ W \subseteq Out
       /\ Out' = Out \ W /\ Elems(queue)' = Elems(queue) \cup W /\ Settled' = Settled
    \/ /\ W \subseteq Out
       /\ Out' = Out \ W /\ Settled' = Settled \cup W /\ Elems(queue)' = Elems(queue)

PoolForgets == Elems(queue)' = {} /\ Out' = {} /\ Settled' = Settled

PoolStep ==
    \/ PoolStays \/ PoolForgets
    \/ \E W \in SUBSET ((1..seeds') \X (1..CorpusSize)) : PoolMoves(W)

LEMMA StillStep ==
    ASSUME PlaceInv, SameTable, SameHands, UNCHANGED <<queue, seeds, merged, refused, forgotten>>
    PROVE  PlaceInv' /\ PoolStep
<1>1. InflightWork' = InflightWork /\ HandledWork' = HandledWork
  BY TableSame, HandsSame
<1>2. Elems(queue)' = Elems(queue)
  BY DEF Elems
<1> QED BY <1>1, <1>2, StillPlaces DEF PoolStep, PoolStays, Out, Settled

(* A handler that goes on has the work it had; one that is answered, and   *)
(* one before its batch was popped, has none.                              *)
LEMMA GotoHands ==
    ASSUME TypeInv, NEW p \in Peer, NEW x \in HandlerPC, Goto(p, x)
    PROVE  /\ OtherHands(p)
           /\ h[p].pc \in SubmitPC /\ x \in SubmitPC => Handled(p)' = Handled(p)
           /\ h[p].pc \notin SubmitPC /\ x \notin SubmitPC => SameHands
<1>1. /\ h'[p].pc = x /\ h'[p].work = h[p].work
      /\ \A q \in Peer : q # p => h'[q] = h[q]
  BY GotoTypes DEF TypeInv
<1> QED BY <1>1 DEF OtherHands, SameHands, Handled, Elems

LEMMA AnsweredHands ==
    ASSUME TypeInv, NEW p \in Peer, Answered(p)
    PROVE  OtherHands(p) /\ Handled(p)' = {} /\ (Handled(p) = {} => SameHands)
<1>1. /\ h'[p] = NoRequest /\ NoRequest.pc = "none"
      /\ \A q \in Peer : q # p => h'[q] = h[q]
  BY AnsweredTypes DEF TypeInv
<1> QED BY <1>1 DEF OtherHands, SameHands, Handled, SubmitPC, Elems

LEMMA TableKept == inflight' = inflight => SameTable
BY DEF SameTable

LEMMA SeedStep ==
    ASSUME TypeInv, PlaceInv, NEW p \in Peer,
           RegisterCheck(p) \/ RegisterCommit(p) \/ SeedSkip(p) \/ SeedRead(p) \/ SeedFill(p)
    PROVE  PlaceInv' /\ PoolStep
<1>1. h[p].pc \in {"reg_check", "reg_commit"} \cup SeedPC /\ Handled(p) = {}
  BY DEF RegisterCheck, RegisterCommit, SeedSkip, SeedRead, SeedFill, At, SeedPC, SubmitPC, Handled
<1>2. SameHands
  <2>1. \/ Answered(p)
        \/ \E x \in HandlerPC \ SubmitPC : Goto(p, x)
    BY DEF RegisterCheck, RegisterCommit, SeedSkip, SeedRead, SeedFill, EndSeed, AfterSeed,
           HandlerPC, SeedPC, ClaimPC, SubmitPC
  <2>2. h[p].pc \notin SubmitPC
    BY <1>1 DEF SeedPC, SubmitPC
  <2> QED BY <1>1, <2>1, <2>2, GotoHands, AnsweredHands
<1>3. UNCHANGED <<inflight, merged, refused, forgotten>>
  BY DEF RegisterCheck, RegisterCommit, SeedSkip, SeedRead, SeedFill, pool, files, past
<1>4. CASE SeedFill(p)
  <2>1. /\ seeds' = seeds + 1
        /\ queue' = queue \o [i \in 1..CorpusSize |-> <<seeds', i>>]
    BY <1>4 DEF SeedFill
  <2>2. PICK W : /\ W \cap (Elems(queue) \cup InflightWork \cup HandledWork \cup Gone) = {}
                 /\ Elems(queue)' = Elems(queue) \cup W
                 /\ W \subseteq (1..seeds') \X (1..CorpusSize)
    BY <1>2, <1>3, <2>1, FillPlaces, TableKept
  <2>3. InflightWork' = InflightWork /\ HandledWork' = HandledWork
    BY <1>2, <1>3, TableSame, HandsSame, TableKept
  <2>4. W \cap (Elems(queue) \cup Out \cup Settled) = {} /\ Out' = Out /\ Settled' = Settled
    BY <1>3, <2>2, <2>3 DEF Out, Settled, Gone
  <2>5. PoolMoves(W)
    BY <2>2, <2>4 DEF PoolMoves
  <2> QED BY <1>2, <1>3, <2>1, <2>2, <2>5, FillPlaces, TableKept DEF PoolStep
<1>5. CASE ~SeedFill(p)
  <2>1. UNCHANGED <<queue, seeds>>
    BY <1>5 DEF RegisterCheck, RegisterCommit, SeedSkip, SeedRead, pool, past
  <2> QED BY <1>2, <1>3, <2>1, StillStep, TableKept
<1> QED BY <1>4, <1>5

LEMMA ReclaimStep ==
    ASSUME TypeInv, PlaceInv, Reclaim, SameHands,
           UNCHANGED <<seeds, merged, refused, forgotten>>
    PROVE  PlaceInv' /\ PoolStep
<1>1. PlaceInv' /\ HandledWork' = HandledWork
  BY ReclaimPlaces
<1>2. PICK W : /\ W \subseteq InflightWork /\ InflightWork' = InflightWork \ W
               /\ Elems(queue)' = Elems(queue) \cup W
  BY ReclaimPlaces
<1>3. W \subseteq Out /\ Out' = Out \ W /\ Settled' = Settled
  BY <1>1, <1>2 DEF Out, Settled, PlaceInv
<1>4. W \in SUBSET ((1..seeds') \X (1..CorpusSize))
  BY <1>2 DEF PlaceInv
<1> QED BY <1>1, <1>2, <1>3, <1>4 DEF PoolStep, PoolMoves

LEMMA ClaimStep ==
    ASSUME TypeInv, PlaceInv, NEW p \in Peer,
           \/ ClaimReclaim(p) \/ ClaimLimit(p) \/ ClaimNothing(p) \/ ClaimPop(p)
           \/ BurnCheck(p) \/ Burn(p) \/ ClaimReply(p)
    PROVE  PlaceInv' /\ PoolStep
<1>1. CASE ClaimPop(p)
  <2>1. PlaceInv' /\ HandledWork' = HandledWork
    BY <1>1, ClaimPopPlaces
  <2>2. PICK W : /\ W \subseteq Elems(queue) /\ Elems(queue)' = Elems(queue) \ W
                 /\ InflightWork' = InflightWork \cup W
    BY <1>1, ClaimPopPlaces
  <2>3. UNCHANGED <<merged, refused, seeds>>
    BY <1>1 DEF ClaimPop, files
  <2>4. Out' = Out \cup W /\ Settled' = Settled
    BY <2>1, <2>2, <2>3 DEF Out, Settled
  <2>5. W \in SUBSET ((1..seeds') \X (1..CorpusSize))
    BY <2>2, <2>3 DEF PlaceInv
  <2> QED BY <2>1, <2>2, <2>4, <2>5 DEF PoolStep, PoolMoves
<1>2. CASE ~ClaimPop(p)
  <2>1. h[p].pc \in ClaimPC /\ h[p].pc \notin SubmitPC /\ Handled(p) = {}
    BY <1>2 DEF ClaimReclaim, ClaimLimit, ClaimNothing, BurnCheck, Burn, ClaimReply, At,
                ClaimPC, SubmitPC, Handled
  <2>2. \/ Answered(p)
        \/ \E x \in HandlerPC \ SubmitPC : Goto(p, x)
    BY <1>2 DEF ClaimReclaim, ClaimLimit, ClaimNothing, BurnCheck, Burn, ClaimReply,
                HandlerPC, ClaimPC, SubmitPC
  <2>3. SameHands
    BY <2>1, <2>2, GotoHands, AnsweredHands
  <2>4. UNCHANGED <<seeds, merged, refused, forgotten>>
    BY <1>2 DEF ClaimReclaim, ClaimLimit, ClaimNothing, BurnCheck, Burn, ClaimReply, files, past
  <2>5. CASE ClaimReclaim(p)
    BY <2>3, <2>4, <2>5, ReclaimStep DEF ClaimReclaim
  <2>6. CASE ~ClaimReclaim(p)
    <3>1. UNCHANGED <<queue, inflight>>
      BY <1>2, <2>6 DEF ClaimLimit, ClaimNothing, BurnCheck, Burn, ClaimReply, pool
    <3> QED BY <2>3, <2>4, <3>1, StillStep, TableKept
  <2> QED BY <2>5, <2>6
<1> QED BY <1>1, <1>2

(* A handler's work is settled. *)
LEMMA SettleStep ==
    ASSUME PlaceInv, NEW p \in Peer, SameTable, OtherHands(p),
           UNCHANGED <<queue, seeds, forgotten>>,
           Handled(p)' \in {Handled(p), {}}, Settled' = Settled \cup Handled(p)
    PROVE  PlaceInv' /\ PoolStep
<1>1. Gone' = Gone \cup Handled(p)
  BY DEF Gone, Settled
<1>2. /\ PlaceInv' /\ InflightWork' = InflightWork /\ Elems(queue)' = Elems(queue)
      /\ Handled(p) \subseteq HandledWork
      /\ HandledWork' = HandledWork \/ HandledWork' = HandledWork \ Handled(p)
  BY <1>1, LeavePlaces
<1> DEFINE W == Handled(p) \ Settled
<1>3. W \subseteq Out /\ Settled' = Settled \cup W
  BY <1>2 DEF Out
<1>4. Out' = Out \ W
  <2>1. InflightWork \cap HandledWork = {}
    BY DEF PlaceInv
  <2> QED BY <1>2, <2>1 DEF Out
<1>5. W \in SUBSET ((1..seeds') \X (1..CorpusSize))
  <2>1. seeds' = seeds /\ HandledWork \subseteq (1..seeds) \X (1..CorpusSize)
    BY DEF PlaceInv
  <2> QED BY <1>2, <2>1
<1> HIDE DEF W
<1> QED BY <1>2, <1>3, <1>4, <1>5 DEF PoolStep, PoolMoves

LEMMA SubmitStep ==
    ASSUME TypeInv, PlaceInv, NEW p \in Peer,
           \/ SubmitUnknown(p) \/ SubmitForeign(p) \/ SubmitPop(p)
           \/ Outcome(p) \/ Mint(p) \/ Assess(p) \/ Merge(p) \/ Count(p)
    PROVE  PlaceInv' /\ PoolStep
<1>1. CASE SubmitUnknown(p)
  <2>1. Answered(p) /\ h[p].pc = "sub_pop"
    BY <1>1 DEF SubmitUnknown, SubmitAnswered, At
  <2>2. Handled(p) = {}
    BY <2>1 DEF TypeInv, Holding, Handled, Elems
  <2> QED BY <1>1, <2>1, <2>2, AnsweredHands, StillStep, TableKept DEF SubmitUnknown, pool, files, past
<1>2. CASE SubmitForeign(p)
  <2>1. PlaceInv' /\ HandledWork' = HandledWork /\ Elems(queue)' = Elems(queue)
    BY <1>2, SubmitForeignPlaces
  <2>2. PICK W : /\ W \subseteq InflightWork /\ InflightWork' = InflightWork \ W
                 /\ refused' = refused \cup W /\ merged' = merged
    BY <1>2, SubmitForeignPlaces
  <2>3. W \subseteq Out /\ Settled' = Settled \cup W
    BY <2>2 DEF Out, Settled
  <2>4. Out' = Out \ W
    BY <2>1, <2>2 DEF Out, Settled, PlaceInv
  <2>5. W \in SUBSET ((1..seeds') \X (1..CorpusSize))
    BY <1>2, <2>2 DEF PlaceInv, SubmitForeign
  <2> QED BY <2>1, <2>3, <2>4, <2>5 DEF PoolStep, PoolMoves
<1>3. CASE SubmitPop(p)
  <2>1. PlaceInv' /\ Elems(queue)' = Elems(queue)
    BY <1>3, SubmitPopPlaces
  <2>2. PICK W : /\ W \subseteq InflightWork /\ InflightWork' = InflightWork \ W
                 /\ HandledWork' = HandledWork \cup W
    BY <1>3, SubmitPopPlaces
  <2>3. Settled' = Settled
    BY <1>3 DEF SubmitPop, Settled, files, past
  <2>4. Out' = Out
    BY <2>2, <2>3 DEF Out, Settled, Gone, PlaceInv
  <2> QED BY <2>1, <2>3, <2>4 DEF PoolStep, PoolStays
<1>4. CASE Outcome(p) \/ Mint(p)
  <2>1. h[p].pc \in SubmitPC /\ \E x \in {"mint", "assess"} : Goto(p, x)
    BY <1>4 DEF Outcome, Mint, At, SubmitPC
  <2>2. SameHands
    <3>1. {"mint", "assess"} \subseteq HandlerPC /\ {"mint", "assess"} \subseteq SubmitPC
      BY DEF HandlerPC, SubmitPC
    <3>2. OtherHands(p) /\ Handled(p)' = Handled(p)
      BY <2>1, <3>1, GotoHands
    <3> QED BY <3>2 DEF OtherHands, SameHands
  <2> QED BY <1>4, <2>2, StillStep, TableKept DEF Outcome, Mint, pool, past
<1>5. CASE Assess(p) \/ Merge(p) \/ Count(p)
  <2>1. h[p].pc \in SubmitPC /\ Handled(p) = Elems(h[p].work)
    BY <1>5 DEF Assess, Merge, Count, At, SubmitPC, Handled
  <2>2. UNCHANGED <<queue, inflight, seeds, forgotten>>
    BY <1>5 DEF Assess, Merge, Count, pool, past
  <2>3. /\ OtherHands(p) /\ Handled(p)' \in {Handled(p), {}}
        /\ (\E x \in {"merge", "count"} : Goto(p, x)) => Handled(p)' = Handled(p)
    <3>1. \/ \E x \in {"merge", "count"} : Goto(p, x)
          \/ Answered(p)
      BY <1>5 DEF Assess, Merge, Count, SubmitAnswered
    <3>2. {"merge", "count"} \subseteq HandlerPC /\ {"merge", "count"} \subseteq SubmitPC
      BY DEF HandlerPC, SubmitPC
    <3> QED BY <2>1, <3>1, <3>2, GotoHands, AnsweredHands
  <2>4. CASE Settled' = Settled \cup Handled(p)
    BY <2>2, <2>3, <2>4, SettleStep, TableKept
  <2>5. CASE Settled' # Settled \cup Handled(p)
    <3>1. (\E x \in {"merge", "count"} : Goto(p, x)) /\ UNCHANGED <<merged, refused>>
      BY <1>5, <2>1, <2>5 DEF Assess, Merge, Count, Settled, files, past
    <3>2. SameHands
      BY <2>3, <3>1 DEF OtherHands, SameHands
    <3> QED BY <2>2, <3>1, <3>2, StillStep, TableKept
  <2> QED BY <2>4, <2>5
<1> QED BY <1>1, <1>2, <1>3, <1>4, <1>5

LEMMA AroundStep == ASSUME TypeInv, PlaceInv, Around PROVE PlaceInv' /\ PoolStep
<1>1. CASE \E p \in Peer : Send(p) \/ Start(p) \/ Die(p) \/ Release(p)
  <2>1. PICK p \in Peer : Send(p) \/ Start(p) \/ Die(p) \/ Release(p)
    BY <1>1
  <2>2. UNCHANGED <<queue, inflight, seeds, merged, refused, forgotten>>
    BY <2>1 DEF Send, SendRegister, GiveUpJoining, SendClaim, SendSubmit, Start, Die, Release,
                pool, files, past
  <2>3. SameHands
    <3>1. CASE SendRegister(p) \/ SendClaim(p)
      <4>1. Goto(p, "reg_check") \/ Goto(p, "claim_seed")
        BY <3>1 DEF SendRegister, SendClaim
      <4>2. h[p].pc \notin SubmitPC
        BY <3>1 DEF SendRegister, SendClaim, At, SubmitPC
      <4> QED BY <4>1, <4>2, GotoHands DEF HandlerPC, SeedPC, SubmitPC
    <3>2. CASE \E answer \in Answer : SendSubmit(p, answer)
      <4>1. Handled(p) = {}
        BY <3>2 DEF SendSubmit, At, Handled, SubmitPC
      <4>2. h'[p].work = <<>> /\ \A q \in Peer : q # p => h'[q] = h[q]
        BY <3>2 DEF SendSubmit, TypeInv
      <4>3. Handled(p)' = {}
        BY <4>2 DEF Handled, Elems
      <4>4. \A q \in Peer : q # p => Handled(q)' = Handled(q)
        BY <4>2 DEF Handled, Elems
      <4> QED BY <4>1, <4>3, <4>4 DEF SameHands
    <3>3. CASE GiveUpJoining(p) \/ Start(p) \/ Die(p) \/ Release(p)
      BY <3>3 DEF GiveUpJoining, Start, Die, Release, SameHands, Handled, Elems
    <3> QED BY <2>1, <3>1, <3>2, <3>3 DEF Send
  <2> QED BY <2>2, <2>3, StillStep, TableKept
<1>2. CASE \E b \in Claimed : Age(b)
  <2>1. PICK b \in DOMAIN inflight : Age(b)
    BY <1>2 DEF Age
  <2>2. /\ inflight' = [inflight EXCEPT ![b].stale = TRUE]
        /\ UNCHANGED <<queue, peers, seeded, h, files, worker, past>>
    BY <2>1 DEF Age
  <2>3. inflight[b] \in [peer : Peer, work : Seq(Work), stale : BOOLEAN]
    BY DEF TypeInv, TableTypes
  <2>4. SameTable
    BY <2>2, <2>3 DEF SameTable
  <2>5. SameHands
    BY <2>2 DEF SameHands, Handled, Elems
  <2> QED BY <2>2, <2>4, <2>5, StillStep DEF files, past
<1>3. CASE PoolStatus
  <2>1. Reclaim /\ SameHands /\ UNCHANGED <<seeds, merged, refused, forgotten>>
    BY <1>3 DEF PoolStatus, SameHands, Handled, Elems, files, past
  <2> QED BY <2>1, ReclaimStep
<1> QED BY <1>1, <1>2, <1>3 DEF Around

LEMMA StepPlaces == ASSUME TypeInv, PlaceInv, [Next]_vars PROVE PlaceInv' /\ PoolStep
<1>1. CASE \E p \in Peer : Handle(p)
  <2>1. PICK p \in Peer : Handle(p)
    BY <1>1
  <2> QED BY <2>1, SeedStep, ClaimStep, SubmitStep DEF Handle, HandleAlone
<1>2. CASE Around
  BY <1>2, AroundStep
<1>3. CASE Restart
  <2>1. /\ PlaceInv' /\ Elems(queue)' = {} /\ InflightWork' = {} /\ HandledWork' = {}
        /\ merged' = merged /\ refused' = refused
    BY <1>3, RestartPlaces
  <2> QED BY <2>1 DEF PoolStep, PoolForgets, Out, Settled
<1>4. CASE UNCHANGED vars
  <2>1. SameHands /\ SameTable
    BY <1>4 DEF vars, pool, SameHands, SameTable, Handled, Elems
  <2> QED BY <1>4, <2>1, StillStep DEF vars, pool, files, past
<1> QED BY <1>1, <1>2, <1>3, <1>4 DEF Next

LEMMA PlacesHold == Spec => [](TypeInv /\ PlaceInv)
<1>1. Init => TypeInv /\ PlaceInv
  BY InitTypes, InitPlaces
<1>2. TypeInv /\ PlaceInv /\ [Next]_vars => TypeInv' /\ PlaceInv'
  BY StepTypes, StepPlaces
<1> QED BY <1>1, <1>2, PTL DEF Spec

(* A late or repeated submission is never settled next to the peer the     *)
(* work was reclaimed for: at every moment a piece of work is in one place *)
(* only, the queue, one batch, one handler, or what is settled for good.   *)
THEOREM WorkIsInOnePlace == Spec => []OnePlace
<1>1. TypeInv /\ PlaceInv => OnePlace
  BY PlacesImplied
<1> QED BY <1>1, PlacesHold, PTL

(* Work read from the corpus never slips away: when its peer is silent, it *)
(* is in the table until a reclaim puts it back.                           *)
THEOREM NoWorkSlipsAway == Spec => []NothingSlipsAway
<1>1. TypeInv /\ PlaceInv => NothingSlipsAway
  BY PlacesImplied
<1> QED BY <1>1, PlacesHold, PTL
-----------------------------------------------------------------------------
(* The abstract pool. *)

Fillers == {p \in Peer : h[p].pc \in {"reg_fill", "claim_fill"}}

(* A handler that saw room for a filling may find it taken by others. *)
SeedRoom == seeds + Cardinality(Fillers) <= MaxSeeds + Cardinality(Peer)

LEMMA FillersFinite ==
    /\ IsFiniteSet(Peer) /\ Cardinality(Peer) \in Nat
    /\ IsFiniteSet(Fillers) /\ Cardinality(Fillers) \in Nat
    /\ Cardinality(Fillers) <= Cardinality(Peer)
<1>1. Fillers \subseteq Peer
  BY DEF Fillers
<1> QED BY <1>1, PeerAssumption, FS_Subset, FS_CardinalityType

LEMMA FewerFillers ==
    ASSUME TypeInv, SeedRoom, UNCHANGED seeds, Fillers' \subseteq Fillers
    PROVE  SeedRoom'
<1>1. Cardinality(Fillers') <= Cardinality(Fillers) /\ Cardinality(Fillers') \in Nat
  BY FillersFinite, FS_Subset, FS_CardinalityType
<1>2. Cardinality(Fillers)' = Cardinality(Fillers')
  OBVIOUS
<1> QED BY <1>1, <1>2, FillersFinite, PoolBoundAssumption DEF SeedRoom, TypeInv, QueueTypes

(* No handler but one that reads the queue to fill it becomes a filler. *)
LEMMA NoNewFiller ==
    ASSUME TypeInv, [Next]_vars, \A p \in Peer : ~SeedRead(p) /\ ~SeedFill(p)
    PROVE  UNCHANGED seeds /\ Fillers' \subseteq Fillers
<1>0. h \in [Peer -> Request]
  BY DEF TypeInv
<1>1. CASE \E p \in Peer : Handle(p)
  <2>1. PICK p \in Peer : Handle(p)
    BY <1>1
  <2>2. UNCHANGED seeds
    BY <2>1 DEF Handle, HandleAlone, RegisterCheck, RegisterCommit, SeedSkip, ClaimReclaim,
                ClaimLimit, ClaimNothing, ClaimPop, BurnCheck, Burn, ClaimReply, SubmitUnknown,
                SubmitForeign, SubmitPop, Outcome, Mint, Assess, Merge, Count, past
  <2>3. CASE ClaimPop(p) \/ SubmitPop(p)
    <3>1. /\ h'[p].pc \in {"burn_check", "outcome"}
          /\ \A q \in Peer : q # p => h'[q] = h[q]
      BY <1>0, <2>3 DEF ClaimPop, SubmitPop, Request
    <3> QED BY <2>2, <3>1 DEF Fillers
  <2>4. CASE ~ClaimPop(p) /\ ~SubmitPop(p)
    <3>1. \/ Answered(p)
          \/ \E x \in HandlerPC \ {"reg_fill", "claim_fill"} : Goto(p, x)
      BY <2>1, <2>4 DEF Handle, HandleAlone, RegisterCheck, RegisterCommit, SeedSkip, EndSeed,
                AfterSeed, ClaimReclaim, ClaimLimit, ClaimNothing, BurnCheck, Burn, ClaimReply,
                SubmitUnknown, SubmitForeign, SubmitAnswered, Outcome, Mint, Assess, Merge, Count,
                HandlerPC, SeedPC, ClaimPC, SubmitPC
    <3>2. /\ h'[p].pc \notin {"reg_fill", "claim_fill"}
          /\ \A q \in Peer : q # p => h'[q] = h[q]
      BY <1>0, <3>1, GotoTypes, AnsweredTypes
    <3> QED BY <2>2, <3>2 DEF Fillers
  <2> QED BY <2>3, <2>4
<1>2. CASE Around
  <2>1. UNCHANGED seeds
    BY <1>2 DEF Around, Send, SendRegister, GiveUpJoining, SendClaim, SendSubmit, Start, Die,
                Release, Age, PoolStatus, past
  <2>2. \A q \in Peer : h'[q] = h[q] \/ h'[q].pc \in {"reg_check", "claim_seed", "sub_pop"}
    BY <1>0, <1>2 DEF Around, Send, SendRegister, GiveUpJoining, SendClaim, SendSubmit, Start, Die,
                Release, Age, PoolStatus, Goto, Request
  <2> QED BY <2>1, <2>2 DEF Fillers
<1>3. CASE Restart
  BY <1>3 DEF Restart, Fillers, NoRequest
<1>4. CASE UNCHANGED vars
  BY <1>4 DEF vars, past, Fillers
<1> QED BY <1>1, <1>2, <1>3, <1>4 DEF Next

LEMMA SeedRoomStep == ASSUME TypeInv, SeedRoom, [Next]_vars PROVE SeedRoom'
<1>0. h \in [Peer -> Request] /\ seeds \in Nat
  BY DEF TypeInv, QueueTypes
<1>1. ASSUME NEW p \in Peer, SeedRead(p) PROVE SeedRoom'
  <2>1. seeds < MaxSeeds /\ seeds' = seeds
    BY <1>1 DEF SeedRead, past
  <2>2. Cardinality(Fillers') <= Cardinality(Peer) /\ Cardinality(Fillers') \in Nat
    <3>1. Fillers' \subseteq Peer
      BY DEF Fillers
    <3> QED BY <3>1, PeerAssumption, FS_Subset, FS_CardinalityType
  <2>3. Cardinality(Fillers)' = Cardinality(Fillers')
    OBVIOUS
  <2> QED BY <1>0, <2>1, <2>2, <2>3, FillersFinite, PoolBoundAssumption DEF SeedRoom
<1>2. ASSUME NEW p \in Peer, SeedFill(p) PROVE SeedRoom'
  <2>1. seeds' = seeds + 1 /\ p \in Fillers
    BY <1>2 DEF SeedFill, Fillers
  <2>2. Fillers' = Fillers \ {p}
    <3>1. Goto(p, "none") \/ Goto(p, "reclaim")
      BY <1>2 DEF SeedFill, EndSeed, AfterSeed
    <3>2. h'[p].pc \in {"none", "reclaim"} /\ \A q \in Peer : q # p => h'[q] = h[q]
      BY <1>0, <3>1, GotoTypes DEF HandlerPC, ClaimPC
    <3> QED BY <3>2 DEF Fillers
  <2>3. Cardinality(Fillers') = Cardinality(Fillers) - 1
    BY <2>1, <2>2, FillersFinite, FS_RemoveElement
  <2>4. Cardinality(Fillers)' = Cardinality(Fillers')
    OBVIOUS
  <2> QED BY <1>0, <2>1, <2>3, <2>4, FillersFinite, PoolBoundAssumption DEF SeedRoom
<1> QED BY <1>1, <1>2, NoNewFiller, FewerFillers

LEMMA InitRoom == Init => SeedRoom
<1> SUFFICES ASSUME Init PROVE SeedRoom
  OBVIOUS
<1>1. Fillers = {} /\ seeds = 0
  BY DEF Init, Fillers, NoRequest
<1> QED BY <1>1, FillersFinite, FS_EmptySet, PoolBoundAssumption DEF SeedRoom

LEMMA PoolImplemented ==
    ASSUME TypeInv', SeedRoom', PoolStep
    PROVE  Abstract!Next \/ UNCHANGED Abstract!vars
<1>1. CASE PoolStays
  BY <1>1 DEF PoolStays, Abstract!vars, Out, Settled
<1>2. CASE PoolForgets
  BY <1>2 DEF PoolForgets, Abstract!Next, Abstract!Forget, Out, Settled
<1>3. CASE \E W \in SUBSET ((1..seeds') \X (1..CorpusSize)) : PoolMoves(W)
  <2>1. PICK W \in SUBSET ((1..seeds') \X (1..CorpusSize)) : PoolMoves(W)
    BY <1>3
  <2>2. seeds' \in Nat /\ seeds' <= MaxSeeds + Cardinality(Peer) /\ MaxSeeds + Cardinality(Peer) \in Nat
    <3>1. Cardinality(Fillers') \in Nat
      <4>1. Fillers' \subseteq Peer
        BY DEF Fillers
      <4> QED BY <4>1, PeerAssumption, FS_Subset, FS_CardinalityType
    <3>2. seeds' + Cardinality(Fillers') <= MaxSeeds + Cardinality(Peer) /\ seeds' \in Nat
      BY DEF SeedRoom, TypeInv, QueueTypes
    <3> QED BY <3>1, <3>2, FillersFinite, PoolBoundAssumption
  <2>3. W \in SUBSET ((1..(MaxSeeds + Cardinality(Peer))) \X (1..CorpusSize))
    <3>1. 1..seeds' \subseteq 1..(MaxSeeds + Cardinality(Peer))
      BY <2>2
    <3> QED BY <3>1
  <2>4. Abstract!Fill(W) \/ Abstract!HandOut(W) \/ Abstract!GiveBack(W) \/ Abstract!Settle(W)
    BY <2>1 DEF PoolMoves, Abstract!Fill, Abstract!HandOut, Abstract!GiveBack, Abstract!Settle,
                Out, Settled
  <2> QED BY <2>3, <2>4 DEF Abstract!Next
<1> QED BY <1>1, <1>2, <1>3 DEF PoolStep

(* The coordinator, its reclaims, late and foreign submissions, guards and *)
(* restarts included, does with work only what the abstract pool allows:   *)
(* new work arrives, waiting work is handed out, comes back, or is settled *)
(* once.                                                                   *)
THEOREM CoordinatorImplementsPool == Spec => ImplementsPool
<1>1. Init => Abstract!Init
  BY InitPlaces DEF Init, Abstract!Init, PlaceInv, Elems, InflightWork, HandledWork, NoRequest, SubmitPC
<1>2. TypeInv /\ PlaceInv /\ SeedRoom /\ [Next]_vars => TypeInv' /\ SeedRoom'
  BY StepTypes, SeedRoomStep
<1>3. Init => TypeInv /\ SeedRoom
  BY InitTypes, InitRoom
<1>4. TypeInv /\ PlaceInv /\ TypeInv' /\ SeedRoom' /\ [Next]_vars => [Abstract!Next]_(Abstract!vars)
  BY StepPlaces, PoolImplemented
<1> QED BY <1>1, <1>2, <1>3, <1>4, PlacesHold, PTL DEF Spec, ImplementsPool, Abstract!Spec
=============================================================================
