------------------------ MODULE BrainLinkPool_proofs ------------------------
(***************************************************************************)
(* A batch is paid once, to the peer it was handed to, and after its burn, *)
(* for any number of peers, batches, fillings and restarts.                *)
(***************************************************************************)
EXTENDS BrainLinkPool, FiniteSetTheorems, TLAPS

(* Handlers and batches in flight are records of their fields. *)
HandlersShaped ==
    /\ h = [p \in Peer |-> h[p]]
    /\ \A p \in Peer : h[p] = [x \in {"pc", "batch", "work", "answer"} |-> h[p][x]]

InflightShaped ==
    /\ inflight = [b \in DOMAIN inflight |-> inflight[b]]
    /\ \A b \in DOMAIN inflight :
          inflight[b] = [x \in {"peer", "work", "stale"} |-> inflight[b][x]]

Popped == {"outcome", "mint", "assess", "merge", "count"}
Paying == {"burn_check", "burn"}

(* Batch ids are given out in order. *)
Numbered ==
    /\ \E n \in Nat : Claimed = 1..n
    /\ \A b \in Claimed : claimant[b] \in Peer

(* Handlers that passed the bound on batches and have none yet. *)
Poppers == {p \in Peer : At(p, "pop")}

RoomLeft == Cardinality(Claimed) + Cardinality(Poppers) <= MaxBatches + Cardinality(Peer)

(* A batch in flight is its claimant's and unpaid; it is burned, or the    *)
(* handler that hands it out is about to burn it.                          *)
Owed ==
    \A b \in DOMAIN inflight :
        /\ b \in Claimed /\ inflight[b].peer = claimant[b] /\ b \notin DOMAIN mints
        /\ \/ b \in burned
           \/ h[claimant[b]].pc \in Paying /\ h[claimant[b]].batch = b

(* A submission works on a batch of its own peer, out of flight for good,  *)
(* and up to the mint nobody was paid for it.                              *)
Settling ==
    \A p \in Peer :
        /\ h[p].pc \in Paying => h[p].batch \in Claimed /\ claimant[h[p].batch] = p
        /\ h[p].pc \in Popped =>
              /\ h[p].batch \in Claimed /\ claimant[h[p].batch] = p
              /\ h[p].batch \notin DOMAIN inflight /\ h[p].batch \in burned
              /\ h[p].pc \in {"outcome", "mint"} => h[p].batch \notin DOMAIN mints

Booked == burned \subseteq Claimed /\ DOMAIN mints \subseteq Claimed /\ MintsAreBacked

PayInv ==
    /\ HandlersShaped /\ InflightShaped
    /\ Numbered /\ RoomLeft /\ Owed /\ Settling /\ Booked
-----------------------------------------------------------------------------
(* What becomes of the handlers when one of them goes on or is answered.   *)

LEMMA GotoDoes ==
    ASSUME HandlersShaped, NEW p \in Peer, NEW x, Goto(p, x)
    PROVE  /\ HandlersShaped'
           /\ \A q \in Peer :
                 /\ h'[q].pc = (IF q = p THEN x ELSE h[q].pc)
                 /\ h'[q].batch = h[q].batch /\ h'[q].work = h[q].work
                 /\ h'[q].answer = h[q].answer
BY DEF HandlersShaped, Goto

LEMMA AnsweredDoes ==
    ASSUME HandlersShaped, NEW p \in Peer, Answered(p)
    PROVE  /\ HandlersShaped'
           /\ h'[p].pc = "none"
           /\ \A q \in Peer : q # p => h'[q] = h[q]
BY DEF HandlersShaped, Answered, NoRequest

LEMMA BatchSubset == PayInv => IsFiniteSet(Claimed) /\ Cardinality(Claimed) \in Nat
                               /\ Claimed = 1..Cardinality(Claimed)
<1> SUFFICES ASSUME PayInv PROVE IsFiniteSet(Claimed) /\ Cardinality(Claimed) \in Nat
                                 /\ Claimed = 1..Cardinality(Claimed)
  OBVIOUS
<1>1. PICK n \in Nat : Claimed = 1..n
  BY DEF PayInv, Numbered
<1>2. IsFiniteSet(1..n) /\ Cardinality(1..n) = n
  BY FS_Interval
<1> QED BY <1>1, <1>2

LEMMA PoppersFinite ==
    /\ IsFiniteSet(Peer) /\ Cardinality(Peer) \in Nat
    /\ IsFiniteSet(Poppers) /\ Cardinality(Poppers) \in Nat
    /\ Cardinality(Poppers) <= Cardinality(Peer)
<1>1. Poppers \subseteq Peer
  BY DEF Poppers
<1> QED BY <1>1, PeerAssumption, FS_Subset, FS_CardinalityType
-----------------------------------------------------------------------------
(* The steps that hand out, burn and pay nothing: batches may leave the    *)
(* table, a handler stays, goes on inside the settling of its batch, or    *)
(* goes to a place that has no batch.                                      *)

StaysOn(q) == h'[q].pc = h[q].pc /\ h'[q].batch = h[q].batch

SettlesOn(q) ==
    /\ h[q].pc \in Popped /\ h'[q].pc \in Popped /\ h'[q].batch = h[q].batch
    /\ h'[q].pc \in {"outcome", "mint"} => h[q].pc \in {"outcome", "mint"}

LetsGo(q) ==
    h[q].pc \notin Paying /\ h'[q].pc \notin {"pop"} \cup Popped \cup Paying

TableShrinks ==
    /\ InflightShaped'
    /\ \A b \in DOMAIN inflight' :
          b \in DOMAIN inflight /\ inflight'[b].peer = inflight[b].peer

LEMMA QuietStep ==
    ASSUME PayInv, HandlersShaped', TableShrinks, UNCHANGED <<claimant, mints, burned>>,
           \A q \in Peer : StaysOn(q) \/ SettlesOn(q) \/ LetsGo(q)
    PROVE  PayInv'
<1>1. Numbered' /\ Booked'
  BY DEF PayInv, Numbered, Booked, MintsAreBacked, Claimed
<1>2. RoomLeft'
  <2>1. Poppers' \subseteq Poppers
    BY DEF Poppers, At, StaysOn, SettlesOn, LetsGo, Popped
  <2>2. Cardinality(Poppers') <= Cardinality(Poppers) /\ Cardinality(Poppers') \in Nat
    BY <2>1, PoppersFinite, FS_Subset, FS_CardinalityType
  <2>3. Cardinality(Claimed) \in Nat /\ Claimed' = Claimed
    BY BatchSubset DEF Claimed
  <2> QED BY <2>2, <2>3, PoppersFinite, PoolBoundAssumption DEF PayInv, RoomLeft
<1>3. Owed'
  <2> SUFFICES ASSUME NEW b \in DOMAIN inflight'
               PROVE  /\ b \in Claimed /\ inflight'[b].peer = claimant[b] /\ b \notin DOMAIN mints
                      /\ \/ b \in burned
                         \/ h'[claimant[b]].pc \in Paying /\ h'[claimant[b]].batch = b
    BY DEF Owed, Claimed
  <2>1. b \in DOMAIN inflight /\ inflight'[b].peer = inflight[b].peer
    BY DEF TableShrinks
  <2>2. claimant[b] \in Peer
    BY <2>1 DEF PayInv, Owed, Numbered
  <2>3. h[claimant[b]].pc \in Paying => StaysOn(claimant[b])
    BY <2>2 DEF SettlesOn, LetsGo, Paying, Popped
  <2> QED BY <2>1, <2>3 DEF PayInv, Owed, StaysOn
<1>4. Settling'
  <2> SUFFICES ASSUME NEW q \in Peer
               PROVE  /\ h'[q].pc \in Paying => h'[q].batch \in Claimed /\ claimant[h'[q].batch] = q
                      /\ h'[q].pc \in Popped =>
                            /\ h'[q].batch \in Claimed /\ claimant[h'[q].batch] = q
                            /\ h'[q].batch \notin DOMAIN inflight' /\ h'[q].batch \in burned
                            /\ h'[q].pc \in {"outcome", "mint"} => h'[q].batch \notin DOMAIN mints
    BY DEF Settling, Claimed
  <2>1. DOMAIN inflight' \subseteq DOMAIN inflight
    BY DEF TableShrinks
  <2>2. CASE StaysOn(q)
    BY <2>1, <2>2 DEF PayInv, Settling, StaysOn
  <2>3. CASE SettlesOn(q)
    BY <2>1, <2>3 DEF PayInv, Settling, SettlesOn, Paying, Popped
  <2>4. CASE LetsGo(q)
    BY <2>4 DEF LetsGo
  <2> QED BY <2>2, <2>3, <2>4
<1> QED BY <1>1, <1>2, <1>3, <1>4 DEF PayInv, TableShrinks
-----------------------------------------------------------------------------
(* The actions *)

LEMMA InitPays == Init => PayInv
<1> SUFFICES ASSUME Init PROVE PayInv
  OBVIOUS
<1>1. Claimed = {} /\ Claimed = 1..0 /\ Poppers = {} /\ DOMAIN inflight = {} /\ DOMAIN mints = {}
  BY DEF Init, Claimed, Poppers, At, NoRequest
<1>2. HandlersShaped /\ InflightShaped
  BY DEF Init, HandlersShaped, InflightShaped, NoRequest
<1>3. Numbered /\ Owed /\ Booked
  BY <1>1 DEF Init, Numbered, Owed, Booked, MintsAreBacked
<1>4. Settling
  BY DEF Init, Settling, NoRequest, Paying, Popped
<1>5. RoomLeft
  BY <1>1, FS_EmptySet, PoppersFinite, PoolBoundAssumption DEF RoomLeft
<1> QED BY <1>2, <1>3, <1>4, <1>5 DEF PayInv

LEMMA TableStays ==
    ASSUME PayInv, UNCHANGED inflight
    PROVE  TableShrinks
BY DEF PayInv, InflightShaped, TableShrinks

LEMMA ReclaimShrinks ==
    ASSUME PayInv, Reclaim
    PROVE  TableShrinks
<1>1. inflight' = [b \in DOMAIN inflight \ StaleBatches |-> inflight[b]]
  BY DEF Reclaim
<1>2. InflightShaped'
  BY <1>1 DEF PayInv, InflightShaped
<1> QED BY <1>1, <1>2 DEF TableShrinks

(* Register, seed, refuse: nothing is handed out or paid. *)
LEMMA QuietHandlers ==
    ASSUME PayInv, NEW p \in Peer,
           \/ RegisterCheck(p) \/ RegisterCommit(p) \/ SeedSkip(p) \/ SeedRead(p) \/ SeedFill(p)
           \/ ClaimReclaim(p) \/ ClaimNothing(p) \/ ClaimReply(p)
           \/ SubmitUnknown(p) \/ SubmitForeign(p)
           \/ Outcome(p) \/ Assess(p) \/ Merge(p) \/ Count(p)
    PROVE  PayInv'
<1>0. HandlersShaped
  BY DEF PayInv
<1>1. CASE RegisterCheck(p)
  <2>1. Answered(p) \/ Goto(p, "reg_commit")
    BY <1>1 DEF RegisterCheck
  <2>2. HandlersShaped' /\ \A q \in Peer : StaysOn(q) \/ LetsGo(q)
    BY <1>0, <1>1, <2>1, GotoDoes, AnsweredDoes
       DEF RegisterCheck, At, StaysOn, LetsGo, Popped, Paying
  <2> QED BY <1>1, <2>2, TableStays, QuietStep DEF RegisterCheck, pool, files, past
<1>2. CASE RegisterCommit(p)
  <2>1. HandlersShaped' /\ \A q \in Peer : StaysOn(q) \/ LetsGo(q)
    BY <1>0, <1>2, GotoDoes DEF RegisterCommit, At, StaysOn, LetsGo, Popped, Paying
  <2> QED BY <1>2, <2>1, TableStays, QuietStep DEF RegisterCommit, files, past
<1>3. CASE SeedSkip(p)
  <2>1. HandlersShaped' /\ \A q \in Peer : StaysOn(q) \/ LetsGo(q)
    BY <1>0, <1>3, GotoDoes DEF SeedSkip, EndSeed, AfterSeed, StaysOn, LetsGo, Popped, Paying
  <2> QED BY <1>3, <2>1, TableStays, QuietStep DEF SeedSkip, pool, files, past
<1>4. CASE SeedRead(p)
  <2>1. HandlersShaped' /\ \A q \in Peer : StaysOn(q) \/ LetsGo(q)
    BY <1>0, <1>4, GotoDoes DEF SeedRead, StaysOn, LetsGo, Popped, Paying
  <2> QED BY <1>4, <2>1, TableStays, QuietStep DEF SeedRead, pool, files, past
<1>5. CASE SeedFill(p)
  <2>1. HandlersShaped' /\ \A q \in Peer : StaysOn(q) \/ LetsGo(q)
    BY <1>0, <1>5, GotoDoes DEF SeedFill, EndSeed, AfterSeed, StaysOn, LetsGo, Popped, Paying
  <2> QED BY <1>5, <2>1, TableStays, QuietStep DEF SeedFill, files
<1>6. CASE ClaimReclaim(p)
  <2>1. HandlersShaped' /\ \A q \in Peer : StaysOn(q) \/ LetsGo(q)
    BY <1>0, <1>6, GotoDoes DEF ClaimReclaim, At, StaysOn, LetsGo, Popped, Paying
  <2> QED BY <1>6, <2>1, ReclaimShrinks, QuietStep DEF ClaimReclaim, files, past
<1>7. CASE ClaimNothing(p)
  <2>1. HandlersShaped' /\ \A q \in Peer : StaysOn(q) \/ LetsGo(q)
    BY <1>0, <1>7, AnsweredDoes DEF ClaimNothing, At, StaysOn, LetsGo, Popped, Paying
  <2> QED BY <1>7, <2>1, TableStays, QuietStep DEF ClaimNothing, pool, files, past
<1>8. CASE ClaimReply(p)
  <2>1. HandlersShaped' /\ \A q \in Peer : StaysOn(q) \/ LetsGo(q)
    BY <1>0, <1>8, AnsweredDoes DEF ClaimReply, At, StaysOn, LetsGo, Popped, Paying
  <2> QED BY <1>8, <2>1, TableStays, QuietStep DEF ClaimReply, pool, files, past
<1>9. CASE SubmitUnknown(p)
  <2>1. HandlersShaped' /\ \A q \in Peer : StaysOn(q) \/ LetsGo(q)
    BY <1>0, <1>9, AnsweredDoes
       DEF SubmitUnknown, SubmitAnswered, At, StaysOn, LetsGo, Popped, Paying
  <2> QED BY <1>9, <2>1, TableStays, QuietStep DEF SubmitUnknown, pool, files, past
<1>10. CASE SubmitForeign(p)
  <2>1. HandlersShaped' /\ \A q \in Peer : StaysOn(q) \/ LetsGo(q)
    BY <1>0, <1>10, AnsweredDoes
       DEF SubmitForeign, SubmitAnswered, At, StaysOn, LetsGo, Popped, Paying
  <2>2. TableShrinks
    BY <1>10 DEF SubmitForeign, PayInv, InflightShaped, TableShrinks
  <2> QED BY <1>10, <2>1, <2>2, QuietStep DEF SubmitForeign, files
<1>11. CASE Outcome(p)
  <2>1. Goto(p, "mint") \/ Goto(p, "assess")
    BY <1>11 DEF Outcome
  <2>2. HandlersShaped' /\ \A q \in Peer : StaysOn(q) \/ SettlesOn(q)
    BY <1>0, <1>11, <2>1, GotoDoes DEF Outcome, At, StaysOn, SettlesOn, Popped
  <2> QED BY <1>11, <2>2, TableStays, QuietStep DEF Outcome, pool, past
<1>12. CASE Assess(p)
  <2>1. Goto(p, "merge") \/ Answered(p)
    BY <1>12 DEF Assess, SubmitAnswered
  <2>2. HandlersShaped' /\ \A q \in Peer : StaysOn(q) \/ SettlesOn(q) \/ LetsGo(q)
    BY <1>0, <1>12, <2>1, GotoDoes, AnsweredDoes
       DEF Assess, At, StaysOn, SettlesOn, LetsGo, Popped, Paying
  <2> QED BY <1>12, <2>2, TableStays, QuietStep DEF Assess, pool
<1>13. CASE Merge(p)
  <2>1. HandlersShaped' /\ \A q \in Peer : StaysOn(q) \/ SettlesOn(q)
    BY <1>0, <1>13, GotoDoes DEF Merge, At, StaysOn, SettlesOn, Popped
  <2> QED BY <1>13, <2>1, TableStays, QuietStep DEF Merge, pool, past
<1>14. CASE Count(p)
  <2>1. HandlersShaped' /\ \A q \in Peer : StaysOn(q) \/ LetsGo(q)
    BY <1>0, <1>14, AnsweredDoes DEF Count, SubmitAnswered, At, StaysOn, LetsGo, Popped, Paying
  <2> QED BY <1>14, <2>1, TableStays, QuietStep DEF Count, files
<1> QED BY <1>1, <1>2, <1>3, <1>4, <1>5, <1>6, <1>7, <1>8, <1>9, <1>10, <1>11, <1>12, <1>13, <1>14

LEMMA StaleMark ==
    ASSUME NEW old, old = [x \in {"peer", "work", "stale"} |-> old[x]],
           NEW new, new = [old EXCEPT !.stale = TRUE]
    PROVE  new = [x \in {"peer", "work", "stale"} |-> new[x]] /\ new.peer = old.peer
OBVIOUS

(* The worker, the clock, the poll and an appeal. *)
LEMMA QuietAround == ASSUME PayInv, Around PROVE PayInv'
<1>0. HandlersShaped
  BY DEF PayInv
<1>1. ASSUME UNCHANGED h PROVE HandlersShaped' /\ \A q \in Peer : StaysOn(q)
  BY <1>0, <1>1 DEF HandlersShaped, StaysOn
<1>2. ASSUME NEW p \in Peer, Start(p) \/ GiveUpJoining(p) \/ Die(p) \/ Release(p) PROVE PayInv'
  <2>1. UNCHANGED <<h, inflight, claimant, mints, burned>>
    BY <1>2 DEF Start, GiveUpJoining, Die, Release, pool, files, past
  <2> QED BY <1>1, <2>1, TableStays, QuietStep
<1>3. ASSUME NEW p \in Peer, SendRegister(p) \/ SendClaim(p) PROVE PayInv'
  <2>1. Goto(p, "reg_check") \/ Goto(p, "claim_seed")
    BY <1>3 DEF SendRegister, SendClaim
  <2>2. HandlersShaped' /\ \A q \in Peer : StaysOn(q) \/ LetsGo(q)
    BY <1>0, <1>3, <2>1, GotoDoes
       DEF SendRegister, SendClaim, At, StaysOn, LetsGo, Popped, Paying
  <2> QED BY <1>3, <2>2, TableStays, QuietStep DEF SendRegister, SendClaim, pool, files, past
<1>4. ASSUME NEW p \in Peer, NEW answer \in Answer, SendSubmit(p, answer) PROVE PayInv'
  <2>1. PICK b : h' = [h EXCEPT ![p] =
                        [pc |-> "sub_pop", batch |-> b, work |-> <<>>, answer |-> answer]]
    BY <1>4 DEF SendSubmit
  <2>2. HandlersShaped' /\ h'[p].pc = "sub_pop" /\ \A q \in Peer : q # p => h'[q] = h[q]
    BY <1>0, <2>1 DEF HandlersShaped
  <2>3. \A q \in Peer : StaysOn(q) \/ LetsGo(q)
    BY <1>4, <2>2 DEF SendSubmit, At, StaysOn, LetsGo, Popped, Paying
  <2> QED BY <1>4, <2>2, <2>3, TableStays, QuietStep DEF SendSubmit, pool, files, past
<1>5. ASSUME NEW b \in Claimed, Age(b) PROVE PayInv'
  <2>1. inflight' = [inflight EXCEPT ![b].stale = TRUE] /\ b \in DOMAIN inflight
    BY <1>5 DEF Age
  <2> DEFINE D == DOMAIN inflight
  <2>2. /\ DOMAIN inflight' = D /\ inflight' = [c \in D |-> inflight'[c]]
        /\ \A c \in D : c # b => inflight'[c] = inflight[c]
        /\ inflight'[b] = [inflight[b] EXCEPT !.stale = TRUE]
    BY <2>1 DEF PayInv, InflightShaped
  <2>3. /\ inflight'[b] = [x \in {"peer", "work", "stale"} |-> inflight'[b][x]]
        /\ inflight'[b].peer = inflight[b].peer
    <3>1. inflight[b] = [x \in {"peer", "work", "stale"} |-> inflight[b][x]]
      BY <2>1 DEF PayInv, InflightShaped
    <3> QED BY <2>2, <3>1, StaleMark
  <2>4. TableShrinks
    BY <2>2, <2>3 DEF PayInv, InflightShaped, TableShrinks
  <2> QED BY <1>1, <1>5, <2>4, QuietStep DEF Age, files, past
<1>6. CASE PoolStatus
  BY <1>1, <1>6, ReclaimShrinks, QuietStep DEF PoolStatus, files, past
<1> QED BY <1>2, <1>3, <1>4, <1>5, <1>6 DEF Around, Send

LEMMA ClaimLimitPays == ASSUME PayInv, NEW p \in Peer, ClaimLimit(p) PROVE PayInv'
<1>0. HandlersShaped
  BY DEF PayInv
<1>1. CASE Answered(p)
  <2>1. HandlersShaped' /\ \A q \in Peer : StaysOn(q) \/ LetsGo(q)
    BY <1>0, <1>1, AnsweredDoes DEF ClaimLimit, At, StaysOn, LetsGo, Popped, Paying
  <2> QED BY <2>1, TableStays, QuietStep DEF ClaimLimit, pool, files, past
<1>2. CASE Cardinality(Claimed) < MaxBatches /\ Goto(p, "pop")
  <2>1. /\ HandlersShaped' /\ h[p].pc = "limit" /\ h'[p].pc = "pop"
        /\ \A q \in Peer : q # p => StaysOn(q)
    BY <1>0, <1>2, GotoDoes DEF ClaimLimit, At, StaysOn
  <2>2. UNCHANGED <<inflight, claimant, mints, burned, Claimed>>
    BY DEF ClaimLimit, pool, files, past, Claimed
  <2>3. InflightShaped' /\ Numbered' /\ Booked'
    BY <2>2 DEF PayInv, InflightShaped, Numbered, Booked, MintsAreBacked
  <2>4. RoomLeft'
    <3>1. Poppers' \subseteq Peer
      BY DEF Poppers
    <3>2. Cardinality(Poppers') \in Nat /\ Cardinality(Poppers') <= Cardinality(Peer)
      BY <3>1, PeerAssumption, FS_Subset, FS_CardinalityType
    <3> QED BY <1>2, <2>2, <3>2, BatchSubset, PoppersFinite, PoolBoundAssumption DEF RoomLeft
  <2>5. Owed'
    <3>1. \A q \in Peer : h[q].pc \in Paying => StaysOn(q)
      BY <2>1 DEF Paying
    <3> QED BY <2>2, <3>1 DEF PayInv, Owed, Numbered, StaysOn
  <2>6. Settling'
    BY <2>1, <2>2 DEF PayInv, Settling, StaysOn, Paying, Popped
  <2> QED BY <2>1, <2>3, <2>4, <2>5, <2>6 DEF PayInv
<1> QED BY <1>1, <1>2 DEF ClaimLimit

(* A new number: the batch is in flight, its handler is about to burn. *)
LEMMA ClaimPopPays == ASSUME PayInv, NEW p \in Peer, ClaimPop(p) PROVE PayInv'
<1> DEFINE b == Cardinality(Claimed) + 1
           n == Shorter(ClaimSize, Len(queue))
           work == SubSeq(queue, 1, n)
<1>0. HandlersShaped /\ h[p].pc = "pop"
  BY DEF PayInv, ClaimPop, At
<1>1. /\ inflight' = [c \in DOMAIN inflight \cup {b} |->
                         IF c = b THEN [peer |-> p, work |-> work, stale |-> FALSE]
                         ELSE inflight[c]]
      /\ claimant' = [c \in Claimed \cup {b} |-> IF c = b THEN p ELSE claimant[c]]
      /\ h' = [h EXCEPT ![p].pc = "burn_check", ![p].batch = b]
      /\ UNCHANGED <<mints, burned>>
  BY DEF ClaimPop, files
<1>2. /\ IsFiniteSet(Claimed) /\ Cardinality(Claimed) \in Nat
      /\ Claimed = 1..Cardinality(Claimed) /\ b \in Nat
  BY BatchSubset
<1>3. b \notin Claimed /\ Claimed \cup {b} = 1..b
  BY <1>2
<1>4. Claimed' = Claimed \cup {b} /\ Cardinality(Claimed') = b
  <2>1. Claimed' = Claimed \cup {b}
    BY <1>1 DEF Claimed
  <2> QED BY <1>2, <1>3, <2>1, FS_AddElement
<1>5. /\ HandlersShaped' /\ h'[p].pc = "burn_check" /\ h'[p].batch = b
      /\ \A q \in Peer : q # p => StaysOn(q)
  BY <1>0, <1>1 DEF HandlersShaped, StaysOn
<1>6. DOMAIN inflight \subseteq Claimed /\ burned \subseteq Claimed /\ DOMAIN mints \subseteq Claimed
  BY DEF PayInv, Owed, Booked
<1>7. \A c \in Claimed : claimant'[c] = claimant[c]
  BY <1>1, <1>3
<1>8. claimant'[b] = p
  BY <1>1
<1>9. InflightShaped'
  BY <1>1 DEF PayInv, InflightShaped
<1>10. Numbered'
  BY <1>2, <1>3, <1>4, <1>7, <1>8 DEF PayInv, Numbered
<1>11. Booked'
  BY <1>1, <1>4, <1>6, <1>7 DEF PayInv, Booked, MintsAreBacked
<1>12. RoomLeft'
  <2>1. p \in Poppers /\ Poppers' = Poppers \ {p}
    BY <1>0, <1>5 DEF Poppers, At, StaysOn
  <2>2. Cardinality(Poppers') = Cardinality(Poppers) - 1
    BY <2>1, PoppersFinite, FS_RemoveElement
  <2> QED BY <1>2, <1>4, <2>2, PoppersFinite, PoolBoundAssumption DEF PayInv, RoomLeft
<1>13. Owed'
  <2> SUFFICES ASSUME NEW c \in DOMAIN inflight'
               PROVE  /\ c \in Claimed' /\ inflight'[c].peer = claimant'[c] /\ c \notin DOMAIN mints
                      /\ \/ c \in burned
                         \/ h'[claimant'[c]].pc \in Paying /\ h'[claimant'[c]].batch = c
    BY <1>1 DEF Owed
  <2>1. CASE c = b
    <3>1. inflight'[b].peer = p
      BY <1>1
    <3>2. b \in Claimed' /\ b \notin DOMAIN mints
      BY <1>3, <1>4, <1>6
    <3> HIDE DEF b
    <3> QED BY <1>5, <1>8, <2>1, <3>1, <3>2 DEF Paying
  <2>2. CASE c # b
    <3>1. c \in DOMAIN inflight /\ inflight'[c] = inflight[c] /\ c \in Claimed
      BY <1>1, <1>6, <2>2
    <3>2. claimant'[c] = claimant[c] /\ claimant[c] \in Peer
      BY <1>7, <3>1 DEF PayInv, Numbered
    <3>3. h[claimant[c]].pc \in Paying => StaysOn(claimant[c])
      BY <1>0, <1>5, <3>2 DEF Paying
    <3> QED BY <1>4, <3>1, <3>2, <3>3 DEF PayInv, Owed, StaysOn
  <2> QED BY <2>1, <2>2
<1>14. Settling'
  <2> SUFFICES ASSUME NEW q \in Peer
               PROVE  /\ h'[q].pc \in Paying => h'[q].batch \in Claimed' /\ claimant'[h'[q].batch] = q
                      /\ h'[q].pc \in Popped =>
                            /\ h'[q].batch \in Claimed' /\ claimant'[h'[q].batch] = q
                            /\ h'[q].batch \notin DOMAIN inflight' /\ h'[q].batch \in burned
                            /\ h'[q].pc \in {"outcome", "mint"} => h'[q].batch \notin DOMAIN mints
    BY <1>1 DEF Settling
  <2>1. CASE q = p
    BY <1>4, <1>5, <1>8, <2>1 DEF Paying, Popped
  <2>2. CASE q # p
    <3>1. h'[q].pc = h[q].pc /\ h'[q].batch = h[q].batch
      BY <1>5, <2>2 DEF StaysOn
    <3>2. DOMAIN inflight' = DOMAIN inflight \cup {b} /\ Claimed \subseteq Claimed'
      BY <1>1, <1>4
    <3> HIDE DEF b
    <3> QED BY <1>1, <1>3, <1>7, <3>1, <3>2 DEF PayInv, Settling
  <2> QED BY <2>1, <2>2
<1> QED BY <1>5, <1>9, <1>10, <1>11, <1>12, <1>13, <1>14 DEF PayInv

(* The requester can pay for every batch: no burn is left out for want of  *)
(* credits (the genesis grant is 10,000, a batch costs one).               *)
EnoughCredits == Genesis > MaxBatches + Cardinality(Peer)

(* A step of one handler that keeps the table, the claims and the bound.   *)
LEMMA HandlerStep ==
    ASSUME PayInv, NEW p \in Peer, HandlersShaped', UNCHANGED <<inflight, claimant>>,
           h'[p].pc # "pop", \A q \in Peer : q # p => StaysOn(q)
    PROVE  InflightShaped' /\ Numbered' /\ RoomLeft' /\ Claimed' = Claimed
<1>1. InflightShaped' /\ Numbered' /\ Claimed' = Claimed
  BY DEF PayInv, InflightShaped, Numbered, Claimed
<1>2. Poppers' \subseteq Poppers
  BY DEF Poppers, At, StaysOn
<1>3. Cardinality(Poppers') <= Cardinality(Poppers) /\ Cardinality(Poppers') \in Nat
  BY <1>2, PoppersFinite, FS_Subset, FS_CardinalityType
<1> QED BY <1>1, <1>3, BatchSubset, PoppersFinite, PoolBoundAssumption DEF PayInv, RoomLeft

LEMMA BurnCheckPays ==
    ASSUME PayInv, EnoughCredits, NEW p \in Peer, BurnCheck(p)
    PROVE  PayInv'
<1>1. Genesis - Cardinality(burned) >= 1
  <2>1. burned \subseteq Claimed
    BY DEF PayInv, Booked
  <2>2. Cardinality(burned) <= Cardinality(Claimed) /\ Cardinality(burned) \in Nat
    BY <2>1, BatchSubset, FS_Subset, FS_CardinalityType
  <2> QED BY <2>2, BatchSubset, PoppersFinite, PoolBoundAssumption, LedgerAssumption
          DEF EnoughCredits, PayInv, RoomLeft
<1>2. Cardinality(burned) \in Nat
  BY BatchSubset, FS_Subset, FS_CardinalityType DEF PayInv, Booked
<1>3. Goto(p, "burn") /\ h[p].pc = "burn_check"
  BY <1>1, <1>2, LedgerAssumption DEF BurnCheck, At
<1>4. /\ HandlersShaped' /\ h'[p].pc = "burn" /\ h'[p].batch = h[p].batch
      /\ \A q \in Peer : q # p => StaysOn(q)
  BY <1>3, GotoDoes DEF PayInv, StaysOn
<1>5. UNCHANGED <<inflight, claimant, mints, burned>>
  BY DEF BurnCheck, pool, files, past
<1>6. InflightShaped' /\ Numbered' /\ RoomLeft' /\ Claimed' = Claimed
  BY <1>4, <1>5, HandlerStep
<1>7. Owed' /\ Settling' /\ Booked'
  <2>1. \A q \in Peer : /\ h'[q].batch = h[q].batch
                        /\ h'[q].pc \in Paying <=> h[q].pc \in Paying
                        /\ h'[q].pc \in Popped => h'[q].pc = h[q].pc
    BY <1>3, <1>4 DEF StaysOn, Paying, Popped
  <2> QED BY <1>5, <1>6, <2>1 DEF PayInv, Owed, Numbered, Settling, Booked, MintsAreBacked
<1> QED BY <1>4, <1>6, <1>7 DEF PayInv

LEMMA BurnPays == ASSUME PayInv, NEW p \in Peer, Burn(p) PROVE PayInv'
<1>1. /\ HandlersShaped' /\ h[p].pc = "burn" /\ h'[p].pc = "reply" /\ h'[p].batch = h[p].batch
      /\ \A q \in Peer : q # p => StaysOn(q)
  BY GotoDoes DEF Burn, At, PayInv, StaysOn
<1>2. UNCHANGED <<inflight, claimant, mints>> /\ burned' = burned \cup {h[p].batch}
  BY DEF Burn, pool, past
<1>3. InflightShaped' /\ Numbered' /\ RoomLeft' /\ Claimed' = Claimed
  BY <1>1, <1>2, HandlerStep
<1>4. h[p].batch \in Claimed
  BY <1>1 DEF PayInv, Settling, Paying
<1>5. Booked'
  BY <1>2, <1>3, <1>4 DEF PayInv, Booked, MintsAreBacked
<1>6. Owed'
  <2> SUFFICES ASSUME NEW b \in DOMAIN inflight, b \notin burned'
               PROVE  h'[claimant[b]].pc \in Paying /\ h'[claimant[b]].batch = b
    BY <1>2, <1>3 DEF PayInv, Owed
  <2>1. /\ h[claimant[b]].pc \in Paying /\ h[claimant[b]].batch = b /\ claimant[b] \in Peer
    BY <1>2 DEF PayInv, Owed, Numbered
  <2>2. claimant[b] # p
    BY <1>2, <2>1
  <2> QED BY <1>1, <2>1, <2>2 DEF StaysOn
<1>7. Settling'
  <2>1. \A q \in Peer : /\ h'[q].batch = h[q].batch
                        /\ h'[q].pc \in Paying \cup Popped => h'[q].pc = h[q].pc
    BY <1>1 DEF StaysOn, Paying, Popped
  <2> QED BY <1>2, <1>3, <2>1 DEF PayInv, Settling
<1> QED BY <1>1, <1>3, <1>5, <1>6, <1>7 DEF PayInv

(* The batch leaves the table for good, and its peer's handler has it. *)
LEMMA SubmitPopPays == ASSUME PayInv, NEW p \in Peer, SubmitPop(p) PROVE PayInv'
<1> DEFINE b == h[p].batch
<1>1. /\ h[p].pc = "sub_pop" /\ b \in DOMAIN inflight /\ inflight[b].peer = p
      /\ inflight' = [c \in DOMAIN inflight \ {b} |-> inflight[c]]
      /\ h' = [h EXCEPT ![p].pc = "outcome", ![p].work = inflight[b].work]
      /\ UNCHANGED <<claimant, mints, burned>>
  BY DEF SubmitPop, At, files, past
<1>2. /\ HandlersShaped' /\ h'[p].pc = "outcome" /\ h'[p].batch = b
      /\ \A q \in Peer : q # p => StaysOn(q)
  BY <1>1 DEF PayInv, HandlersShaped, StaysOn
<1>3. Claimed' = Claimed /\ DOMAIN inflight' = DOMAIN inflight \ {b}
      /\ \A c \in DOMAIN inflight' : inflight'[c] = inflight[c]
  BY <1>1 DEF Claimed
<1>4. b \in Claimed /\ claimant[b] = p /\ b \notin DOMAIN mints /\ b \in burned
  BY <1>1 DEF PayInv, Owed, Paying
<1> HIDE DEF b
<1>4a. claimant' = claimant /\ mints' = mints /\ burned' = burned /\ h[p].pc \notin Paying
  BY <1>1 DEF Paying
<1>5. InflightShaped' /\ Numbered' /\ Booked'
  BY <1>1, <1>3 DEF PayInv, InflightShaped, Numbered, Booked, MintsAreBacked
<1>6. RoomLeft'
  <2>1. Poppers' \subseteq Poppers
    BY <1>2 DEF Poppers, At, StaysOn
  <2>2. Cardinality(Poppers') <= Cardinality(Poppers) /\ Cardinality(Poppers') \in Nat
    BY <2>1, PoppersFinite, FS_Subset, FS_CardinalityType
  <2> QED BY <1>3, <2>2, BatchSubset, PoppersFinite, PoolBoundAssumption DEF PayInv, RoomLeft
<1>7. Owed'
  <2>1. \A q \in Peer : h[q].pc \in Paying => StaysOn(q)
    BY <1>2, <1>4a
  <2>2. \A c \in DOMAIN inflight' : c \in DOMAIN inflight /\ c \in Claimed /\ claimant[c] \in Peer
    BY <1>3 DEF PayInv, Owed, Numbered
  <2> QED BY <1>3, <1>4a, <2>1, <2>2 DEF PayInv, Owed, StaysOn
<1>8. Settling'
  <2> SUFFICES ASSUME NEW q \in Peer
               PROVE  /\ h'[q].pc \in Paying => h'[q].batch \in Claimed' /\ claimant'[h'[q].batch] = q
                      /\ h'[q].pc \in Popped =>
                            /\ h'[q].batch \in Claimed' /\ claimant'[h'[q].batch] = q
                            /\ h'[q].batch \notin DOMAIN inflight' /\ h'[q].batch \in burned'
                            /\ h'[q].pc \in {"outcome", "mint"} => h'[q].batch \notin DOMAIN mints'
    BY DEF Settling
  <2>1. CASE q = p
    BY <1>2, <1>3, <1>4, <1>4a, <2>1 DEF Paying
  <2>2. CASE q # p
    <3>1. h'[q].pc = h[q].pc /\ h'[q].batch = h[q].batch
      BY <1>2, <2>2 DEF StaysOn
    <3> QED BY <1>3, <1>4a, <3>1 DEF PayInv, Settling
  <2> QED BY <2>1, <2>2
<1> QED BY <1>2, <1>5, <1>6, <1>7, <1>8 DEF PayInv

LEMMA MintPays == ASSUME PayInv, NEW p \in Peer, Mint(p) PROVE PayInv'
<1> DEFINE b == h[p].batch
<1>1. /\ HandlersShaped' /\ h[p].pc = "mint" /\ h'[p].pc = "assess" /\ h'[p].batch = b
      /\ \A q \in Peer : q # p => StaysOn(q)
  BY GotoDoes DEF Mint, At, PayInv, StaysOn
<1>2. UNCHANGED <<inflight, claimant, burned>>
  BY DEF Mint, pool, past
<1>3. /\ b \in Claimed /\ claimant[b] = p /\ b \notin DOMAIN mints /\ b \in burned
      /\ b \notin DOMAIN inflight
  BY <1>1 DEF PayInv, Settling, Popped
<1>4. /\ DOMAIN mints' = DOMAIN mints \cup {b} /\ mints'[b] = <<p>>
      /\ \A c \in DOMAIN mints : mints'[c] = mints[c]
  BY <1>3 DEF Mint
<1> HIDE DEF b
<1>5. InflightShaped' /\ Numbered' /\ RoomLeft' /\ Claimed' = Claimed
  BY <1>1, <1>2, HandlerStep
<1>6. Booked'
  BY <1>2, <1>3, <1>4, <1>5 DEF PayInv, Booked, MintsAreBacked
<1>7. Owed'
  <2>1. \A q \in Peer : h[q].pc \in Paying => StaysOn(q)
    BY <1>1 DEF Paying
  <2> QED BY <1>2, <1>3, <1>4, <1>5, <2>1 DEF PayInv, Owed, Numbered, StaysOn
<1>8. Settling'
  <2> SUFFICES ASSUME NEW q \in Peer
               PROVE  /\ h'[q].pc \in Paying => h'[q].batch \in Claimed /\ claimant[h'[q].batch] = q
                      /\ h'[q].pc \in Popped =>
                            /\ h'[q].batch \in Claimed /\ claimant[h'[q].batch] = q
                            /\ h'[q].batch \notin DOMAIN inflight /\ h'[q].batch \in burned
                            /\ h'[q].pc \in {"outcome", "mint"} => h'[q].batch \notin DOMAIN mints'
    BY <1>2, <1>5 DEF Settling
  <2>1. CASE q = p
    BY <1>1, <1>3, <2>1 DEF Paying
  <2>2. CASE q # p
    <3>1. h'[q].pc = h[q].pc /\ h'[q].batch = h[q].batch
      BY <1>1, <2>2 DEF StaysOn
    <3> QED BY <1>3, <1>4, <2>2, <3>1 DEF PayInv, Settling
  <2> QED BY <2>1, <2>2
<1> QED BY <1>1, <1>5, <1>6, <1>7, <1>8 DEF PayInv

LEMMA RestartPays == ASSUME PayInv, Restart PROVE PayInv'
<1>1. /\ DOMAIN inflight' = {} /\ inflight' = <<>> /\ h' = [p \in Peer |-> NoRequest]
      /\ UNCHANGED <<claimant, mints, burned>> /\ Claimed' = Claimed
  BY DEF Restart, files, Claimed
<1>2. HandlersShaped' /\ InflightShaped' /\ Owed' /\ Settling'
  BY <1>1 DEF HandlersShaped, InflightShaped, Owed, Settling, NoRequest, Paying, Popped
<1>3. Numbered' /\ Booked'
  BY <1>1 DEF PayInv, Numbered, Booked, MintsAreBacked
<1>4. RoomLeft'
  <2>1. Poppers' = {}
    BY <1>1 DEF Poppers, At, NoRequest
  <2> QED BY <1>1, <2>1, FS_EmptySet, BatchSubset, PoppersFinite, PoolBoundAssumption
          DEF PayInv, RoomLeft
<1> QED BY <1>2, <1>3, <1>4 DEF PayInv

LEMMA StepPays == ASSUME PayInv, EnoughCredits, [Next]_vars PROVE PayInv'
<1>1. ASSUME NEW p \in Peer, Handle(p) PROVE PayInv'
  BY <1>1, QuietHandlers, ClaimLimitPays, ClaimPopPays, BurnCheckPays, BurnPays,
     SubmitPopPays, MintPays DEF Handle, HandleAlone
<1>2. CASE UNCHANGED vars
  BY <1>2 DEF vars, pool, files, past, PayInv, HandlersShaped, InflightShaped, Numbered, Claimed,
     RoomLeft, Poppers, At, Owed, Settling, Booked, MintsAreBacked
<1> QED BY <1>1, <1>2, QuietAround, RestartPays DEF Next

(* A batch is paid at most once, to the peer it was handed to, and only    *)
(* after its burn, whatever handlers interleave, replies get lost, batches *)
(* come back or the coordinator restarts (brain_link.py: burn in           *)
(* work_claim, mint in work_submit), while the requester can pay.          *)
THEOREM PoolPaysOnce == ASSUME EnoughCredits PROVE Spec => []MintsAreBacked
<1>1. Init => PayInv
  BY InitPays
<1>2. PayInv /\ [Next]_vars => PayInv'
  BY StepPays
<1>3. PayInv => MintsAreBacked
  BY DEF PayInv, Booked
<1> QED BY <1>1, <1>2, <1>3, PTL DEF Spec
=============================================================================
