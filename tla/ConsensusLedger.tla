--------------------------- MODULE ConsensusLedger ---------------------------
(***************************************************************************)
(* The quarantine of the learning loop: packages/cloud_brain's             *)
(* ConsensusLedger with its AliasResolver and freeze flag, and the         *)
(* VerifiedStore it promotes into.  A tick of continuous_learning builds   *)
(* both objects from their files, records evidence, promotes what enough   *)
(* independent voices confirm, and drops the objects; it may die between   *)
(* any two file writes.                                                    *)
(***************************************************************************)
EXTENDS Integers, Sequences, FiniteSets

CONSTANTS
    Sentence,      \* source sentences, each stating one relation
    Subject,       \* sentence -> surface form of its subject (a number, for the order)
    Object,        \* sentence -> surface form of its object
    Voice,         \* sentence -> provenance source id
    Pairs,         \* sentence -> the inline alias pairs X(Y) in its text
    Mangled,       \* sentences whose extracted heads are not in their text
    MinSources,    \* min_sources
    MinTicks,      \* _MIN_TICKS: no freeze before that many ticks
    CrashPoint,    \* values of pc at which the process may die
    MaxEvents, MaxCrashes, MaxHolds   \* bounds of the model

PC == {"down", "open", "event", "fed", "promote", "row", "mark"}

Form ==
    {Subject[s] : s \in Sentence} \cup {Object[s] : s \in Sentence}
        \cup UNION UNION {Pairs[s] : s \in Sentence}

ASSUME FormAssumption ==
    /\ Subject \in [Sentence -> Nat] /\ Object \in [Sentence -> Nat] /\ DOMAIN Voice = Sentence
    /\ Pairs \in [Sentence -> SUBSET SUBSET Nat]
    /\ Mangled \subseteq Sentence
ASSUME GateAssumption ==
    /\ MinSources \in Nat \ {0} /\ MinTicks \in Nat
    /\ CrashPoint \subseteq PC \ {"down"} /\ MaxEvents \in Nat /\ MaxCrashes \in Nat /\ MaxHolds \in Nat

VARIABLES
    (* ---- files ---- *)
    events,      \* evidence_ledger.jsonl
    aliases,     \* aliases.jsonl
    promoted,    \* promoted_keys.jsonl
    frozen,      \* promotion_freeze.flag
    ticks,       \* promotion_drift.json: n, up to MinTicks
    index,       \* indexes/dedupe_index.jsonl: a row's key is its sentence's
    rows,        \* relations.jsonl: consensus key and sentence of each row
    (* ---- the objects of one tick ---- *)
    agg,         \* ConsensusLedger._agg: the applied events, each under its key
    known,       \* AliasResolver's pairs
    done,        \* ConsensusLedger._promoted
    keys,        \* VerifiedStore.dedupe_keys
    pc, cur,     \* where the tick is, and the sentence being recorded
    todo,        \* the keys promote_into has still to write
    crashes, holds

files == <<events, aliases, promoted, frozen, ticks, index, rows>>
objects == <<agg, known, done, keys>>
vars == <<files, objects, pc, cur, todo, crashes, holds>>
-----------------------------------------------------------------------------
(* Alias resolution: pairs are merged into clusters, and the smallest form *)
(* of a cluster stands for it.                                             *)

Closed(S, pairs) == \A pr \in pairs : pr \cap S # {} => pr \subseteq S

Cluster(f, pairs) ==
    {g \in Form : \A S \in SUBSET Form : f \in S /\ Closed(S, pairs) => g \in S}

AllPairs == UNION {Pairs[s] : s \in Sentence}

Smallest(C) == CHOOSE g \in C : \A k \in C : g <= k

(* The representative of every form for any pairs, as a set: a constant    *)
(* that TLC computes once.                                                 *)
Roots ==
    {[form |-> f, pairs |-> P, root |-> Smallest(Cluster(f, P))] :
        f \in Form, P \in SUBSET AllPairs}

Resolve(f, pairs) == (CHOOSE r \in Roots : r.form = f /\ r.pairs = pairs).root

(* canonical_relation_key: the sentences that get the same key under the   *)
(* known pairs state the same relation.                                    *)
KeyOf(s, pairs) == <<Resolve(Subject[s], pairs), Resolve(Object[s], pairs)>>

(* learn_from_sentence: only pairs that join two clusters are recorded. *)
Learned(s, pairs) ==
    {pr \in Pairs[s] : \A f \in pr : ~(pr \subseteq Cluster(f, pairs))}
-----------------------------------------------------------------------------
(* The aggregate of a key *)

Elems(q) == {q[i] : i \in DOMAIN q}

KeysOf(a) == {a[i].key : i \in DOMAIN a}

At(a, k) == {i \in DOMAIN a : a[i].key = k}

FirstAt(a, k) == a[CHOOSE i \in At(a, k) : \A j \in At(a, k) : i <= j].sent
LastAt(a, k) == a[CHOOSE i \in At(a, k) : \A j \in At(a, k) : i >= j].sent

Sources(a, k) == {a[i].sent : i \in At(a, k)}

(* A fault: every sentence counts as a voice of its own. *)
SentencesAsVoices(a, k) == Sources(a, k)

Voices(a, k) == {Voice[s] : s \in Sources(a, k)}

(* _load: every event is applied under the key it gets today. *)
LoadAgg == [i \in DOMAIN events |-> [key |-> KeyOf(events[i], aliases), sent |-> events[i]]]

(* promotable: one more voice is needed where a rival claim, with the same *)
(* subject as first written, has enough of them too.                       *)
Contenders(subject) ==
    {k \in KeysOf(agg) : Subject[FirstAt(agg, k)] = subject
                         /\ Cardinality(Voices(agg, k)) >= MinSources}

Required(k) ==
    MinSources + (IF Cardinality(Contenders(Subject[FirstAt(agg, k)])) >= 2 THEN 1 ELSE 0)

Promotable == {k \in KeysOf(agg) \ done : Cardinality(Voices(agg, k)) >= Required(k)}
-----------------------------------------------------------------------------
(* The value of cur when no sentence is being recorded. *)
Nothing == CHOOSE s \in Sentence : TRUE

Init ==
    /\ events = <<>> /\ aliases = {} /\ promoted = {} /\ frozen = FALSE /\ ticks = 0
    /\ index = {} /\ rows = {}
    /\ agg = <<>> /\ known = {} /\ done = {} /\ keys = {}
    /\ pc = "down" /\ cur = Nothing /\ todo = {} /\ crashes = 0 /\ holds = 0

(* The objects of the tick are gone; what they wrote stays. *)
Dropped ==
    /\ agg' = <<>> /\ known' = {} /\ done' = {} /\ keys' = {}
    /\ pc' = "down" /\ todo' = {} /\ cur' = Nothing

(* run_once builds the store and the ledger from their files, if the       *)
(* feeder has payloads.                                                    *)
Load ==
    /\ pc = "down" /\ pc' = "open"
    /\ agg' = LoadAgg /\ known' = aliases /\ done' = promoted /\ keys' = index
    /\ UNCHANGED <<files, cur, todo, crashes, holds>>

Crash ==
    /\ pc \in CrashPoint /\ crashes < MaxCrashes /\ crashes' = crashes + 1
    /\ Dropped
    /\ UNCHANGED <<files, holds>>

(* No payload was accepted: nothing is recorded and nothing is promoted.   *)
NoneAccepted ==
    /\ pc = "open"
    /\ Dropped
    /\ UNCHANGED <<files, crashes, holds>>

(* A mangled head or a repeated sentence leaves no event. *)
LeavesEvent(s, pairs) == s \notin Mangled /\ s \notin Sources(agg, KeyOf(s, pairs))

(* record_decomposition for an accepted payload, new or repeated: the      *)
(* sentence's alias pairs are learned first, a mangled sentence's too.     *)
LearnAliases(s) ==
    /\ pc \in {"open", "fed"}
    /\ LeavesEvent(s, known \cup Learned(s, known)) => Len(events) < MaxEvents
    /\ known' = known \cup Learned(s, known)
    /\ aliases' = aliases \cup Learned(s, known)
    /\ cur' = s /\ pc' = "event"
    /\ UNCHANGED <<events, promoted, frozen, ticks, index, rows, agg, done, keys, todo, crashes, holds>>

RecordNothing ==
    /\ pc = "event" /\ pc' = "fed" /\ cur' = Nothing
    /\ ~LeavesEvent(cur, known)
    /\ UNCHANGED <<files, objects, todo, crashes, holds>>

RecordEvent ==
    /\ pc = "event" /\ pc' = "fed" /\ cur' = Nothing
    /\ LeavesEvent(cur, known)
    /\ agg' = Append(agg, [key |-> KeyOf(cur, known), sent |-> cur])
    /\ events' = Append(events, cur)
    /\ UNCHANGED <<aliases, promoted, frozen, ticks, index, rows, known, done, keys, todo, crashes, holds>>
-----------------------------------------------------------------------------
(* promote_into, which only a tick that accepted a payload reaches *)

(* Frozen: nothing is promoted, and the drift monitor is not fed. *)
PromoteFrozen ==
    /\ pc = "fed" /\ frozen
    /\ Dropped
    /\ UNCHANGED <<files, crashes, holds>>

(* A fault: claims that are held back count as dealt with. *)
PromoteForgetsHeld ==
    /\ pc = "fed" /\ ~frozen
    /\ \E held \in SUBSET Promotable :
        /\ todo' = Promotable \ held
        /\ promoted' = promoted \cup held
        /\ holds' = IF held = {} THEN holds ELSE holds + 1
    /\ holds' <= MaxHolds
    /\ pc' = "promote"
    /\ UNCHANGED <<events, aliases, frozen, ticks, index, rows, objects, cur, crashes>>

(* The claims to write; truth discovery (low belief) and the curated judge *)
(* may hold some back, which stay unmarked.                                *)
PromoteStart ==
    /\ pc = "fed" /\ ~frozen
    /\ \E held \in SUBSET Promotable :
        /\ todo' = Promotable \ held
        /\ holds' = IF held = {} THEN holds ELSE holds + 1
    /\ holds' <= MaxHolds
    /\ pc' = "promote"
    /\ UNCHANGED <<files, objects, cur, crashes>>

Current == CHOOSE k \in todo : TRUE

RowOf(k) == [key |-> k, sent |-> LastAt(agg, k)]

(* A fault: the key is marked as promoted before its row is written. *)
IndexMarksFirst ==
    /\ pc = "promote" /\ todo # {} /\ RowOf(Current).sent \notin keys
    /\ keys' = keys \cup {RowOf(Current).sent} /\ index' = index \cup {RowOf(Current).sent}
    /\ promoted' = promoted \cup {Current}
    /\ pc' = "row"
    /\ UNCHANGED <<events, aliases, frozen, ticks, rows, agg, known, done, cur, todo, crashes, holds>>

(* _append_unique: a new row enters the dedupe index, then the file. *)
AppendIndex ==
    /\ pc = "promote" /\ todo # {} /\ RowOf(Current).sent \notin keys
    /\ keys' = keys \cup {RowOf(Current).sent} /\ index' = index \cup {RowOf(Current).sent}
    /\ pc' = "row"
    /\ UNCHANGED <<events, aliases, promoted, frozen, ticks, rows, agg, known, done, cur, todo, crashes, holds>>

AppendDeduped ==
    /\ pc = "promote" /\ todo # {} /\ RowOf(Current).sent \in keys
    /\ pc' = "mark"
    /\ UNCHANGED <<files, objects, cur, todo, crashes, holds>>

(* A fault: the row's key is not part of the row. *)
AppendRowBare ==
    /\ pc = "row" /\ pc' = "mark"
    /\ rows' = rows \cup {[sent |-> RowOf(Current).sent]}
    /\ UNCHANGED <<events, aliases, promoted, frozen, ticks, index, objects, cur, todo, crashes, holds>>

AppendRow ==
    /\ pc = "row" /\ pc' = "mark"
    /\ rows' = rows \cup {RowOf(Current)}
    /\ UNCHANGED <<events, aliases, promoted, frozen, ticks, index, objects, cur, todo, crashes, holds>>

(* Marked as promoted, whether the store took the row or not. *)
Mark ==
    /\ pc = "mark" /\ pc' = "promote"
    /\ done' = done \cup {Current} /\ promoted' = promoted \cup {Current}
    /\ todo' = todo \ {Current}
    /\ UNCHANGED <<events, aliases, frozen, ticks, index, rows, agg, known, keys, cur, crashes, holds>>

(* update_drift ends the tick.  The CUSUM statistic is left out: past the  *)
(* baseline any tick may trip the freeze.                                  *)
Finish ==
    /\ pc = "promote" /\ todo = {}
    /\ ticks' = IF ticks < MinTicks THEN ticks + 1 ELSE ticks
    /\ frozen' \in IF ticks >= MinTicks THEN {FALSE, TRUE} ELSE {FALSE}
    /\ Dropped
    /\ UNCHANGED <<events, aliases, promoted, index, rows, crashes, holds>>

(* The operator's clear_freeze. *)
ClearFreeze ==
    /\ frozen /\ frozen' = FALSE
    /\ UNCHANGED <<events, aliases, promoted, ticks, index, rows, objects, pc, cur, todo, crashes, holds>>

Promote == PromoteFrozen \/ PromoteStart \/ AppendIndex \/ AppendDeduped \/ AppendRow \/ Mark \/ Finish

Record == RecordNothing \/ RecordEvent

Next ==
    \/ Load \/ NoneAccepted \/ Crash \/ ClearFreeze
    \/ (\E s \in Sentence : LearnAliases(s)) \/ Record
    \/ Promote

Spec == Init /\ [][Next]_vars

(* A tick that accepted a payload runs to its end, it records a finite     *)
(* batch, and the operator looks at a freeze in the end.  Nothing makes    *)
(* ticks come, or payloads.                                                *)
FairSpec == Spec /\ WF_vars(Record) /\ SF_vars(Promote) /\ WF_vars(ClearFreeze)
-----------------------------------------------------------------------------
(* Properties *)

Key == Form \X Form

(* Files and objects hold values of their types. *)
TypeOK ==
    /\ events \in Seq(Sentence) /\ aliases \subseteq AllPairs
    /\ promoted \subseteq Key /\ frozen \in BOOLEAN /\ ticks \in 0..MinTicks
    /\ index \subseteq Sentence /\ rows \subseteq [key : Key, sent : Sentence]
    /\ agg \in Seq([key : Key, sent : Sentence])
    /\ known \subseteq AllPairs
    /\ done \subseteq Key /\ keys \subseteq Sentence
    /\ pc \in PC /\ cur \in Sentence \cup {Nothing} /\ todo \subseteq Key
    /\ crashes \in 0..MaxCrashes /\ holds \in 0..MaxHolds

(* The voices the ledger file holds for the claim of sentence s, under the *)
(* aliases known today.                                                    *)
RecordedVoices(s) ==
    LET k == KeyOf(s, aliases)
    IN  {Voice[e] : e \in {f \in Elems(events) : KeyOf(f, aliases) = k}}

(* A relation reaches the verified store only when at least MinSources     *)
(* independent sources, on record in the ledger file, confirm it: through  *)
(* reloads, crashes, repeated sentences and aliases learned meanwhile.     *)
EnoughVoices ==
    \A row \in rows : Cardinality(RecordedVoices(row.sent)) >= MinSources

(* What is marked as promoted, and will not be looked at again, is in the  *)
(* store, under the key it was marked with or one aliases made equal.      *)
PromotedIsStored ==
    \A k \in promoted :
        \E row \in rows :
            KeyOf(row.sent, aliases) = <<Resolve(k[1], aliases), Resolve(k[2], aliases)>>

(* The claim of s has enough voices on record, and one more than that if   *)
(* another claim about its subject has enough too.                         *)
Confirmed(s) ==
    /\ Cardinality(RecordedVoices(s)) >= MinSources
    /\ \/ Cardinality(RecordedVoices(s)) > MinSources
       \/ \A r \in Elems(events) :
             /\ Resolve(Subject[r], aliases) = Resolve(Subject[s], aliases)
             /\ KeyOf(r, aliases) # KeyOf(s, aliases)
             => Cardinality(RecordedVoices(r)) < MinSources

(* Every confirmed claim is in the store. *)
CaughtUp ==
    \A s \in Elems(events) :
        Confirmed(s) => \E row \in rows : KeyOf(row.sent, aliases) = KeyOf(s, aliases)

(* While payloads go on to be accepted, the store catches up with what is  *)
(* confirmed again and again: repeated sentences, aliases learned late,    *)
(* rivals, holds, freezes and crashes do not lose a confirmed claim        *)
(* ("nothing is lost", consensus_ledger.py:215).  Without another accepted *)
(* payload no tick reaches promote_into, and a claim may wait for ever.    *)
ConfirmedIsPromoted == []<>(pc = "fed") => []<>CaughtUp
=============================================================================
