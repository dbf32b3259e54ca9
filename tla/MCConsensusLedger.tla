-------------------------- MODULE MCConsensusLedger --------------------------
(* Small instances of ConsensusLedger for TLC. *)
EXTENDS ConsensusLedger

(* 1 says that form 2 is 3, 2 says it of form 1, which it equates with 2;  *)
(* 3 and 4 state a rival, that form 2 is 4; 5 is mangled and equates the   *)
(* two targets, after which 2 and 4, of one source, state the same.        *)
MCSentence == 1..5
MCSubject == <<2, 1, 2, 2, 1>>
MCObject == <<3, 3, 4, 4, 4>>
MCPairs == <<{}, {{1, 2}}, {}, {}, {{3, 4}}>>
MCMangled == {5}
MCVoice == <<1, 3, 2, 3, 3>>

AllPoints == PC \ {"down"}
SafePoints == AllPoints \ {"row"}
RowPoint == {"row"}
=============================================================================
