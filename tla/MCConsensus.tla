---------------------------- MODULE MCConsensus ----------------------------
(***************************************************************************)
(* What makes nodes agree on a chain, for TLC.  A behaviour is one of the  *)
(* parts of Parts, chosen at the start; the variables of the others stay   *)
(* as they are.  The header chain is the module itself, the other parts    *)
(* are instances:                                                          *)
(*                                                                         *)
(*  "schedules", "confirmations": the header state along one branch, with  *)
(*      schedules that change, and with producers that confirm less than   *)
(*      they may                                                           *)
(*  "dpos", "restart", "recovered": the producers' nodes and every block   *)
(*      they make, without faults, with a restart and with a crash after   *)
(*      the first round                                                    *)
(*  "features": protocol features   "merkle": the incremental Merkle tree  *)
(***************************************************************************)
EXTENDS HeaderChain

CONSTANTS
  Parts,            \* the parts to explore
  p1, p2, p3, p4,   \* producers
  NoFeature         \* no_previous of the protocol features

VARIABLES part,
  blocks, head, watermark, lost, now, restarts, crashes,
  n, mode, due, to_activate, signaled,
  _node_count, _active_nodes, appended

-----------------------------------------------------------------------------
FourProducers == <<p1, p2, p3, p4>>
TwoProducers == <<p1, p2>>
SameSize == {<<p1, p2>>, <<p2, p3>>}
Smaller == {<<p1, p2, p4>>}

Fixed == INSTANCE HeaderChain WITH
  ProducerRepetitions <- 1, MaxTracked <- 4, InitialSchedule <- FourProducers,
  Schedules <- {}, MaxForgone <- 2, MaxMissed <- 2, MaxNum <- 8
Dpos4 == INSTANCE Dpos WITH
  ProducerRepetitions <- 1, MaxTracked <- 1024, Schedule <- FourProducers,
  FirstSlots <- 0, MaxSlot <- 9, MaxRestarts <- 0, MaxCrashes <- 0
Restarted == INSTANCE Dpos WITH
  ProducerRepetitions <- 1, MaxTracked <- 1024, Schedule <- FourProducers,
  FirstSlots <- 4, MaxSlot <- 10, MaxRestarts <- 1, MaxCrashes <- 0
Recovered == INSTANCE Dpos WITH
  ProducerRepetitions <- 1, MaxTracked <- 1024, Schedule <- FourProducers,
  FirstSlots <- 4, MaxSlot <- 10, MaxRestarts <- 0, MaxCrashes <- 1

(* PREACTIVATE_FEATURE and two features that require preactivation, one of
   which depends on the other and may be activated only later. *)
Features == {"preactivate", "replace", "noduplicate"}
Dependencies == [f \in Features |-> IF f = "noduplicate" THEN {"replace"} ELSE {}]
Earliest == [f \in Features |-> IF f = "noduplicate" THEN 3 ELSE 0]

Manager == INSTANCE ProtocolFeatures WITH
  Required <- {"replace", "noduplicate"}, Disabled <- {}, Preactivate <- "preactivate",
  MaxBlockNum <- 4, MaxList <- 2, MaxReorg <- 1, None <- NoFeature

(* Two digests, one with the bit set that the canonical form of a left node
   clears, one with it clear. *)
Trees == INSTANCE Merkle WITH
  Leaves <- {[bit |-> 0, rest |-> <<"leaf", "a">>], [bit |-> 1, rest |-> <<"leaf", "b">>]}, MaxNodes <- 9

ASSUME
  /\ Dpos4!DposBounds /\ Restarted!DposBounds /\ Recovered!DposBounds
  /\ FourProducers \in Seq(Producers) /\ Manager!FeaturesAssumption /\ Trees!MerkleAssumption

-----------------------------------------------------------------------------
header_vars == <<h, proposed, made, versionOK>>
dpos_vars == <<blocks, head, watermark, lost, now, restarts, crashes>>
feature_vars == <<n, mode, due, to_activate, signaled>>
merkle_vars == <<_node_count, _active_nodes, appended>>

all_vars == <<part, header_vars, dpos_vars, feature_vars, merkle_vars>>

\* The variables of a part that does not run.
Off == "off"
HeaderOff == Init
DposOff == /\ blocks = Off /\ head = Off /\ watermark = Off /\ lost = Off /\ now = Off
           /\ restarts = Off /\ crashes = Off
FeatureOff == n = Off /\ mode = Off /\ due = Off /\ to_activate = Off /\ signaled = Off
MerkleOff == _node_count = Off /\ _active_nodes = Off /\ appended = Off

ConsensusInit ==
  /\ part \in Parts
  /\ \/ /\ part = "schedules" /\ Init
        /\ DposOff /\ FeatureOff /\ MerkleOff
     \/ /\ part = "confirmations" /\ Fixed!Init
        /\ DposOff /\ FeatureOff /\ MerkleOff
     \/ /\ part = "dpos" /\ Dpos4!Init
        /\ HeaderOff /\ FeatureOff /\ MerkleOff
     \/ /\ part = "restart" /\ Restarted!Init
        /\ HeaderOff /\ FeatureOff /\ MerkleOff
     \/ /\ part = "recovered" /\ Recovered!Init
        /\ HeaderOff /\ FeatureOff /\ MerkleOff
     \/ /\ part = "features" /\ Manager!Init
        /\ HeaderOff /\ DposOff /\ MerkleOff
     \/ /\ part = "merkle" /\ Trees!Init
        /\ HeaderOff /\ DposOff /\ FeatureOff

ConsensusNext ==
  \/ /\ part = "schedules" /\ Next
     /\ UNCHANGED <<part, dpos_vars, feature_vars, merkle_vars>>
  \/ /\ part = "confirmations" /\ Fixed!Next
     /\ UNCHANGED <<part, dpos_vars, feature_vars, merkle_vars>>
  \/ /\ part = "dpos" /\ Dpos4!Next
     /\ UNCHANGED <<part, header_vars, feature_vars, merkle_vars>>
  \/ /\ part = "restart" /\ Restarted!Next
     /\ UNCHANGED <<part, header_vars, feature_vars, merkle_vars>>
  \/ /\ part = "recovered" /\ Recovered!Next
     /\ UNCHANGED <<part, header_vars, feature_vars, merkle_vars>>
  \/ /\ part = "features" /\ Manager!Next
     /\ UNCHANGED <<part, header_vars, dpos_vars, merkle_vars>>
  \/ /\ part = "merkle" /\ Trees!Next
     /\ UNCHANGED <<part, header_vars, dpos_vars, feature_vars>>

ConsensusSpec == ConsensusInit /\ [][ConsensusNext]_all_vars

-----------------------------------------------------------------------------
\* What the producers make together: producers that confirm less than they may
\* still propose with a quorum only; two conflicting blocks are never both
\* proposed, whatever the network hides, also when one producer of four lost its
\* watermark; nobody confirms a block number twice, also after a restart.  A
\* crash in a fork switch takes blocks of the producer as well, and it may then
\* sign and confirm their numbers again; what it produces still becomes the
\* head (producer_plugin_impl::start_block, its watermarks).
ProducersAgree ==
  /\ part = "confirmations" => Fixed!ProposedIsFinal
  /\ part = "dpos" => Dpos4!ProposedAgree /\ Dpos4!NoDoubleConfirm
  /\ part = "restart" => Restarted!ProposedAgree /\ Restarted!NoDoubleConfirm
  /\ part = "recovered" => Recovered!ProposedAgree /\ Recovered!ProducedBecomesHead

\* The protocol feature manager, the chain state and the headers agree on what
\* is active, through aborted blocks, fork switches and restarts; what a block
\* preactivates is active in the next one, and a next one is always possible.
FeatureViewsAgree ==
  part = "features" =>
    /\ Manager!ManagerMatchesState /\ Manager!ViewsAgree
    /\ Manager!PreactivatedNext /\ Manager!NextBlockPossible

\* The incremental tree reports the root merkle() computes of all the digests,
\* keeps the roots of the complete sub-trees and nothing else, and a root binds
\* the digests it was computed of.
RootIsMerkle ==
  part = "merkle" => Trees!RootIsMerkle /\ Trees!ActiveNodesAreRealized /\ Trees!MerkleBinds
=============================================================================
