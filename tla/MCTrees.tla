------------------------------ MODULE MCTrees ------------------------------
(***************************************************************************)
(* The two append-only trees of the chain, each run to its own bounds:     *)
(* `which` picks one of them at the start and the other stays as it is.    *)
(***************************************************************************)
EXTENDS Integers

CONSTANTS Depth, MaxWitnesses, MaxRewinds, MaxLeaves, MaxGenerated, Works

VARIABLES which,
          tree, witnesses, saved, fork, commitments,
          array, view, loaded, failed, blocks

Commitment == INSTANCE CommitmentTree WITH leaves <- commitments
History == INSTANCE HistoryTree WITH leaves <- blocks

commitmentVars == <<tree, witnesses, saved, fork, commitments>>
historyVars == <<array, view, loaded, failed, blocks>>

Init == which \in {"commitment", "history"} /\ Commitment!Init /\ History!Init
Next == \/ which = "commitment" /\ Commitment!Next /\ UNCHANGED <<which, historyVars>>
        \/ which = "history" /\ History!Next /\ UNCHANGED <<which, commitmentVars>>
Spec == Init /\ [][Next]_<<which, commitmentVars, historyVars>>

\* The properties of the two trees, stated in their modules.
CommitmentsAreProved == Commitment!RootIsReference /\ Commitment!WitnessesProveTheirNotes
RangeIsTheChain == History!ArrayIsTheRange /\ History!RootCommitsToTheChain
LoadedNodesSuffice == History!LoadedNodesSuffice
=============================================================================
