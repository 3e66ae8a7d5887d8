----------------------------- MODULE MCLibraries -----------------------------
(***************************************************************************)
(* What the wallet is built on, each part run to its own bounds: the trees *)
(* (MCTrees), the builder (TransactionBuilder), the formats                *)
(* (MCTransactions), the delivery of notes (NoteDelivery), the pure        *)
(* algorithms (MCAlgorithms) and the native methods over the tables        *)
(* (RustBackend).  `component` picks one    *)
(* of them at the start, and the others stay as they are.                  *)
(***************************************************************************)
EXTENDS NoteDelivery, RustBackend, TransactionBuilder

CONSTANTS Depth, MaxWitnesses, MaxRewinds, MaxLeaves, MaxGenerated, Works

CONSTANT MaxParams

VARIABLES component, part,
          tree, witnesses, saved, fork, commitments,
          array, view, loaded, failed, blocks,
          data, wire, spoiled, got,
          subject

-----------------------------------------------------------------------------
(* The native methods: one account, a chain of two blocks above the         *)
(* checkpoint, with a payment to the wallet, one of its own to a shielded   *)
(* or a transparent address, and the shielding of a transparent output.     *)

Output(to, memo, account, payer) == [to |-> to, memo |-> memo, account |-> account, payer |-> payer]
Transaction(spends, outs, vins, vouts) ==
  [spends |-> spends, outs |-> outs, vins |-> vins, vouts |-> vouts, expiry |-> 4]
MCBody ==
  ("incoming" :> Transaction({}, <<Output("me", "thanks", <<0>>, << >>)>>, {}, << >>))
  @@ ("payment" :> Transaction({<<"incoming", 0>>},
        <<Output("bob", "rent", << >>, <<0>>), Output("me", "empty", <<0>>, <<0>>)>>, {}, << >>))
  @@ ("exit" :> Transaction({<<"incoming", 0>>}, <<Output("me", "empty", <<0>>, <<0>>)>>, {}, <<"t1">>))
  @@ ("shielding" :> Transaction({}, <<Output("me", "shielded", <<0>>, <<0>>)>>, {"u1"}, << >>))
MCPayment ==
  ("payment" :> [index |-> 0, to |-> "bob", memo |-> <<"rent">>])
  @@ ("exit" :> [index |-> 0, to |-> "t1", memo |-> << >>])
  @@ ("shielding" :> [index |-> 0, to |-> "me", memo |-> <<"shielded">>])
MCCoins == "u1" :> 3

-----------------------------------------------------------------------------
(* The builder: notes of two keys with one anchor, one of another with a    *)
(* value beyond the limit, and a coin that is worth less than nothing.      *)

MCNotes ==
  LET Note(owner, value, position, anchor) ==
        [owner |-> owner, value |-> value, position |-> position, anchor |-> anchor]
  IN  {Note(1, 5, 1, 31), Note(1, 20, 2, 31), Note(2, 6, 3, 31), Note(1, TxMaxMoney + 1, 4, 32)}
MCTransparentCoins == {[owner |-> 1, value |-> 4, n |-> 0], [owner |-> 1, value |-> -1, n |-> 1]}
MCValues == {-1, 2, 7}
MCVersions == {Sapling, ZFuture}
MCRandomness == {<<1, 3, 9, 2, 5, 4>>, <<4, 0, 0, 7, 2, 1>>}

-----------------------------------------------------------------------------
(* The components side by side.                                             *)

\* What a stream cipher may yield under a wrong key: the values of Garbage.
WrongPlaintexts ==
  {[lead |-> 1, d |-> "d1", value |-> 1, r |-> <<"r", 0>>, memo |-> "hello"],
   [lead |-> 2, d |-> "dbad", value |-> 1, r |-> <<"r", 0>>, memo |-> "hello"]}

Trees == INSTANCE MCTrees WITH which <- part
Transactions == INSTANCE MCTransactions WITH altered <- spoiled
Algorithms == INSTANCE MCAlgorithms WITH s <- subject

treeVars == <<tree, witnesses, saved, fork, commitments, array, view, loaded, failed, blocks>>
wireVars == <<data, wire, spoiled, got>>

TreesIdle ==
  Trees!Commitment!Init /\ Trees!History!Init /\ blocks = <<CHOOSE w \in Works : TRUE>>
BuilderIdle == BuilderInit /\ builder.tx.version = Sapling
WireIdle == Transactions!Wire!Init /\ data = CHOOSE d \in Transactions!Samples : TRUE
DeliveryIdle == Init /\ canopy = 0

LibrariesInit ==
  \/ /\ component = "trees" /\ Trees!Init
     /\ BuilderIdle /\ WireIdle /\ DeliveryIdle /\ subject = << >> /\ BackendInit
  \/ /\ component = "builder" /\ part = "builder" /\ BuilderInit
     /\ TreesIdle /\ WireIdle /\ DeliveryIdle /\ subject = << >> /\ BackendInit
  \/ /\ component = "wire" /\ part = "wire" /\ Transactions!Wire!Init
     /\ TreesIdle /\ BuilderIdle /\ DeliveryIdle /\ subject = << >> /\ BackendInit
  \/ /\ component = "delivery" /\ part = "delivery" /\ Init
     /\ TreesIdle /\ BuilderIdle /\ WireIdle /\ subject = << >> /\ BackendInit
  \/ /\ component = "algorithms" /\ Algorithms!Init
     /\ TreesIdle /\ BuilderIdle /\ WireIdle /\ DeliveryIdle /\ BackendInit
  \/ /\ component = "backend" /\ part = "backend" /\ BackendInit
     /\ TreesIdle /\ BuilderIdle /\ WireIdle /\ DeliveryIdle /\ subject = << >>

LibrariesNext ==
  \/ /\ component = "trees" /\ Trees!Next
     /\ UNCHANGED <<component, builderVars, wireVars, vars, subject, backendVars>>
  \/ /\ component = "builder" /\ BuilderNext
     /\ UNCHANGED <<component, part, treeVars, wireVars, vars, subject, backendVars>>
  \/ /\ component = "wire" /\ Transactions!Wire!Next
     /\ UNCHANGED <<component, part, treeVars, builderVars, vars, subject, backendVars>>
  \/ /\ component = "delivery" /\ Next
     /\ UNCHANGED <<component, part, treeVars, builderVars, wireVars, subject, backendVars>>
  \/ /\ component = "algorithms" /\ Algorithms!Next
     /\ UNCHANGED <<component, treeVars, builderVars, wireVars, vars, backendVars>>
  \/ /\ component = "backend" /\ BackendNext
     /\ UNCHANGED <<component, part, treeVars, builderVars, wireVars, vars, subject>>
LibrariesSpec ==
  /\ LibrariesInit
  /\ [][LibrariesNext]_<<component, part, treeVars, builderVars, wireVars, vars, subject,
                         backendVars>>

-----------------------------------------------------------------------------
(* The properties, stated in their modules; those of NoteDelivery,          *)
(* TransactionBuilder and RustBackend hold in every state, the others are   *)
(* asked of their component.                                                *)

\* The commitment tree and its witnesses agree with the tree built whole over
\* the commitments, whatever was written, read back and rewound (CommitmentTree).
CommitmentsAreProved == component = "trees" => Trees!CommitmentsAreProved
\* The history tree is the mountain range of the blocks that remain, and its
\* root commits to all of them (HistoryTree).
RangeIsTheChain == component = "trees" => Trees!RangeIsTheChain
\* A loaded view lacks no node it promised to hold (HistoryTree).
LoadedNodesSuffice == component = "trees" => Trees!LoadedNodesSuffice
\* What was written reads back, and of what the reader keeps nothing else does
\* (TxWire); what was built reads back too (TransactionBuilder).
RoundTrip == BuiltSurvivesTheWire /\ (component = "wire" => Transactions!RoundTrip)
\* Signature hashes and ids commit to all effects and to no signature (TxWire).
DigestsCommit == component = "wire" => Transactions!DigestsCommit
\* Keys and addresses agree on every route to them (MCAlgorithms).
KeysAgree == component = "algorithms" => Algorithms!KeysAgree
\* What a text, a script, a memo, a header or a payment URI is read as is written
\* back to it (MCAlgorithms).
ReadingIsCanonical == component = "algorithms" => Algorithms!ReadingIsCanonical
\* A signature verifies exactly when its equation holds, alone and in a batch
\* (MCAlgorithms).
SignaturesVerify == component = "algorithms" => Algorithms!SignaturesVerify
\* The proof of work accepts the sequences that are solutions (MCAlgorithms).
SolutionsAreValid == component = "algorithms" => Algorithms!SolutionsAreValid
\* The demo extension's coins move as their locks say (MCAlgorithms).
DemoLocksHold == component = "algorithms" => Algorithms!DemoLocksHold
\* The circuits admit what they claim and nothing else (MCAlgorithms).
CircuitsProveClaims == component = "algorithms" => Algorithms!CircuitsProveClaims
=============================================================================
