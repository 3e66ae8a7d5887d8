------------------------------ MODULE Network ------------------------------
(***************************************************************************)
(* The DragonX network as a light wallet sees it: one block chain that     *)
(* grows, reorganises, and mines the transactions that concern the wallet. *)
(* This is the environment of the wallet database, not code of the         *)
(* repository; it is modelled from how the SDK and librustzcash use it.    *)
(*                                                                         *)
(* Heights are relative to the wallet's birthday checkpoint, which is      *)
(* height 0 and never reorganised; chain[h] is the block at height h.      *)
(***************************************************************************)
EXTENDS Integers, Sequences, FiniteSets

CONSTANTS
  Tx,           \* transactions; each one that pays the wallet makes one note
  Incoming,     \* transactions that pay the wallet and spend none of its notes
  Pays,         \* transactions with an output to the wallet (receipt, change)
  None,         \* SQL NULL
  ExpiryDelta,  \* blocks for which a built transaction stays valid
  MaxHeight,    \* bound: the chain grows no higher
  MaxReorgs     \* bound: number of reorganisations

ASSUME NetworkAssumption ==
  /\ Incoming \subseteq Pays /\ Pays \subseteq Tx
  /\ ExpiryDelta \in Nat /\ MaxHeight \in Nat /\ MaxReorgs \in Nat
  /\ None \notin Tx /\ None \notin Nat \X Nat /\ None \notin Nat

VARIABLES
  chain,   \* the best chain: a sequence of compact blocks
  epoch,   \* number of reorganisations so far; makes block hashes unique
  own      \* transactions that spend wallet notes: who built them, and how

netVars == <<chain, epoch, own>>

----------------------------------------------------------------------------
(* A note is named by the transaction that creates it.  Its nullifier      *)
(* depends on its position in the commitment tree, so it is the note       *)
(* together with the block that mined it.                                  *)

Spend == Tx \ Incoming

BlockHash == Nat \X Nat                      \* <<height, epoch>>
Nullifier == Tx \X BlockHash
CompactTx == [hash: Tx, spends: SUBSET Nullifier]
CompactBlock == [epoch: Nat, txs: SUBSET CompactTx]
Builder == {"nobody", "wallet", "other"}

HashAt(blocks, h) == <<h, blocks[h].epoch>>
Hashes(txs) == {x.hash : x \in txs}
Revealed(txs) == UNION {x.spends : x \in txs}

\* The block that mined t on chain, or none.
MinedOn(t, h) == t \in Hashes(chain[h].txs)
OnChain(t) == \E h \in DOMAIN chain : MinedOn(t, h)
SpentOnChain(nf) == \E h \in DOMAIN chain : nf \in Revealed(chain[h].txs)

\* The nullifiers of notes that stand unspent on the chain.
LiveNullifiers ==
  {nf \in {<<n, HashAt(chain, h)>> : n \in Pays, h \in DOMAIN chain} :
     /\ MinedOn(nf[1], nf[2][1])
     /\ ~SpentOnChain(nf)}

\* What a block on top of the chain may contain: an incoming payment, or a
\* built spend that has not expired and whose notes are there and unspent.
Minable ==
  {[hash |-> t, spends |-> {}] : t \in {u \in Incoming : ~OnChain(u)}}
    \cup
  {[hash |-> t, spends |-> own[t].spends] :
     t \in {u \in Spend : /\ own[u].by # "nobody"
                          /\ ~OnChain(u)
                          /\ Len(chain) + 1 <= own[u].expiry
                          /\ own[u].spends \subseteq LiveNullifiers}}

Consistent(txs) ==
  \A x, y \in txs : x # y => x.spends \cap y.spends = {}

----------------------------------------------------------------------------
NetInit ==
  /\ chain = << >>
  /\ epoch = 0
  /\ own = [t \in Spend |-> [by |-> "nobody", spends |-> {}, expiry |-> 0]]

MineBlock ==
  /\ Len(chain) < MaxHeight
  /\ \E txs \in SUBSET Minable :
       /\ Consistent(txs)
       /\ chain' = Append(chain, [epoch |-> epoch, txs |-> txs])
  /\ UNCHANGED <<epoch, own>>

\* The chain above height h is abandoned; its transactions may be mined again.
Reorg(h) ==
  /\ epoch < MaxReorgs
  /\ h < Len(chain)
  /\ chain' = SubSeq(chain, 1, h)
  /\ epoch' = epoch + 1
  /\ UNCHANGED own

\* Another device holding the same seed builds and broadcasts a spend.
OtherDeviceSpends(t) ==
  /\ own[t].by = "nobody"
  /\ \E nfs \in SUBSET LiveNullifiers \ {{}} :
       own' = [own EXCEPT ![t] = [by |-> "other", spends |-> nfs,
                                  expiry |-> Len(chain) + 1 + ExpiryDelta]]
  /\ UNCHANGED <<chain, epoch>>

NetNext ==
  \/ MineBlock
  \/ \E h \in 0 .. Len(chain) : Reorg(h)
  \/ \E t \in Spend : OtherDeviceSpends(t)

NetTypeOK ==
  /\ chain \in Seq(CompactBlock)
  /\ epoch \in Nat
  /\ own \in [Spend -> [by: Builder, spends: SUBSET Nullifier, expiry: Nat]]
=============================================================================
