--------------------------- MODULE MCTransactions ---------------------------
(***************************************************************************)
(* The formats with one transaction of each version on its way.            *)
(***************************************************************************)
EXTENDS Integers, Sequences

CONSTANTS TxMaxMoney, BranchIds

VARIABLES data, wire, altered, got

Formats == INSTANCE TxFormat

In(n) == [hash |-> n, n |-> n + 1, scriptSig |-> <<n, 4>>, sequence |-> n]
Out(v) == [value |-> v, scriptPubkey |-> <<5>>]
TzeIn(n) == [hash |-> n, n |-> 1, extensionId |-> 2, mode |-> 300, payload |-> <<3>>]
TzeOut(v) == [value |-> v, extensionId |-> 2, mode |-> 3, payload |-> <<4>>]
Spend(n) == [cv |-> n, anchor |-> 8, nullifier |-> n + 1, rk |-> n + 2, zkproof |-> n + 3,
             spendAuthSig |-> <<n + 4>>]
Output(n) == [cv |-> n, cmu |-> n + 1, ephemeralKey |-> n + 2, encNote |-> n + 3, encMemo |-> n + 4,
              encTag |-> n + 5, outCiphertext |-> n + 6, zkproof |-> n + 7]
Js(groth) ==
    LET f(g) == IF g \in {"vpubOld", "vpubNew"} THEN 2 ELSE 60
    IN  [g \in {Formats!JsDescription(groth)[i] : i \in DOMAIN Formats!JsDescription(groth)} |-> f(g)]
Action(n) == [cvNet |-> n, nullifier |-> n, rkBytes |-> n, cmx |-> n, epkBytes |-> n, encNote |-> n,
              encMemo |-> n, encTag |-> n, outCiphertext |-> n]

Basic(v) == [Formats!EmptyTx(v) EXCEPT !.vin = <<In(11), In(12)>>, !.vout = <<Out(3), Out(4)>>,
                                       !.lockTime = 6]
WithJs(tx) == [tx EXCEPT !.joinsplits = <<Js(Formats!HasSapling(tx.version))>>,
                         !.joinsplitPubkey = <<61>>, !.joinsplitSig = <<62>>]
WithSapling(tx) ==
    [tx EXCEPT !.expiryHeight = 9, !.valueBalance = 3, !.bindingSig = <<63>>,
               !.spends = <<Spend(20), Spend(30)>>, !.outputs = <<Output(40), Output(50)>>]
WithTze(tx) == [tx EXCEPT !.tzeInputs = <<TzeIn(14)>>, !.tzeOutputs = <<TzeOut(2)>>]

Bundle == [actions |-> <<Action(65), Action(66)>>, flags |-> 2, valueBalance |-> 4, anchor |-> 67]
Sample(tx) == [data |-> tx, bundle |-> <<Bundle>>, branchId |-> 1]
Samples ==
    {Sample(tx) : tx \in {Basic(Formats!Sprout(1)), WithJs(Basic(Formats!Sprout(2))),
                          [WithJs(Basic(Formats!Overwinter)) EXCEPT !.expiryHeight = 9],
                          WithJs(WithSapling(Basic(Formats!Sapling))),
                          WithSapling(Basic(Formats!Zip225)),
                          WithTze(WithSapling(Basic(Formats!ZFuture)))}}

Wire == INSTANCE TxWire

RoundTrip == Wire!RoundTrip
DigestsCommit == Wire!SighashCommits /\ Wire!TxIdCommits
=============================================================================
