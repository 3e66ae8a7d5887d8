-------------------------- MODULE ConsolidationSweep --------------------------
(***************************************************************************)
(* The consolidation sweep (SdkSynchronizer.consolidate, started and       *)
(* resumed by ConsolidationController) over the notes of NoteSelection,    *)
(* beside the scanner, the refresh of pending transactions, an ordinary    *)
(* payment and a process that may die.                                     *)
(*                                                                         *)
(* A transaction is one slot of `txs` from its building to the deletion of *)
(* its pending row; it is of a batch or of the payment alike.  Heights are *)
(* held as distances: a note's age, a transaction's blocks to its expiry.  *)
(***************************************************************************)
EXTENDS NoteSelection, Sequences

CONSTANTS
  InitialNotes,     \* a sequence of [value, age, witnessed]
  PaymentAmount,
  MaxInputs,        \* MAX_CONSOLIDATION_INPUTS
  MaxInFlight,      \* MAX_CONSOLIDATION_INFLIGHT
  GraceRounds,      \* CONSOLIDATION_IDLE_GRACE_ROUNDS
  MaxFailures,      \* maxConsecutiveSubmitFailures
  ExpiryDelta,      \* blocks a transaction stays minable
  Slots,            \* transactions known at a time
  MaxSkips, MaxLost, MaxPayments, MaxDeaths   \* bounds of the environment

ASSUME SweepAssumption ==
  /\ IsFiniteSet(Slots) /\ None \notin Slots
  /\ IsFiniteSet(DOMAIN InitialNotes) /\ DOMAIN InitialNotes \subseteq Nat
  /\ \A n \in DOMAIN InitialNotes : InitialNotes[n].value \in Nat
  /\ Fee \in Nat /\ MaxTxSpends \in Nat /\ PaymentAmount \in Nat
  /\ MaxInFlight \in Nat /\ ExpiryDelta \in Nat

VARIABLES
  txs,       \* slot -> [inputs, back, accepted, ttl, row], or none
  sweep,     \* the coroutine
  inProgress,\* the persisted flag
  bounds     \* what the environment has left

vars == <<notes, txs, sweep, inProgress, bounds>>

NoSweep == [phase |-> "off", inflight |-> {}, idle |-> 0, failures |-> 0, batch |-> None]
Running == sweep.phase \in {"topUp", "submit", "head", "settle"}
\* A row's id is not used again while the sweep may look for it.
FreeSlots == {t \in Slots : txs[t] = << >> /\ t \notin sweep.inflight}
Tx(t) == txs[t][1]

Init ==
  /\ notes = [n \in DOMAIN InitialNotes |->
                [value |-> InitialNotes[n].value, age |-> InitialNotes[n].age, spent |-> None,
                 witnessed |-> InitialNotes[n].witnessed]]
  /\ txs = [t \in Slots |-> << >>]
  /\ sweep = NoSweep /\ inProgress = FALSE
  /\ bounds = [skips |-> MaxSkips, lost |-> MaxLost, payments |-> MaxPayments, deaths |-> MaxDeaths]

\* Mutant: only the first of them is.
StoreSentTxOneNote(t, inputs, back) ==
  /\ notes' = [notes EXCEPT ![CHOOSE n \in inputs : TRUE].spent = t]
  /\ txs' = [txs EXCEPT ![t] = <<[inputs |-> inputs, back |-> back, accepted |-> FALSE,
                                  ttl |-> ExpiryDelta, row |-> "created"]>>]

\* store_sent_tx: the notes are spent from the moment the transaction exists.
StoreSentTx(t, inputs, back) ==
  /\ notes' = [n \in DOMAIN notes |-> IF n \in inputs THEN [notes[n] EXCEPT !.spent = t] ELSE notes[n]]
  /\ txs' = [txs EXCEPT ![t] = <<[inputs |-> inputs, back |-> back, accepted |-> FALSE,
                                  ttl |-> ExpiryDelta, row |-> "created"]>>]

Unlock(t) == [n \in DOMAIN notes |->
                IF notes[n].spent = t THEN [notes[n] EXCEPT !.spent = None] ELSE notes[n]]

-----------------------------------------------------------------------------
(* The sweep. *)

\* start, also to resume: a no-op while one is running.
Start ==
  /\ ~Running
  /\ sweep' = [NoSweep EXCEPT !.phase = "topUp"] /\ inProgress' = TRUE
  /\ UNCHANGED <<notes, txs, bounds>>

End(result) ==
  /\ sweep' = [NoSweep EXCEPT !.phase = result] /\ inProgress' = FALSE

\* topUp: the queue is full.
QueueIsFull ==
  /\ sweep.phase = "topUp" /\ Cardinality(sweep.inflight) >= MaxInFlight
  /\ sweep' = [sweep EXCEPT !.phase = "head"]
  /\ UNCHANGED <<notes, txs, inProgress, bounds>>

\* topUp: encodeConsolidation finds nothing, throws away the sweep, fails, or
\* locks the notes of a batch.
EncodeConsolidation ==
  /\ sweep.phase = "topUp" /\ Cardinality(sweep.inflight) < MaxInFlight
  /\ LET inputs == ConsolidateNotes(MaxInputs) IN
     \/ /\ inputs = {} /\ ~NeedsRescan
        /\ sweep' = [sweep EXCEPT !.phase = "head"]
        /\ UNCHANGED <<notes, txs, inProgress>>
     \/ /\ inputs = {} /\ NeedsRescan
        /\ End("needsRescan")
        /\ UNCHANGED <<notes, txs>>
     \/ \* isFailedEncoding: the prover or a lookup failed
        /\ inputs # {}
        /\ sweep' = [sweep EXCEPT !.phase = "head"]
        /\ UNCHANGED <<notes, txs, inProgress>>
     \/ /\ inputs # {}
        /\ \E t \in FreeSlots :
             /\ \A u \in FreeSlots : t <= u
             /\ StoreSentTx(t, inputs, Total(inputs) - Fee)
             /\ sweep' = [sweep EXCEPT !.phase = "submit", !.batch = t]
        /\ UNCHANGED inProgress
  /\ UNCHANGED bounds

\* Mutant: it is only counted while something is in flight.
CountFailureInFlight(s) == IF s.inflight = {} THEN s ELSE [s EXCEPT !.failures = @ + 1]

\* A submission that failed, and how many have in a row.
CountFailure(s) == [s EXCEPT !.failures = @ + 1]

AfterFailure ==
  LET s == CountFailure(sweep) IN
  IF s.failures >= MaxFailures
  THEN End("nodeRejecting")
  ELSE sweep' = [s EXCEPT !.phase = "topUp", !.batch = None] /\ UNCHANGED inProgress

\* submit: the node accepts the batch or refuses it, or its answer is lost.
Submit ==
  /\ sweep.phase = "submit"
  /\ LET t == sweep.batch IN
     \/ /\ txs' = [txs EXCEPT ![t][1].accepted = TRUE, ![t][1].row = "submitted"]
        /\ sweep' = [sweep EXCEPT !.phase = "topUp", !.batch = None,
                                  !.inflight = @ \cup {t}, !.failures = 0]
        /\ UNCHANGED <<notes, inProgress, bounds>>
     \/ \E lost \in {0, 1} :
          /\ lost <= bounds.lost /\ bounds' = [bounds EXCEPT !.lost = @ - lost]
          /\ txs' = [txs EXCEPT ![t][1].accepted = (lost = 1), ![t][1].row = "failed"]
          /\ AfterFailure
          /\ UNCHANGED notes
     \/ \* the user cancelled it while it was encoded: cleaned up at once
        /\ notes' = Unlock(t)
        /\ txs' = [txs EXCEPT ![t] = << >>]
        /\ AfterFailure
        /\ UNCHANGED bounds

\* The head of the loop: after four failures in a row it has ended already.
Loop ==
  /\ sweep.phase = "head"
  /\ \/ /\ sweep.inflight = {} /\ sweep.idle >= GraceRounds
        /\ End("done")
     \/ /\ sweep.inflight = {} /\ sweep.idle < GraceRounds
        /\ sweep' = [sweep EXCEPT !.idle = @ + 1, !.phase = "topUp"]
        /\ UNCHANGED inProgress
     \/ /\ sweep.inflight # {}
        /\ sweep' = [sweep EXCEPT !.idle = 0, !.phase = "settle"]
        /\ UNCHANGED inProgress
  /\ UNCHANGED <<notes, txs, bounds>>

\* What the rows of the batches in flight say a poll interval later; a mined one
\* says so once the refresh has written its height.
Settled(t) ==
  txs[t] = << >> \/ Tx(t).row \notin {"submitted", "inBlock"} \/ Tx(t).ttl = 0
Settle ==
  /\ sweep.phase = "settle"
  /\ sweep' = [sweep EXCEPT !.inflight = {t \in @ : ~Settled(t)}, !.phase = "topUp"]
  /\ UNCHANGED <<notes, txs, inProgress, bounds>>

-----------------------------------------------------------------------------
(* What goes on beside it. *)

\* sendToAddress, with its change.
Send ==
  /\ bounds.payments > 0
  /\ LET inputs == Spend(PaymentAmount) IN
     /\ inputs # {}
     /\ \E t \in FreeSlots :
          /\ \A u \in FreeSlots : t <= u
          /\ notes' = [n \in DOMAIN notes |->
                         IF n \in inputs THEN [notes[n] EXCEPT !.spent = t] ELSE notes[n]]
          /\ txs' = [txs EXCEPT ![t] = <<[inputs |-> inputs, ttl |-> ExpiryDelta, row |-> "submitted",
                                          back |-> Total(inputs) - PaymentAmount - Fee,
                                          accepted |-> TRUE]>>]
  /\ bounds' = [bounds EXCEPT !.payments = @ - 1]
  /\ UNCHANGED <<sweep, inProgress>>

Minable == {t \in Slots : txs[t] # << >> /\ Tx(t).accepted /\ Tx(t).inputs \subseteq DOMAIN notes}
\* The id of a new note: no note has it, and none had that a transaction spends.
Taken == DOMAIN notes \cup UNION {Tx(t).inputs : t \in {t \in Slots : txs[t] # << >>}}
FreeNote == CHOOSE n \in 1 .. Cardinality(Taken) + 1 : n \notin Taken

\* The network mines at most one of our transactions in a block, and the wallet
\* scans it: spent notes go, the one paid back appears, expired locks end.
ScanBlock(mined) ==
  /\ mined \subseteq Minable /\ Cardinality(mined) <= 1
  /\ mined = {} /\ Minable # {} => bounds.skips > 0
  /\ LET gone == UNION {Tx(t).inputs : t \in mined}
         back == {t \in mined : Tx(t).back > 0}
         kept == DOMAIN notes \ gone
         new == IF back = {} THEN {} ELSE {FreeNote}
         expires(t) == txs[t] # << >> /\ t \notin mined /\ Tx(t).ttl <= 1
         frees(n) == notes[n].spent # None /\ expires(notes[n].spent)
     IN
     /\ notes' = [n \in kept \cup new |->
                    IF n \in kept
                    THEN [notes[n] EXCEPT !.age = IF @ < Maturity THEN @ + 1 ELSE @,
                                          !.spent = IF frees(n) \/ @ \in mined THEN None ELSE @]
                    ELSE [value |-> Tx(CHOOSE t \in back : TRUE).back, age |-> 0, spent |-> None,
                          witnessed |-> TRUE]]
     /\ txs' = [t \in Slots |->
                  IF txs[t] = << >> THEN << >>
                  ELSE <<[Tx(t) EXCEPT !.ttl = IF @ > 0 THEN @ - 1 ELSE 0,
                                       !.row = IF t \in mined THEN "inBlock" ELSE @,
                                       !.accepted = @ /\ t \notin mined /\ ~expires(t)]>>]
  /\ bounds' = IF mined = {} /\ Minable # {} THEN [bounds EXCEPT !.skips = @ - 1] ELSE bounds
  /\ UNCHANGED <<sweep, inProgress>>

\* refreshPendingTransactions: a mined row learns its height, a failed one is
\* cleaned up, and a row that is over is deleted.
Refresh(t) ==
  /\ txs[t] # << >>
  /\ \/ /\ Tx(t).row = "inBlock"
        /\ txs' = [txs EXCEPT ![t][1].row = "mined"]
        /\ UNCHANGED notes
     \/ /\ Tx(t).row = "failed"
        /\ notes' = Unlock(t)
        /\ txs' = [txs EXCEPT ![t][1].row = "cleaned"]
     \/ /\ Tx(t).row \in {"mined", "cleaned"} \/ (Tx(t).row \in {"submitted", "created"} /\ Tx(t).ttl = 0)
        /\ ~Tx(t).accepted
        /\ t # sweep.batch
        /\ txs' = [txs EXCEPT ![t] = << >>]
        /\ notes' = Unlock(t)
  /\ UNCHANGED <<sweep, inProgress, bounds>>

\* The process dies; what was built stays, the sweep does not.
Die ==
  /\ Running /\ bounds.deaths > 0
  /\ sweep' = NoSweep
  /\ bounds' = [bounds EXCEPT !.deaths = @ - 1]
  /\ UNCHANGED <<notes, txs, inProgress>>

Next ==
  \/ Start \/ QueueIsFull \/ EncodeConsolidation \/ Submit \/ Loop \/ Settle
  \/ Send \/ Die
  \/ \E mined \in SUBSET Slots : ScanBlock(mined)
  \/ \E t \in Slots : Refresh(t)

\* The coroutine runs and polls; blocks are found and scanned; every scan is
\* followed by a refresh of every row.  Nobody has to start a sweep, to pay or
\* to die.
Spec ==
  /\ Init /\ [][Next]_vars
  /\ WF_vars(QueueIsFull \/ EncodeConsolidation \/ Submit \/ Loop \/ Settle)
  /\ WF_vars(\E mined \in SUBSET Slots : ScanBlock(mined))
  /\ \A t \in Slots : WF_vars(Refresh(t))

-----------------------------------------------------------------------------
(* Properties. *)

Live(t) == txs[t] # << >> /\ Tx(t).row \in {"created", "submitted"} /\ Tx(t).ttl > 0

\* At most MaxInFlight batches are pending, and two transactions the wallet has
\* not given up never share a note, nor is one of their notes offered to the
\* next spend, through rejections, lost answers, expiry and a second sweep after
\* a crash ("concurrent batches always select disjoint notes and never
\* double-spend", SdkSynchronizer.kt:744-746).
BatchesAreDisjoint ==
  /\ Cardinality(sweep.inflight) <= MaxInFlight
  /\ \A t \in Slots : Live(t) =>
       /\ \A n \in Tx(t).inputs \cap DOMAIN notes : notes[n].spent = t
       /\ \A u \in Slots \ {t} : Live(u) => Tx(t).inputs \cap Tx(u).inputs = {}

\* A sweep that runs comes to an end, whatever the node and the prover answer,
\* unless the process dies; and a note that was locked is spent or free again.
SweepSettles ==
  /\ Running ~> ~Running
  /\ \A n \in 1 .. Len(InitialNotes) + 2 :
       (n \in DOMAIN notes /\ notes[n].spent # None) ~> (n \notin DOMAIN notes \/ notes[n].spent = None)

\* A sweep ends in a demand to rescan only when a note that is old enough for
\* the anchor has no witness (lib.rs:1166: "their witnesses are missing / not yet
\* rebuilt"; SdkSynchronizer.kt:820-822 waits for outputs that have not matured).
RescanOnlyForLostWitnesses ==
  [][sweep'.phase = "needsRescan" /\ Running =>
       \E n \in AtAnchor : ~notes[n].witnessed]_vars
=============================================================================
