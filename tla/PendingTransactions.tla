------------------------ MODULE PendingTransactions ------------------------
(*****************************************************************************)
(* The life of an outgoing payment in the SDK: the flow of sendToAddress in  *)
(* SdkSynchronizer.kt over PersistentTransactionManager.kt (create a row,    *)
(* encode, submit), the user's cancellation, and refreshPendingTransactions  *)
(* which reports mined payments, cleans up cancelled and failed ones, and    *)
(* deletes rows.  They run in coroutines of their own and share two          *)
(* databases: the pending DB of the SDK, behind daoMutex, and the data DB    *)
(* of librustzcash, of which only the wallet's own transactions and the      *)
(* notes they lock matter.                                                   *)
(*                                                                           *)
(* A pending row and the transaction encoded for it share a name.  Heights   *)
(* are small; every note is confirmed from the start; no reorganisations     *)
(* (WalletDb has them).                                                      *)
(*****************************************************************************)
EXTENDS Integers, FiniteSets

CONSTANTS
  Tx,            \* payments
  WithChange,    \* the payments that leave change for the wallet
  Note,          \* confirmed notes of the wallet
  None,          \* null: no row, no block, no transaction
  ExpiryDelta,   \* DEFAULT_TX_EXPIRY_DELTA
  ExpirySlack,   \* EXPIRY_OFFSET / 2: expired transactions linger this long
  LongExpired,   \* rows this far past their expiry are dropped unseen
  MaxExpiry,     \* bound: no transaction is built to expire later
  MaxHeight,     \* bound: heights above are all the same to the wallet
  MaxFaults      \* bound: crashes, failed calls, rewinds, abandoned flows

ASSUME PendingAssumption ==
  /\ WithChange \subseteq Tx
  /\ ExpiryDelta \in Nat /\ ExpirySlack \in Nat /\ LongExpired \in Nat
  /\ MaxExpiry \in Nat /\ MaxHeight \in Nat
  /\ MaxExpiry + ExpirySlack < MaxHeight
  /\ MaxFaults \in Nat
  /\ None \notin Nat /\ None \notin Tx

VARIABLES      \* the network
  net,         \* height of the chain
  minedAt,     \* the block that mined each transaction, or None
  mempool      \* accepted, and neither mined nor expired

VARIABLES      \* the data DB
  tip,         \* last scanned height
  built,       \* what was encoded for a payment: its notes and expiry
  row,         \* transactions: no row, created here, or found by a scan
  block,       \* transactions.block
  change,      \* received_notes holds the change of these transactions
  lock         \* received_notes.spent

VARIABLES      \* the pending DB
  pending,     \* pending_transactions: the row of each payment
  age          \* of the row: below 30 minutes, below 30 days, or more

VARIABLES      \* coroutines
  pc,          \* the flow of each payment
  reply,       \* the local outcome of its submission
  refresh,     \* refreshPendingTransactions and its locals
  alive        \* onReady's job, which scans and refreshes, has not failed

VARIABLE faults

netVars == <<net, minedAt, mempool>>
dataVars == <<tip, built, row, block, change, lock>>
pendingVars == <<pending, age>>
flowVars == <<pc, reply>>
jobVars == <<refresh, alive>>
vars == <<netVars, dataVars, pendingVars, flowVars, jobVars, faults>>

Fault == faults < MaxFaults /\ faults' = faults + 1

----------------------------------------------------------------------------
(* Rows of the pending DB.  The raw transaction and its id are written       *)
(* together; marking for deletion unlinks the id.  An error is the pair of   *)
(* errorCode and errorMessage.                                               *)

Error == {"none", "ok", "rejected", "encoding", "submitting", "marked"}
Row == [cancelled: BOOLEAN, raw: {"empty", "linked", "unlinked"},
        encoded: BOOLEAN, submitted: BOOLEAN, error: Error,
        mined: Nat \cup {None}]

\* null is not a row.
ASSUME RowAssumption == None \notin Row

NewRow == [cancelled |-> FALSE, raw |-> "empty", encoded |-> FALSE,
           submitted |-> FALSE, error |-> "none", mined |-> None]

IsFailedEncoding(p) == p.raw = "empty" /\ p.encoded
IsFailedSubmit(p) == p.error \notin {"none", "ok"}
IsSubmitSuccess(p) == p.submitted /\ p.error = "ok"
IsMined(p) == p.mined # None
IsMarkedForDeletion(p) == p.raw = "unlinked" /\ p.error = "marked"

\* By how many blocks the payment's transaction has expired at height h.
PastExpiry(t, p, h) == IF p.raw = "empty" THEN 0 ELSE h - built[t].expiry

IsSafeToDiscard(t, p) ==
  \/ IsMined(p) /\ age[t] # "fresh"
  \/ IsFailedEncoding(p) /\ age[t] # "fresh"
  \/ IsFailedSubmit(p) /\ IsMarkedForDeletion(p)
  \/ ~IsMined(p) /\ age[t] = "ancient"

IsCancelled(t) == pending[t] # None /\ pending[t].cancelled

\* An UPDATE of the row, which may have been deleted.
Update(t, p) == pending' = IF pending[t] = None THEN pending
                           ELSE [pending EXCEPT ![t] = p]

----------------------------------------------------------------------------
(* The network and the scanner                                               *)

SpentOnChain(n) == \E t \in Tx : minedAt[t] # None /\ n \in built[t].spends

Acceptable(t) ==
  /\ minedAt[t] = None
  /\ built[t].expiry > net
  /\ \A n \in built[t].spends :
       /\ ~SpentOnChain(n)
       /\ \A u \in mempool \ {t} : n \notin built[u].spends

MineBlock ==
  /\ net < MaxHeight
  /\ net' = net + 1
  /\ \E ts \in SUBSET mempool :
       /\ minedAt' = [t \in Tx |-> IF t \in ts THEN net + 1 ELSE minedAt[t]]
       /\ mempool' = {t \in mempool \ ts : built[t].expiry > net + 1}
  /\ UNCHANGED <<dataVars, pendingVars, flowVars, jobVars, faults>>

\* get_nullifiers: the note is unspent, or its spend is not mined.
Tracked(n) == lock[n] # None => block[lock[n]] = None

\* The transactions of block h that the scanner recognises, and what they spend.
Recognised(h) ==
  {t \in Tx : minedAt[t] = h /\ \E n \in built[t].spends : Tracked(n)}
Spender(n, h) == {t \in Recognised(h) : n \in built[t].spends /\ Tracked(n)}

\* Mutant: a spend that was mined in time expires all the same.
MutantUnlockExpired(marks, mined, h) ==
  [n \in Note |-> IF marks[n] # None /\ built[marks[n]].expiry < h
                  THEN None ELSE marks[n]]
UnlockExpired(marks, mined, h) ==
  [n \in Note |-> IF /\ marks[n] # None /\ mined[marks[n]] = None
                     /\ built[marks[n]].expiry < h
                  THEN None ELSE marks[n]]

ScanBlock ==
  LET h == tip + 1
      marks == [n \in Note |-> IF Spender(n, h) = {} THEN lock[n]
                               ELSE CHOOSE t \in Spender(n, h) : TRUE]
  IN  /\ alive /\ tip < net
      /\ tip' = h
      /\ row' = [t \in Tx |-> IF t \in Recognised(h) /\ row[t] = "none"
                              THEN "seen" ELSE row[t]]
      /\ block' = [t \in Tx |-> IF t \in Recognised(h) THEN h ELSE block[t]]
      /\ change' = change \cup (Recognised(h) \cap WithChange)
      /\ lock' = UnlockExpired(marks, block', h)
      /\ UNCHANGED <<netVars, built, pendingVars, flowVars, jobVars, faults>>

\* Received notes of the blocks above h are to go, but the join that finds them
\* runs after their transactions lost their block: the change stays.
Rewind(h) ==
  /\ alive /\ Fault
  /\ tip' = h
  /\ block' = [t \in Tx |-> IF block[t] # None /\ block[t] > h THEN None
                            ELSE block[t]]
  /\ UNCHANGED <<netVars, built, row, change, lock, pendingVars, flowVars,
                 jobVars>>

----------------------------------------------------------------------------
(* The data DB's side of a payment                                           *)

\* createToAddress: selects, proves and stores in one call.
CreateToAddress(t) ==
  LET expiry == tip + 1 + ExpiryDelta IN
  /\ expiry <= MaxExpiry
  /\ \E ns \in SUBSET {n \in Note : lock[n] = None} \ {{}} :
       /\ built' = [built EXCEPT ![t] = [spends |-> ns, expiry |-> expiry]]
       /\ lock' = [n \in Note |-> IF n \in ns THEN t ELSE lock[n]]
  /\ row' = [row EXCEPT ![t] = "created"]
  /\ UNCHANGED <<tip, block, change>>

\* removeInvalidOutboundTransaction, which swallows the exception when a change
\* note still refers to the row: then only the notes are freed.
RemoveOutbound(ts) ==
  /\ row' = [t \in Tx |-> IF t \in ts \ change THEN "none" ELSE row[t]]
  /\ lock' = [n \in Note |-> IF lock[n] \in ts THEN None ELSE lock[n]]
  /\ UNCHANGED <<tip, built, block, change>>

\* Mutant: a transaction that a scan has just found in a block is removed too.
MutantRemovable(t) == row[t] # "none"
\* findUnminedTransactionIds; cleanupCancelledTx succeeds when it then deletes it.
Removable(t) == row[t] # "none" /\ block[t] = None
CleanupSucceeds(t) == Removable(t) /\ t \notin change

----------------------------------------------------------------------------
(* The flow of a payment: initSpend, encode, submit                          *)

InitSpend(t) ==
  /\ pc[t] = "idle"
  /\ pending' = [pending EXCEPT ![t] = NewRow]
  /\ pc' = [pc EXCEPT ![t] = "encode"]
  /\ UNCHANGED <<netVars, dataVars, age, reply, jobVars, faults>>

CreateTransaction(t) ==
  /\ pc[t] = "encode"
  /\ CreateToAddress(t)
  /\ pc' = [pc EXCEPT ![t] = "created"]
  /\ UNCHANGED <<netVars, pendingVars, reply, jobVars, faults>>

\* No notes, no proof, or the stored transaction is not visible to Room in time
\* (or MaxExpiry is reached: the model's bound).  A flow cancelled meanwhile ends
\* in an exception: there is no transaction id to clean up.
EncodeFails(t) ==
  /\ \/ pc[t] = "encode" /\ (\/ \A n \in Note : lock[n] # None
                             \/ tip + 1 + ExpiryDelta > MaxExpiry)
        /\ UNCHANGED faults
     \/ pc[t] \in {"encode", "created"} /\ Fault
  /\ Update(t, [pending[t] EXCEPT !.error = "encoding", !.encoded = TRUE])
  /\ pc' = [pc EXCEPT ![t] = IF IsCancelled(t) THEN "done" ELSE "encoded"]
  /\ UNCHANGED <<netVars, dataVars, age, reply, jobVars>>

\* updateEncoding, then the row is read again: was it cancelled meanwhile?
UpdateEncoding(t) ==
  /\ pc[t] = "created"
  /\ Update(t, [pending[t] EXCEPT !.raw = "linked", !.encoded = TRUE])
  /\ pc' = [pc EXCEPT ![t] = IF IsCancelled(t) THEN "cleanup" ELSE "encoded"]
  /\ UNCHANGED <<netVars, dataVars, age, reply, jobVars, faults>>

CleanupCancelled(t) ==
  /\ pc[t] = "cleanup"
  /\ IF Removable(t) THEN RemoveOutbound({t}) ELSE UNCHANGED dataVars
  /\ pc' = [pc EXCEPT ![t] = IF CleanupSucceeds(t) THEN "mark" ELSE "done"]
  /\ UNCHANGED <<netVars, pendingVars, reply, jobVars, faults>>

\* markForDeletion.  Its two UPDATEs are one step: a row cut between them by a
\* kill is unlinked but not marked, like the row of OrphansAreDropped.
Marked(t) == [pending[t] EXCEPT !.raw = "unlinked", !.error = "marked"]

MarkCancelled(t) ==
  /\ pc[t] = "mark"
  /\ Update(t, Marked(t))
  /\ pc' = [pc EXCEPT ![t] = "done"]
  /\ UNCHANGED <<netVars, dataVars, age, reply, jobVars, faults>>

\* submit reloads the row and does nothing if it failed or was cancelled.
Submit(t) ==
  /\ pc[t] = "encoded"
  /\ pc' = [pc EXCEPT ![t] =
              IF \/ pending[t] = None \/ IsCancelled(t)
                 \/ IsFailedEncoding(pending[t])
              THEN "done" ELSE "submit"]
  /\ UNCHANGED <<netVars, dataVars, pendingVars, reply, jobVars, faults>>

\* The call to the server: accepted, rejected, or an exception, after which the
\* transaction may have been broadcast all the same.
SubmitTransaction(t) ==
  /\ pc[t] = "submit"
  /\ \/ /\ Acceptable(t)
        /\ mempool' = mempool \cup {t}
        /\ \/ reply' = [reply EXCEPT ![t] = "ok"] /\ UNCHANGED faults
           \/ reply' = [reply EXCEPT ![t] = "submitting"] /\ Fault
     \/ /\ UNCHANGED mempool
        /\ \/ ~Acceptable(t) /\ reply' = [reply EXCEPT ![t] = "rejected"]
                             /\ UNCHANGED faults
           \/ \E e \in {"rejected", "submitting"} :
                reply' = [reply EXCEPT ![t] = e] /\ Fault
  /\ pc' = [pc EXCEPT ![t] = "replied"]
  /\ UNCHANGED <<net, minedAt, dataVars, pendingVars, jobVars>>

RecordReply(t) ==
  /\ pc[t] = "replied"
  /\ Update(t, [pending[t] EXCEPT !.error = reply[t], !.submitted = TRUE])
  /\ pc' = [pc EXCEPT ![t] = "done"]
  /\ reply' = [reply EXCEPT ![t] = "none"]
  /\ UNCHANGED <<netVars, dataVars, age, jobVars, faults>>

\* The coroutine that collects the flow is cancelled: its screen was left.
Abandon(t) ==
  /\ pc[t] \notin {"idle", "done"}
  /\ Fault
  /\ pc' = [pc EXCEPT ![t] = "done"]
  /\ reply' = [reply EXCEPT ![t] = "none"]
  /\ UNCHANGED <<netVars, dataVars, pendingVars, jobVars>>

\* cancelSpend is refused once the row is known to be submitted.
CancelSpend(t) ==
  /\ pending[t] # None /\ ~pending[t].submitted /\ ~pending[t].cancelled
  /\ pending' = [pending EXCEPT ![t].cancelled = TRUE]
  /\ UNCHANGED <<netVars, dataVars, age, flowVars, jobVars, faults>>

----------------------------------------------------------------------------
(* refreshPendingTransactions: one snapshot of the rows and of the tip, four *)
(* passes over the rows each selects from it, and deleteExpired.  todo holds *)
(* the rows left to the passes, which begin only when the one before ended;  *)
(* noId holds the rows of pass 3 whose transaction id is null.               *)

Pass == <<"mined", "cancelled", "failed", "delete">>
NothingToDo == [p \in 1 .. 4 |-> {}]
Idle == [running |-> FALSE, tip |-> 0, todo |-> NothingToDo, noId |-> {},
         cleaned |-> FALSE, marking |-> None]

AwaitsBlock(p) == IsSubmitSuccess(p) /\ ~IsMined(p) /\ p.raw = "linked"
CancelledWithId(p) == p.cancelled /\ p.raw = "linked"
\* Mutant: every submitted row counts as failed.
MutantSubmitFailed(p) == p.submitted /\ ~IsMarkedForDeletion(p) /\ p.raw = "linked"
SubmitFailed(p) == p.submitted /\ IsFailedSubmit(p) /\ ~IsMarkedForDeletion(p)

\* Mutant: cancelled rows are dropped although they were not cleaned up.
MutantDeletable(t, p, h) ==
  \/ PastExpiry(t, p, h) > LongExpired \/ IsSafeToDiscard(t, p)
  \/ p.cancelled
\* Mutant: what never failed nor was mined is kept for ever.
MutantDeletableNeverAncient(t, p, h) ==
  \/ PastExpiry(t, p, h) > 0 /\ IsMarkedForDeletion(p)
  \/ PastExpiry(t, p, h) > LongExpired
  \/ IsFailedSubmit(p) /\ IsMarkedForDeletion(p)
Deletable(t, p, h) ==
  \/ PastExpiry(t, p, h) > 0 /\ IsMarkedForDeletion(p)
  \/ PastExpiry(t, p, h) > LongExpired
  \/ IsSafeToDiscard(t, p)

Selects(p, t, r) ==
  CASE p = "mined" -> AwaitsBlock(r)
    [] p = "cancelled" -> CancelledWithId(r)
    [] p = "failed" -> SubmitFailed(r)
    [] p = "delete" -> Deletable(t, r, tip)

\* New blocks were scanned, or it has been a while.  The predicates only look at
\* the snapshot, and at an age that grows too slowly to matter, so they are
\* evaluated here.
StartRefresh ==
  LET rows == {t \in Tx : pending[t] # None} IN
  /\ alive /\ ~refresh.running
  /\ refresh' = [Idle EXCEPT !.running = TRUE, !.tip = tip,
       !.todo = [p \in 1 .. 4 |-> {t \in rows : Selects(Pass[p], t, pending[t])}],
       !.noId = {t \in rows : SubmitFailed(pending[t]) /\ pending[t].raw # "linked"}]
  /\ UNCHANGED <<netVars, dataVars, pendingVars, flowVars, alive, faults>>

\* Pass p handles row t next.
Handles(p, t) ==
  /\ refresh.marking = None
  /\ t \in refresh.todo[p]
  /\ \A q \in 1 .. p - 1 : refresh.todo[q] = {}
Done(p, t) == [refresh EXCEPT !.todo[p] = @ \ {t}]

\* The data DB knows the block, or else the server may, up to the scanned tip.
MinedHeights(t) ==
  IF block[t] # None THEN {block[t]}
  ELSE {None} \cup {h \in {minedAt[t]} : h # None /\ h <= tip}

ApplyMinedHeight(t) ==
  /\ Handles(1, t)
  /\ \E h \in MinedHeights(t) :
       IF h = None THEN UNCHANGED pending
                   ELSE Update(t, [pending[t] EXCEPT !.mined = h])
  /\ refresh' = Done(1, t)
  /\ UNCHANGED <<netVars, dataVars, age, flowVars, alive, faults>>

\* hasCleaned || cleanupCancelledTx(..): after one success the rest must wait.
Clean(p, t) ==
  LET calls == Pass[p] = "cancelled" => ~refresh.cleaned IN
  /\ Handles(p, t)
  /\ Pass[p] = "failed" => t \notin refresh.noId
  /\ IF calls /\ Removable(t) THEN RemoveOutbound({t}) ELSE UNCHANGED dataVars
  /\ refresh' = IF calls /\ CleanupSucceeds(t)
                THEN [Done(p, t) EXCEPT !.marking = t, !.cleaned = TRUE]
                ELSE Done(p, t)
  /\ UNCHANGED <<netVars, pendingVars, flowVars, alive, faults>>

\* rawTransactionId!! of a row that was unlinked: nothing catches the exception
\* but onReady's handler, whose job, and with it the processor, ends.
ThrowNoId(t) ==
  /\ Handles(3, t)
  /\ t \in refresh.noId
  /\ refresh' = Idle
  /\ alive' = FALSE
  /\ UNCHANGED <<netVars, dataVars, pendingVars, flowVars, faults>>

MarkForDeletion ==
  /\ refresh.marking # None
  /\ Update(refresh.marking, Marked(refresh.marking))
  /\ refresh' = [refresh EXCEPT !.marking = None]
  /\ UNCHANGED <<netVars, dataVars, age, flowVars, alive, faults>>

\* abort deletes the row, whatever became of it since the snapshot.
Abort(t) ==
  /\ Handles(4, t)
  /\ pending' = [pending EXCEPT ![t] = None]
  /\ refresh' = Done(4, t)
  /\ UNCHANGED <<netVars, dataVars, age, flowVars, alive, faults>>

\* deleteExpired: only transactions that were created here.
DeleteExpired ==
  /\ refresh.running /\ refresh.marking = None /\ refresh.todo = NothingToDo
  /\ RemoveOutbound({t \in Tx : /\ row[t] = "created" /\ block[t] = None
                               /\ built[t].expiry < refresh.tip - ExpirySlack})
  /\ refresh' = Idle
  /\ UNCHANGED <<netVars, pendingVars, flowVars, alive, faults>>

----------------------------------------------------------------------------
(* Time and crashes                                                          *)

\* A flow takes far less than half an hour, an expiry far less than 30 days.
GrowOld(t) ==
  /\ pending[t] # None /\ pc[t] = "done"
  /\ \/ age[t] = "fresh" /\ age' = [age EXCEPT ![t] = "old"]
     \/ age[t] = "old" /\ net = MaxHeight /\ age' = [age EXCEPT ![t] = "ancient"]
  /\ UNCHANGED <<netVars, dataVars, pending, flowVars, jobVars, faults>>

\* The process dies, and with it every coroutine; flows are not resumed.
ProcessDies ==
  /\ pc' = [t \in Tx |-> IF pc[t] = "idle" THEN "idle" ELSE "done"]
  /\ reply' = [t \in Tx |-> "none"]
  /\ refresh' = Idle
  /\ alive' = TRUE
  /\ UNCHANGED <<netVars, dataVars, pendingVars>>

Crash == Fault /\ ProcessDies

\* The app reports an "Unrecoverable Error", rethrows it and is started again.
RestartAfterError == ~alive /\ ProcessDies /\ UNCHANGED faults

Init ==
  /\ net = 1 /\ tip = 1
  /\ minedAt = [t \in Tx |-> None] /\ mempool = {}
  /\ built = [t \in Tx |-> [spends |-> {}, expiry |-> 0]]
  /\ row = [t \in Tx |-> "none"] /\ block = [t \in Tx |-> None]
  /\ change = {} /\ lock = [n \in Note |-> None]
  /\ pending = [t \in Tx |-> None] /\ age = [t \in Tx |-> "fresh"]
  /\ pc = [t \in Tx |-> "idle"] /\ reply = [t \in Tx |-> "none"]
  /\ refresh = Idle /\ alive = TRUE
  /\ faults = 0

FlowStep(t) ==
  \/ CreateTransaction(t) \/ EncodeFails(t) \/ UpdateEncoding(t)
  \/ CleanupCancelled(t) \/ MarkCancelled(t)
  \/ Submit(t) \/ SubmitTransaction(t) \/ RecordReply(t)

RefreshStep ==
  \/ StartRefresh \/ MarkForDeletion \/ DeleteExpired
  \/ \E t \in Tx : ApplyMinedHeight(t) \/ Clean(2, t) \/ Clean(3, t)
                   \/ ThrowNoId(t) \/ Abort(t)

Next ==
  \/ \E t \in Tx : \/ InitSpend(t) \/ FlowStep(t) \/ Abandon(t) \/ CancelSpend(t)
                   \/ GrowOld(t)
  \/ RefreshStep \/ ScanBlock \/ MineBlock
  \/ \E h \in 1 .. tip - 1 : Rewind(h)
  \/ Crash \/ RestartAfterError

\* Coroutines run, the chain grows and is scanned, time passes, and the user
\* starts the app again.
Fairness ==
  /\ \A t \in Tx : WF_vars(FlowStep(t)) /\ WF_vars(GrowOld(t))
  /\ WF_vars(RefreshStep) /\ WF_vars(ScanBlock) /\ WF_vars(MineBlock)
  /\ WF_vars(RestartAfterError)

Spec == Init /\ [][Next]_vars /\ Fairness

----------------------------------------------------------------------------
Pc == {"idle", "encode", "created", "cleanup", "mark", "encoded", "submit",
       "replied", "done"}

NetTypeOK ==
  /\ net \in Nat
  /\ minedAt \in [Tx -> Nat \cup {None}] /\ mempool \subseteq Tx

\* The rows of the data DB, and its foreign keys.
DataTypeOK ==
  /\ tip \in Nat /\ tip <= net
  /\ built \in [Tx -> [spends: SUBSET Note, expiry: Nat]]
  /\ row \in [Tx -> {"none", "created", "seen"}]
  /\ block \in [Tx -> Nat \cup {None}]
  /\ \A t \in Tx : block[t] # None => row[t] # "none" /\ block[t] <= tip
  /\ change \subseteq WithChange
  /\ \A t \in change : row[t] # "none"
  /\ lock \in [Note -> Tx \cup {None}]
  /\ \A n \in Note : lock[n] # None => row[lock[n]] # "none"

PendingTypeOK ==
  /\ pending \in [Tx -> Row \cup {None}]
  /\ age \in [Tx -> {"fresh", "old", "ancient"}]

FlowTypeOK == pc \in [Tx -> Pc] /\ reply \in [Tx -> Error]

JobTypeOK ==
  /\ refresh \in [running: BOOLEAN, tip: Nat, todo: [1 .. 4 -> SUBSET Tx],
                  noId: SUBSET Tx, cleaned: BOOLEAN, marking: Tx \cup {None}]
  /\ alive \in BOOLEAN

\* Types, and the foreign keys of the data DB.
TypeOK ==
  /\ NetTypeOK /\ DataTypeOK /\ PendingTypeOK /\ FlowTypeOK /\ JobTypeOK
  /\ faults \in Nat

\* Did the wallet give the payment up: at the user's wish, or because its
\* submission ended in an error?
GivenUp(p) == p.cancelled \/ IsFailedSubmit(p)

\* The notes of a payment that the network may still mine are locked, so they
\* are not offered to another one, unless the wallet gave the payment up: stale
\* snapshots, rewinds, crashes and the two kinds of expiry never free them.
InFlightStaysLocked ==
  \A t \in mempool :
    pending[t] # None /\ ~GivenUp(pending[t]) =>
      \A n \in built[t].spends : lock[n] = t

\* A row is deleted only when nothing else is left to undo: its transaction is
\* gone from the data DB, mined, expired, or unknown to the row.  Otherwise "we
\* lose the ability to remove them in librustzcash prior to expiration".
DeletedRowsHoldNoLock ==
  [][\A t \in Tx :
       /\ pending[t] # None /\ pending'[t] = None
       /\ pending[t].raw # "empty"
       => \/ row[t] = "none" \/ minedAt[t] # None
          \/ built[t].expiry < net]_vars

\* A row whose submission failed after a refresh had cleaned it up: every later
\* refresh throws when it comes to it.
Poisoned(t) ==
  /\ pending[t] # None
  /\ SubmitFailed(pending[t]) /\ pending[t].raw = "unlinked"
NeverPoisoned == \A t \in Tx : <>[]~Poisoned(t)

\* Whatever failed, raced or crashed, in the end a note is marked as spent
\* exactly when the chain spent it.
ConvergesToChain ==
  NeverPoisoned => <>[](\A n \in Note : lock[n] # None <=> SpentOnChain(n))

\* And every row of the pending DB is deleted in the end: none is polled, or
\* shown as pending, for ever.
RowsDrain == <>[](\A t \in Tx : pc[t] = "done" => pending[t] = None)
PendingDrains == NeverPoisoned => RowsDrain

----------------------------------------------------------------------------
(* What the documentation says, and TLC refutes.                             *)

\* "sometimes apps crash or things go wrong and we get an orphaned pendingTx that
\* we'll poll forever, so maybe just get rid of all of them after a long while":
\* no row stays for ever, poisoned or not.
OrphansAreDropped == RowsDrain
=============================================================================
