---------------------- MODULE PendingTransactions_proofs ----------------------
(* Proofs about outgoing payments, for every number of payments and notes,    *)
(* every expiry and slack, and any number of faults.                          *)
EXTENDS PendingTransactions, TLAPS

USE PendingAssumption DEF PendingAssumption

----------------------------------------------------------------------------
(* The inductive invariant behind InFlightStaysLocked.                        *)

\* What the network holds can be mined, and does not conflict.
MempoolIsMinable ==
  /\ \A t \in mempool : built[t].expiry > net /\ minedAt[t] = None
  /\ \A t \in mempool : \A n \in built[t].spends : ~SpentOnChain(n)
  /\ \A t, u \in mempool : t # u => built[t].spends \cap built[u].spends = {}

Unsent == {"idle", "encode", "created", "cleanup", "mark", "encoded", "submit"}
Gone(t) == pending[t] = None
Cancelled(t) == Gone(t) \/ pending[t].cancelled
Failed(t) == pc[t] = "done" /\ (Gone(t) \/ IsFailedSubmit(pending[t]))

\* A flow sends its transaction last, and what it has done so far can be read
\* off its row unless that was cancelled.
FlowMatches(t) ==
  /\ pc[t] \in Unsent => t \notin mempool /\ minedAt[t] = None
  /\ pc[t] = "idle" => Gone(t)
  /\ ~Gone(t) /\ pending[t].submitted => pc[t] = "done"
  /\ pc[t] \in {"cleanup", "mark"} => Cancelled(t)
  /\ pc[t] \in {"encode", "created"} /\ ~Cancelled(t) =>
       pending[t].error = "none" /\ pending[t].raw = "empty"
  /\ pc[t] = "encoded" /\ ~Cancelled(t) =>
       pending[t].error = "none" \/ IsFailedEncoding(pending[t])
  /\ pc[t] \in {"submit", "replied"} /\ ~Cancelled(t) => pending[t].error = "none"

FlowMatchesRow == \A t \in Tx : FlowMatches(t)

\* However old the snapshot, what it found cancelled or failed still is.
SnapshotHolds ==
  /\ refresh.tip <= net
  /\ \A t \in refresh.todo[2] : pc[t] # "idle" /\ Cancelled(t)
  /\ \A t \in refresh.todo[3] : Failed(t)
  /\ refresh.marking # None =>
       \/ pc[refresh.marking] # "idle" /\ Cancelled(refresh.marking)
       \/ Failed(refresh.marking)

\* A payment that is or may yet be sent, and was not given up.
Sendable(t) ==
  /\ t \in mempool \/ pc[t] \in {"created", "encoded", "submit"}
  /\ ~Gone(t) /\ ~GivenUp(pending[t])

\* Until it expires it locks each of its notes that the chain has not spent.
SendableIsLocked ==
  \A t \in Tx : Sendable(t) /\ built[t].expiry > net =>
    \A n \in built[t].spends : SpentOnChain(n) \/ lock[n] = t

Inv ==
  TypeOK /\ MempoolIsMinable /\ FlowMatchesRow /\ SnapshotHolds /\ SendableIsLocked

----------------------------------------------------------------------------
(* Type correctness.  TypeOK is inductive by itself.                          *)

LEMMA UpdateType ==
  ASSUME PendingTypeOK, NEW t \in Tx, NEW p, pending[t] # None => p \in Row,
         Update(t, p), age' = age
  PROVE  PendingTypeOK'
  BY DEF PendingTypeOK, Update

LEMMA RemoveOutboundType ==
  ASSUME TypeOK, NEW ts \in SUBSET Tx, \A t \in ts : block[t] = None,
         RemoveOutbound(ts), UNCHANGED netVars
  PROVE  DataTypeOK'
  BY DEF RemoveOutbound, TypeOK, DataTypeOK, netVars

LEMMA FrameType ==
  ASSUME TypeOK
  PROVE  /\ UNCHANGED netVars => NetTypeOK'
         /\ UNCHANGED <<netVars, dataVars>> => DataTypeOK'
         /\ UNCHANGED pendingVars => PendingTypeOK'
         /\ UNCHANGED flowVars => FlowTypeOK'
         /\ UNCHANGED jobVars => JobTypeOK'
         /\ UNCHANGED faults \/ Fault => faults' \in Nat
  BY DEF TypeOK, NetTypeOK, DataTypeOK, PendingTypeOK, FlowTypeOK, JobTypeOK,
         netVars, dataVars, pendingVars, flowVars, jobVars, Fault

LEMMA InitTypeOK == Init => TypeOK
  BY DEF Init, TypeOK, NetTypeOK, DataTypeOK, PendingTypeOK, FlowTypeOK, JobTypeOK,
         Idle, NothingToDo, Pc, Error

(* What the updates of a row keep.                                            *)
LEMMA RowType ==
  ASSUME NEW p \in Row, NEW e \in Error, NEW h \in Nat
  PROVE  /\ [p EXCEPT !.error = e, !.encoded = TRUE] \in Row
         /\ [p EXCEPT !.error = e, !.submitted = TRUE] \in Row
         /\ [p EXCEPT !.raw = "linked", !.encoded = TRUE] \in Row
         /\ [p EXCEPT !.raw = "unlinked", !.error = "marked"] \in Row
         /\ [p EXCEPT !.cancelled = TRUE] \in Row
         /\ [p EXCEPT !.mined = h] \in Row
  BY DEF Row, Error

LEMMA SpendType ==
  ASSUME TypeOK, NEW t \in Tx, InitSpend(t) \/ CancelSpend(t) \/ GrowOld(t)
  PROVE  TypeOK'
<1>1. CASE InitSpend(t)
  <2>1. NewRow \in Row
    BY DEF NewRow, Row, Error
  <2>2. PendingTypeOK'
    BY <1>1, <2>1 DEF InitSpend, TypeOK, PendingTypeOK
  <2>3. FlowTypeOK'
    BY <1>1 DEF InitSpend, TypeOK, FlowTypeOK, Pc
  <2> QED BY <1>1, <2>2, <2>3, FrameType DEF InitSpend, TypeOK
<1>2. CASE CancelSpend(t)
  <2>1. PendingTypeOK'
    <3>1. pending[t] \in Row
      BY <1>2 DEF CancelSpend, TypeOK, PendingTypeOK
    <3>2. [pending[t] EXCEPT !.cancelled = TRUE] \in Row
      BY <3>1, RowType DEF Error
    <3> QED BY <1>2, <3>2 DEF CancelSpend, TypeOK, PendingTypeOK
  <2> QED BY <1>2, <2>1, FrameType DEF CancelSpend, TypeOK
<1>3. CASE GrowOld(t)
  <2>1. PendingTypeOK'
    BY <1>3 DEF GrowOld, TypeOK, PendingTypeOK
  <2> QED BY <1>3, <2>1, FrameType DEF GrowOld, TypeOK
<1> QED BY <1>1, <1>2, <1>3

LEMMA FlowType ==
  ASSUME TypeOK, NEW t \in Tx, FlowStep(t)
  PROVE  TypeOK'
<1>0. pending[t] # None => pending[t] \in Row
  BY DEF TypeOK, PendingTypeOK
<1>1. CASE CreateTransaction(t)
  <2>1. DataTypeOK'
    BY <1>1 DEF CreateTransaction, CreateToAddress, TypeOK, DataTypeOK, netVars
  <2>2. FlowTypeOK'
    BY <1>1 DEF CreateTransaction, TypeOK, FlowTypeOK, Pc
  <2> QED BY <1>1, <2>1, <2>2, FrameType DEF CreateTransaction, TypeOK
<1>2. CASE EncodeFails(t)
  <2>1. PendingTypeOK'
    BY <1>0, <1>2, RowType, UpdateType DEF EncodeFails, TypeOK, Error
  <2>2. FlowTypeOK'
    BY <1>2 DEF EncodeFails, TypeOK, FlowTypeOK, Pc
  <2> QED BY <1>2, <2>1, <2>2, FrameType DEF EncodeFails, TypeOK
<1>3. CASE UpdateEncoding(t)
  <2>1. PendingTypeOK'
    BY <1>0, <1>3, RowType, UpdateType DEF UpdateEncoding, TypeOK, Error
  <2>2. FlowTypeOK'
    BY <1>3 DEF UpdateEncoding, TypeOK, FlowTypeOK, Pc
  <2> QED BY <1>3, <2>1, <2>2, FrameType DEF UpdateEncoding, TypeOK
<1>4. CASE CleanupCancelled(t)
  <2>1. DataTypeOK'
    <3>1. CASE Removable(t)
      BY <1>4, <3>1, RemoveOutboundType DEF CleanupCancelled, Removable
    <3>2. CASE ~Removable(t)
      BY <1>4, <3>2, FrameType DEF CleanupCancelled
    <3> QED BY <3>1, <3>2
  <2>2. FlowTypeOK'
    BY <1>4 DEF CleanupCancelled, TypeOK, FlowTypeOK, Pc
  <2> QED BY <1>4, <2>1, <2>2, FrameType DEF CleanupCancelled, TypeOK
<1>5. CASE MarkCancelled(t)
  <2>1. PendingTypeOK'
    BY <1>0, <1>5, RowType, UpdateType DEF MarkCancelled, Marked, TypeOK, Error
  <2>2. FlowTypeOK'
    BY <1>5 DEF MarkCancelled, TypeOK, FlowTypeOK, Pc
  <2> QED BY <1>5, <2>1, <2>2, FrameType DEF MarkCancelled, TypeOK
<1>6. CASE Submit(t)
  <2>1. FlowTypeOK'
    BY <1>6 DEF Submit, TypeOK, FlowTypeOK, Pc
  <2> QED BY <1>6, <2>1, FrameType DEF Submit, TypeOK
<1>7. CASE SubmitTransaction(t)
  <2>1. FlowTypeOK'
    BY <1>7 DEF SubmitTransaction, TypeOK, FlowTypeOK, Pc, Error
  <2>2. NetTypeOK'
    BY <1>7 DEF SubmitTransaction, TypeOK, NetTypeOK
  <2>3. DataTypeOK'
    BY <1>7 DEF SubmitTransaction, TypeOK, DataTypeOK, dataVars
  <2>4. faults' \in Nat
    BY <1>7 DEF SubmitTransaction, TypeOK, Fault
  <2> QED BY <1>7, <2>1, <2>2, <2>3, <2>4, FrameType DEF SubmitTransaction, TypeOK
<1>8. CASE RecordReply(t)
  <2>1. PendingTypeOK'
    BY <1>0, <1>8, RowType, UpdateType DEF RecordReply, TypeOK, FlowTypeOK
  <2>2. FlowTypeOK'
    BY <1>8 DEF RecordReply, TypeOK, FlowTypeOK, Pc, Error
  <2> QED BY <1>8, <2>1, <2>2, FrameType DEF RecordReply, TypeOK
<1> QED BY <1>1, <1>2, <1>3, <1>4, <1>5, <1>6, <1>7, <1>8 DEF FlowStep

(* The refresh: what the steps of its passes leave.                           *)
Locals ==
  [running: BOOLEAN, tip: Nat, todo: [1 .. 4 -> SUBSET Tx], noId: SUBSET Tx,
   cleaned: BOOLEAN, marking: Tx \cup {None}]

LEMMA IdleType == Idle \in Locals
  BY DEF Idle, NothingToDo, Locals

LEMMA DoneType ==
  ASSUME TypeOK, NEW p \in 1 .. 4, NEW t \in Tx
  PROVE  /\ Done(p, t) \in Locals
         /\ [Done(p, t) EXCEPT !.marking = t, !.cleaned = TRUE] \in Locals
<1>1. refresh \in Locals
  BY DEF TypeOK, JobTypeOK, Locals
<1>2. [refresh.todo EXCEPT ![p] = @ \ {t}] \in [1 .. 4 -> SUBSET Tx]
  BY <1>1 DEF Locals
<1>3. Done(p, t) = [refresh EXCEPT !.todo = [refresh.todo EXCEPT ![p] = @ \ {t}]]
  BY <1>1 DEF Done, Locals
<1>4. Done(p, t) \in Locals
  BY <1>1, <1>2, <1>3 DEF Locals
<1>5. [Done(p, t) EXCEPT !.marking = t, !.cleaned = TRUE] \in Locals
  BY <1>4 DEF Locals
<1> QED BY <1>4, <1>5

LEMMA DoneJobType ==
  ASSUME TypeOK, NEW p \in 1 .. 4, NEW t \in Tx, alive' = alive,
         \/ refresh' = Done(p, t)
         \/ refresh' = [Done(p, t) EXCEPT !.marking = t, !.cleaned = TRUE]
  PROVE  JobTypeOK'
<1>1. refresh' \in Locals
  BY DoneType
<1>2. alive' \in BOOLEAN
  BY DEF TypeOK, JobTypeOK
<1> QED BY <1>1, <1>2 DEF JobTypeOK, Locals

LEMMA IdleJobType ==
  ASSUME refresh' = Idle, alive' \in BOOLEAN
  PROVE  JobTypeOK'
<1>1. refresh' \in Locals
  BY IdleType
<1> QED BY <1>1 DEF JobTypeOK, Locals

LEMMA RefreshStepType ==
  ASSUME TypeOK, RefreshStep
  PROVE  TypeOK'
<1>0. \A t \in Tx : pending[t] # None => pending[t] \in Row
  BY DEF TypeOK, PendingTypeOK
<1>1. CASE StartRefresh
  <2>1. JobTypeOK'
    BY <1>1 DEF StartRefresh, TypeOK, DataTypeOK, JobTypeOK, Idle, NothingToDo
  <2> QED BY <1>1, <2>1, FrameType DEF StartRefresh, TypeOK
<1>2. CASE MarkForDeletion
  <2>1. refresh.marking \in Tx
    BY <1>2 DEF MarkForDeletion, TypeOK, JobTypeOK
  <2>2. PendingTypeOK'
    BY <1>0, <1>2, <2>1, RowType, UpdateType DEF MarkForDeletion, Marked, TypeOK, Error
  <2>3. JobTypeOK'
    BY <1>2 DEF MarkForDeletion, TypeOK, JobTypeOK
  <2> QED BY <1>2, <2>2, <2>3, FrameType DEF MarkForDeletion, TypeOK
<1>3. CASE DeleteExpired
  <2>1. DataTypeOK'
    BY <1>3, RemoveOutboundType DEF DeleteExpired
  <2>2. JobTypeOK'
    BY <1>3 DEF DeleteExpired, TypeOK, JobTypeOK, Idle, NothingToDo
  <2> QED BY <1>3, <2>1, <2>2, FrameType DEF DeleteExpired, TypeOK
<1>4. ASSUME NEW t \in Tx, ApplyMinedHeight(t)
      PROVE  TypeOK'
  <2>1. PICK h \in MinedHeights(t) :
          IF h = None THEN UNCHANGED pending
                      ELSE Update(t, [pending[t] EXCEPT !.mined = h])
    BY <1>4 DEF ApplyMinedHeight
  <2>2. h = None \/ h \in Nat
    BY <2>1 DEF MinedHeights, TypeOK, DataTypeOK, NetTypeOK
  <2>3. PendingTypeOK'
    <3>1. CASE h = None
      BY <1>4, <2>1, <3>1 DEF ApplyMinedHeight, TypeOK, PendingTypeOK
    <3>2. CASE h \in Nat
      <4>1. Update(t, [pending[t] EXCEPT !.mined = h])
        BY <2>1, <3>2
      <4>2. pending[t] # None => [pending[t] EXCEPT !.mined = h] \in Row
        BY <1>0, <3>2, RowType DEF Error
      <4> QED BY <1>4, <4>1, <4>2, UpdateType DEF ApplyMinedHeight, TypeOK
    <3> QED BY <2>2, <3>1, <3>2
  <2>4. JobTypeOK'
    <3>1. refresh' = Done(1, t) /\ alive' = alive
      BY <1>4 DEF ApplyMinedHeight
    <3>2. 1 \in 1 .. 4
      OBVIOUS
    <3> QED BY <3>1, <3>2, DoneJobType
  <2> QED BY <1>4, <2>3, <2>4, FrameType DEF ApplyMinedHeight, TypeOK
<1>5. ASSUME NEW t \in Tx, NEW p \in {2, 3}, Clean(p, t)
      PROVE  TypeOK'
  <2>1. DataTypeOK'
    <3>1. CASE RemoveOutbound({t}) /\ Removable(t)
      BY <1>5, <3>1, RemoveOutboundType DEF Clean, Removable
    <3>2. CASE UNCHANGED dataVars
      BY <1>5, <3>2, FrameType DEF Clean
    <3> QED BY <1>5, <3>1, <3>2 DEF Clean
  <2>2. JobTypeOK'
    <3>1. /\ alive' = alive
          /\ \/ refresh' = Done(p, t)
             \/ refresh' = [Done(p, t) EXCEPT !.marking = t, !.cleaned = TRUE]
      BY <1>5 DEF Clean
    <3>2. p \in 1 .. 4
      BY <1>5
    <3> QED BY <3>1, <3>2, DoneJobType
  <2> QED BY <1>5, <2>1, <2>2, FrameType DEF Clean, TypeOK
<1>6. ASSUME NEW t \in Tx, ThrowNoId(t)
      PROVE  TypeOK'
  <2>1. JobTypeOK'
    BY <1>6, IdleJobType DEF ThrowNoId
  <2> QED BY <1>6, <2>1, FrameType DEF ThrowNoId, TypeOK
<1>7. ASSUME NEW t \in Tx, Abort(t)
      PROVE  TypeOK'
  <2>1. JobTypeOK'
    <3>1. refresh' = Done(4, t) /\ alive' = alive
      BY <1>7 DEF Abort
    <3>2. 4 \in 1 .. 4
      OBVIOUS
    <3> QED BY <3>1, <3>2, DoneJobType
  <2>2. PendingTypeOK'
    BY <1>7 DEF Abort, TypeOK, PendingTypeOK
  <2> QED BY <1>7, <2>1, <2>2, FrameType DEF Abort, TypeOK
<1> QED BY <1>1, <1>2, <1>3, <1>4, <1>5, <1>6, <1>7 DEF RefreshStep

LEMMA EnvironmentType ==
  ASSUME TypeOK,
         \/ ScanBlock \/ MineBlock \/ \E h \in 1 .. tip - 1 : Rewind(h)
         \/ Crash \/ RestartAfterError \/ \E t \in Tx : Abandon(t)
  PROVE  TypeOK'
<1>1. CASE ScanBlock
  <2>1. Recognised(tip + 1) \subseteq Tx /\ tip' = tip + 1 /\ tip + 1 \in Nat
    BY <1>1 DEF ScanBlock, Recognised, TypeOK, DataTypeOK
  <2> DEFINE marks == [n \in Note |-> IF Spender(n, tip + 1) = {} THEN lock[n]
                               ELSE CHOOSE t \in Spender(n, tip + 1) : TRUE]
  <2>2. \A n \in Note : \/ marks[n] = lock[n]
                        \/ marks[n] \in Recognised(tip + 1)
    BY DEF Spender
  <2>3. lock' = UnlockExpired(marks, block', tip + 1)
    BY <1>1 DEF ScanBlock
  <2>4. \A n \in Note : lock'[n] = None \/ lock'[n] = lock[n]
                        \/ lock'[n] \in Recognised(tip + 1)
    BY <2>2, <2>3 DEF UnlockExpired
  <2>5. lock' = [n \in Note |-> lock'[n]]
    BY <2>3 DEF UnlockExpired
  <2> HIDE DEF marks
  <2>6. lock' \in [Note -> Tx \cup {None}]
    BY <2>1, <2>4, <2>5 DEF TypeOK, DataTypeOK
  <2>7. row' \in [Tx -> {"none", "created", "seen"}]
        /\ \A t \in Tx : /\ row[t] # "none" => row'[t] # "none"
                         /\ t \in Recognised(tip + 1) => row'[t] # "none"
    BY <1>1 DEF ScanBlock, TypeOK, DataTypeOK
  <2>8. block' \in [Tx -> Nat \cup {None}]
        /\ \A t \in Tx : \/ block'[t] = block[t]
                         \/ t \in Recognised(tip + 1) /\ block'[t] = tip + 1
    BY <1>1, <2>1 DEF ScanBlock, TypeOK, DataTypeOK
  <2>9. change' \subseteq WithChange /\ \A t \in change' : row'[t] # "none"
    BY <1>1, <2>7 DEF ScanBlock, TypeOK, DataTypeOK
  <2>10. \A n \in Note : lock'[n] # None => row'[lock'[n]] # "none"
    BY <2>1, <2>4, <2>7 DEF TypeOK, DataTypeOK
  <2>11. \A t \in Tx : block'[t] # None => row'[t] # "none" /\ block'[t] <= tip'
    BY <2>1, <2>7, <2>8 DEF TypeOK, DataTypeOK
  <2>12. tip' \in Nat /\ tip' <= net'
    BY <1>1 DEF ScanBlock, netVars, TypeOK, DataTypeOK, NetTypeOK
  <2>13. built' = built
    BY <1>1 DEF ScanBlock
  <2>14. DataTypeOK'
    BY <2>6, <2>7, <2>8, <2>9, <2>10, <2>11, <2>12, <2>13 DEF TypeOK, DataTypeOK
  <2> QED BY <1>1, <2>14, FrameType DEF ScanBlock, TypeOK
<1>2. CASE MineBlock
  <2>1. NetTypeOK'
    BY <1>2 DEF MineBlock, TypeOK, NetTypeOK
  <2>2. DataTypeOK'
    BY <1>2 DEF MineBlock, TypeOK, NetTypeOK, DataTypeOK, dataVars
  <2> QED BY <1>2, <2>1, <2>2, FrameType DEF MineBlock, TypeOK
<1>3. ASSUME NEW h \in 1 .. tip - 1, Rewind(h)
      PROVE  TypeOK'
  <2>1. h \in Nat /\ h < tip /\ tip' = h
    BY <1>3 DEF Rewind, TypeOK, DataTypeOK
  <2>2. DataTypeOK'
    BY <1>3, <2>1 DEF Rewind, netVars, TypeOK, NetTypeOK, DataTypeOK
  <2> QED BY <1>3, <2>2, FrameType DEF Rewind, TypeOK
<1>4. CASE Crash \/ RestartAfterError
  <2>1. FlowTypeOK'
    BY <1>4 DEF Crash, RestartAfterError, ProcessDies, TypeOK, FlowTypeOK, Pc, Error
  <2>2. JobTypeOK'
    BY <1>4, IdleJobType DEF Crash, RestartAfterError, ProcessDies
  <2> QED BY <1>4, <2>1, <2>2, FrameType
          DEF Crash, RestartAfterError, ProcessDies, TypeOK
<1>5. ASSUME NEW t \in Tx, Abandon(t)
      PROVE  TypeOK'
  <2>1. FlowTypeOK'
    BY <1>5 DEF Abandon, TypeOK, FlowTypeOK, Pc, Error
  <2> QED BY <1>5, <2>1, FrameType DEF Abandon, TypeOK
<1> QED BY <1>1, <1>2, <1>3, <1>4, <1>5

LEMMA StepTypeOK ==
  ASSUME TypeOK, [Next]_vars
  PROVE  TypeOK'
<1>1. CASE Next
  BY <1>1, SpendType, FlowType, RefreshStepType, EnvironmentType DEF Next
<1>2. CASE UNCHANGED vars
  BY <1>2, FrameType DEF vars, TypeOK
<1> QED BY <1>1, <1>2

\* TypeOK, for every number of payments and notes: the foreign keys of the data
\* DB hold whatever the sender, the refresh, the scanner and crashes do.
THEOREM TypeCorrect == Spec => []TypeOK
  BY InitTypeOK, StepTypeOK, PTL DEF Spec

----------------------------------------------------------------------------
(* FlowMatchesRow                                                             *)

LEMMA MatchesFrame ==
  ASSUME NEW u \in Tx, FlowMatches(u), pc'[u] = pc[u], pending'[u] = pending[u],
         u \in mempool' => u \in mempool,
         minedAt[u] = None /\ u \notin mempool => minedAt'[u] = None
  PROVE  FlowMatches(u)'
  BY DEF FlowMatches, Gone, Cancelled

LEMMA FlowMatchesFlow ==
  ASSUME Inv, NEW t \in Tx, InitSpend(t) \/ FlowStep(t) \/ Abandon(t) \/ CancelSpend(t)
  PROVE  FlowMatchesRow'
<1>0. /\ TypeOK /\ FlowMatchesRow /\ FlowMatches(t)
      /\ pc \in [Tx -> Pc] /\ pending \in [Tx -> Row \cup {None}]
  BY DEF Inv, FlowMatchesRow, TypeOK, FlowTypeOK, PendingTypeOK
<1>1. CASE InitSpend(t)
  BY <1>0, <1>1, MatchesFrame
     DEF InitSpend, FlowMatchesRow, FlowMatches, Gone, Cancelled, NewRow, netVars, Unsent
<1>2. CASE CreateTransaction(t)
  BY <1>0, <1>2, MatchesFrame
     DEF CreateTransaction, FlowMatchesRow, FlowMatches, Gone, Cancelled, netVars,
         pendingVars, Unsent
<1>3. CASE EncodeFails(t)
  <2>1. FlowMatches(t)'
    BY <1>0, <1>3 DEF EncodeFails, FlowMatches, Gone, Cancelled, Update, Unsent,
       IsCancelled, IsFailedEncoding, netVars, Row
  <2> QED BY <1>0, <1>3, <2>1, MatchesFrame
          DEF EncodeFails, FlowMatchesRow, Update, netVars
<1>4. CASE UpdateEncoding(t)
  <2>1. FlowMatches(t)'
    BY <1>0, <1>4 DEF UpdateEncoding, FlowMatches, Gone, Cancelled, Update, Unsent,
       IsCancelled, IsFailedEncoding, netVars, Row
  <2> QED BY <1>0, <1>4, <2>1, MatchesFrame
          DEF UpdateEncoding, FlowMatchesRow, Update, netVars
<1>5. CASE CleanupCancelled(t)
  BY <1>0, <1>5, MatchesFrame
     DEF CleanupCancelled, FlowMatchesRow, FlowMatches, Gone, Cancelled, netVars,
         pendingVars, Unsent
<1>6. CASE MarkCancelled(t)
  BY <1>0, <1>6, MatchesFrame
     DEF MarkCancelled, Marked, FlowMatchesRow, FlowMatches, Gone, Cancelled, Update,
         netVars, Row, Unsent
<1>7. CASE Submit(t)
  BY <1>0, <1>7, MatchesFrame
     DEF Submit, FlowMatchesRow, FlowMatches, Gone, Cancelled, IsCancelled, netVars,
         pendingVars, Unsent
<1>8. CASE SubmitTransaction(t)
  BY <1>0, <1>8, MatchesFrame
     DEF SubmitTransaction, FlowMatchesRow, FlowMatches, Gone, Cancelled,
         pendingVars, Unsent
<1>9. CASE RecordReply(t)
  BY <1>0, <1>9, MatchesFrame
     DEF RecordReply, FlowMatchesRow, FlowMatches, Gone, Cancelled, Update,
         netVars, Unsent
<1>10. CASE Abandon(t)
  BY <1>0, <1>10, MatchesFrame
     DEF Abandon, FlowMatchesRow, FlowMatches, Gone, Cancelled, netVars,
         pendingVars, Unsent
<1>11. CASE CancelSpend(t)
  BY <1>0, <1>11, MatchesFrame
     DEF CancelSpend, FlowMatchesRow, FlowMatches, Gone, Cancelled, netVars,
         flowVars, Row, Unsent
<1> QED BY <1>1, <1>2, <1>3, <1>4, <1>5, <1>6, <1>7, <1>8, <1>9, <1>10, <1>11
        DEF FlowStep

LEMMA FlowMatchesRefresh ==
  ASSUME Inv, RefreshStep \/ \E t \in Tx : GrowOld(t)
  PROVE  FlowMatchesRow'
<1>0. /\ TypeOK /\ FlowMatchesRow /\ SnapshotHolds
      /\ pc \in [Tx -> Pc] /\ pending \in [Tx -> Row \cup {None}]
  BY DEF Inv, TypeOK, FlowTypeOK, PendingTypeOK
<1>1. pc' = pc /\ mempool' = mempool /\ minedAt' = minedAt
  BY DEF RefreshStep, StartRefresh, MarkForDeletion, DeleteExpired, ApplyMinedHeight,
         Clean, ThrowNoId, Abort, GrowOld, flowVars, netVars
<1>2. CASE UNCHANGED pending
  BY <1>0, <1>1, <1>2, MatchesFrame DEF FlowMatchesRow
<1>3. CASE MarkForDeletion
  <2>1. PICK t \in Tx : t = refresh.marking
    BY <1>0, <1>3 DEF MarkForDeletion, TypeOK, JobTypeOK
  <2>2. /\ FlowMatches(t)
        /\ (pc[t] # "idle" /\ Cancelled(t)) \/ pc[t] = "done"
    BY <1>0, <1>3, <2>1 DEF MarkForDeletion, SnapshotHolds, Failed, FlowMatchesRow
  <2>3. Update(t, Marked(t))
    BY <1>3, <2>1 DEF MarkForDeletion
  <2>4. FlowMatches(t)'
    BY <1>0, <1>1, <2>2, <2>3
       DEF Marked, Update, FlowMatches, Gone, Cancelled, Row, Unsent
  <2> QED BY <1>0, <1>1, <2>3, <2>4, MatchesFrame DEF Update, FlowMatchesRow
<1>4. ASSUME NEW t \in Tx, ApplyMinedHeight(t)
      PROVE  FlowMatchesRow'
  <2>1. PICK h : Update(t, [pending[t] EXCEPT !.mined = h]) \/ UNCHANGED pending
    BY <1>4 DEF ApplyMinedHeight
  <2>2. FlowMatches(t)'
    BY <1>0, <1>1, <2>1, MatchesFrame
       DEF Update, FlowMatchesRow, FlowMatches, Gone, Cancelled, Row, IsFailedEncoding
  <2> QED BY <1>0, <1>1, <2>1, <2>2, MatchesFrame DEF Update, FlowMatchesRow
<1>5. ASSUME NEW t \in Tx, Abort(t)
      PROVE  FlowMatchesRow'
  BY <1>0, <1>1, <1>5, MatchesFrame
     DEF Abort, FlowMatchesRow, FlowMatches, Gone, Cancelled
<1> QED BY <1>2, <1>3, <1>4, <1>5
        DEF RefreshStep, StartRefresh, DeleteExpired, Clean, ThrowNoId, GrowOld,
            pendingVars

LEMMA FlowMatchesEnvironment ==
  ASSUME Inv, \/ ScanBlock \/ MineBlock \/ \E h \in 1 .. tip - 1 : Rewind(h)
              \/ Crash \/ RestartAfterError \/ UNCHANGED vars
  PROVE  FlowMatchesRow'
<1>0. TypeOK /\ FlowMatchesRow /\ pc \in [Tx -> Pc]
  BY DEF Inv, TypeOK, FlowTypeOK
<1>1. CASE ScanBlock \/ (\E h \in 1 .. tip - 1 : Rewind(h)) \/ UNCHANGED vars
  BY <1>0, <1>1, MatchesFrame
     DEF ScanBlock, Rewind, vars, netVars, pendingVars, flowVars, FlowMatchesRow
<1>2. CASE MineBlock
  BY <1>0, <1>2, MatchesFrame DEF MineBlock, pendingVars, flowVars, FlowMatchesRow
<1>3. CASE Crash \/ RestartAfterError
  BY <1>0, <1>3 DEF Crash, RestartAfterError, ProcessDies, netVars, pendingVars,
                    FlowMatchesRow, FlowMatches, Gone, Unsent
<1> QED BY <1>1, <1>2, <1>3

LEMMA FlowMatchesStep ==
  ASSUME Inv, [Next]_vars
  PROVE  FlowMatchesRow'
  BY FlowMatchesFlow, FlowMatchesRefresh, FlowMatchesEnvironment DEF Next

----------------------------------------------------------------------------
(* MempoolIsMinable                                                           *)

LEMMA MinableFrame ==
  ASSUME MempoolIsMinable, UNCHANGED netVars, UNCHANGED built
  PROVE  MempoolIsMinable'
  BY DEF MempoolIsMinable, SpentOnChain, netVars

LEMMA MinableStep ==
  ASSUME Inv, [Next]_vars
  PROVE  MempoolIsMinable'
<1>0. /\ MempoolIsMinable /\ FlowMatchesRow
      /\ NetTypeOK /\ built \in [Tx -> [spends: SUBSET Note, expiry: Nat]]
  BY DEF Inv, TypeOK, DataTypeOK
<1>1. ASSUME NEW t \in Tx, CreateTransaction(t)
      PROVE  MempoolIsMinable'
  <2>1. t \notin mempool /\ minedAt[t] = None
    BY <1>0, <1>1 DEF CreateTransaction, FlowMatchesRow, FlowMatches, Unsent
  <2>2. \A u \in Tx \ {t} : built'[u] = built[u]
    BY <1>0, <1>1 DEF CreateTransaction, CreateToAddress
  <2>3. UNCHANGED netVars
    BY <1>1 DEF CreateTransaction
  <2>4. \A n \in Note : SpentOnChain(n)' => SpentOnChain(n)
    BY <2>1, <2>2, <2>3 DEF SpentOnChain, netVars
  <2> QED BY <1>0, <2>1, <2>2, <2>3, <2>4 DEF MempoolIsMinable, NetTypeOK, netVars
<1>2. ASSUME NEW t \in Tx, SubmitTransaction(t)
      PROVE  MempoolIsMinable'
  <2>1. UNCHANGED <<net, minedAt, built>>
    BY <1>2 DEF SubmitTransaction, dataVars
  <2>2. \/ mempool' = mempool
        \/ mempool' = mempool \cup {t} /\ Acceptable(t)
    BY <1>2 DEF SubmitTransaction
  <2>3. \A n : SpentOnChain(n)' <=> SpentOnChain(n)
    BY <2>1 DEF SpentOnChain
  <2> QED BY <1>0, <2>1, <2>2, <2>3 DEF MempoolIsMinable, Acceptable, NetTypeOK
<1>3. CASE MineBlock
  <2>1. PICK ts \in SUBSET mempool :
          /\ minedAt' = [t \in Tx |-> IF t \in ts THEN net + 1 ELSE minedAt[t]]
          /\ mempool' = {t \in mempool \ ts : built[t].expiry > net + 1}
    BY <1>3 DEF MineBlock
  <2>2. net' = net + 1 /\ built' = built
    BY <1>3 DEF MineBlock, dataVars
  <2>3. \A t \in mempool' : built'[t].expiry > net' /\ minedAt'[t] = None
    BY <1>0, <2>1, <2>2 DEF MempoolIsMinable, NetTypeOK
  <2>4. \A t \in mempool' : \A n \in built'[t].spends : ~SpentOnChain(n)'
    <3>1. \A u \in Tx : minedAt'[u] # None => u \in ts \/ minedAt[u] # None
      BY <2>1
    <3> QED BY <1>0, <2>1, <2>2, <3>1 DEF MempoolIsMinable, SpentOnChain, NetTypeOK
  <2>5. \A t, u \in mempool' : t # u => built'[t].spends \cap built'[u].spends = {}
    BY <1>0, <2>1, <2>2 DEF MempoolIsMinable
  <2> QED BY <2>3, <2>4, <2>5 DEF MempoolIsMinable
<1>4. CASE /\ \A t \in Tx : ~CreateTransaction(t) /\ ~SubmitTransaction(t)
           /\ ~MineBlock
  <2>1. UNCHANGED <<netVars, built>>
    BY <1>4 DEF Next, FlowStep, RefreshStep, InitSpend, EncodeFails, UpdateEncoding,
       CleanupCancelled, MarkCancelled, Submit, RecordReply, Abandon, CancelSpend,
       GrowOld, StartRefresh, MarkForDeletion, DeleteExpired, ApplyMinedHeight, Clean,
       ThrowNoId, Abort, RemoveOutbound, ScanBlock, Rewind, Crash, RestartAfterError,
       ProcessDies, vars, dataVars
  <2> QED BY <1>0, <2>1, MinableFrame
<1> QED BY <1>1, <1>2, <1>3, <1>4

----------------------------------------------------------------------------
(* SnapshotHolds                                                              *)

(* What the refresh may do to a row.                                          *)
LEMMA RefreshedRow ==
  ASSUME Inv, RefreshStep \/ \E t \in Tx : GrowOld(t), NEW t \in Tx
  PROVE  \/ pending'[t] = pending[t] \/ pending'[t] = None
         \/ pending[t] # None /\ pending'[t] = Marked(t)
         \/ pending[t] # None /\ \E h : pending'[t] = [pending[t] EXCEPT !.mined = h]
<1>0. TypeOK /\ pending \in [Tx -> Row \cup {None}]
  BY DEF Inv, TypeOK, PendingTypeOK
<1>1. CASE MarkForDeletion
  BY <1>0, <1>1 DEF MarkForDeletion, Update, TypeOK, JobTypeOK
<1>2. ASSUME NEW u \in Tx, ApplyMinedHeight(u)
      PROVE  \/ pending'[t] = pending[t]
             \/ /\ pending[t] # None
                /\ \E h : pending'[t] = [pending[t] EXCEPT !.mined = h]
  <2>1. PICK h : Update(u, [pending[u] EXCEPT !.mined = h]) \/ UNCHANGED pending
    BY <1>2 DEF ApplyMinedHeight
  <2> QED BY <1>0, <2>1 DEF Update
<1>3. ASSUME NEW u \in Tx, Abort(u)
      PROVE  pending'[t] = None \/ pending'[t] = pending[t]
  BY <1>0, <1>3 DEF Abort
<1> QED BY <1>1, <1>2, <1>3
        DEF RefreshStep, StartRefresh, DeleteExpired, Clean, ThrowNoId, GrowOld,
            pendingVars

(* A payment that was cancelled, or failed, stays so.                         *)
LEMMA GivesUpForGood ==
  ASSUME Inv, [Next]_vars, NEW t \in Tx
  PROVE  /\ pc[t] # "idle" => pc'[t] # "idle"
         /\ pc[t] # "idle" /\ Cancelled(t) => Cancelled(t)'
         /\ Failed(t) => Failed(t)'
<1>0. /\ TypeOK /\ pc \in [Tx -> Pc] /\ reply \in [Tx -> Error]
      /\ pending \in [Tx -> Row \cup {None}]
  BY DEF Inv, TypeOK, FlowTypeOK, PendingTypeOK
<1>1. CASE \E u \in Tx : InitSpend(u)
  BY <1>0, <1>1 DEF InitSpend, Cancelled, Gone, Failed
<1>2. CASE \E u \in Tx : FlowStep(u) \/ Abandon(u)
  <2>1. PICK u \in Tx : FlowStep(u) \/ Abandon(u)
    BY <1>2
  <2>2. CASE t # u
    BY <1>0, <2>1, <2>2
       DEF FlowStep, CreateTransaction, EncodeFails, UpdateEncoding, CleanupCancelled,
           MarkCancelled, Submit, SubmitTransaction, RecordReply, Abandon, Update,
           pendingVars, Cancelled, Gone, Failed
  <2>3. CASE t = u
    <3>1. pc[t] # "done" /\ pc'[t] # "idle"
      BY <1>0, <2>1, <2>3
         DEF FlowStep, CreateTransaction, EncodeFails, UpdateEncoding,
             CleanupCancelled, MarkCancelled, Submit, SubmitTransaction, RecordReply,
             Abandon
    <3>2. pending'[t] = None \/ pending'[t].cancelled = pending[t].cancelled
      <4>1. CASE EncodeFails(t)
        BY <1>0, <4>1 DEF EncodeFails, Update, Row
      <4>2. CASE UpdateEncoding(t)
        BY <1>0, <4>2 DEF UpdateEncoding, Update, Row
      <4>3. CASE MarkCancelled(t)
        BY <1>0, <4>3 DEF MarkCancelled, Marked, Update, Row
      <4>4. CASE RecordReply(t)
        BY <1>0, <4>4 DEF RecordReply, Update, Row
      <4> QED BY <2>1, <2>3, <4>1, <4>2, <4>3, <4>4
              DEF FlowStep, CreateTransaction, CleanupCancelled, Submit,
                  SubmitTransaction, Abandon, pendingVars
    <3>3. pending[t] = None => pending'[t] = None
      BY <1>0, <2>1, <2>3
         DEF FlowStep, CreateTransaction, EncodeFails, UpdateEncoding,
             CleanupCancelled, MarkCancelled, Submit, SubmitTransaction,
             RecordReply, Abandon, Update, pendingVars
    <3> QED BY <3>1, <3>2, <3>3 DEF Cancelled, Gone, Failed
  <2> QED BY <2>2, <2>3
<1>3. CASE \E u \in Tx : CancelSpend(u) \/ GrowOld(u)
  BY <1>0, <1>3 DEF CancelSpend, GrowOld, flowVars, Cancelled, Gone, Failed,
                    IsFailedSubmit, Row
<1>4. CASE RefreshStep
  <2>1. pc' = pc
    BY <1>4 DEF RefreshStep, StartRefresh, MarkForDeletion, DeleteExpired,
       ApplyMinedHeight, Clean, ThrowNoId, Abort, flowVars
  <2>2. \/ pending'[t] = None \/ pending'[t] = pending[t]
        \/ pending[t] # None /\ pending'[t] = Marked(t)
        \/ pending[t] # None /\ \E h : pending'[t] = [pending[t] EXCEPT !.mined = h]
    BY <1>4, RefreshedRow
  <2>3. CASE pending'[t] = None \/ pending'[t] = pending[t]
    BY <2>1, <2>3 DEF Cancelled, Gone, Failed
  <2>4. CASE pending[t] # None /\ pending'[t] = Marked(t)
    BY <1>0, <2>1, <2>4 DEF Marked, Cancelled, Gone, Failed, IsFailedSubmit, Row
  <2>5. CASE pending[t] # None /\ \E h : pending'[t] = [pending[t] EXCEPT !.mined = h]
    BY <1>0, <2>1, <2>5 DEF Cancelled, Gone, Failed, IsFailedSubmit, Row
  <2> QED BY <2>2, <2>3, <2>4, <2>5
<1>5. CASE \/ ScanBlock \/ MineBlock \/ \E h \in 1 .. tip - 1 : Rewind(h)
           \/ UNCHANGED vars
  BY <1>0, <1>5 DEF ScanBlock, MineBlock, Rewind, vars, flowVars, pendingVars,
                    Cancelled, Gone, Failed
<1>6. CASE Crash \/ RestartAfterError
  BY <1>0, <1>6 DEF Crash, RestartAfterError, ProcessDies, pendingVars,
                    Cancelled, Gone, Failed
<1> QED BY <1>1, <1>2, <1>3, <1>4, <1>5, <1>6 DEF Next

LEMMA NetGrows ==
  ASSUME Inv, [Next]_vars
  PROVE  net' \in Nat /\ net <= net'
<1>1. net \in Nat
  BY DEF Inv, TypeOK, NetTypeOK
<1>2. net' = net \/ net' = net + 1
  BY DEF Next, FlowStep, CreateTransaction, SubmitTransaction, RefreshStep, InitSpend,
     EncodeFails, UpdateEncoding, CleanupCancelled, MarkCancelled, Submit, RecordReply,
     Abandon, CancelSpend, GrowOld, StartRefresh, MarkForDeletion, DeleteExpired,
     ApplyMinedHeight, Clean, ThrowNoId, Abort, ScanBlock, MineBlock, Rewind, Crash,
     RestartAfterError, ProcessDies, vars, netVars
<1> QED BY <1>1, <1>2

LEMMA SnapshotStep ==
  ASSUME Inv, [Next]_vars
  PROVE  SnapshotHolds'
<1>0. /\ TypeOK /\ FlowMatchesRow /\ SnapshotHolds
      /\ refresh \in Locals /\ net \in Nat /\ tip \in Nat /\ tip <= net
  BY DEF Inv, TypeOK, JobTypeOK, Locals, NetTypeOK, DataTypeOK
<1>1. net' \in Nat /\ net <= net'
  BY NetGrows
<1>2. CASE refresh' = refresh
  BY <1>0, <1>1, <1>2, GivesUpForGood DEF SnapshotHolds, Locals
<1>3. CASE refresh' = Idle
  BY <1>1, <1>3 DEF SnapshotHolds, Idle, NothingToDo
<1>4. CASE StartRefresh
  <2>1. /\ refresh'.tip = tip /\ refresh'.marking = None
        /\ \A t \in refresh'.todo[2] :
             t \in Tx /\ ~Gone(t) /\ CancelledWithId(pending[t])
        /\ \A t \in refresh'.todo[3] :
             t \in Tx /\ ~Gone(t) /\ SubmitFailed(pending[t])
    <3> DEFINE chosen(p) == {t \in {u \in Tx : pending[u] # None} :
                               Selects(Pass[p], t, pending[t])}
    <3>1. refresh'.todo = [p \in 1 .. 4 |-> chosen(p)]
          /\ refresh'.tip = tip /\ refresh'.marking = None
      BY <1>4 DEF StartRefresh, Idle
    <3>2. refresh'.todo[2] = chosen(2) /\ refresh'.todo[3] = chosen(3)
      BY <3>1
    <3>3. Pass[2] = "cancelled" /\ Pass[3] = "failed"
      BY DEF Pass
    <3>4. \A t : /\ Selects(Pass[2], t, pending[t]) => CancelledWithId(pending[t])
                 /\ Selects(Pass[3], t, pending[t]) => SubmitFailed(pending[t])
      BY <3>3 DEF Selects
    <3> QED BY <3>1, <3>2, <3>4 DEF Gone
  <2>2. pc' = pc /\ pending' = pending
    BY <1>4 DEF StartRefresh, flowVars, pendingVars
  <2>3. \A t \in refresh'.todo[2] : (pc[t] # "idle" /\ Cancelled(t))'
    BY <1>0, <2>1, <2>2
       DEF CancelledWithId, Cancelled, Gone, FlowMatchesRow, FlowMatches
  <2>4. \A t \in refresh'.todo[3] : Failed(t)'
    BY <1>0, <2>1, <2>2
       DEF SubmitFailed, Failed, Gone, FlowMatchesRow, FlowMatches
  <2> QED BY <1>0, <1>1, <2>1, <2>3, <2>4 DEF SnapshotHolds
<1>5. ASSUME NEW p \in 1 .. 4, NEW t \in Tx, t \in refresh.todo[p],
             \/ refresh' = Done(p, t)
             \/ /\ p \in {2, 3}
                /\ refresh' = [Done(p, t) EXCEPT !.marking = t, !.cleaned = TRUE]
      PROVE  SnapshotHolds'
  <2>1. /\ refresh'.tip = refresh.tip
        /\ refresh'.todo[2] \subseteq refresh.todo[2]
        /\ refresh'.todo[3] \subseteq refresh.todo[3]
        /\ \/ refresh'.marking = refresh.marking
           \/ p \in {2, 3} /\ refresh'.marking = t
    <3>1. [refresh.todo EXCEPT ![p] = @ \ {t}] \in [1 .. 4 -> SUBSET Tx]
      BY <1>0 DEF Locals
    <3>2. Done(p, t) = [refresh EXCEPT !.todo = [refresh.todo EXCEPT ![p] = @ \ {t}]]
      BY <1>0 DEF Done, Locals
    <3>3. refresh'.todo = [refresh.todo EXCEPT ![p] = @ \ {t}]
      BY <1>0, <1>5, <3>1, <3>2 DEF Locals
    <3>4. /\ refresh'.todo[2] \subseteq refresh.todo[2]
          /\ refresh'.todo[3] \subseteq refresh.todo[3]
      BY <1>0, <3>3 DEF Locals
    <3> QED BY <1>0, <1>5, <3>1, <3>2, <3>4 DEF Locals
  <2>2. p \in {2, 3} =>
          (pc[t] # "idle" /\ Cancelled(t)) \/ Failed(t)
    BY <1>0, <1>5 DEF SnapshotHolds
  <2> QED BY <1>0, <1>1, <2>1, <2>2, GivesUpForGood DEF SnapshotHolds, Locals
<1>6. CASE MarkForDeletion
  <2>1. refresh'.tip = refresh.tip /\ refresh'.todo = refresh.todo
        /\ refresh'.marking = None
    BY <1>0, <1>6 DEF MarkForDeletion, Locals
  <2> QED BY <1>0, <1>1, <2>1, GivesUpForGood DEF SnapshotHolds, Locals
<1>7. CASE \E t \in Tx : \/ ApplyMinedHeight(t) \/ Clean(2, t) \/ Clean(3, t)
                         \/ Abort(t)
  <2>1. PICK t \in Tx : \/ ApplyMinedHeight(t) \/ Clean(2, t) \/ Clean(3, t)
                        \/ Abort(t)
    BY <1>7
  <2>2. CASE ApplyMinedHeight(t)
    <3>1. /\ t \in refresh.todo[1] /\ 1 \in 1 .. 4
          /\ refresh' = Done(1, t)
      BY <2>2 DEF ApplyMinedHeight, Handles
    <3> QED BY <1>5, <3>1
  <2>3. CASE Clean(2, t)
    <3>1. /\ t \in refresh.todo[2] /\ 2 \in 1 .. 4
          /\ \/ refresh' = Done(2, t)
             \/ refresh' = [Done(2, t) EXCEPT !.marking = t, !.cleaned = TRUE]
      BY <2>3 DEF Clean, Handles
    <3> QED BY <1>5, <3>1
  <2>4. CASE Clean(3, t)
    <3>1. /\ t \in refresh.todo[3] /\ 3 \in 1 .. 4
          /\ \/ refresh' = Done(3, t)
             \/ refresh' = [Done(3, t) EXCEPT !.marking = t, !.cleaned = TRUE]
      BY <2>4 DEF Clean, Handles
    <3> QED BY <1>5, <3>1
  <2>5. CASE Abort(t)
    <3>1. /\ t \in refresh.todo[4] /\ 4 \in 1 .. 4
          /\ refresh' = Done(4, t)
      BY <2>5 DEF Abort, Handles
    <3> QED BY <1>5, <3>1
  <2> QED BY <2>1, <2>2, <2>3, <2>4, <2>5
<1>8. CASE /\ ~RefreshStep /\ ~Crash /\ ~RestartAfterError
  <2>1. refresh' = refresh
    BY <1>8 DEF Next, FlowStep, CreateTransaction, SubmitTransaction, InitSpend,
       EncodeFails, UpdateEncoding, CleanupCancelled, MarkCancelled, Submit,
       RecordReply, Abandon, CancelSpend, GrowOld, ScanBlock, MineBlock, Rewind,
       vars, jobVars
  <2> QED BY <1>2, <2>1
<1> QED BY <1>3, <1>4, <1>6, <1>7, <1>8
        DEF RefreshStep, DeleteExpired, ThrowNoId, Crash, RestartAfterError, ProcessDies

----------------------------------------------------------------------------
(* SendableIsLocked                                                           *)

(* Only the encoding of its transaction makes a payment sendable.             *)
LEMMA StillSendable ==
  ASSUME Inv, [Next]_vars, NEW u \in Tx, ~CreateTransaction(u), Sendable(u)'
  PROVE  Sendable(u)
<1>0. /\ TypeOK /\ FlowMatches(u)
      /\ pc \in [Tx -> Pc] /\ reply \in [Tx -> Error] /\ mempool \subseteq Tx
      /\ pending \in [Tx -> Row \cup {None}]
  BY DEF Inv, TypeOK, FlowTypeOK, PendingTypeOK, NetTypeOK, FlowMatchesRow
<1>1. ASSUME NEW t \in Tx, InitSpend(t)
      PROVE  Sendable(u)
  BY <1>0, <1>1 DEF InitSpend, Sendable, Gone, FlowMatches, Unsent, netVars
<1>2. ASSUME NEW t \in Tx, FlowStep(t) \/ Abandon(t) \/ CancelSpend(t), t # u
      PROVE  Sendable(u)
  BY <1>0, <1>2
     DEF FlowStep, CreateTransaction, EncodeFails, UpdateEncoding, CleanupCancelled,
         MarkCancelled, Submit, SubmitTransaction, RecordReply, Abandon, CancelSpend,
         Update, Sendable, Gone, netVars, pendingVars, flowVars
<1>3. CASE EncodeFails(u)
  <2>1. CASE pending[u] = None
    BY <1>3, <2>1 DEF EncodeFails, Update, Sendable, Gone
  <2>2. CASE pending[u] # None
    BY <1>0, <1>3, <2>2
       DEF EncodeFails, Update, Sendable, Gone, GivenUp, IsFailedSubmit, Row
  <2> QED BY <2>1, <2>2
<1>4. CASE UpdateEncoding(u)
  BY <1>0, <1>4
     DEF UpdateEncoding, Update, Sendable, Gone, GivenUp, IsFailedSubmit, Row, netVars
<1>5. CASE MarkCancelled(u)
  BY <1>0, <1>5
     DEF MarkCancelled, Marked, Update, Sendable, Gone, GivenUp, IsFailedSubmit, Row,
         netVars
<1>6. CASE CleanupCancelled(u) \/ Submit(u) \/ SubmitTransaction(u) \/ Abandon(u)
  BY <1>0, <1>6
     DEF CleanupCancelled, Submit, SubmitTransaction, Abandon, Sendable, Gone, netVars,
         pendingVars
<1>7. CASE RecordReply(u)
  BY <1>0, <1>7
     DEF RecordReply, Update, Sendable, Gone, Cancelled, GivenUp, IsFailedSubmit,
         FlowMatches, Row, netVars
<1>8. CASE CancelSpend(u)
  BY <1>0, <1>8 DEF CancelSpend, Sendable, Gone, GivenUp, Row, netVars, flowVars
<1>9. CASE RefreshStep \/ \E t \in Tx : GrowOld(t)
  <2>1. pc' = pc /\ mempool' = mempool
    BY <1>9 DEF RefreshStep, StartRefresh, MarkForDeletion, DeleteExpired,
       ApplyMinedHeight, Clean, ThrowNoId, Abort, GrowOld, flowVars, netVars
  <2>2. \/ pending'[u] = pending[u] \/ pending'[u] = None
        \/ pending[u] # None /\ pending'[u] = Marked(u)
        \/ pending[u] # None /\ \E h : pending'[u] = [pending[u] EXCEPT !.mined = h]
    BY <1>9, RefreshedRow
  <2>3. CASE pending[u] # None /\ pending'[u] = Marked(u)
    BY <1>0, <2>3 DEF Marked, Sendable, GivenUp, IsFailedSubmit, Row
  <2>4. CASE pending[u] # None /\ \E h : pending'[u] = [pending[u] EXCEPT !.mined = h]
    BY <1>0, <2>1, <2>4 DEF Sendable, Gone, GivenUp, IsFailedSubmit, Row
  <2> QED BY <2>1, <2>2, <2>3, <2>4 DEF Sendable, Gone
<1>10. CASE \/ ScanBlock \/ MineBlock \/ \E h \in 1 .. tip - 1 : Rewind(h)
            \/ UNCHANGED vars
  BY <1>0, <1>10 DEF ScanBlock, MineBlock, Rewind, vars, netVars, flowVars, pendingVars,
                     Sendable, Gone
<1>11. CASE Crash \/ RestartAfterError
  BY <1>0, <1>11 DEF Crash, RestartAfterError, ProcessDies, netVars, pendingVars,
                     Sendable, Gone
<1> QED BY <1>1, <1>2, <1>3, <1>4, <1>5, <1>6, <1>7, <1>8, <1>9, <1>10, <1>11
        DEF Next, FlowStep

(* What was built for a payment changes only when it is encoded, before it is *)
(* sent; so what the chain has spent stays spent.                             *)
LEMMA BuiltOnce ==
  ASSUME Inv, [Next]_vars
  PROVE  /\ \A t \in Tx : built'[t] = built[t] \/ CreateTransaction(t)
         /\ \A n \in Note : SpentOnChain(n) => SpentOnChain(n)'
<1>0. /\ FlowMatchesRow /\ net \in Nat /\ minedAt \in [Tx -> Nat \cup {None}]
      /\ built \in [Tx -> [spends: SUBSET Note, expiry: Nat]]
  BY DEF Inv, TypeOK, NetTypeOK, DataTypeOK
<1>1. CASE \E t \in Tx : CreateTransaction(t)
  <2>1. PICK t \in Tx : CreateTransaction(t)
    BY <1>1
  <2>2. /\ minedAt[t] = None /\ minedAt' = minedAt
        /\ \A u \in Tx \ {t} : built'[u] = built[u]
    BY <1>0, <2>1
       DEF CreateTransaction, CreateToAddress, FlowMatchesRow, FlowMatches, Unsent, netVars
  <2> QED BY <2>1, <2>2 DEF SpentOnChain
<1>2. CASE MineBlock
  <2>1. built' = built /\ \A t \in Tx : minedAt[t] # None => minedAt'[t] # None
    BY <1>0, <1>2 DEF MineBlock, dataVars
  <2> QED BY <2>1 DEF SpentOnChain
<1>3. CASE ~MineBlock /\ \A t \in Tx : ~CreateTransaction(t)
  <2>1. built' = built /\ minedAt' = minedAt
    BY <1>3 DEF Next, FlowStep, RefreshStep, InitSpend, EncodeFails, UpdateEncoding,
       CleanupCancelled, MarkCancelled, Submit, SubmitTransaction, RecordReply, Abandon,
       CancelSpend, GrowOld, StartRefresh, MarkForDeletion, DeleteExpired,
       ApplyMinedHeight, Clean, ThrowNoId, Abort, RemoveOutbound, ScanBlock, Rewind,
       Crash, RestartAfterError, ProcessDies, vars, netVars, dataVars
  <2> QED BY <2>1 DEF SpentOnChain
<1> QED BY <1>1, <1>2, <1>3

(* No step takes a note from a payment that stays sendable, unless the chain  *)
(* spends it.                                                                 *)
LEMMA KeepsItsLock ==
  ASSUME Inv, [Next]_vars, NEW u \in Tx, NEW n \in built[u].spends, lock[n] = u,
         Sendable(u), Sendable(u)', ~CreateTransaction(u), built[u].expiry > net'
  PROVE  SpentOnChain(n)' \/ lock'[n] = u
<1>0. /\ TypeOK /\ NetTypeOK /\ DataTypeOK /\ FlowMatches(u) /\ SnapshotHolds
      /\ n \in Note /\ u # None /\ net \in Nat /\ tip \in Nat /\ tip <= net
      /\ built[u].expiry \in Nat
      /\ refresh.tip \in Nat
  BY DEF Inv, TypeOK, DataTypeOK, NetTypeOK, JobTypeOK, FlowMatchesRow
<1>n. net' \in Nat /\ net <= net'
  BY NetGrows
<1>1. ASSUME NEW t \in Tx, CreateTransaction(t)
      PROVE  lock'[n] = u
  BY <1>0, <1>1 DEF CreateTransaction, CreateToAddress
<1>2. ASSUME NEW t \in Tx, CleanupCancelled(t)
      PROVE  lock'[n] = u
  <2>1. CASE t = u
    BY <1>0, <1>2, <2>1 DEF CleanupCancelled, Sendable, FlowMatches, Unsent
  <2>2. CASE t # u
    BY <1>0, <1>2, <2>2 DEF CleanupCancelled, RemoveOutbound, dataVars
  <2> QED BY <2>1, <2>2
<1>3. ASSUME NEW p \in {2, 3}, NEW t \in Tx, Clean(p, t)
      PROVE  lock'[n] = u
  <2>1. t # u
    BY <1>0, <1>3 DEF Clean, Handles, SnapshotHolds, Cancelled, Failed, Sendable, GivenUp
  <2> QED BY <1>0, <1>3, <2>1 DEF Clean, RemoveOutbound, dataVars
<1>4. CASE DeleteExpired
  <2>1. built[u].expiry >= refresh.tip - ExpirySlack
    BY <1>0, <1>n DEF SnapshotHolds
  <2> QED BY <1>0, <1>4, <2>1 DEF DeleteExpired, RemoveOutbound
<1>5. CASE ScanBlock
  <2> DEFINE h == tip + 1
             marks == [m \in Note |-> IF Spender(m, h) = {} THEN lock[m]
                                      ELSE CHOOSE t \in Spender(m, h) : TRUE]
  <2>1. /\ lock' = UnlockExpired(marks, block', h)
        /\ minedAt' = minedAt /\ built' = built /\ h <= net
    BY <1>0, <1>5 DEF ScanBlock, netVars
  <2>2. CASE Spender(n, h) = {}
    <3>1. marks[n] = u
      BY <1>0, <2>2
    <3> HIDE DEF marks
    <3> QED BY <1>0, <1>n, <2>1, <3>1 DEF UnlockExpired
  <2>3. CASE Spender(n, h) # {}
    <3>1. PICK t \in Tx : minedAt[t] = h /\ n \in built[t].spends
      BY <2>3 DEF Spender, Recognised
    <3> QED BY <1>0, <2>1, <3>1 DEF SpentOnChain
  <2> QED BY <2>2, <2>3
<1>6. CASE /\ \A t \in Tx : ~CreateTransaction(t) /\ ~CleanupCancelled(t)
           /\ \A t \in Tx : ~Clean(2, t) /\ ~Clean(3, t)
           /\ ~DeleteExpired /\ ~ScanBlock
  <2>1. lock' = lock
    BY <1>6 DEF Next, FlowStep, RefreshStep, InitSpend, EncodeFails, UpdateEncoding,
       MarkCancelled, Submit, SubmitTransaction, RecordReply, Abandon, CancelSpend,
       GrowOld, StartRefresh, MarkForDeletion, ApplyMinedHeight, ThrowNoId, Abort,
       MineBlock, Rewind, Crash, RestartAfterError, ProcessDies, vars, dataVars
  <2> QED BY <2>1
<1> QED BY <1>1, <1>2, <1>3, <1>4, <1>5, <1>6

LEMMA LockedStep ==
  ASSUME Inv, [Next]_vars
  PROVE  SendableIsLocked'
<1> SUFFICES ASSUME NEW u \in Tx, Sendable(u)', built'[u].expiry > net',
                    NEW n \in built'[u].spends
             PROVE  SpentOnChain(n)' \/ lock'[n] = u
  BY DEF SendableIsLocked
<1>0. /\ SendableIsLocked /\ net \in Nat
      /\ built \in [Tx -> [spends: SUBSET Note, expiry: Nat]]
  BY DEF Inv, TypeOK, NetTypeOK, DataTypeOK
<1>1. CASE CreateTransaction(u)
  BY <1>0, <1>1 DEF CreateTransaction, CreateToAddress
<1>2. CASE ~CreateTransaction(u)
  <2>1. Sendable(u) /\ built'[u] = built[u]
    BY <1>2, StillSendable, BuiltOnce
  <2>2. built[u].expiry > net
    BY <1>0, <2>1, NetGrows
  <2>3. n \in Note /\ (SpentOnChain(n) \/ lock[n] = u)
    BY <1>0, <2>1, <2>2 DEF SendableIsLocked
  <2> QED BY <1>2, <2>1, <2>3, BuiltOnce, KeepsItsLock
<1> QED BY <1>1, <1>2

----------------------------------------------------------------------------
LEMMA InitInv == Init => Inv
<1> SUFFICES ASSUME Init PROVE Inv
  OBVIOUS
<1>1. TypeOK
  BY InitTypeOK
<1>2. MempoolIsMinable /\ FlowMatchesRow /\ SendableIsLocked
  BY DEF Init, MempoolIsMinable, FlowMatchesRow, FlowMatches, Gone, Sendable,
         SendableIsLocked
<1>3. SnapshotHolds
  BY DEF Init, SnapshotHolds, Idle, NothingToDo
<1> QED BY <1>1, <1>2, <1>3 DEF Inv

LEMMA StepInv == Inv /\ [Next]_vars => Inv'
  BY StepTypeOK, MinableStep, FlowMatchesStep, SnapshotStep, LockedStep DEF Inv

LEMMA InvImpliesLocked == Inv => InFlightStaysLocked
<1> SUFFICES ASSUME Inv, NEW t \in mempool, ~Gone(t), ~GivenUp(pending[t]),
                    NEW n \in built[t].spends
             PROVE  lock[n] = t
  BY DEF InFlightStaysLocked, Gone
<1>1. t \in Tx /\ built[t].expiry > net /\ ~SpentOnChain(n)
  BY DEF Inv, TypeOK, NetTypeOK, MempoolIsMinable
<1> QED BY <1>1 DEF Inv, SendableIsLocked, Sendable

\* The notes of a payment that the network may still mine stay locked unless the
\* wallet gave the payment up, for every number of payments that compete for
\* notes, every expiry, and any number of rewinds, crashes and failed calls.
THEOREM InFlightLocked == Spec => []InFlightStaysLocked
  BY InitInv, StepInv, InvImpliesLocked, PTL DEF Spec
----------------------------------------------------------------------------
(* Proofs about the rows of the pending DB: none is deleted while something   *)
(* is left to undo for it.                                                    *)

(* The inductive invariant behind DeletedRowsHoldNoLock.                      *)

\* Nothing was encoded yet that the row of a payment could be about.
Early == {"idle", "encode", "created"}

\* The data DB holds no transaction of the payment that a block has not.
Removed(t) == row[t] = "none" \/ minedAt[t] # None
Settled(t) == Removed(t) \/ built[t].expiry < net

\* A payment that was cleaned up is about to be marked for deletion, or is.
Retired(t) ==
  \/ pc[t] = "mark"
  \/ refresh.marking = t
  \/ ~Gone(t) /\ pending[t].error = "marked"

\* What the tables say of a payment, whichever coroutine wrote it.
RowTruthful(t) ==
  /\ built[t].expiry <= MaxExpiry
  /\ block[t] # None => minedAt[t] # None
  /\ ~Gone(t) /\ pending[t].mined # None => minedAt[t] # None
  /\ ~Gone(t) /\ (pending[t].raw # "empty" \/ pending[t].encoded) => pc[t] \notin Early
  /\ age[t] = "ancient" => pc[t] = "done" /\ net >= MaxHeight
  /\ reply[t] # "marked"

RetiredIsRemoved(t) == Retired(t) => pc[t] \notin Early /\ Removed(t)

\* However old the snapshot, what it chose to clean up was encoded, and what it
\* chose to delete was never encoded or is settled.
SnapshotJust(t) ==
  /\ t \in refresh.todo[2] => pc[t] \notin Early
  /\ t \in refresh.todo[4] =>
       /\ pc[t] \notin Early
       /\ Gone(t) \/ pending[t].raw = "empty" \/ Settled(t)

RowInv == \A t \in Tx : RowTruthful(t) /\ RetiredIsRemoved(t) /\ SnapshotJust(t)

----------------------------------------------------------------------------
(* What a step may do to the tables, the flow and the row of one payment.     *)

(* Blocks stay mined; a table learns of a block only from the chain, and of a *)
(* new transaction only when it is encoded.                                   *)
LEMMA TablesStep ==
  ASSUME Inv, [Next]_vars, NEW t \in Tx
  PROVE  /\ minedAt[t] # None => minedAt'[t] # None
         /\ block'[t] # None => block[t] # None \/ minedAt[t] # None
         /\ \/ row'[t] = row[t] \/ row'[t] = "none"
            \/ pc[t] = "encode" \/ minedAt[t] # None
         /\ \/ built'[t] = built[t]
            \/ pc[t] = "encode" /\ built'[t].expiry <= MaxExpiry
<1>0. /\ minedAt \in [Tx -> Nat \cup {None}] /\ net \in Nat
      /\ built \in [Tx -> [spends: SUBSET Note, expiry: Nat]]
      /\ row \in [Tx -> {"none", "created", "seen"}]
      /\ block \in [Tx -> Nat \cup {None}] /\ tip \in Nat
  BY DEF Inv, TypeOK, NetTypeOK, DataTypeOK
<1>1. ASSUME NEW u \in Tx, CreateTransaction(u)
      PROVE  /\ minedAt' = minedAt /\ block' = block
             /\ row'[t] = row[t] \/ pc[t] = "encode"
             /\ \/ built'[t] = built[t]
                \/ pc[t] = "encode" /\ built'[t].expiry <= MaxExpiry
  BY <1>0, <1>1 DEF CreateTransaction, CreateToAddress, netVars
<1>2. CASE MineBlock
  BY <1>0, <1>2 DEF MineBlock, dataVars
<1>3. CASE ScanBlock
  <2>1. t \in Recognised(tip + 1) => minedAt[t] # None
    BY <1>0 DEF Recognised
  <2>2. /\ minedAt' = minedAt /\ built' = built
        /\ row'[t] = row[t] \/ t \in Recognised(tip + 1)
        /\ block'[t] = block[t] \/ t \in Recognised(tip + 1)
    BY <1>3 DEF ScanBlock, netVars
  <2> QED BY <2>1, <2>2
<1>4. ASSUME NEW h \in 1 .. tip - 1, Rewind(h)
      PROVE  /\ minedAt' = minedAt /\ row' = row /\ built' = built
             /\ block'[t] # None => block[t] # None
  BY <1>4 DEF Rewind, netVars
<1>5. CASE /\ \A u \in Tx : ~CreateTransaction(u)
           /\ ~MineBlock /\ ~ScanBlock /\ \A h \in 1 .. tip - 1 : ~Rewind(h)
  <2>1. /\ minedAt' = minedAt /\ block' = block /\ built' = built
        /\ row'[t] = row[t] \/ row'[t] = "none"
    BY <1>5 DEF Next, FlowStep, RefreshStep, InitSpend, EncodeFails, UpdateEncoding,
       CleanupCancelled, MarkCancelled, Submit, SubmitTransaction, RecordReply, Abandon,
       CancelSpend, GrowOld, StartRefresh, MarkForDeletion, DeleteExpired,
       ApplyMinedHeight, Clean, ThrowNoId, Abort, RemoveOutbound, Crash,
       RestartAfterError, ProcessDies, vars, netVars, dataVars
  <2> QED BY <2>1
<1> QED BY <1>1, <1>2, <1>3, <1>4, <1>5

(* A flow never returns to the encoding, and is "mark"ed for deletion when    *)
(* its clean-up succeeded.                                                    *)
LEMMA FlowOnward ==
  ASSUME Inv, [Next]_vars, NEW t \in Tx
  PROVE  /\ pc[t] \notin Early => pc'[t] \notin Early
         /\ pc[t] = "done" => pc'[t] = "done"
         /\ reply[t] # "marked" => reply'[t] # "marked"
         /\ pc'[t] = "mark" =>
              \/ pc[t] = "mark"
              \/ pc[t] = "cleanup" /\ row'[t] = "none"
<1>0. /\ pc \in [Tx -> Pc] /\ reply \in [Tx -> Error]
      /\ row \in [Tx -> {"none", "created", "seen"}]
  BY DEF Inv, TypeOK, FlowTypeOK, DataTypeOK
<1>1. CASE \E u \in Tx : CleanupCancelled(u)
  <2>1. PICK u \in Tx : CleanupCancelled(u)
    BY <1>1
  <2>2. reply' = reply /\ pc[u] = "cleanup"
        /\ pc' = [pc EXCEPT ![u] = IF CleanupSucceeds(u) THEN "mark" ELSE "done"]
    BY <2>1 DEF CleanupCancelled
  <2>3. CleanupSucceeds(u) => row'[u] = "none"
    BY <1>0, <2>1 DEF CleanupCancelled, CleanupSucceeds, RemoveOutbound
  <2> QED BY <1>0, <2>2, <2>3 DEF Early
<1>2. CASE \E u \in Tx : SubmitTransaction(u)
  BY <1>0, <1>2 DEF SubmitTransaction, Early
<1>3. CASE Crash \/ RestartAfterError
  BY <1>0, <1>3 DEF Crash, RestartAfterError, ProcessDies, Early
<1>4. CASE \E u \in Tx : \/ InitSpend(u) \/ CreateTransaction(u) \/ EncodeFails(u)
                         \/ UpdateEncoding(u) \/ MarkCancelled(u) \/ Submit(u)
                         \/ RecordReply(u) \/ Abandon(u)
  BY <1>0, <1>4 DEF InitSpend, CreateTransaction, EncodeFails, UpdateEncoding,
     MarkCancelled, Submit, RecordReply, Abandon, Early
<1>5. CASE \/ \E u \in Tx : CancelSpend(u) \/ GrowOld(u)
           \/ RefreshStep \/ ScanBlock \/ MineBlock
           \/ (\E h \in 1 .. tip - 1 : Rewind(h)) \/ UNCHANGED vars
  BY <1>5 DEF CancelSpend, GrowOld, RefreshStep, StartRefresh, MarkForDeletion,
     DeleteExpired, ApplyMinedHeight, Clean, ThrowNoId, Abort, ScanBlock, MineBlock,
     Rewind, vars, flowVars
<1> QED BY <1>1, <1>2, <1>3, <1>4, <1>5 DEF Next, FlowStep

(* The refresh's own steps on a row it is about to mark, or to delete.        *)
LEMMA RefreshOnward ==
  ASSUME Inv, [Next]_vars, NEW t \in Tx, ~StartRefresh
  PROVE  /\ t \in refresh'.todo[2] => t \in refresh.todo[2]
         /\ t \in refresh'.todo[4] => t \in refresh.todo[4]
         /\ refresh'.marking = t =>
              \/ refresh.marking = t
              \/ /\ t \in refresh.todo[2] \cup refresh.todo[3]
                 /\ row'[t] = "none"
<1>0. /\ refresh \in Locals /\ t # None
      /\ row \in [Tx -> {"none", "created", "seen"}]
  BY DEF Inv, TypeOK, JobTypeOK, DataTypeOK, Locals
<1>1. CASE refresh' = refresh
  BY <1>1
<1>2. CASE refresh' = Idle
  BY <1>0, <1>2 DEF Idle, NothingToDo
<1>3. ASSUME NEW p \in 1 .. 4, NEW u \in Tx,
             \/ refresh' = Done(p, u)
             \/ refresh' = [Done(p, u) EXCEPT !.marking = u, !.cleaned = TRUE]
      PROVE  /\ refresh'.todo[2] \subseteq refresh.todo[2]
             /\ refresh'.todo[4] \subseteq refresh.todo[4]
             /\ refresh'.marking = IF refresh' = Done(p, u) THEN refresh.marking ELSE u
  <2>1. [refresh.todo EXCEPT ![p] = @ \ {u}] \in [1 .. 4 -> SUBSET Tx]
    BY <1>0 DEF Locals
  <2>2. Done(p, u) = [refresh EXCEPT !.todo = [refresh.todo EXCEPT ![p] = @ \ {u}]]
    BY <1>0 DEF Done, Locals
  <2>3. refresh'.todo = [refresh.todo EXCEPT ![p] = @ \ {u}]
    BY <1>0, <1>3, <2>1, <2>2 DEF Locals
  <2>4. /\ refresh'.todo[2] \subseteq refresh.todo[2]
        /\ refresh'.todo[4] \subseteq refresh.todo[4]
    BY <1>0, <2>3 DEF Locals
  <2>5. CASE refresh' = Done(p, u)
    BY <1>0, <2>2, <2>4, <2>5 DEF Locals
  <2>6. CASE refresh' = [Done(p, u) EXCEPT !.marking = u, !.cleaned = TRUE]
                        /\ refresh' # Done(p, u)
    BY <1>0, <2>2, <2>4, <2>6 DEF Locals
  <2> QED BY <1>3, <2>5, <2>6
<1>4. ASSUME NEW p \in {2, 3}, NEW u \in Tx, Clean(p, u)
      PROVE  /\ refresh'.todo[2] \subseteq refresh.todo[2]
             /\ refresh'.todo[4] \subseteq refresh.todo[4]
             /\ \/ refresh'.marking = refresh.marking
                \/ /\ refresh'.marking = u
                   /\ u \in refresh.todo[p] /\ row'[u] = "none"
  <2>1. u \in refresh.todo[p] /\ p \in 1 .. 4
    BY <1>4 DEF Clean, Handles
  <2>2. \/ refresh' = Done(p, u)
        \/ /\ refresh' = [Done(p, u) EXCEPT !.marking = u, !.cleaned = TRUE]
           /\ CleanupSucceeds(u) /\ RemoveOutbound({u})
    BY <1>4 DEF Clean, CleanupSucceeds
  <2>3. RemoveOutbound({u}) /\ CleanupSucceeds(u) => row'[u] = "none"
    BY <1>0 DEF RemoveOutbound, CleanupSucceeds
  <2> QED BY <1>3, <2>1, <2>2, <2>3
<1>5. ASSUME NEW u \in Tx, ApplyMinedHeight(u) \/ Abort(u)
      PROVE  /\ refresh'.todo[2] \subseteq refresh.todo[2]
             /\ refresh'.todo[4] \subseteq refresh.todo[4]
             /\ refresh'.marking = refresh.marking
  <2>1. PICK p \in 1 .. 4 : refresh' = Done(p, u)
    BY <1>5 DEF ApplyMinedHeight, Abort
  <2> QED BY <1>3, <2>1
<1>6. CASE MarkForDeletion
  BY <1>0, <1>6 DEF MarkForDeletion, Locals
<1>7. CASE /\ ~RefreshStep /\ ~Crash /\ ~RestartAfterError
  <2>1. refresh' = refresh
    BY <1>7 DEF Next, FlowStep, CreateTransaction, SubmitTransaction, InitSpend,
       EncodeFails, UpdateEncoding, CleanupCancelled, MarkCancelled, Submit,
       RecordReply, Abandon, CancelSpend, GrowOld, ScanBlock, MineBlock, Rewind,
       vars, jobVars
  <2> QED BY <1>1, <2>1
<1>8. CASE RefreshStep
  BY <1>2, <1>4, <1>5, <1>6, <1>8 DEF RefreshStep, DeleteExpired, ThrowNoId
<1> QED BY <1>2, <1>7, <1>8 DEF Crash, RestartAfterError, ProcessDies

(* What a step may write into a row, and who writes it.                       *)
LEMMA RowWritten ==
  ASSUME Inv, RowInv, [Next]_vars, NEW t \in Tx, ~Gone(t)'
  PROVE  \/ pc[t] = "idle" /\ pending'[t] = NewRow
         \/ /\ ~Gone(t)
            /\ pending[t].raw = "empty" =>
                 pending'[t].raw = "empty" \/ pc[t] = "created" \/ Retired(t)
            /\ pending'[t].raw # "empty" \/ pending'[t].encoded =>
                 \/ pending[t].raw # "empty" \/ pending[t].encoded
                 \/ pc'[t] \notin Early
            /\ pending'[t].error = "marked" => Retired(t)
            /\ pending'[t].mined # None =>
                 pending[t].mined # None \/ minedAt[t] # None
<1>0. /\ TypeOK /\ FlowMatches(t) /\ RowTruthful(t) /\ RetiredIsRemoved(t)
      /\ pc \in [Tx -> Pc] /\ reply \in [Tx -> Error] /\ t # None
      /\ pending \in [Tx -> Row \cup {None}]
  BY DEF Inv, TypeOK, FlowTypeOK, PendingTypeOK, FlowMatchesRow, RowInv
<1>1. ASSUME NEW u \in Tx, InitSpend(u)
      PROVE  \/ pc[t] = "idle" /\ pending'[t] = NewRow
             \/ pending'[t] = pending[t]
  BY <1>0, <1>1 DEF InitSpend
<1>2. CASE EncodeFails(t) /\ ~Gone(t)
  BY <1>0, <1>2 DEF EncodeFails, Update, Gone, Row, Early, Retired
<1>3. CASE UpdateEncoding(t) /\ ~Gone(t)
  BY <1>0, <1>3 DEF UpdateEncoding, Update, Gone, Row, Early, Retired
<1>4. CASE MarkCancelled(t) /\ ~Gone(t)
  BY <1>0, <1>4
     DEF MarkCancelled, Marked, Update, Gone, Row, Early, Retired
<1>5. CASE RecordReply(t) /\ ~Gone(t)
  BY <1>0, <1>5
     DEF RecordReply, Update, Gone, Row, Early, Retired, RowTruthful
<1>6. CASE CancelSpend(t) /\ ~Gone(t)
  BY <1>0, <1>6 DEF CancelSpend, Gone, Row, Early, Retired
<1>7. CASE MarkForDeletion /\ refresh.marking = t /\ ~Gone(t)
  <2>1. Retired(t) /\ pc' = pc /\ pc[t] \notin Early
    BY <1>0, <1>7 DEF Retired, RetiredIsRemoved, MarkForDeletion, flowVars
  <2>2. pending'[t] = Marked(t)
    BY <1>0, <1>7 DEF MarkForDeletion, Update, Gone
  <2> QED BY <1>0, <1>7, <2>1, <2>2 DEF Marked, Gone, Row
<1>8. CASE ApplyMinedHeight(t) /\ ~Gone(t)
  <2>1. PICK h \in MinedHeights(t) :
          IF h = None THEN UNCHANGED pending
                      ELSE Update(t, [pending[t] EXCEPT !.mined = h])
    BY <1>8 DEF ApplyMinedHeight
  <2>2. h # None => minedAt[t] # None
    BY <1>0, <2>1 DEF MinedHeights, RowTruthful
  <2>3. pc' = pc
    BY <1>8 DEF ApplyMinedHeight, flowVars
  <2>4. CASE h = None
    BY <1>0, <1>8, <2>1, <2>3, <2>4 DEF Gone, Retired
  <2>5. CASE h # None
    <3>1. pending'[t] = [pending[t] EXCEPT !.mined = h]
      BY <1>0, <1>8, <2>1, <2>5 DEF Update, Gone
    <3> QED BY <1>0, <1>8, <2>2, <2>3, <2>5, <3>1 DEF Gone, Retired, Row
  <2> QED BY <2>4, <2>5
<1>9. CASE pending'[t] = pending[t]
  BY <1>9 DEF Gone, Retired
<1>10. ASSUME /\ ~EncodeFails(t) /\ ~UpdateEncoding(t) /\ ~MarkCancelled(t)
            /\ ~RecordReply(t) /\ ~CancelSpend(t) /\ ~ApplyMinedHeight(t)
            /\ ~(MarkForDeletion /\ refresh.marking = t)
            /\ \A u \in Tx : ~InitSpend(u)
       PROVE  pending'[t] = pending[t]
  <2>1. CASE MarkForDeletion /\ refresh.marking # t
    BY <1>0, <2>1 DEF MarkForDeletion, Update
  <2>2. ASSUME NEW u \in Tx, u # t,
               \/ EncodeFails(u) \/ UpdateEncoding(u) \/ MarkCancelled(u)
               \/ RecordReply(u) \/ CancelSpend(u) \/ ApplyMinedHeight(u)
        PROVE  pending'[t] = pending[t]
    BY <1>0, <2>2 DEF EncodeFails, UpdateEncoding, MarkCancelled, RecordReply,
       CancelSpend, ApplyMinedHeight, Update
  <2>3. ASSUME NEW u \in Tx, Abort(u)
        PROVE  pending'[t] = pending[t]
    BY <1>0, <2>3 DEF Abort, Gone
  <2> QED BY <1>10, <2>1, <2>2, <2>3
          DEF Next, FlowStep, RefreshStep, CreateTransaction, CleanupCancelled, Submit,
              SubmitTransaction, Abandon, GrowOld, StartRefresh, DeleteExpired, Clean,
              ThrowNoId, ScanBlock, MineBlock, Rewind, Crash, RestartAfterError,
              ProcessDies, vars, pendingVars
<1>11. ASSUME Gone(t), \A u \in Tx : ~InitSpend(u)
       PROVE  FALSE
  <2>1. CASE MarkForDeletion
    BY <1>0, <1>11, <2>1 DEF MarkForDeletion, Update, Gone
  <2>2. ASSUME NEW u \in Tx,
               \/ EncodeFails(u) \/ UpdateEncoding(u) \/ MarkCancelled(u)
               \/ RecordReply(u) \/ CancelSpend(u) \/ ApplyMinedHeight(u)
        PROVE  FALSE
    BY <1>0, <1>11, <2>2 DEF EncodeFails, UpdateEncoding, MarkCancelled, RecordReply,
       CancelSpend, ApplyMinedHeight, Update, Gone
  <2> QED BY <1>10, <1>11, <2>1, <2>2 DEF Gone
<1> QED BY <1>0, <1>1, <1>2, <1>3, <1>4, <1>5, <1>6, <1>7, <1>8, <1>9, <1>10, <1>11

----------------------------------------------------------------------------
(* RowInv is inductive.                                                       *)

(* What was cleaned up, mined or expired stays so: once its transaction was   *)
(* encoded, a payment encodes no other.                                       *)
LEMMA SettledForGood ==
  ASSUME Inv, [Next]_vars, NEW t \in Tx, pc[t] \notin Early
  PROVE  /\ Removed(t) => Removed(t)'
         /\ Settled(t) => Settled(t)'
<1>1. Removed(t) => Removed(t)'
  BY TablesStep DEF Removed, Early
<1>2. built'[t] = built[t]
  BY TablesStep DEF Early
<1>3. built[t].expiry \in Nat /\ net \in Nat /\ net' \in Nat /\ net <= net'
  BY NetGrows DEF Inv, TypeOK, NetTypeOK, DataTypeOK
<1>4. built[t].expiry < net => built'[t].expiry < net'
  BY <1>2, <1>3
<1> QED BY <1>1, <1>4 DEF Settled

LEMMA RowTruthfulStep ==
  ASSUME Inv, RowInv, [Next]_vars, NEW t \in Tx
  PROVE  RowTruthful(t)'
<1>0. /\ RowTruthful(t) /\ net \in Nat /\ t # None
      /\ pc \in [Tx -> Pc] /\ age \in [Tx -> {"fresh", "old", "ancient"}]
  BY DEF Inv, TypeOK, NetTypeOK, FlowTypeOK, PendingTypeOK, RowInv
<1>n. net' \in Nat /\ net <= net'
  BY NetGrows
<1>1. built'[t].expiry <= MaxExpiry
  BY <1>0, TablesStep DEF RowTruthful
<1>2. block'[t] # None => minedAt'[t] # None
  BY <1>0, TablesStep DEF RowTruthful
<1>3. ~Gone(t)' /\ pending'[t].mined # None => minedAt'[t] # None
  <2>1. ~Gone(t)' /\ pending'[t].mined # None => minedAt[t] # None
    BY <1>0, RowWritten DEF RowTruthful, NewRow
  <2> QED BY <2>1, TablesStep
<1>4. ~Gone(t)' /\ (pending'[t].raw # "empty" \/ pending'[t].encoded) =>
        pc'[t] \notin Early
  BY <1>0, RowWritten, FlowOnward DEF RowTruthful, NewRow
<1>5. age'[t] = "ancient" => pc'[t] = "done" /\ net' >= MaxHeight
  <2>1. age'[t] = "ancient" => pc[t] = "done" /\ net >= MaxHeight
    <3>1. CASE \E u \in Tx : GrowOld(u)
      BY <1>0, <3>1 DEF GrowOld, RowTruthful
    <3>2. CASE \A u \in Tx : ~GrowOld(u)
      <4>1. age' = age
        BY <3>2 DEF Next, FlowStep, RefreshStep, InitSpend, CreateTransaction,
           EncodeFails, UpdateEncoding, CleanupCancelled, MarkCancelled, Submit,
           SubmitTransaction, RecordReply, Abandon, CancelSpend, StartRefresh,
           MarkForDeletion, DeleteExpired, ApplyMinedHeight, Clean, ThrowNoId, Abort,
           ScanBlock, MineBlock, Rewind, Crash, RestartAfterError, ProcessDies, vars,
           pendingVars
      <4> QED BY <1>0, <4>1 DEF RowTruthful
    <3> QED BY <3>1, <3>2
  <2> QED BY <1>0, <1>n, <2>1, FlowOnward
<1>6. reply'[t] # "marked"
  BY <1>0, FlowOnward DEF RowTruthful
<1> QED BY <1>1, <1>2, <1>3, <1>4, <1>5, <1>6 DEF RowTruthful

LEMMA RetiredStep ==
  ASSUME Inv, RowInv, [Next]_vars, NEW t \in Tx
  PROVE  RetiredIsRemoved(t)'
<1> SUFFICES ASSUME Retired(t)'
             PROVE  pc'[t] \notin Early /\ Removed(t)'
  BY DEF RetiredIsRemoved
<1>0. /\ RetiredIsRemoved(t) /\ SnapshotJust(t) /\ t # None
      /\ \A u \in refresh.todo[3] : Failed(u)
  BY DEF Inv, RowInv, SnapshotHolds, TypeOK, JobTypeOK
<1>1. CASE Retired(t)
  BY <1>0, <1>1, SettledForGood, FlowOnward DEF RetiredIsRemoved
<1>2. CASE pc[t] \notin Early /\ row'[t] = "none"
  BY <1>2, FlowOnward DEF Removed
<1>3. pc'[t] = "mark" => Retired(t) \/ (pc[t] \notin Early /\ row'[t] = "none")
  BY FlowOnward DEF Retired, Early
<1>4. refresh'.marking = t => Retired(t) \/ (pc[t] \notin Early /\ row'[t] = "none")
  <2>1. CASE StartRefresh
    BY <1>0, <2>1 DEF StartRefresh, Idle
  <2>2. CASE ~StartRefresh
    <3>1. t \in refresh.todo[2] \cup refresh.todo[3] => pc[t] \notin Early
      BY <1>0 DEF SnapshotJust, Failed, Early
    <3> QED BY <2>2, <3>1, RefreshOnward DEF Retired
  <2> QED BY <2>1, <2>2
<1>5. ~Gone(t)' /\ pending'[t].error = "marked" => Retired(t)
  BY RowWritten DEF NewRow
<1> QED BY <1>1, <1>2, <1>3, <1>4, <1>5 DEF Retired

(* What a refresh that starts now chooses to delete.                          *)
LEMMA ChosenIsJust ==
  ASSUME Inv, RowInv, NEW t \in Tx, ~Gone(t), Deletable(t, pending[t], tip)
  PROVE  /\ pc[t] \notin Early
         /\ pending[t].raw = "empty" \/ Settled(t)
<1>0. /\ RowTruthful(t) /\ RetiredIsRemoved(t) /\ FlowMatches(t)
      /\ net \in Nat /\ tip \in Nat /\ tip <= net /\ built[t].expiry \in Nat
      /\ pending[t] \in Row /\ pc \in [Tx -> Pc]
  BY DEF Inv, TypeOK, NetTypeOK, DataTypeOK, PendingTypeOK, FlowTypeOK, RowInv,
         FlowMatchesRow, Gone
<1>1. ASSUME PastExpiry(t, pending[t], tip) > 0
      PROVE  pc[t] \notin Early /\ built[t].expiry < net
  <2>1. pending[t].raw # "empty"
    BY <1>1 DEF PastExpiry
  <2>2. tip - built[t].expiry > 0
    BY <1>1, <2>1 DEF PastExpiry
  <2> QED BY <1>0, <2>1, <2>2 DEF RowTruthful
<1>2. CASE PastExpiry(t, pending[t], tip) > LongExpired
  <2>1. PastExpiry(t, pending[t], tip) \in Int
    BY <1>0 DEF PastExpiry
  <2> QED BY <1>1, <1>2, <2>1 DEF Settled
<1>3. CASE IsMined(pending[t])
  BY <1>0, <1>3 DEF IsMined, RowTruthful, FlowMatches, Settled, Removed, Unsent, Early
<1>4. CASE IsFailedEncoding(pending[t])
  BY <1>0, <1>4 DEF IsFailedEncoding, RowTruthful
<1>5. CASE IsMarkedForDeletion(pending[t])
  BY <1>0, <1>5 DEF IsMarkedForDeletion, Retired, RetiredIsRemoved, Settled
<1>6. CASE age[t] = "ancient"
  <2>1. pc[t] = "done" /\ net >= MaxHeight /\ built[t].expiry <= MaxExpiry
    BY <1>0, <1>6 DEF RowTruthful
  <2>2. built[t].expiry < net
    BY <1>0, <2>1
  <2> QED BY <2>1, <2>2 DEF Settled, Early
<1> QED BY <1>2, <1>3, <1>4, <1>5, <1>6 DEF Deletable, IsSafeToDiscard

LEMMA JustStep ==
  ASSUME Inv, RowInv, [Next]_vars, NEW t \in Tx
  PROVE  SnapshotJust(t)'
<1>0. /\ SnapshotJust(t) /\ RowTruthful(t) /\ RetiredIsRemoved(t)
  BY DEF RowInv
<1>1. CASE StartRefresh
  <2> DEFINE chosen(p) == {u \in {v \in Tx : pending[v] # None} :
                             Selects(Pass[p], u, pending[u])}
  <2>1. refresh'.todo = [p \in 1 .. 4 |-> chosen(p)]
    BY <1>1 DEF StartRefresh, Idle
  <2>2. refresh'.todo[2] = chosen(2) /\ refresh'.todo[4] = chosen(4)
    BY <2>1
  <2>3. Pass[2] = "cancelled" /\ Pass[4] = "delete"
    BY DEF Pass
  <2>4. \A r : /\ Selects(Pass[2], t, r) => CancelledWithId(r)
               /\ Selects(Pass[4], t, r) => Deletable(t, r, tip)
    BY <2>3 DEF Selects
  <2>5. t \in refresh'.todo[2] => ~Gone(t) /\ CancelledWithId(pending[t])
    BY <2>2, <2>4 DEF Gone
  <2>6. t \in refresh'.todo[4] => ~Gone(t) /\ Deletable(t, pending[t], tip)
    BY <2>2, <2>4 DEF Gone
  <2>7. UNCHANGED <<netVars, dataVars, pendingVars, flowVars>>
    BY <1>1 DEF StartRefresh
  <2>8. t \in refresh'.todo[2] => pc[t] \notin Early
    BY <1>0, <2>5 DEF CancelledWithId, RowTruthful
  <2>9. t \in refresh'.todo[4] =>
          pc[t] \notin Early /\ (pending[t].raw = "empty" \/ Settled(t))
    BY <2>6, ChosenIsJust
  <2> QED BY <2>7, <2>8, <2>9
          DEF SnapshotJust, Settled, Removed, netVars, dataVars, pendingVars, flowVars
<1>2. CASE ~StartRefresh
  <2>1. t \in refresh'.todo[2] => pc'[t] \notin Early
    BY <1>0, <1>2, RefreshOnward, FlowOnward DEF SnapshotJust
  <2>2. ASSUME t \in refresh'.todo[4]
        PROVE  /\ pc'[t] \notin Early
               /\ Gone(t)' \/ pending'[t].raw = "empty" \/ Settled(t)'
    <3>1. /\ pc[t] \notin Early
          /\ Gone(t) \/ pending[t].raw = "empty" \/ Settled(t)
      BY <1>0, <1>2, <2>2, RefreshOnward DEF SnapshotJust
    <3>2. pc'[t] \notin Early
      BY <3>1, FlowOnward
    <3>3. CASE Settled(t)
      BY <3>1, <3>2, <3>3, SettledForGood
    <3>4. CASE Gone(t)
      BY <3>1, <3>2, <3>4, RowWritten DEF Early
    <3>5. CASE ~Gone(t) /\ pending[t].raw = "empty"
      <4>1. Gone(t)' \/ pending'[t].raw = "empty" \/ Retired(t)
        BY <3>1, <3>5, RowWritten DEF Early
      <4>2. Retired(t) => Settled(t)
        BY <1>0 DEF RetiredIsRemoved, Settled
      <4> QED BY <3>1, <3>2, <4>1, <4>2, SettledForGood
    <3> QED BY <3>1, <3>3, <3>4, <3>5
  <2> QED BY <2>1, <2>2 DEF SnapshotJust
<1> QED BY <1>1, <1>2

LEMMA InitRowInv == Init => RowInv
<1> SUFFICES ASSUME Init, NEW t \in Tx
             PROVE  RowTruthful(t) /\ RetiredIsRemoved(t) /\ SnapshotJust(t)
  BY DEF RowInv
<1>1. RowTruthful(t)
  BY DEF Init, RowTruthful, Gone
<1>2. RetiredIsRemoved(t)
  BY DEF Init, RetiredIsRemoved, Retired, Gone, Idle
<1>3. SnapshotJust(t)
  BY DEF Init, SnapshotJust, Idle, NothingToDo
<1> QED BY <1>1, <1>2, <1>3

LEMMA StepRowInv == Inv /\ RowInv /\ [Next]_vars => RowInv'
  BY RowTruthfulStep, RetiredStep, JustStep DEF RowInv

(* Only abort deletes a row, and only one that is settled, or was never       *)
(* encoded.                                                                   *)
LEMMA DeletedIsSettled ==
  ASSUME Inv, RowInv, [Next]_vars, NEW t \in Tx, ~Gone(t), Gone(t)',
         pending[t].raw # "empty"
  PROVE  Settled(t)
<1>0. /\ t # None /\ SnapshotJust(t)
      /\ pending \in [Tx -> Row \cup {None}] /\ reply \in [Tx -> Error]
      /\ block \in [Tx -> Nat \cup {None}] /\ minedAt \in [Tx -> Nat \cup {None}]
      /\ refresh.marking \in Tx \cup {None}
  BY DEF Inv, TypeOK, NetTypeOK, DataTypeOK, PendingTypeOK, FlowTypeOK, JobTypeOK, RowInv
<1>1. CASE Abort(t)
  BY <1>0, <1>1 DEF Abort, Handles, SnapshotJust
<1>2. CASE InitSpend(t) \/ CancelSpend(t)
  <2>1. InitSpend(t) => pending'[t] = NewRow /\ NewRow \in Row
    BY <1>0 DEF InitSpend, NewRow, Row, Error
  <2>2. CancelSpend(t) =>
          /\ pending'[t] = [pending[t] EXCEPT !.cancelled = TRUE]
          /\ [pending[t] EXCEPT !.cancelled = TRUE] \in Row
    BY <1>0, RowType DEF CancelSpend, Error
  <2> QED BY <1>2, <2>1, <2>2, RowAssumption DEF Gone
<1>3. ASSUME NEW p, Update(t, p)
      PROVE  p \notin Row
  BY <1>0, <1>3, RowAssumption DEF Update, Gone
<1>4. ASSUME \/ EncodeFails(t) \/ UpdateEncoding(t) \/ MarkCancelled(t)
             \/ RecordReply(t) \/ (MarkForDeletion /\ refresh.marking = t)
      PROVE  FALSE
  <2>1. pending[t] \in Row /\ reply[t] \in Error
    BY <1>0 DEF Gone
  <2>2. /\ [pending[t] EXCEPT !.error = "encoding", !.encoded = TRUE] \in Row
        /\ [pending[t] EXCEPT !.error = reply[t], !.submitted = TRUE] \in Row
        /\ [pending[t] EXCEPT !.raw = "linked", !.encoded = TRUE] \in Row
        /\ Marked(t) \in Row
    BY <2>1, RowType DEF Marked, Error
  <2> QED BY <1>3, <1>4, <2>2
          DEF EncodeFails, UpdateEncoding, MarkCancelled, RecordReply, MarkForDeletion
<1>5. ASSUME ApplyMinedHeight(t)
      PROVE  FALSE
  <2>1. PICK h \in MinedHeights(t) :
          IF h = None THEN UNCHANGED pending
                      ELSE Update(t, [pending[t] EXCEPT !.mined = h])
    BY <1>5 DEF ApplyMinedHeight
  <2>2. h = None \/ h \in Nat
    BY <1>0, <2>1 DEF MinedHeights
  <2>3. CASE h = None
    BY <2>1, <2>3 DEF Gone
  <2>4. CASE h \in Nat
    <3>1. [pending[t] EXCEPT !.mined = h] \in Row
      BY <1>0, <2>4, RowType DEF Gone, Error
    <3> QED BY <1>3, <2>1, <2>4, <3>1
  <2> QED BY <2>2, <2>3, <2>4
<1>6. ASSUME NEW u \in Tx, u # t,
             \/ InitSpend(u) \/ EncodeFails(u) \/ UpdateEncoding(u)
             \/ MarkCancelled(u) \/ RecordReply(u) \/ CancelSpend(u)
             \/ ApplyMinedHeight(u) \/ Abort(u)
             \/ (MarkForDeletion /\ refresh.marking = u)
      PROVE  FALSE
  BY <1>0, <1>6 DEF InitSpend, EncodeFails, UpdateEncoding, MarkCancelled, RecordReply,
     CancelSpend, ApplyMinedHeight, Abort, MarkForDeletion, Update, Gone
<1>7. MarkForDeletion => refresh.marking \in Tx
  BY <1>0 DEF MarkForDeletion
<1> QED BY <1>1, <1>2, <1>4, <1>5, <1>6, <1>7
        DEF Next, FlowStep, RefreshStep, CreateTransaction, CleanupCancelled, Submit,
            SubmitTransaction, Abandon, GrowOld, StartRefresh, DeleteExpired, Clean,
            ThrowNoId, ScanBlock, MineBlock, Rewind, Crash, RestartAfterError,
            ProcessDies, vars, pendingVars, Gone

\* A row with a transaction is deleted only when nothing is left to undo for it:
\* its transaction is gone from the data DB, mined, or expired, for every number
\* of payments that are encoded, cancelled, submitted, cleaned up and aborted at
\* the same time, however stale the refresh's snapshot, and whatever crashes.
THEOREM DeletedRowsAreSettled == Spec => DeletedRowsHoldNoLock
<1>1. Init => Inv /\ RowInv
  BY InitInv, InitRowInv
<1>2. Inv /\ RowInv /\ [Next]_vars => Inv' /\ RowInv'
  BY StepInv, StepRowInv
<1>3. Inv /\ RowInv /\ [Next]_vars =>
        [\A t \in Tx :
           /\ pending[t] # None /\ pending'[t] = None
           /\ pending[t].raw # "empty"
           => \/ row[t] = "none" \/ minedAt[t] # None
              \/ built[t].expiry < net]_vars
  BY DeletedIsSettled DEF Gone, Settled, Removed
<1> QED BY <1>1, <1>2, <1>3, PTL DEF Spec, DeletedRowsHoldNoLock
=============================================================================
