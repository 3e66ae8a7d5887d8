---------------------------- MODULE SyncRecovery ----------------------------
(***************************************************************************)
(* The app around the block processor: MainActivity's error listener, which*)
(* answers a failed scan with a rewind and, when that did not help, wipes  *)
(* the block databases and restarts.  The listener runs in the loop; what  *)
(* it launches runs beside it.  Its throttles are shared preferences, which*)
(* outlive the process.                                                    *)
(***************************************************************************)
EXTENDS CompactBlockProcessor

CONSTANTS
  AutoRewindDepth,   \* autoFkRewind goes this far below the network's tip
  MaxWipes           \* recoveries allowed in one window

ASSUME RecoveryAssumption == AutoRewindDepth \in Nat /\ MaxWipes \in Nat

VARIABLES
  launched,       \* recoveries under way: fkRewindInProgress, recoveryInProgress
  recentRewind,   \* last_fk_rewind_ms is less than two minutes ago
  recentWipe,     \* last_auto_recovery_ms is less than two minutes ago
  wipes           \* recovery_count in the window of half an hour

recoveryVars == <<launched, recentRewind, recentWipe, wipes>>
allVars == <<vars, recoveryVars>>

----------------------------------------------------------------------------
\* `running` are the recoveries that go on beside this call.
ClearBlockDataAndRestart(running) ==
  IF "wipe" \in running \/ recentWipe \/ wipes >= MaxWipes
  THEN launched' = running /\ UNCHANGED <<recentWipe, wipes>>
  ELSE /\ launched' = running \cup {"wipe"}
       /\ recentWipe' = TRUE
       /\ wipes' = wipes + 1

\* Mutant: a rewind that did not help is never escalated.
MutantAutoFkRewind ==
  IF "rewind" \in launched \/ recentRewind THEN UNCHANGED recoveryVars
  ELSE /\ launched' = launched \cup {"rewind"}
       /\ recentRewind' = TRUE
       /\ UNCHANGED <<recentWipe, wipes>>

AutoFkRewind ==
  IF "rewind" \in launched THEN UNCHANGED recoveryVars
  ELSE IF recentRewind
  THEN ClearBlockDataAndRestart(launched) /\ UNCHANGED recentRewind
  ELSE /\ launched' = launched \cup {"rewind"}
       /\ recentRewind' = TRUE
       /\ UNCHANGED <<recentWipe, wipes>>

\* Connection errors are left to the loop's own retries.
HandleError ==
  /\ OnProcessorError
  /\ IF pc = "failedScan" THEN AutoFkRewind ELSE UNCHANGED recoveryVars

\* The launched rewind waits for the mutex; without a network height it ends.
AutoRewind ==
  /\ "rewind" \in launched
  /\ launched' = launched \ {"rewind"}
  /\ IF info.net = None THEN UNCHANGED vars
     ELSE Rewind(Higher(info.net - AutoRewindDepth, 1), "clear")
            /\ UNCHANGED rewinds
  /\ UNCHANGED <<recentRewind, recentWipe, wipes>>

\* The launched rewind threw, which ends it (finally).
AutoRewindFails ==
  /\ "rewind" \in launched /\ pc = "idle"
  /\ Fault
  /\ ClearBlockDataAndRestart(launched \ {"rewind"})
  /\ UNCHANGED <<serverVars, dbVars, memVars, tried, missed, gaps, misread, rewinds,
                 recentRewind>>

\* Initializer.erase deletes the cache DB, then the data DB, and the process
\* restarts; it may be killed in between.
EraseAndRestart ==
  /\ "wipe" \in launched
  /\ Restart
  /\ launched' = {}
  /\ cache' = NoBlocks
  /\ \/ scanned' = << >> /\ raw' = {} /\ UNCHANGED faults
     \/ Fault /\ UNCHANGED <<scanned, raw>>
  /\ gaps' = {}
  /\ UNCHANGED <<serverVars, rewinds, recentRewind, recentWipe, wipes>>

\* Two minutes pass since the rewind, or since the wipe.  A cycle and the delay
\* before it (retryWithBackoff) may take less than that or more.
RewindCoolDownEnds ==
  /\ recentRewind
  /\ recentRewind' = FALSE
  /\ UNCHANGED <<vars, launched, recentWipe, wipes>>

WipeCoolDownEnds ==
  /\ recentWipe
  /\ recentWipe' = FALSE
  /\ UNCHANGED <<vars, launched, recentRewind, wipes>>

WindowEnds ==
  /\ wipes > 0
  /\ wipes' = 0
  /\ UNCHANGED <<vars, launched, recentRewind, recentWipe>>

----------------------------------------------------------------------------
RecoveryInit ==
  /\ Init
  /\ launched = {} /\ recentRewind = FALSE /\ recentWipe = FALSE /\ wipes = 0

CycleStep == Cycle /\ UNCHANGED recoveryVars

EnvironmentStep == Environment /\ UNCHANGED recoveryVars

CrashStep ==
  /\ Crash
  /\ launched' = {}
  /\ UNCHANGED <<recentRewind, recentWipe, wipes>>

Recovery == HandleError \/ AutoRewind \/ EraseAndRestart

RecoveryNext ==
  \/ CycleStep \/ Recovery \/ AutoRewindFails
  \/ RewindCoolDownEnds \/ WipeCoolDownEnds \/ WindowEnds
  \/ EnvironmentStep \/ CrashStep

\* The loop polls for ever, launched coroutines run, and time passes.
Fairness ==
  /\ WF_allVars(CycleStep)
  /\ WF_allVars(HandleError)
  /\ SF_allVars(AutoRewind)
  /\ WF_allVars(EraseAndRestart)
  /\ WF_allVars(RewindCoolDownEnds)
  /\ WF_allVars(WipeCoolDownEnds)
  /\ WF_allVars(WindowEnds)

RecoverySpec == RecoveryInit /\ [][RecoveryNext]_allVars /\ Fairness

----------------------------------------------------------------------------

\* The listener hears of a failed scan within two minutes of a rewind that ended.
FailsAgainSoon ==
  HandleError /\ pc = "failedScan" /\ recentRewind /\ "rewind" \notin launched

\* Whatever happened before, when the server, the user and the faults come to
\* rest the wallet scans up to the tip: no order of failed downloads, torn or
\* cache-keeping rewinds and throttled recoveries wedges it for good.  What the
\* code relies on is stated: of scans that fail for ever, infinitely many fail
\* soon.  The backoff takes 178 s and 600 s in its turn but starts over at half
\* its count, so delays of seconds recur; but when each cycle takes two minutes,
\* the throttle has always ended, and the app rewinds for ever and never wipes.
CatchesUp ==
  ([]<>(pc = "failedScan") => []<><<FailsAgainSoon>>_allVars)
    => <>[](Tip >= Len(chain))
=============================================================================
