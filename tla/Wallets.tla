------------------------------ MODULE Wallets ------------------------------
(*****************************************************************************)
(* The wallets of the app: WalletManager.kt over the key store (LockBox),    *)
(* the first set-up (WalletSetupViewModel.kt), the start of the app and the  *)
(* recovery that erases a wallet's databases.                                *)
(*                                                                           *)
(* The key store is a map that is written one entry at a time, so every      *)
(* operation is a queue of single writes and the process may die between two *)
(* of them.  The keys of a wallet are named by the wallet they derive from;  *)
(* the viewing key and the public key beside it are one entry, and labels,   *)
(* birthdays and the seed phrase are left out.  After each operation the app *)
(* restarts (restartApp).                                                    *)
(*****************************************************************************)
EXTENDS Naturals, Sequences

CONSTANTS
  Seeds,        \* wallets that come from a seed phrase
  PrivateKeys,  \* wallets that come from an imported spending key
  None,         \* no entry
  MaxSlots,     \* bound: wallets registered
  MaxErasures,  \* bound: recoveries that erase a wallet's databases
  CanDie        \* the process may die between two writes

ASSUME WalletsAssumption ==
  /\ MaxSlots \in Nat \ {0}
  /\ None \notin Seeds \cup PrivateKeys
  /\ \A i \in 0 .. MaxSlots - 1 : None # <<"wallet", i>>
  /\ None # <<"default">>

VARIABLES       \* the key store
  live,         \* the Const.Backup entries every reader of keys uses
  slot,         \* the entries of each slot
  hasSeed, hasBackup,
  count,        \* WALLET_COUNT
  active        \* WALLET_ACTIVE

VARIABLES       \* the databases
  dbOf,         \* the wallet whose viewing key an alias's accounts table holds
  pending       \* the wallets with a row in the pending database all share

VARIABLES       \* the process
  app,          \* "starting", "setup", "busy", "open" or "crashes"
  todo,         \* the writes the operation under way has left
  erasures,
  torn          \* a process died with writes left: history

keyStore == <<live, slot, hasSeed, hasBackup, count, active>>
vars == <<live, slot, hasSeed, hasBackup, count, active, dbOf, pending, app, todo, erasures, torn>>

Wallets == Seeds \cup PrivateKeys
Slots == 0 .. MaxSlots - 1
KeyEntries == {"seed", "spending_key", "vk"}
DefaultAlias == <<"default">>
AliasOf(i) == <<"wallet", i>>
Aliases == {DefaultAlias} \cup {AliasOf(i) : i \in Slots}

NoKeys == [e \in KeyEntries |-> None]
EmptySlot == [e \in KeyEntries \cup {"alias"} |-> None]

\* activeAlias: a slot without an alias has the default one.
SlotAlias(i) == IF slot[i]["alias"] = None THEN DefaultAlias ELSE slot[i]["alias"]
ActiveAlias == SlotAlias(active)

\* activeSpendingKey: the seed first, the imported key only without one.
ActiveSpendingKey ==
  IF live["seed"] # None THEN live["seed"] ELSE live["spending_key"]

-----------------------------------------------------------------------------
(* Writes to the key store. *)

Live(e, value) == [in |-> "live", entry |-> e, value |-> value]
InSlot(i, e, value) == [in |-> "slot", at |-> i, entry |-> e, value |-> value]
Pref(name, value) == [in |-> "pref", entry |-> name, value |-> value]

Store(w) ==
  /\ live' = IF w.in = "live" THEN [live EXCEPT ![w.entry] = w.value] ELSE live
  /\ slot' = IF w.in = "slot" THEN [slot EXCEPT ![w.at][w.entry] = w.value] ELSE slot
  /\ hasSeed' = IF w.in = "pref" /\ w.entry = "HAS_SEED" THEN w.value ELSE hasSeed
  /\ hasBackup' = IF w.in = "pref" /\ w.entry = "HAS_BACKUP" THEN w.value ELSE hasBackup
  /\ count' = IF w.in = "pref" /\ w.entry = "WALLET_COUNT" THEN w.value ELSE count
  /\ active' = IF w.in = "pref" /\ w.entry = "WALLET_ACTIVE" THEN w.value ELSE active

\* What is written of an entry that may be missing.
IfPresent(value, write) == IF value = None THEN << >> ELSE <<write>>

\* saveActiveInto: the live keys mirrored into a slot.
SaveActiveInto(i) ==
  IfPresent(live["seed"], InSlot(i, "seed", live["seed"]))
    \o IfPresent(live["spending_key"], InSlot(i, "spending_key", live["spending_key"]))
    \o IfPresent(live["vk"], InSlot(i, "vk", live["vk"]))
    \o <<InSlot(i, "alias", DefaultAlias)>>

\* migrateIfNeeded: the wallet of an install without slots becomes slot 0.
MigrateIfNeeded ==
  IF count > 0 \/ (~hasSeed /\ live["spending_key"] = None /\ live["vk"] = None)
  THEN << >>
  ELSE SaveActiveInto(0) \o <<Pref("WALLET_COUNT", 1), Pref("WALLET_ACTIVE", 0)>>

\* The number of wallets once migrateIfNeeded has run.
CountMigrated == IF MigrateIfNeeded = << >> THEN count ELSE 1

\* A plausible slip: only what the slot holds is overwritten.
MutantLoadIntoActive(i, keys) ==
  IfPresent(keys["seed"], Live("seed", keys["seed"]))
    \o IfPresent(keys["spending_key"], Live("spending_key", keys["spending_key"]))
    \o IfPresent(keys["vk"], Live("vk", keys["vk"]))
    \o <<Pref("HAS_SEED", keys["seed"] # None), Pref("HAS_BACKUP", TRUE)>>

\* loadIntoActive: clear every live key, then copy what the slot holds.
LoadIntoActive(i, keys) ==
  <<Live("seed", None), Live("spending_key", None), Live("vk", None)>>
    \o IfPresent(keys["seed"], Live("seed", keys["seed"]))
    \o IfPresent(keys["spending_key"], Live("spending_key", keys["spending_key"]))
    \o IfPresent(keys["vk"], Live("vk", keys["vk"]))
    \o <<Pref("HAS_SEED", keys["seed"] # None), Pref("HAS_BACKUP", TRUE)>>

\* switchTo, whose resetSynchronizer the restart repeats.
SwitchWrites(i, keys) == LoadIntoActive(i, keys) \o <<Pref("WALLET_ACTIVE", i)>>

\* The entries a new slot gets, over what an interrupted attempt left in it.
Registered(i, keys) ==
  [e \in KeyEntries |-> IF keys[e] = None THEN slot[i][e] ELSE keys[e]]

\* A plausible slip: the slot is counted before it is filled.
MutantAddWallet(i, keys) == <<Pref("WALLET_COUNT", i + 1)>> \o
  IfPresent(keys["seed"], InSlot(i, "seed", keys["seed"]))
    \o IfPresent(keys["spending_key"], InSlot(i, "spending_key", keys["spending_key"]))
    \o <<InSlot(i, "vk", keys["vk"]), InSlot(i, "alias", AliasOf(i))>>
    \o SwitchWrites(i, Registered(i, keys))

AddWallet(i, keys) ==
  IfPresent(keys["seed"], InSlot(i, "seed", keys["seed"]))
    \o IfPresent(keys["spending_key"], InSlot(i, "spending_key", keys["spending_key"]))
    \o <<InSlot(i, "vk", keys["vk"]), InSlot(i, "alias", AliasOf(i)),
         Pref("WALLET_COUNT", i + 1)>>
    \o SwitchWrites(i, Registered(i, keys))

SeedKeys(w) == [seed |-> w, spending_key |-> None, vk |-> w]
PrivateKeyKeys(w) == [seed |-> None, spending_key |-> w, vk |-> w]

-----------------------------------------------------------------------------
Init ==
  /\ live = NoKeys
  /\ slot = [i \in Slots |-> EmptySlot]
  /\ hasSeed = FALSE /\ hasBackup = FALSE
  /\ count = 0 /\ active = 0
  /\ dbOf = [a \in Aliases |-> None]
  /\ pending = {}
  /\ app = "starting" /\ todo = << >>
  /\ erasures = 0 /\ torn = FALSE

Perform(writes) ==
  /\ app' = "busy" /\ todo' = writes
  /\ UNCHANGED <<keyStore, dbOf, pending, erasures, torn>>

\* HomeFragment and openStoredWallet: without a flag the set-up is shown;
\* a missing viewing key is derived from the seed, or the start throws.
Start ==
  /\ app = "starting"
  /\ LET vk == IF live["vk"] # None THEN live["vk"] ELSE live["seed"] IN
     \/ /\ ~hasBackup /\ ~hasSeed
        /\ app' = "setup"
        /\ UNCHANGED <<live, dbOf>>
     \/ /\ hasBackup \/ hasSeed
        /\ vk = None
        /\ app' = "crashes"
        /\ UNCHANGED <<live, dbOf>>
     \/ /\ hasBackup \/ hasSeed
        /\ vk # None
        /\ app' = "open"
        /\ live' = [live EXCEPT !["vk"] = vk]
        \* the accounts table is only filled while it is empty
        /\ dbOf' = IF dbOf[ActiveAlias] = None THEN [dbOf EXCEPT ![ActiveAlias] = vk] ELSE dbOf
  /\ UNCHANGED <<slot, hasSeed, hasBackup, count, active, pending, todo, erasures, torn>>

\* newWallet and importWallet, which refuse to replace a seed.
StoreWallet(w) ==
  /\ app = "setup" /\ ~hasSeed
  /\ Perform(<<Live("seed", w), Pref("HAS_SEED", TRUE), Live("vk", w)>>)

\* importWalletFromSpendingKey.
ImportSpendingKey(w) ==
  /\ app = "setup"
  /\ Perform(<<Live("spending_key", w), Live("vk", w),
               Pref("HAS_SEED", FALSE), Pref("HAS_BACKUP", TRUE)>>)

\* createWallet and restoreFromSeed.
AddFromSeed(w) ==
  /\ app = "open" /\ CountMigrated < MaxSlots
  /\ Perform(MigrateIfNeeded \o AddWallet(CountMigrated, SeedKeys(w)))

RestoreFromSpendingKey(w) ==
  /\ app = "open" /\ CountMigrated < MaxSlots
  /\ Perform(MigrateIfNeeded \o AddWallet(CountMigrated, PrivateKeyKeys(w)))

\* The list of wallets migrates, and offers the ones that are not active.
OpenWalletList ==
  /\ app = "open" /\ MigrateIfNeeded # << >>
  /\ Perform(MigrateIfNeeded)

SwitchTo(i) ==
  /\ app = "open" /\ i < count
  /\ i # active
  /\ Perform(SwitchWrites(i, slot[i]))

Write ==
  /\ app = "busy" /\ todo # << >>
  /\ Store(Head(todo)) /\ todo' = Tail(todo)
  /\ UNCHANGED <<dbOf, pending, app, erasures, torn>>

RestartApp ==
  /\ app = "busy" /\ todo = << >>
  /\ app' = "starting"
  /\ UNCHANGED <<keyStore, dbOf, pending, todo, erasures, torn>>

\* The process is killed.
Die ==
  /\ CanDie /\ app = "busy" /\ todo # << >>
  /\ app' = "starting" /\ todo' = << >> /\ torn' = TRUE
  /\ UNCHANGED <<keyStore, dbOf, pending, erasures>>

\* A payment leaves a row in the pending database until it is mined.
Send ==
  /\ app = "open" /\ ActiveSpendingKey # None
  /\ pending' = pending \cup {dbOf[ActiveAlias]}
  /\ UNCHANGED <<keyStore, dbOf, app, todo, erasures, torn>>

\* Initializer.erase for the active alias, then a restart.
Erase ==
  /\ app = "open" /\ erasures < MaxErasures
  /\ dbOf' = [dbOf EXCEPT ![ActiveAlias] = None]
  /\ pending' = {}
  /\ erasures' = erasures + 1
  /\ app' = "starting"
  /\ UNCHANGED <<keyStore, todo, torn>>

Next ==
  \/ Start \/ Write \/ RestartApp \/ Die
  \/ \E w \in Seeds : StoreWallet(w) \/ AddFromSeed(w)
  \/ \E w \in PrivateKeys : ImportSpendingKey(w) \/ RestoreFromSpendingKey(w)
  \/ OpenWalletList
  \/ \E i \in Slots : SwitchTo(i)
  \/ Send \/ Erase

Spec == Init /\ [][Next]_vars

-----------------------------------------------------------------------------
(* Properties. *)

\* As long as no process died between two writes, an open wallet signs with the
\* keys of the wallet whose notes its database holds: through migrations,
\* switches between seed and key wallets, and erased databases.
SignsForItsDatabaseUnlessTorn ==
  app = "open" /\ ~torn => ActiveSpendingKey = dbOf[ActiveAlias]

\* Even then an open wallet that can sign signs with its own keys
\* (WalletManager.kt:89-93: otherwise it "would then sign with the WRONG key").
NeverSignsForAnother ==
  app = "open" /\ ActiveSpendingKey # None => ActiveSpendingKey = dbOf[ActiveAlias]

\* Every registered wallet can be switched to: it has a viewing key, something
\* to sign with and a database of its own, wherever an attempt to register one
\* was cut short (WalletManager.kt:18).
RegisteredWalletsAreWhole ==
  \A i \in 0 .. count - 1 :
    /\ slot[i]["vk"] # None
    /\ slot[i]["seed"] # None \/ slot[i]["spending_key"] # None
    /\ \A j \in 0 .. count - 1 : i # j => SlotAlias(i) # SlotAlias(j)

=============================================================================
