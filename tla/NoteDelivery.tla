----------------------------- MODULE NoteDelivery -----------------------------
(***************************************************************************)
(* Notes on their way from a sender to a wallet, across the activation of  *)
(* Canopy and the end of its grace period: the builder of                  *)
(* TransactionBuilder.tla encrypts a note at its target height, the chain  *)
(* mines it before it expires, the server hands its compact form to the    *)
(* scanner (welding_rig.rs) and its full form to decrypt_transaction.      *)
(* Foreign senders craft notes the builder would not, and the server may   *)
(* exchange the fields of compact outputs.                                 *)
(***************************************************************************)
EXTENDS SaplingNotes, FiniteSets

CONSTANTS
  Accounts,     \* the wallet's accounts
  Payers,       \* those of them that pay
  Outsider,     \* a key the wallet does not hold
  Diversifiers,
  Memos,
  Canopies,     \* 0 for the main network of this wallet, a height for the test network
  ExpiryDelta,  \* DEFAULT_TX_EXPIRY_DELTA
  MaxHeight, MaxOutputs    \* bounds

\* A payment that was built before Canopy expires within the grace period, and
\* diversifiers hash to points of prime order.
ASSUME DeliveryAssumption ==
  /\ Payers \subseteq Accounts /\ Outsider \notin Accounts
  /\ Canopies \subseteq Nat
  /\ MaxMoney \in Nat \ {0}
  /\ {ExpiryDelta, GracePeriod} \subseteq Nat /\ ExpiryDelta <= GracePeriod
  /\ "small" \notin Diversifiers

VARIABLES
  height,     \* the tip
  mempool,    \* outputs sent, with what their sender meant
  chain,      \* the mined ones, in the order of their positions
  scanned,    \* how many of them the wallet has scanned
  notes,      \* the notes its scans found
  details,    \* what decrypt_transaction returned
  fetched,    \* the positions it was given
  altered     \* the positions whose compact output the server altered

vars == <<canopy, height, mempool, chain, scanned, notes, details, fetched, altered>>

Key(a) == ToFvk(MasterKey(<<"seed", a>>)).key
AccountKeys == [a \in Accounts |-> Key(a)]
Owners == Accounts \cup {Outsider}
AddressOf(a, d) == ToPaymentAddress(Ivk(Key(a)), d)[1]

OutputsSent == Cardinality(mempool) + Len(chain)

Init ==
  /\ canopy \in Canopies
  /\ height = 1 /\ mempool = {} /\ chain = << >> /\ scanned = 0
  /\ notes = {} /\ details = {} /\ fetched = {} /\ altered = {}

\* The builder: the rseed follows the target height, esk the rseed.
Pay(from, to, d, ovk, memo) ==
  LET target == height + 1
      random == <<"r", OutputsSent>>
      note == CreateNote(AddressOf(to, d), 1, NewRseed(target, random))[1]
      esk == GenerateOrDeriveEsk(note, random) IN
  /\ OutputsSent < MaxOutputs
  /\ mempool' = mempool \cup
       {[output |-> EncryptNote(ovk, note, AddressOf(to, d), memo, esk,
                                ValueCommitment(1, OutputsSent), random),
         note |-> note, to |-> to, memo |-> memo, honest |-> TRUE,
         from |-> IF ovk = None THEN Outsider ELSE from,
         expiry |-> target + ExpiryDelta]}
  /\ UNCHANGED <<canopy, height, chain, scanned, notes, details, fetched, altered>>

\* A foreign sender: any rseed, the rseed of an earlier note included, any
\* value, an esk the note does not derive.
Craft(to, d, value, rseed, esk) ==
  LET note == CreateNote(AddressOf(to, d), value, rseed)[1] IN
  /\ OutputsSent < MaxOutputs
  /\ mempool' = mempool \cup
       {[output |-> EncryptNote(None, note, AddressOf(to, d), CHOOSE m \in Memos : TRUE,
                                esk, ValueCommitment(value, OutputsSent), <<"r", OutputsSent>>),
         note |-> note, to |-> to, memo |-> CHOOSE m \in Memos : TRUE,
         honest |-> FALSE, from |-> Outsider, expiry |-> MaxHeight]}
  /\ UNCHANGED <<canopy, height, chain, scanned, notes, details, fetched, altered>>

MineEmpty ==
  /\ height < MaxHeight
  /\ height' = height + 1
  /\ UNCHANGED <<canopy, mempool, chain, scanned, notes, details, fetched, altered>>

Mine(tx) ==
  /\ height < MaxHeight
  /\ height + 1 <= tx.expiry
  /\ height' = height + 1
  /\ mempool' = mempool \ {tx}
  /\ chain' = Append(chain, [tx |-> tx, at |-> height + 1])
  /\ UNCHANGED <<canopy, scanned, notes, details, fetched, altered>>

\* The compact outputs the server may serve for a position: the true one, or
\* one with a field of another mined output.
Served(i) ==
  LET o == chain[i].tx.output IN
  {o} \cup UNION {{[o EXCEPT !.epk = p.epk], [o EXCEPT !.cmu = p.cmu],
                   [o EXCEPT !.enc = p.enc]} :
                  p \in {chain[k].tx.output : k \in 1 .. Len(chain)}}

\* What the stream cipher yields to each account.
Yields(o) ==
  {plain \in [Accounts -> Garbage \cup {o.enc.plain}] :
     \A a \in Accounts : plain[a] \in StreamPlaintexts(IvkKey(Ivk(Key(a)), o), o.enc)}

\* scan_output tries the accounts in order; a note found gets its nullifier
\* from the position its tree reached.
ScanNext(o, plain) ==
  LET at == chain[scanned + 1].at
      Try(a) == TryCompactNoteDecryption(at, Ivk(Key(a)), o, plain[a])
      hits == {a \in Accounts : Try(a) # None} IN
  /\ scanned' = scanned + 1
  /\ notes' = notes \cup
       {[position |-> scanned + 1, account |-> a, note |-> Try(a)[1].note,
         nf |-> Nullifier(Try(a)[1].note, Key(a), scanned + 1)] : a \in hits}
  /\ altered' = IF o = chain[scanned + 1].tx.output THEN altered
                ELSE altered \cup {scanned + 1}
  /\ UNCHANGED <<canopy, height, mempool, chain, details, fetched>>

\* decrypt_and_store_transaction of a mined transaction: the processor
\* enhances what it has scanned.
Decrypt(i) ==
  /\ details' = details \cup
       {[x EXCEPT !.index = i] :
          x \in DecryptTransaction(chain[i].at, <<chain[i].tx.output>>, AccountKeys)}
  /\ fetched' = fetched \cup {i}
  /\ UNCHANGED <<canopy, height, mempool, chain, scanned, notes, altered>>

Rseeds ==
  {[zip212 |-> z, r |-> <<"r", 0>>] : z \in BOOLEAN}

Next ==
  \/ \E from \in Payers, to \in Owners, d \in Diversifiers \ BadDiversifiers, m \in Memos :
       \E ovk \in {None, <<Key(from).ovk>>} : Pay(from, to, d, ovk, m)
  \/ \E to \in Payers, d \in Diversifiers \ BadDiversifiers,
        value \in {1, MaxMoney + 1}, rseed \in Rseeds,
        esk \in {Scalar(<<"r", 0>>), Scalar(PrfExpand(<<"r", 0>>, 5, << >>))} :
       Craft(to, d, value, rseed, esk)
  \/ MineEmpty
  \/ \E tx \in mempool : Mine(tx)
  \/ /\ scanned < Len(chain)
     /\ \E o \in Served(scanned + 1) :
          \E plain \in Yields(o) : ScanNext(o, plain)
  \/ \E i \in 1 .. scanned : Decrypt(i)

Spec == Init /\ [][Next]_vars
-----------------------------------------------------------------------------
\* A note the builder encrypts and the chain mines before it expires is found
\* by the scan of its recipient, whichever side of Canopy and of the grace
\* period it is mined on, unless the server altered it.
PaymentsArrive ==
  \A i \in 1 .. scanned :
    LET tx == chain[i].tx IN
    tx.honest /\ tx.to \in Accounts /\ i \notin altered =>
      \E n \in notes : n.position = i /\ n.account = tx.to /\ n.note = tx.note

\* Whatever the server exchanged and whatever a wrong key made of the stream,
\* a note the scan accepts is one its sender addressed to that account, with
\* the value the chain commits to; it holds no more than MAX_MONEY, and notes
\* at different positions never share a nullifier, so that spending one cannot
\* make another unspendable.
NotesAreSpendable ==
  /\ \A n \in notes :
       /\ \E i \in 1 .. Len(chain) :
            /\ chain[i].tx.to = n.account
            /\ Cmu(chain[i].tx.note) = Cmu(n.note)
       /\ n.note.value <= MaxMoney
  /\ \A m, n \in notes : m.nf = n.nf => m = n

\* The full transaction tells the same story as the compact block: an account
\* reads an output as received if and only if its scan found that note, and as
\* sent if and only if it paid another account with its ovk, in which case the
\* recipient, the value and the memo are those it paid.  A payment to oneself is
\* read as received only.  At positions the server altered in the compact block
\* the two need not agree on what was received.
DetailsAgree ==
  /\ \A x \in details :
       LET tx == chain[x.index].tx IN
       IF x.outgoing
       THEN /\ tx.from = x.account /\ tx.to # x.account /\ x.found.memo = tx.memo
            /\ x.found.note = tx.note
       ELSE x.index \notin altered =>
              \E n \in notes : n.position = x.index /\ n.account = x.account
                               /\ n.note = x.found.note
  /\ \A n \in notes :
       n.position \in fetched \ altered =>
         \E x \in details : x.index = n.position /\ x.account = n.account /\ ~x.outgoing
  /\ \A i \in fetched :
       chain[i].tx.from \in Accounts \ {chain[i].tx.to} =>
         \E x \in details : x.index = i /\ x.outgoing /\ x.account = chain[i].tx.from
=============================================================================
