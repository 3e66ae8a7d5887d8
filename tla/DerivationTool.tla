---------------------------- MODULE DerivationTool ----------------------------
(***************************************************************************)
(* The native methods without a database (main/rust/lib.rs): the texts of  *)
(* DerivationTool's keys and addresses, the checks of an address, the      *)
(* branch at a height; and the row init_accounts_table writes of a key.    *)
(*                                                                         *)
(* A method returns [ok, value], ~ok when it throws.                       *)
(***************************************************************************)
EXTENDS Addresses

\* FF1 under the key's dk: what diversifier an index gives.
CONSTANT Ff1

Threw == [ok |-> FALSE]
Returned(value) == [ok |-> TRUE, value |-> value]

ParseNetwork(id) ==
  CASE id = 0 -> <<TestNetwork>> [] id = 1 -> <<MainNetwork>> [] OTHER -> None
OnNetwork(id, Result(_)) ==
  IF ParseNetwork(id) = None THEN Threw ELSE Result(ParseNetwork(id)[1])

\* A text of another network or of none throws.
OfKey(decoded, Result(_)) ==
  IF ~decoded.ok \/ decoded.val = None THEN Threw ELSE Result(decoded.val[1])

AddressText(net, xfvk) == EncodePaymentAddress(net, AddressAt(xfvk.key, Ff1, ZeroIndex)[1].to)

\* Of as many accounts as asked for, at least one.
DeriveExtendedSpendingKeys(id, seed, accounts) ==
  OnNetwork(id, LAMBDA net :
    IF accounts <= 0 THEN Threw
    ELSE Returned([k \in 1 .. accounts |->
                     EncodeSpendingKey(net, SpendingKey(seed, net.coinType, k - 1)[1])]))

PublicKeyText(pk) == [form |-> "hex", data |-> <<pk>>]
DeriveUnifiedViewingKeysFromSeed(id, seed, accounts) ==
  OnNetwork(id, LAMBDA net :
    IF accounts <= 0 THEN Threw
    ELSE Returned([k \in 1 .. accounts |->
      [extfvk |-> EncodeViewingKey(net, ToFvk(SpendingKey(seed, net.coinType, k - 1)[1])),
       extpub |-> PublicKeyText(PublicKeyOf(TransparentKey(seed, net.coinType, k - 1, 0)))]]))

DeriveShieldedAddressFromSeed(id, seed, account) ==
  OnNetwork(id, LAMBDA net :
    IF account < 0 THEN Threw
    ELSE Returned(AddressText(net, ToFvk(SpendingKey(seed, net.coinType, account)[1]))))
DeriveShieldedAddressFromViewingKey(id, text) ==
  OnNetwork(id, LAMBDA net :
    OfKey(DecodeViewingKey(net, text), LAMBDA xfvk : Returned(AddressText(net, xfvk))))
DeriveExtendedFullViewingKey(id, text) ==
  OnNetwork(id, LAMBDA net :
    OfKey(DecodeSpendingKey(net, text),
          LAMBDA xsk : Returned(EncodeViewingKey(net, ToFvk(xsk)))))

DeriveTransparentSecretKeyFromSeed(id, seed, account, index) ==
  OnNetwork(id, LAMBDA net :
    IF account < 0 \/ index < 0 THEN Threw
    ELSE Returned(WifOf(TransparentKey(seed, net.coinType, account, index), TRUE)))
DeriveTransparentAddressFromSeed(id, seed, account, index) ==
  OnNetwork(id, LAMBDA net :
    IF account < 0 \/ index < 0 THEN Threw
    ELSE Returned(EncodeTransparent(net,
           TransparentAddress(TransparentKey(seed, net.coinType, account, index)))))
DeriveTransparentAddressFromPrivKey(id, wif) ==
  OnNetwork(id, LAMBDA net :
    IF SecretOfWif(wif) = None THEN Threw
    ELSE Returned(EncodeTransparent(net, TransparentAddress(SecretOfWif(wif)[1]))))
DeriveTransparentAddressFromPubKey(id, hex) ==
  OnNetwork(id, LAMBDA net :
    IF hex.form # "hex" THEN Threw
    ELSE Returned(EncodeTransparent(net, AddressOfPublicKey(hex.data[1]))))

-----------------------------------------------------------------------------
(* Checks.  A text that is no address throws. *)

KindOfAddress(id, text, kind) ==
  OnNetwork(id, LAMBDA net :
    IF DecodeRecipient(net, text) = None THEN Threw
    ELSE Returned(DecodeRecipient(net, text)[1].kind = kind))
IsValidShieldedAddress(id, text) == KindOfAddress(id, text, "shielded")
IsValidTransparentAddress(id, text) == KindOfAddress(id, text, "transparent")

BranchIdForHeight(id, height) ==
  OnNetwork(id, LAMBDA net : Returned(BranchForHeight(net, height)))

-----------------------------------------------------------------------------
(* The row of an account: its viewing key, and the two addresses of its keys. *)

AccountRow(net, xfvk, pk) ==
  [extfvk |-> EncodeViewingKey(net, xfvk), address |-> AddressText(net, xfvk),
   transparent |-> EncodeTransparent(net, AddressOfPublicKey(pk))]

\* get_address and get_extended_full_viewing_keys, of a row.
RowAddress(net, row) == DecodePaymentAddress(net, row.address)
RowViewingKey(net, row) == DecodeViewingKey(net, row.extfvk)

\* initAccountsTableWithKeys: the rows of the texts the SDK passes; one key of
\* another network ends the call.
AccountRows(id, texts) ==
  OnNetwork(id, LAMBDA net :
    LET keys == [k \in DOMAIN texts |-> DecodeViewingKey(net, texts[k].extfvk)] IN
    IF \E k \in DOMAIN keys : ~keys[k].ok \/ keys[k].val = None THEN Threw
    ELSE Returned([k \in DOMAIN texts |->
           AccountRow(net, keys[k].val[1], texts[k].extpub.data[1])]))
=============================================================================
