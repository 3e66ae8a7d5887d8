------------------------------ MODULE PaymentUri ------------------------------
(***************************************************************************)
(* ZIP 321 payment requests: TransactionRequest::to_uri and from_uri of    *)
(* zcash_client_backend/src/zip321.rs.                                     *)
(*                                                                         *)
(* A URI is a sequence of characters, where an address, a parameter name   *)
(* and a Base64 memo count as one character each.  A payment's values are  *)
(* sequences of characters too.                                            *)
(***************************************************************************)
EXTENDS Addresses

CONSTANTS
  Coin,           \* zatoshis in a coin
  CoinDigits,     \* the decimals of an amount: Coin = 10 ^ CoinDigits
  MaxCoins,       \* 21000000
  MaxParamIndex,  \* the largest index of four digits
  Encoded,        \* the characters QCHAR_ENCODE escapes, with their code
  QChars,         \* those the parser takes in a value, the escape included
  MemoText        \* what a character decodes to in Base64, for those that do

Digit == <<"0", "1", "2", "3", "4", "5", "6", "7", "8", "9">>
DigitValue(c) == (CHOOSE i \in 1 .. 10 : Digit[i] = c) - 1
DigitChars == {Digit[i] : i \in 1 .. 10}

\* The digits of n, at least `least` of them.
Digits(n, least) ==
  LET digits[m \in 0 .. n, l \in 0 .. least] ==
        IF m = 0 /\ l = 0 THEN << >>
        ELSE Append(digits[m \div 10, IF l = 0 THEN 0 ELSE l - 1], Digit[(m % 10) + 1])
  IN digits[n, least]
Number(s) ==
  LET n[i \in 0 .. Len(s)] == IF i = 0 THEN 0 ELSE 10 * n[i - 1] + DigitValue(s[i])
  IN n[Len(s)]

Flatten(ss) ==
  LET all[i \in 0 .. Len(ss)] == IF i = 0 THEN << >> ELSE all[i - 1] \o ss[i]
  IN all[Len(ss)]

-----------------------------------------------------------------------------
(* render                                                                  *)

PctEncode(s) ==
  Flatten([i \in 1 .. Len(s) |->
             IF s[i] \in DOMAIN Encoded THEN <<"%", Encoded[s[i]]>> ELSE <<s[i]>>])

TrimZeros(s) ==
  LET kept == {i \in 1 .. Len(s) : s[i] # "0"} IN
  SubSeq(s, 1, IF kept = {} THEN 0 ELSE CHOOSE i \in kept : \A j \in kept : j <= i)

\* amount_str: nothing for zero.
AmountText(zats) ==
  IF zats = 0 THEN None
  ELSE <<Digits(zats \div Coin, 1) \o
         (IF zats % Coin = 0 THEN << >>
          ELSE <<".">> \o TrimZeros(Digits(zats % Coin, CoinDigits)))>>

ParamIndex(i) == IF i = 0 THEN << >> ELSE <<".">> \o Digits(i, 1)
Param(name, i, value) == <<name>> \o ParamIndex(i) \o <<"=">> \o value
IfSome(option, F(_)) == IF option = None THEN << >> ELSE <<F(option[1])>>

PaymentParams(p, i) ==
  IfSome(AmountText(p.amount), LAMBDA t : Param("amount", i, t))
  \o IfSome(p.memo, LAMBDA t : Param("memo", i, <<t>>))
  \o IfSome(p.label, LAMBDA t : Param("label", i, PctEncode(t)))
  \o IfSome(p.message, LAMBDA t : Param("message", i, PctEncode(t)))
  \o [k \in 1 .. Len(p.other) |-> Param(p.other[k][1], i, PctEncode(p.other[k][2]))]

Join(params) ==
  Flatten([i \in 1 .. Len(params) |-> IF i = 1 THEN params[i] ELSE <<"&">> \o params[i]])

ToUri(payments) ==
  CASE payments = << >> -> None
    [] Len(payments) = 1 ->
         <<<<"zcash:", payments[1].to, "?">> \o Join(PaymentParams(payments[1], 0))>>
    [] OTHER ->
         <<<<"zcash:", "?">> \o
           Join(Flatten([k \in 1 .. Len(payments) |->
             <<Param("address", k - 1, <<payments[k].to>>)>>
               \o PaymentParams(payments[k], k - 1)]))>>

-----------------------------------------------------------------------------
(* parse                                                                   *)

\* Escapes of known characters are undone, any other "%" is kept.
PctDecode(s) ==
  LET char(code) == CHOOSE c \in DOMAIN Encoded : Encoded[c] = code
      codes == {Encoded[c] : c \in DOMAIN Encoded}
      dec[i \in 1 .. Len(s) + 2] ==
        IF i > Len(s) THEN << >>
        ELSE IF s[i] = "%" /\ i < Len(s) /\ s[i + 1] \in codes
        THEN <<char(s[i + 1])>> \o dec[i + 2]
        ELSE <<s[i]>> \o dec[i + 1]
  IN dec[1]

\* The longest run of characters of a set, and what follows it.
Run(s, chars) ==
  LET stop == {i \in 1 .. Len(s) : s[i] \notin chars} IN
  IF stop = {} THEN Len(s) ELSE (CHOOSE i \in stop : \A j \in stop : i <= j) - 1
First(s, n) == SubSeq(s, 1, n)
After(s, n) == SubSeq(s, n + 1, Len(s))

\* parse_amount, which leaves what follows the number unread.
ParseAmount(s) ==
  LET w == Run(s, DigitChars)
      rest == After(s, w)
      dotted == rest # << >> /\ rest[1] = "."
      d == IF dotted THEN Run(Tail(rest), DigitChars) ELSE 0
      padded == First(Tail(rest), d) \o [i \in 1 .. CoinDigits - d |-> "0"]
      \* more decimals than CoinDigits: the optional part is not taken at all
      zats == IF dotted /\ d <= CoinDigits THEN Number(padded) ELSE 0
      coins == Number(First(s, w)) IN
  IF w = 0 \/ coins > MaxCoins \/ (coins = MaxCoins /\ zats > 0) THEN None
  ELSE <<coins * Coin + zats>>

\* to_indexed_param: None is a parameter the parser refuses.
ParamValue(name, value, addresses) ==
  CASE name = "address" ->
         IF Len(value) = 1 /\ value[1] \in addresses THEN <<value[1]>> ELSE None
    [] name = "amount" -> ParseAmount(value)
    [] name = "memo" -> IF Len(value) = 1 /\ value[1] \in DOMAIN MemoText THEN <<value[1]>>
                        ELSE None
    [] name = "req-other" -> None
    [] OTHER -> <<PctDecode(value)>>

\* F of v, with v evaluated once.
With(v, F(_)) == CHOOSE r \in {F(x) : x \in {v}} : TRUE

\* One name=value; the index follows a dot and has no leading zero.
ParseParam(s, addresses) ==
  LET dotted == Len(s) > 1 /\ s[2] = "."
      i == IF dotted THEN Run(After(s, 2), DigitChars) ELSE 0
      index == First(After(s, 2), i)
      indexed == dotted /\ i > 0 /\ index[1] # "0" /\ Number(index) <= MaxParamIndex
      chars == QChars \cup addresses \cup DOMAIN MemoText
      Named(text, rest) == With(ParamValue(s[1], text, addresses), LAMBDA value :
        IF value = None THEN Fail
        ELSE Ok([name |-> s[1], index |-> IF indexed THEN Number(index) ELSE 0,
                 value |-> value[1]], After(rest, Len(text) + 1)))
      Valued(rest) == IF rest = << >> THEN Fail
                      ELSE IF rest[1] # "=" THEN Fail
                      ELSE With(First(Tail(rest), Run(Tail(rest), chars)),
                                LAMBDA text : Named(text, rest)) IN
  IF s = << >> THEN Fail ELSE With(After(s, IF indexed THEN 2 + i ELSE 1), Valued)

\* separated_list0 of the parameters, and nothing after them.
ParseParams(s, addresses) ==
  LET more[t \in {After(s, n) : n \in 0 .. Len(s)}] ==
        With(ParseParam(t, addresses), LAMBDA p :
          IF ~p.ok THEN Fail
          ELSE IF p.rest = << >> THEN Ok(<<p.val>>, << >>)
          ELSE IF p.rest[1] # "&" \/ ~more[Tail(p.rest)].ok THEN Fail
          ELSE Ok(<<p.val>> \o more[Tail(p.rest)].val, << >>))
  IN IF s = << >> THEN Ok(<< >>, << >>) ELSE more[s]

\* to_payment of the parameters of one index.
ToPayment(params, transparent) ==
  LET Of(name) == {k \in 1 .. Len(params) : params[k].name = name}
      Opt(name) == IF Of(name) = {} THEN None
                   ELSE <<params[CHOOSE k \in Of(name) : TRUE].value>>
      known == {"address", "amount", "memo", "label", "message"} IN
  IF \/ Opt("address") = None
     \/ Opt("memo") # None /\ Opt("address")[1] \in transparent
  THEN None
  ELSE <<[to |-> Opt("address")[1],
          amount |-> IF Opt("amount") = None THEN 0 ELSE Opt("amount")[1],
          memo |-> Opt("memo"), label |-> Opt("label"), message |-> Opt("message"),
          other |-> LET others == SelectSeq(params, LAMBDA p : p.name \notin known) IN
                    [k \in 1 .. Len(others) |-> <<others[k].name, others[k].value>>]]>>

HasDuplicateParam(params) ==
  \E j, k \in 1 .. Len(params) :
    j # k /\ params[j].name = params[k].name /\ params[j].index = params[k].index

\* from_uri: the payments by their index.  The code returns them in the order
\* of a HashMap, that is, in any.
FromUri(uri, addresses, transparent) ==
  LET led == uri[2] # "?"
      lead == IF led THEN <<[name |-> "address", index |-> 0, value |-> uri[2]]>>
              ELSE << >>
      Payment(all, i) == ToPayment(SelectSeq(all, LAMBDA p : p.index = i), transparent)
      Payments(all) ==
        With([i \in {all[k].index : k \in 1 .. Len(all)} |-> Payment(all, i)], LAMBDA payment :
          IF HasDuplicateParam(all) \/ \E i \in DOMAIN payment : payment[i] = None THEN Error
          ELSE Value([i \in DOMAIN payment |-> payment[i][1]])) IN
  IF led /\ uri[2] \notin addresses THEN Error
  ELSE With(ParseParams(After(uri, IF led THEN 3 ELSE 2), addresses), LAMBDA params :
         IF params.ok THEN With(lead \o params.val, Payments) ELSE Error)
=============================================================================
