--------------------------- MODULE MCPaymentGate ---------------------------
(* Values for TLC: for the engine's own callers requests the policy        *)
(* admits, and one nonce once for every reason to refuse it: larger than   *)
(* the window's total, larger than a payment may be, negative, outside     *)
(* each allow-list, to a payee whose name has no encoding; at the gate a   *)
(* payment without terms, one with good terms, one case for every way      *)
(* terms can fail it, a short nonce, a payer and a payee with no encoding  *)
(* and a payment larger than the window's total.                           *)
EXTENDS PaymentGate

Ask(nonce, amount, payee, currency, tool) ==
  [nonce |-> nonce, amount |-> amount, payee |-> payee,
   currency |-> currency, tool |-> tool, manifestHash |-> "none"]

Pay1 == Ask("n1", 1, "payee-1", "USD", "spend")
Pay2 == Ask("n2", 2, "payee-1", "USD", "spend")
Pay3 == Ask("n3", 2, "payee-1", "USD", "spend")
ToPayee2 == Ask("n2", 2, "payee-2", "USD", "spend")
TooMuch == Ask("n4", 4, "payee-1", "USD", "spend")
NoEncoding == Ask("n4", 1, "payee-lone-surrogate", "USD", "spend")

MCRequests ==
  { Pay1, Pay3, TooMuch, NoEncoding,
    Ask("n4", 5, "payee-1", "USD", "spend"),
    Ask("n4", -1, "payee-1", "USD", "spend"),
    Ask("n4", 1, "payee-3", "USD", "spend"),
    Ask("n4", 1, "payee-1", "EUR", "spend"),
    Ask("n4", 1, "payee-1", "USD", "none") }

MCUnencodable == {req \in MCRequests \cup {Pay2, ToPayee2} : req.payee = "payee-lone-surrogate"}

Stated(amount, payee, key, signed, until) ==
  [amount |-> amount, currency |-> "USD", payee |-> payee, key |-> key,
   signed |-> signed, expiresAtMs |-> until]

MCTerms ==
  [h \in {"good", "any", "minted", "broken", "short"} |->
     CASE h = "good"   -> Stated(2, "payee-1", "merchant", TRUE, 3)
       [] h = "any"    -> Stated(2, "*", "merchant", TRUE, 5)
       [] h = "minted" -> Stated(2, "payee-1", "payer", TRUE, 5)
       [] h = "broken" -> Stated(2, "payee-1", "merchant", FALSE, 5)
       [] h = "short"  -> Stated(2, "payee-1", "merchant", TRUE, 1)]

Bare(req) ==
  [req |-> req, manifest |-> "none", trust |-> "no key", header |-> TRUE,
   encodes |-> TRUE, ledgered |-> TRUE]

WithTerms(req, hash, trust) ==
  [Bare(req) EXCEPT !.manifest = hash, !.trust = trust]

MCInputs ==
  { Bare(Pay1), Bare(Pay3), Bare(TooMuch), Bare(NoEncoding),
    [Bare(Pay1) EXCEPT !.encodes = FALSE],
    [Bare(TooMuch) EXCEPT !.header = FALSE],
    WithTerms(Pay2, "good", "merchant"),
    WithTerms(Pay2, "minted", "merchant"),
    WithTerms(Pay2, "minted", "no key"),
    WithTerms(Pay2, "broken", "merchant"),
    WithTerms(Pay2, "short", "merchant"),
    WithTerms(ToPayee2, "good", "merchant") }

MCUngated == { [in |-> WithTerms(ToPayee2, "any", "no key"), now |-> 3] }

MCPayees == {"payee-1", "payee-2", "payee-lone-surrogate"}
MCCurrencies == {"USD"}
MCTools == {"spend"}
MCTimes == {1, 2, 3, 5}
MCClocks == {<<t, t>> : t \in MCTimes} \cup {<<1, 3>>}
MCShortNonces == {"n3"}
=============================================================================
