----------------------------- MODULE PaymentUri -----------------------------
(***************************************************************************)
(* Payment codes that the app scans or pastes (payment-uri/src/lib.rs): a  *)
(* text is parsed permissively into the ways to pay that it offers, and    *)
(* resolved into the one that the user is asked to confirm.                *)
(*                                                                         *)
(* A text is a sequence of tokens.  A token is a character with a role in  *)
(* the syntax, its percent-encoded form, or a word: an address, an         *)
(* invoice, an offer, a decimal number, a scheme, a key.  The formats of   *)
(* addresses, invoices and offers belong to the Bitcoin libraries: here    *)
(* the words that denote one are given.                                    *)
(***************************************************************************)
EXTENDS Amounts, Sequences, SequencesExt, TLC

CONSTANTS Addresses, Invoices, Offers,  \* their canonical words
          Lowercase,    \* [word in capitals -> canonical word]
          Networks,
          NetworksOf,   \* [address, invoice or offer -> networks it is valid on]
          Fallbacks,    \* [invoice -> sequence of addresses]
          AmountOf,     \* [invoice -> amount or None]
          Description,  \* [invoice -> text or None]
          Decimals,     \* [word -> units of the number of bitcoins it denotes]
          LongWords,    \* words of more than 12 characters
          Texts,        \* texts that are scanned
          Uris          \* payment URIs that are shown to be scanned

VARIABLES shown,  \* the URI that was displayed, if the text is one of ours
          text, network, uri, best

vars == <<shown, text, network, uri, best>>

NonAlphanumeric ==
    (":" :> "%3A") @@ ("?" :> "%3F") @@ ("&" :> "%26") @@ ("=" :> "%3D")
        @@ (" " :> "%20") @@ ("%" :> "%25")

\* An encoded byte that is not UTF-8 by itself.
BadByte == "%FF"

MutSpacesOnly(s) == [i \in DOMAIN s |-> IF s[i] = " " THEN "%20" ELSE s[i]]

utf8_percent_encode(s) ==
    [i \in DOMAIN s |-> IF s[i] \in DOMAIN NonAlphanumeric
                        THEN NonAlphanumeric[s[i]] ELSE s[i]]

percent_decode(s) ==
    LET Decoded(t) == {c \in DOMAIN NonAlphanumeric : NonAlphanumeric[c] = t}
    IN  IF Contains(s, BadByte) THEN None
        ELSE [i \in DOMAIN s |-> IF Decoded(s[i]) = {} THEN s[i]
                                 ELSE CHOOSE c \in Decoded(s[i]) : TRUE]

trim(s) ==
    LET first == SelectInSeq(s, LAMBDA t : t # " ")
    IN  IF first = 0 THEN <<>>
        ELSE SubSeq(s, first, SelectLastInSeq(s, LAMBDA t : t # " "))

split_once(s, c) ==
    LET i == SelectInSeq(s, LAMBDA t : t = c)
    IN  IF i = 0 THEN None
        ELSE <<SubSeq(s, 1, i - 1), SubSeq(s, i + 1, Len(s))>>

split(s, c) ==
    LET Piece(pieces, t) ==
          IF t = c THEN Append(pieces, <<>>)
          ELSE [pieces EXCEPT ![Len(pieces)] = Append(@, t)]
    IN  FoldLeft(Piece, <<<<>>>>, s)

UriParamParse(s) ==
    LET kv == split_once(s, "=")
        key == percent_decode(kv[1])
        value == percent_decode(kv[2])
    IN  IF kv = None THEN None
        ELSE IF key = None \/ value = None THEN None
        ELSE [key |-> key, value |-> value]

UriParse(s) ==
    LET sr == split_once(s, ":")
        br == split_once(sr[2], "?")
        rest == IF br = None THEN <<>> ELSE br[2]
        pieces == split(rest, "&")
        params == [i \in DOMAIN pieces |-> UriParamParse(pieces[i])]
    IN  IF sr = None THEN None
        ELSE IF \E t \in ToSet(sr[1]) : t \in LongWords THEN None
        ELSE [scheme |-> sr[1],
              body |-> IF br = None THEN sr[2] ELSE br[1],
              params |-> SelectSeq(params, LAMBDA p : p # None)]

UriDisplay(u) ==
    LET Param(i) == <<IF i = 1 THEN "?" ELSE "&">>
                      \o utf8_percent_encode(u.params[i].key) \o <<"=">>
                      \o utf8_percent_encode(u.params[i].value)
    IN  u.scheme \o <<":">> \o u.body
          \o FlattenSeq([i \in DOMAIN u.params |-> Param(i)])

FromStr(s, words) ==
    IF Len(s) # 1 THEN None
    ELSE LET w == IF s[1] \in DOMAIN Lowercase THEN Lowercase[s[1]] ELSE s[1]
         IN  IF w \in words THEN w ELSE None

AddressFromStr(s) == FromStr(s, Addresses)
LxInvoiceFromStr(s) == FromStr(s, Invoices)
LxOfferFromStr(s) == FromStr(s, Offers)

DecimalFromStr(s) ==
    IF Len(s) = 1 /\ s[1] \in DOMAIN Decimals THEN Decimals[s[1]] ELSE None

DecimalDisplay(x) == <<CHOOSE w \in DOMAIN Decimals : Decimals[w] = x>>

matches_scheme(scheme, name) ==
    scheme \in {<<w>> : w \in {name} \cup
                   {c \in DOMAIN Lowercase : Lowercase[c] = name}}

\* One round of the loop that Bip21Uri and LightningUri run over the params.
LightningParam(out, p) ==
    LET invoice == LxInvoiceFromStr(p.value)
        offer == LxOfferFromStr(p.value)
    IN  IF p.key = <<"lightning">> /\ out.invoice = None /\ invoice # None
        THEN [out EXCEPT !.invoice = invoice]
        ELSE IF p.key \in {<<"lightning">>, <<"b12">>} /\ out.offer = None
        THEN [out EXCEPT !.offer = offer]
        ELSE out

IsRequired(p) == p.key # <<>> /\ p.key[1] = "req-"

ParamValue(key, value) ==
    IF key = "amount" THEN parse_onchain_btc_amount(DecimalFromStr(value)) ELSE value

\* The first of the params with this key whose value converts.
FirstValue(params, key) ==
    LET i == SelectInSeq(params, LAMBDA p : p.key = <<key>> /\ ParamValue(key, p.value) # None)
    IN  IF i = 0 THEN None ELSE ParamValue(key, params[i].value)

Bip21ParseUriInner(u) ==
    LET ln == FoldLeft(LightningParam, [invoice |-> None, offer |-> None], u.params)
        skip_onchain == \E i \in DOMAIN u.params : IsRequired(u.params[i])
        address == AddressFromStr(u.body)
        onchain ==
          [address |-> address,
           amount |-> FirstValue(u.params, "amount"),
           label |-> FirstValue(u.params, "label"),
           message |-> FirstValue(u.params, "message")]
    IN  [onchain |-> IF skip_onchain \/ address = None THEN None ELSE onchain,
         invoice |-> ln.invoice, offer |-> ln.offer]

\* A param that is there only if the value is.
Param(key, value) ==
    IF value = None THEN <<>> ELSE <<[key |-> <<key>>, value |-> value]>>

Word(w) == IF w = None THEN None ELSE <<w>>

Bip21ToUri(b) ==
    LET o == b.onchain
        amount == IF o.amount = None THEN None
                  ELSE DecimalDisplay(round_sat(o.amount))
        lightning == Param("lightning", Word(b.invoice)) \o Param("b12", Word(b.offer))
    IN  [scheme |-> <<"bitcoin">>,
         body |-> IF o = None THEN <<>> ELSE <<o.address>>,
         params |-> IF o = None THEN lightning
                    ELSE Param("amount", amount) \o Param("label", o.label)
                           \o Param("message", o.message) \o lightning]

LightningParseUriInner(u) ==
    LET invoice == LxInvoiceFromStr(u.body)
        body == [invoice |-> invoice,
                 offer |-> IF invoice = None THEN LxOfferFromStr(u.body) ELSE None]
    IN  FoldLeft(LightningParam, body, u.params)

LightningToUri(l) ==
    [scheme |-> <<"lightning">>,
     body |-> IF l.invoice # None THEN <<l.invoice>>
              ELSE IF l.offer # None THEN <<l.offer>> ELSE <<>>,
     params |-> IF l.invoice # None THEN Param("b12", Word(l.offer)) ELSE <<>>]

\* A payment URI is its variant and what the variant holds.
parse(string) ==
    LET s == trim(string)
        u == UriParse(s)
        bare == <<[variant |-> "Invoice", of |-> LxInvoiceFromStr(s)],
                  [variant |-> "Offer", of |-> LxOfferFromStr(s)],
                  [variant |-> "Address", of |-> AddressFromStr(s)]>>
        found == SelectInSeq(bare, LAMBDA b : b.of # None)
    IN  IF u # None
        THEN IF matches_scheme(u.scheme, "bitcoin")
             THEN [variant |-> "Bip21Uri", of |-> Bip21ParseUriInner(u)]
             ELSE IF matches_scheme(u.scheme, "lightning")
             THEN [variant |-> "LightningUri", of |-> LightningParseUriInner(u)]
             ELSE None
        ELSE IF found = 0 THEN None ELSE bare[found]

Display(pu) ==
    CASE pu.variant = "Bip21Uri" -> UriDisplay(Bip21ToUri(pu.of))
      [] pu.variant = "LightningUri" -> UriDisplay(LightningToUri(pu.of))
      [] OTHER -> <<pu.of>>

Method(kind, of) == IF of = None THEN <<>> ELSE <<[kind |-> kind, of |-> of]>>

OnchainFrom(address) ==
    [address |-> address, amount |-> None, label |-> None, message |-> None]

flatten_invoice(invoice) ==
    IF invoice = None THEN <<>>
    ELSE [i \in DOMAIN Fallbacks[invoice] |->
            [kind |-> "Onchain",
             of |-> [address |-> Fallbacks[invoice][i], amount |-> AmountOf[invoice],
                     label |-> None, message |-> Description[invoice]]]]
         \o Method("Invoice", invoice)

flatten(pu) ==
    CASE pu.variant = "Address" -> Method("Onchain", OnchainFrom(pu.of))
      [] pu.variant = "Invoice" -> flatten_invoice(pu.of)
      [] pu.variant = "Offer" -> Method("Offer", pu.of)
      [] pu.variant = "LightningUri" ->
           flatten_invoice(pu.of.invoice) \o Method("Offer", pu.of.offer)
      [] pu.variant = "Bip21Uri" ->
           Method("Onchain", pu.of.onchain) \o flatten_invoice(pu.of.invoice)
             \o Method("Offer", pu.of.offer)

supports_network(m, n) ==
    n \in NetworksOf[IF m.kind = "Onchain" THEN m.of.address ELSE m.of]

Priority == [Invoice |-> 2, Onchain |-> 1, Offer |-> 0]

resolve_best(pu, n) ==
    LET methods == SelectSeq(flatten(pu), LAMBDA m : supports_network(m, n))
        \* max_by_key returns the last of several maxima.
        last == SelectLastInSeq(methods, LAMBDA m :
                  \A i \in DOMAIN methods : Priority[methods[i].kind] <= Priority[m.kind])
    IN  IF methods = <<>> THEN [err |-> "Payment code is not valid"]
        ELSE IF methods[last].kind = "Offer" THEN [err |-> "Offers are not supported"]
        ELSE [ok |-> methods[last]]

Init ==
    /\ shown = None /\ text = None /\ network = None
    /\ uri = None /\ best = None

\* A wallet displays a payment URI of its own.
Show(pu) ==
    /\ text = None
    /\ shown' = pu
    /\ text' = Display(pu)
    /\ UNCHANGED <<network, uri, best>>

\* The user scans or pastes something else.
Scan(t) ==
    /\ text = None
    /\ text' = t
    /\ UNCHANGED <<shown, network, uri, best>>

payment_uri_resolve_best(n) ==
    /\ text # None /\ best = None
    /\ network' = n
    /\ uri' = parse(text)
    /\ best' = IF uri' = None THEN [err |-> "Unrecognized payment code"]
               ELSE resolve_best(uri', n)
    /\ UNCHANGED <<shown, text>>

Next ==
    \/ \E pu \in Uris : Show(pu)
    \/ \E t \in Texts : Scan(t)
    \/ \E n \in Networks : payment_uri_resolve_best(n)

Spec == Init /\ [][Next]_vars

Resolved == best # None /\ "ok" \in DOMAIN best

SameUri(u, v) == u # None /\ u.variant = v.variant /\ u.of = v.of

\* What one wallet displays another reads back unchanged, whatever characters
\* its label has (PaymentUri::parse after Display, test_payment_uri_roundtrip).
RoundTrip == best # None /\ shown # None => SameUri(uri, shown)

\* However malformed a text was, what was understood of it survives being
\* displayed and parsed again (Bip21Uri::to_uri and parse_uri_inner agree).
ParseIsStable == uri # None => SameUri(parse(Display(uri)), uri)

\* The user is asked to confirm a way to pay that works on the network of the
\* wallet, an invoice if the code offers one that does; an error means that it
\* offers neither an invoice nor an address that does (resolve_best).
BestIsPayable ==
    uri # None =>
      LET methods == flatten(uri)
          Usable(kind) == {i \in DOMAIN methods :
                             methods[i].kind = kind /\ supports_network(methods[i], network)}
          ResolvedTo(kind) ==
            /\ Resolved /\ best.ok.kind = kind
            /\ \E i \in Usable(kind) : best.ok.of = methods[i].of
      IN  IF Usable("Invoice") # {} THEN ResolvedTo("Invoice")
          ELSE IF Usable("Onchain") # {} THEN ResolvedTo("Onchain")
          ELSE ~Resolved

\* An onchain payment that is no fallback of an invoice goes to the address in
\* the text and asks for whole satoshis, within half a satoshi of an amount in
\* the text; a text with a requirement that is not understood asks for none.
OnchainIsAsAsked ==
    Resolved /\ best.ok.kind = "Onchain" /\ uri.variant = "Bip21Uri" =>
      LET o == best.ok.of
          fallbacks == IF uri.of.invoice = None THEN {}
                       ELSE ToSet(Fallbacks[uri.of.invoice])
          words == ToSet(text)
      IN  o.address \in fallbacks \/
            /\ \E w \in words : AddressFromStr(<<w>>) = o.address
            /\ "req-" \notin words
            /\ o.amount # None =>
                 /\ o.amount % Sat = 0
                 /\ \E w \in words \cap DOMAIN Decimals :
                      2 * (IF Decimals[w] > o.amount THEN Decimals[w] - o.amount
                           ELSE o.amount - Decimals[w]) <= Sat
=============================================================================
