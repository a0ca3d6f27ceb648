---------------------------- MODULE AgglayerTypes ----------------------------
(***************************************************************************)
(* The JSON decoders of the agglayer types (src/unnamed/part_001, package *)
(* types): CertificateStatus and LeafType, the status field of a          *)
(* CertificateHeader, convertMapValue and convertNumeric, GlobalIndex's   *)
(* UnmarshalFromMap, and the two selectors that pick the concrete type of *)
(* a claim and of the aggchain data.                                       *)
(*                                                                         *)
(* Data abstraction.  A JSON value is a record [type, num, frac, sub,     *)
(* text]: a number is num (plus one half when frac), an object is the     *)
(* function sub from its keys to values, a string is a text.  A text is   *)
(* what strings.Contains and fmt.Sscanf("%d") tell apart: a word, or      *)
(* digits possibly followed by other characters.  Go integer kinds keep   *)
(* their order and signedness; their widths are the constant KindBits.   *)
(*                                                                         *)
(* Undefined behaviour: Go leaves a float64 converted to an integer type  *)
(* it does not fit implementation-defined (amd64 keeps the low bits,      *)
(* arm64 saturates), and ranges over a map in a random order; both are    *)
(* nondeterministic choices, so a decoder is a set of possible results.  *)
(* Init chooses one input; one step runs the decoder.                      *)
(***************************************************************************)
EXTENDS Integers, FiniteSets, TLC

CONSTANTS
  KindBits,  \* bits of each Go integer kind
  Ints       \* the integers written in the inputs

\* Go's reflect kinds Int..Uint64, the numeric targets convertMapValue accepts.
IntKinds == {"int", "int8", "int16", "int32", "int64",
             "uint", "uint8", "uint16", "uint32", "uint64"}
Signed(kind) == kind \in {"int", "int8", "int16", "int32", "int64"}
KindMin(kind) == IF Signed(kind) THEN -(2^(KindBits[kind] - 1)) ELSE 0
KindMax(kind) == IF Signed(kind) THEN 2^(KindBits[kind] - 1) - 1
                 ELSE 2^KindBits[kind] - 1

Ok(v) == [err |-> "nil", val |-> v]
Err(e) == [err |-> e, val |-> 0]
IsErr(r) == r.err /= "nil"

-----------------------------------------------------------------------------
(* Texts and JSON values.                                                  *)

Words == {"Pending", "Proven", "Candidate", "InError", "Settled",
          "Transfer", "Message", "InError(detail)", "junk"}
\* strings.Contains(w, "InError")
ContainsInError(t) == t.kind = "word" /\ t.word \in {"InError", "InError(detail)"}

Word(w) == [kind |-> "word", word |-> w, num |-> 0]
\* The integer n in decimal, followed, when rest, by text that does not
\* continue it (as "5x"); Sscanf reads n from both.
Digits(n, rest) == [kind |-> IF rest THEN "digitsThenText" ELSE "digits", word |-> "", num |-> n]
Texts == {Word(w) : w \in Words} \cup {Digits(n, r) : n \in Ints, r \in BOOLEAN}

\* The bytes handed to an UnmarshalJSON: a text, in quotes or not.
Raws == [quoted : BOOLEAN, text : Texts]

\* fmt.Sscanf(s, "%d", &v): reads a leading integer and ignores what follows.
Sscanf(t) == IF t.kind = "word" THEN Err("expected integer") ELSE Ok(t.num)

NoKeys == [k \in {} |-> 0]
JNum(n, frac) == [type |-> "number", num |-> n, frac |-> frac, sub |-> NoKeys, text |-> Word("")]
JBool(b) == [type |-> "bool", num |-> IF b THEN 1 ELSE 0, frac |-> FALSE, sub |-> NoKeys, text |-> Word("")]
JStr(t) == [type |-> "string", num |-> 0, frac |-> FALSE, sub |-> NoKeys, text |-> t]
JObj(m) == [type |-> "object", num |-> 0, frac |-> FALSE, sub |-> m, text |-> Word("")]
JNull == [type |-> "null", num |-> 0, frac |-> FALSE, sub |-> NoKeys, text |-> Word("")]

-----------------------------------------------------------------------------
(* CertificateStatus and LeafType.                                         *)

Pending == 0
Proven == 1
Candidate == 2
InError == 3
Settled == 4
NonSettledStatuses == {Pending, Candidate, Proven}
CertificateStatusNames == <<"Pending", "Proven", "Candidate", "InError", "Settled">>

\* String(): indexes the names array; any other value panics.
StatusString(c) ==
  IF c \in 0..4 THEN CertificateStatusNames[c + 1] ELSE "panic: index out of range"

IsOpen(c) == c \in NonSettledStatuses
IsClosed(c) == ~IsOpen(c)
IsSettled(c) == c = Settled
IsInError(c) == c = InError

\* Faulty variant: the numeric fallback is missing.
StatusUnmarshalJSONNamesOnly(rawStatus) ==
  LET status == IF ContainsInError(rawStatus.text) THEN Word("InError") ELSE rawStatus.text
  IN IF status.kind = "word" /\ status.word \in {CertificateStatusNames[i] : i \in 1..5}
     THEN Ok(CHOOSE c \in 0..4 : CertificateStatusNames[c + 1] = status.word)
     ELSE Err("invalid status")

\* UnmarshalJSON: trim the quotes, read anything containing "InError" as
\* InError, match the five names, else fall back to a number.
StatusUnmarshalJSON(rawStatus) ==
  LET status == IF ContainsInError(rawStatus.text) THEN Word("InError") ELSE rawStatus.text
  IN IF status.kind = "word" /\ status.word \in {CertificateStatusNames[i] : i \in 1..5}
     THEN Ok(CHOOSE c \in 0..4 : CertificateStatusNames[c + 1] = status.word)
     ELSE IF IsErr(Sscanf(status)) THEN Err("invalid status")
     ELSE Ok(Sscanf(status).val)

LeafTypeAsset == 0
LeafTypeMessage == 1
LeafTypeString(l) == IF l \in 0..1 THEN <<"Transfer", "Message">>[l + 1]
                     ELSE "panic: index out of range"

\* UnmarshalJSON: the two names, else a number converted to uint8.
LeafTypeUnmarshalJSON(raw) ==
  CASE raw.text = Word("Transfer") -> Ok(LeafTypeAsset)
    [] raw.text = Word("Message") -> Ok(LeafTypeMessage)
    [] IsErr(Sscanf(raw.text)) -> Err("invalid LeafType")
    [] OTHER -> Ok(Sscanf(raw.text).val % 2^KindBits["uint8"])

-----------------------------------------------------------------------------
(* convertMapValue and convertNumeric.                                     *)

\* The Go type a JSON value decodes to inside a map[string]interface{}.
GoType(v) == CASE v.type = "object" -> "map"
               [] v.type = "bool" -> "bool"
               [] v.type = "number" -> "float64"
               [] v.type = "string" -> "string"
               [] OTHER -> "nil"
Payload(v) == IF v.type = "object" THEN v.sub ELSE v.num

\* The integer a float64 truncates to (num + 1/2 when frac).
Truncated(x) == IF x.frac /\ x.num < 0 THEN x.num + 1 ELSE x.num

WrapTo(t, kind) ==
  KindMin(kind) + ((t - KindMin(kind)) % 2^KindBits[kind])
SaturateTo(t, kind) ==
  IF t < KindMin(kind) THEN KindMin(kind) ELSE KindMax(kind)

\* convertNumeric: T(value) for the integer kinds; a value out of the kind's
\* range converts to what the build produces.  Float32 and Float64 are never
\* reached, since convertMapValue only calls it for Int..Uint64.
ConvertNumeric(x, kind) ==
  LET t == Truncated(x)
  IN IF t \in KindMin(kind)..KindMax(kind) THEN {t}
     ELSE {WrapTo(t, kind), SaturateTo(t, kind)}

\* convertMapValue[T]: the key must be there; a value already of type T is
\* taken as is, a float64 is converted when T is an integer kind, anything
\* else is an error.  target is T's name.
ConvertMapValue(data, key, target) ==
  IF key \notin DOMAIN data THEN {Err("key not found in map")}
  ELSE LET value == data[key]
       IN CASE GoType(value) = target -> {Ok(Payload(value))}
            [] GoType(value) = "float64" /\ target \in IntKinds ->
                 {Ok(v) : v \in ConvertNumeric(value, target)}
            [] OTHER -> {Err("value is not of type")}

-----------------------------------------------------------------------------
(* GlobalIndex.                                                             *)

\* json.Marshal of a GlobalIndex, read back into a map[string]interface{}.
MarshalGlobalIndex(g) ==
  ("mainnet_flag" :> JBool(g.MainnetFlag)) @@
  ("rollup_index" :> JNum(g.RollupIndex, FALSE)) @@
  ("leaf_index" :> JNum(g.LeafIndex, FALSE))

\* Faulty variant: the two indices are assigned to each other's field.
GlobalIndexUnmarshalFromMapSwapped(data) ==
  {CASE IsErr(r) -> r [] IsErr(l) -> l [] IsErr(f) -> f
     [] OTHER -> Ok([MainnetFlag |-> f.val = 1, RollupIndex |-> l.val, LeafIndex |-> r.val])
   : r \in ConvertMapValue(data, "rollup_index", "uint32"),
     l \in ConvertMapValue(data, "leaf_index", "uint32"),
     f \in ConvertMapValue(data, "mainnet_flag", "bool")}

\* UnmarshalFromMap: rollup_index, leaf_index, mainnet_flag in this order,
\* returning the first error.
GlobalIndexUnmarshalFromMap(data) ==
  {CASE IsErr(r) -> r [] IsErr(l) -> l [] IsErr(f) -> f
     [] OTHER -> Ok([MainnetFlag |-> f.val = 1, RollupIndex |-> r.val, LeafIndex |-> l.val])
   : r \in ConvertMapValue(data, "rollup_index", "uint32"),
     l \in ConvertMapValue(data, "leaf_index", "uint32"),
     f \in ConvertMapValue(data, "mainnet_flag", "bool")}

-----------------------------------------------------------------------------
(* CertificateHeader's status field.                                        *)

HeaderOk(status, error) == [err |-> "nil", status |-> status, error |-> error]
HeaderErr(e) == [err |-> e, status |-> Pending, error |-> "nil"]

\* The agglayer error a decoded InError certificate carries: the entry the
\* range over the error map visits last, in Go's random order; none for an
\* empty map.  json.Marshal of a value json.Unmarshal produced cannot fail,
\* so the "failed to marshal" branch is never taken.
AgglayerErrors(errMap) ==
  IF DOMAIN errMap = {} THEN {"nil"} ELSE DOMAIN errMap

\* Faulty variant: an object status keeps the status already in the header.
HeaderUnmarshalJSONNoInError(h) ==
  IF ~h.fieldsOk THEN {HeaderErr("json")}
  ELSE CASE h.status.type = "string" ->
              LET r == StatusUnmarshalJSON([quoted |-> FALSE, text |-> h.status.text])
              IN {IF IsErr(r) THEN HeaderErr(r.err) ELSE HeaderOk(r.val, "nil")}
         [] h.status.type = "object" ->
              UNION {IF IsErr(inErrMap) THEN {HeaderErr(inErrMap.err)}
                     ELSE UNION {IF IsErr(inErrDataMap) THEN {HeaderErr(inErrDataMap.err)}
                                 ELSE {HeaderOk(Pending, e) : e \in AgglayerErrors(inErrDataMap.val)}
                                 : inErrDataMap \in ConvertMapValue(inErrMap.val, "error", "map")}
                     : inErrMap \in ConvertMapValue(h.status.sub, "InError", "map")}
         [] OTHER -> {HeaderErr("invalid status type")}

\* UnmarshalJSON: the other fields through an alias, then the status: a
\* string goes through CertificateStatus.UnmarshalJSON, an object must be
\* {"InError": {"error": {...}}} and gives InError with the agglayer error,
\* any other JSON type is an error.
HeaderUnmarshalJSON(h) ==
  IF ~h.fieldsOk THEN {HeaderErr("json")}
  ELSE CASE h.status.type = "string" ->
              LET r == StatusUnmarshalJSON([quoted |-> FALSE, text |-> h.status.text])
              IN {IF IsErr(r) THEN HeaderErr(r.err) ELSE HeaderOk(r.val, "nil")}
         [] h.status.type = "object" ->
              UNION {IF IsErr(inErrMap) THEN {HeaderErr(inErrMap.err)}
                     ELSE UNION {IF IsErr(inErrDataMap) THEN {HeaderErr(inErrDataMap.err)}
                                 ELSE {HeaderOk(InError, e) : e \in AgglayerErrors(inErrDataMap.val)}
                                 : inErrDataMap \in ConvertMapValue(inErrMap.val, "error", "map")}
                     : inErrMap \in ConvertMapValue(h.status.sub, "InError", "map")}
         [] OTHER -> {HeaderErr("invalid status type")}

-----------------------------------------------------------------------------
(* The claim and aggchain data selectors.  A selector input is JSON null,  *)
(* an object with a set of keys, or another JSON value.                     *)

\* The keys each MarshalJSON writes at the top level.
KeysOfClaimFromMainnnet == {"Mainnet"}
KeysOfClaimFromRollup == {"Rollup"}
KeysOfAggchainDataSignature == {"signature"}
\* "other" stands for aggchain_params, context, version and vkey.
KeysOfAggchainDataProof == {"proof", "signature", "other"}

\* ClaimSelector.UnmarshalJSON: "Mainnet" first, then "Rollup".
ClaimSelectorUnmarshalJSON(d) ==
  CASE d.kind = "null" -> Ok("nil")
    [] d.kind /= "object" -> Err("cannot unmarshal into map")
    [] "Mainnet" \in d.keys -> Ok("ClaimFromMainnnet")
    [] "Rollup" \in d.keys -> Ok("ClaimFromRollup")
    [] OTHER -> Err("invalid claim type")

\* Faulty variant: "signature" is looked for before "proof".
AggchainDataSelectorUnmarshalJSONSignatureFirst(d) ==
  CASE d.kind = "null" -> Ok("nil")
    [] d.kind /= "object" -> Err("cannot unmarshal into map")
    [] "signature" \in d.keys -> Ok("AggchainDataSignature")
    [] "proof" \in d.keys -> Ok("AggchainDataProof")
    [] OTHER -> Err("invalid aggchain_data type")

\* AggchainDataSelector.UnmarshalJSON: "proof" first, then "signature".
AggchainDataSelectorUnmarshalJSON(d) ==
  CASE d.kind = "null" -> Ok("nil")
    [] d.kind /= "object" -> Err("cannot unmarshal into map")
    [] "proof" \in d.keys -> Ok("AggchainDataProof")
    [] "signature" \in d.keys -> Ok("AggchainDataSignature")
    [] OTHER -> Err("invalid aggchain_data type")
-----------------------------------------------------------------------------
(* The inputs: every raw text, header status, GlobalIndex map and selector *)
(* object the sets above allow.                                            *)

ErrKeys == {"CertificateNotFound", "InvalidProof"}
ErrorMaps == {[k \in K |-> JNum(1, FALSE)] : K \in SUBSET ErrKeys}
InErrorMaps == {"error" :> JObj(e) : e \in ErrorMaps} \cup {"error" :> JNum(1, FALSE), NoKeys}
StatusObjects == {"InError" :> JObj(m) : m \in InErrorMaps}
                   \cup {"InError" :> JStr(Word("junk")), "Settled" :> JObj(NoKeys)}
StatusValues == {JStr(t) : t \in Texts} \cup {JNum(1, FALSE), JBool(TRUE), JNull}
                  \cup {JObj(m) : m \in StatusObjects}
HeaderInputs == [fieldsOk : BOOLEAN, status : StatusValues]

IndexKeys == {"mainnet_flag", "rollup_index", "leaf_index"}
IndexValues == {JNum(n, f) : n \in Ints, f \in BOOLEAN} \cup {JBool(b) : b \in BOOLEAN}
                 \cup {JStr(Word("junk"))}
IndexMaps == UNION {[K -> IndexValues] : K \in SUBSET IndexKeys}

SelectorKeys == {"Mainnet", "Rollup", "proof", "signature", "other"}
SelectorInputs == {[kind |-> k, keys |-> {}] : k \in {"null", "array"}}
                    \cup {[kind |-> "object", keys |-> K] : K \in SUBSET SelectorKeys}

Decoders == {"CertificateStatus", "LeafType", "CertificateHeader", "GlobalIndex",
             "ClaimSelector", "AggchainDataSelector"}

NoRaw == [quoted |-> FALSE, text |-> Word("junk")]
NoHeader == [fieldsOk |-> FALSE, status |-> JNull]
NoSelector == [kind |-> "null", keys |-> {}]
Input(d, r, h, i, s) == [decoder |-> d, raw |-> r, header |-> h, index |-> i, selector |-> s]
Inputs ==
  {Input(d, r, NoHeader, NoKeys, NoSelector) : d \in {"CertificateStatus", "LeafType"}, r \in Raws}
  \cup {Input("CertificateHeader", NoRaw, h, NoKeys, NoSelector) : h \in HeaderInputs}
  \cup {Input("GlobalIndex", NoRaw, NoHeader, i, NoSelector) : i \in IndexMaps}
  \cup {Input(d, NoRaw, NoHeader, NoKeys, s)
          : d \in {"ClaimSelector", "AggchainDataSelector"}, s \in SelectorInputs}

VARIABLES
  input,   \* the decoder called and its bytes
  result,  \* what it returned
  done     \* the call has returned

vars == <<input, result, done>>

Init ==
  /\ input \in Inputs
  /\ result = Err("none")
  /\ done = FALSE

\* One decoder call; the nondeterministic ones return any of their results.
Return(r) == result' = r /\ done' = TRUE /\ UNCHANGED input

DecodeCertificateStatus ==
  /\ ~done /\ input.decoder = "CertificateStatus"
  /\ Return(StatusUnmarshalJSON(input.raw))

DecodeLeafType ==
  /\ ~done /\ input.decoder = "LeafType"
  /\ Return(LeafTypeUnmarshalJSON(input.raw))

DecodeCertificateHeader ==
  /\ ~done /\ input.decoder = "CertificateHeader"
  /\ \E r \in HeaderUnmarshalJSON(input.header) : Return(r)

DecodeGlobalIndex ==
  /\ ~done /\ input.decoder = "GlobalIndex"
  /\ \E r \in GlobalIndexUnmarshalFromMap(input.index) : Return(r)

DecodeClaimSelector ==
  /\ ~done /\ input.decoder = "ClaimSelector"
  /\ Return(ClaimSelectorUnmarshalJSON(input.selector))

DecodeAggchainDataSelector ==
  /\ ~done /\ input.decoder = "AggchainDataSelector"
  /\ Return(AggchainDataSelectorUnmarshalJSON(input.selector))

\* The call has returned; nothing else happens.
Returned == done /\ UNCHANGED vars

Next ==
  \/ DecodeCertificateStatus \/ DecodeLeafType \/ DecodeCertificateHeader
  \/ DecodeGlobalIndex \/ DecodeClaimSelector \/ DecodeAggchainDataSelector
  \/ Returned

Spec == Init /\ [][Next]_vars
-----------------------------------------------------------------------------
(* Properties.                                                              *)

\* The encodings of a CertificateStatus or LeafType: json.Marshal writes
\* the number (neither type has a MarshalJSON), the agglayer and String()
\* write the name, quoted or not.
EnumEncodings(v, name) ==
  {[quoted |-> q, text |-> Word(name)] : q \in BOOLEAN}
    \cup {[quoted |-> FALSE, text |-> Digits(v, FALSE)]}

\* CertificateStatus.UnmarshalJSON and LeafType.UnmarshalJSON decode every
\* encoding of each named value back to that value: the certificates the
\* aggsender stores and those the agglayer reports keep their status.
EnumRoundTrip ==
  done =>
    /\ input.decoder = "CertificateStatus" =>
         \A c \in 0..4 : input.raw \in EnumEncodings(c, StatusString(c)) => result = Ok(c)
    /\ input.decoder = "LeafType" =>
         \A l \in 0..1 : input.raw \in EnumEncodings(l, LeafTypeString(l)) => result = Ok(l)

\* The status field as the agglayer writes it: a name, or
\* {"InError": {"error": {<variant>: ...}}} for a rejected certificate.
InErrorWire(k) == JObj("InError" :> JObj("error" :> JObj(k :> JNum(1, FALSE))))

\* CertificateHeader.UnmarshalJSON reads every status the agglayer sends as
\* that status, and a rejection as InError carrying the agglayer's error.
HeaderWireDecoding ==
  (done /\ input.decoder = "CertificateHeader" /\ input.header.fieldsOk) =>
    /\ \A c \in 0..4 : input.header.status = JStr(Word(StatusString(c)))
                         => result = HeaderOk(c, "nil")
    /\ \A k \in ErrKeys : input.header.status = InErrorWire(k)
                            => result = HeaderOk(InError, k)

\* GlobalIndex.UnmarshalFromMap, through convertMapValue's float64
\* conversions, reads back every GlobalIndex json.Marshal wrote, up to the
\* largest uint32.
GlobalIndexRoundTrip ==
  (done /\ input.decoder = "GlobalIndex") =>
    \A g \in [MainnetFlag : BOOLEAN, RollupIndex : Ints \cap 0..KindMax("uint32"),
              LeafIndex : Ints \cap 0..KindMax("uint32")] :
      input.index = MarshalGlobalIndex(g) => result = Ok(g)

\* The claim and aggchain data selectors pick the type whose MarshalJSON
\* wrote the object, although an AggchainDataProof also writes a
\* "signature" key.
SelectorRoundTrip ==
  LET Obj(keys) == [kind |-> "object", keys |-> keys]
  IN done =>
    /\ input.decoder = "ClaimSelector" =>
         /\ input.selector = Obj(KeysOfClaimFromMainnnet) => result = Ok("ClaimFromMainnnet")
         /\ input.selector = Obj(KeysOfClaimFromRollup) => result = Ok("ClaimFromRollup")
    /\ input.decoder = "AggchainDataSelector" =>
         /\ input.selector = Obj(KeysOfAggchainDataProof) => result = Ok("AggchainDataProof")
         /\ input.selector = Obj(KeysOfAggchainDataSignature) => result = Ok("AggchainDataSignature")

\* The comment on IsClosed: a closed certificate is settled or in error.
\* A status decoded from a number is neither open nor one of the two.
ClosedStatusIsSettledOrInError ==
  (done /\ ~IsErr(result)) =>
    /\ input.decoder = "CertificateStatus" =>
         (IsClosed(result.val) => IsSettled(result.val) \/ IsInError(result.val))
    /\ input.decoder = "CertificateHeader" =>
         (IsClosed(result.status) => IsSettled(result.status) \/ IsInError(result.status))
=============================================================================
