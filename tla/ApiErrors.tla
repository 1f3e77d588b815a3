------------------------------ MODULE ApiErrors ------------------------------
(***************************************************************************)
(* The error kinds of Lexe's APIs (common/src/api/error.rs).  On the wire   *)
(* an error is a numeric code; each API has its own enum of kinds, which    *)
(* must extend the kinds that the client and server libraries use for any   *)
(* API.  A kind is its name, or <<"Unknown", code>> for a code that this    *)
(* version of the software does not know.                                   *)
(***************************************************************************)
EXTENDS Integers, Sequences

(* Each enum maps a kind to its code and its HTTP status. *)
CommonErrorKind ==
  [UnknownReqwest |-> <<1, 400>>, Building |-> <<2, 400>>,
   Connect |-> <<3, 503>>, Timeout |-> <<4, 504>>, Decode |-> <<5, 502>>,
   Server |-> <<6, 500>>, Rejection |-> <<7, 400>>, AtCapacity |-> <<8, 503>>]

BackendErrorKind ==
  [UnknownReqwest |-> <<1, 400>>, Building |-> <<2, 400>>,
   Connect |-> <<3, 503>>, Timeout |-> <<4, 504>>, Decode |-> <<5, 502>>,
   Server |-> <<6, 500>>, Rejection |-> <<7, 400>>, AtCapacity |-> <<8, 503>>,
   Database |-> <<100, 500>>, NotFound |-> <<101, 404>>,
   Duplicate |-> <<102, 409>>, Conversion |-> <<103, 500>>,
   Unauthenticated |-> <<104, 401>>, Unauthorized |-> <<105, 401>>,
   AuthExpired |-> <<106, 401>>, InvalidParsedRequest |-> <<107, 400>>,
   BatchSizeOverLimit |-> <<108, 400>>]

GatewayErrorKind ==
  [UnknownReqwest |-> <<1, 400>>, Building |-> <<2, 400>>,
   Connect |-> <<3, 503>>, Timeout |-> <<4, 504>>, Decode |-> <<5, 502>>,
   Server |-> <<6, 500>>, Rejection |-> <<7, 400>>, AtCapacity |-> <<8, 503>>,
   FiatRatesMissing |-> <<100, 500>>]

LspErrorKind ==
  [UnknownReqwest |-> <<1, 400>>, Building |-> <<2, 400>>,
   Connect |-> <<3, 503>>, Timeout |-> <<4, 504>>, Decode |-> <<5, 502>>,
   Server |-> <<6, 500>>, Rejection |-> <<7, 400>>, AtCapacity |-> <<8, 503>>,
   Provision |-> <<100, 500>>, Scid |-> <<101, 500>>, Command |-> <<102, 500>>]

NodeErrorKind ==
  [UnknownReqwest |-> <<1, 400>>, Building |-> <<2, 400>>,
   Connect |-> <<3, 503>>, Timeout |-> <<4, 504>>, Decode |-> <<5, 502>>,
   Server |-> <<6, 500>>, Rejection |-> <<7, 400>>, AtCapacity |-> <<8, 503>>,
   WrongUserPk |-> <<100, 400>>, WrongNodePk |-> <<101, 400>>,
   WrongMeasurement |-> <<102, 400>>, Provision |-> <<103, 500>>,
   BadAuth |-> <<104, 401>>, Proxy |-> <<105, 502>>, Command |-> <<106, 500>>]

RunnerErrorKind ==
  [UnknownReqwest |-> <<1, 400>>, Building |-> <<2, 400>>,
   Connect |-> <<3, 503>>, Timeout |-> <<4, 504>>, Decode |-> <<5, 502>>,
   Server |-> <<6, 500>>, Rejection |-> <<7, 400>>, AtCapacity |-> <<8, 503>>,
   Runner |-> <<100, 500>>, UnknownMeasurement |-> <<101, 404>>,
   OldVersion |-> <<102, 400>>, TemporarilyUnavailable |-> <<103, 409>>,
   ServiceUnavailable |-> <<104, 503>>, Boot |-> <<106, 500>>]

ErrorKinds ==
  [Backend |-> BackendErrorKind, Gateway |-> GatewayErrorKind,
   Lsp |-> LspErrorKind, Node |-> NodeErrorKind, Runner |-> RunnerErrorKind]

Apis == DOMAIN ErrorKinds

(* The kinds of the libraries are kinds of every API, with the same codes   *)
(* and statuses.                                                            *)
CommonKindsCovered ==
  \A a \in Apis, k \in DOMAIN CommonErrorKind :
    ErrorKinds[a][k] = CommonErrorKind[k]

(* The widths are those of ErrorCode, a u16. *)
ErrorCode == 0 .. 2^16 - 1

(* What api_error_kind! generates for an enum of kinds. *)
to_code(kinds, kind) ==
  IF kind[1] = "Unknown" THEN kind[2] ELSE kinds[kind[1]][1]

to_http_status(kinds, kind) ==
  IF kind[1] = "Unknown" THEN 500 ELSE kinds[kind[1]][2]

from_code(kinds, code) ==
  IF \E name \in DOMAIN kinds : kinds[name][1] = code
  THEN <<CHOOSE name \in DOMAIN kinds : kinds[name][1] = code>>
  ELSE <<"Unknown", code>>

(* The client and server libraries know only common kinds. *)
from_common(kinds, common) == from_code(kinds, CommonErrorKind[common][1])

(* How the client library classifies a failed request: an error may have   *)
(* several of reqwest's traits (a timeout while connecting has two), and    *)
(* the first of these decides.                                              *)
ReqwestTraits == <<<<"builder", "Building">>, <<"connect", "Connect">>,
                   <<"timeout", "Timeout">>, <<"decode", "Decode">>>>

from_reqwest(traits) ==
  LET hits == {i \in 1 .. Len(ReqwestTraits) : ReqwestTraits[i][1] \in traits}
  IN IF hits = {} THEN "UnknownReqwest"
     ELSE ReqwestTraits[CHOOSE i \in hits : \A j \in hits : i <= j][2]
=============================================================================
