---------------------------- MODULE ResponsePolicy ---------------------------
(***************************************************************************)
(* What the transport does with an upstream response head: the raw check    *)
(* before Hyper sees a byte of it (response_guard_io.rs), the choice of body *)
(* policy and content decoding (proxy.rs, response_decode.rs), and the head  *)
(* the browser gets (proxy.rs, cookie.rs).                                   *)
(*                                                                          *)
(* A response head is [lines, version, status, headers, size].              *)
(***************************************************************************)
EXTENDS RequestPolicy

CONSTANTS
  MaxResponseBody,   \* limits.max_response_body_bytes
  MaxDecodedBody,    \* limits.max_decoded_response_body_bytes
  MaxCodings         \* limits.max_response_content_encodings

None == [kind |-> "none"]

-------------------------------------------------------------------------------
(* response_guard_io.rs validate_response_head                               *)

StatusAllowed(r, switching) == r.status \in 200 .. 599 \/ (r.status = 101 /\ switching)

ValidateResponseHead(r, switching) ==
  /\ r.lines = "crlf" /\ r.version = "1.1"
  /\ StatusAllowed(r, switching)
  /\ ~Repeated(r.headers, "content-length") /\ ~Repeated(r.headers, "transfer-encoding")
  /\ ~(Has(r.headers, "content-length") /\ Has(r.headers, "transfer-encoding"))
  /\ Has(r.headers, "content-length") => r.headers["content-length"][1] >= 0
  /\ Has(r.headers, "transfer-encoding") =>
        SingleExact(r.headers, "transfer-encoding", "chunked")

-------------------------------------------------------------------------------
(* response_decode.rs parse_content_codings: Content-Encoding is the         *)
(* sequence of its tokens over all its fields.                               *)

Codings(h) ==
  SelectSeq(IF Has(h, "content-encoding") THEN h["content-encoding"][1] ELSE <<>>,
            LAMBDA t : t # "identity")

CodingsSupported(h) ==
  /\ \A i \in DOMAIN Codings(h) : Codings(h)[i] \in {"gzip", "deflate", "br", "zstd"}
  /\ Len(Codings(h)) <= MaxCodings

Encoded(h) == Codings(h) # <<>>

-------------------------------------------------------------------------------
(* The body policy.                                                          *)

(* An identity body is also what the browser gets: both caps bind it.        *)
EncodedBodyLimit(h) ==
  IF Encoded(h) \/ MaxResponseBody <= MaxDecodedBody THEN MaxResponseBody ELSE MaxDecodedBody

DeclaredLength(h) == IF Has(h, "content-length") THEN h["content-length"][1] ELSE -1

BodyForbidden(method, status) == method = "HEAD" \/ status \in {204, 205, 304}

BodyHeadValid(method, r) ==
  LET declared == DeclaredLength(r.headers)
  IN /\ ~Has(r.headers, "trailer")
     /\ r.status = 204 => declared = -1 /\ ~Has(r.headers, "transfer-encoding")
     /\ r.status = 205 => declared \in {-1, 0} /\ ~Has(r.headers, "transfer-encoding")
     /\ BodyForbidden(method, r.status) \/ declared <= EncodedBodyLimit(r.headers)

(* A body that must be decoded may not be partial, nor marked no-transform   *)
(* by any directive of any Cache-Control field; a field is the set of its    *)
(* directives, {"invalid"} when it is no text.                               *)
DecodedTransformValid(r) ==
  /\ r.status # 206 /\ ~Has(r.headers, "content-range")
  /\ \A i \in DOMAIN r.headers["cache-control"] :
        r.headers["cache-control"][i] \cap {"no-transform", "invalid"} = {}

-------------------------------------------------------------------------------
(* cookie.rs normalize_set_cookie: [name, domain], where domain is "none",   *)
(* "upstream", "other", or "invalid" for an attribute list that is not one.  *)

(* Mutant: the session's name is compared as it is spelled.                  *)
SetCookieOnlyExactName(c) ==
  c.name \notin {"session", "malformed"} /\ c.domain \in {"none", "upstream"}

SetCookieValid(c) ==
  c.name \notin ReservedName \cup {"malformed"} /\ c.domain \in {"none", "upstream"}

NormalizeSetCookie(c) == [name |-> c.name, domain |-> "none"]

NormalizeSetCookies(h) ==
  [n \in HeaderName |->
     IF n = "set-cookie" THEN [i \in DOMAIN h[n] |-> NormalizeSetCookie(h[n][i])] ELSE h[n]]

(* A Location is "relative" (one leading slash), "upstream" or "elsewhere"   *)
(* (absolute), or "invalid".                                                 *)
LocationValid(h) == ~Repeated(h, "location") /\ h["location"] # <<"invalid">>

RewriteLocation(h) ==
  IF h["location"] = <<"upstream">> THEN Insert(h, "location", "proxy") ELSE h

StripResponseHeaders(h) ==
  Remove(h, HopByHop \cup {"shiny-shared-secret", "x-rpackit-bootstrap"} \cup Nominated(Tokens(h)))

ConnectionHeaderValid(h) ==
  /\ ~Repeated(h, "connection")
  /\ TokensWellFormed(Tokens(h))
  /\ Nominated(Tokens(h)) \cap ProtectedTarget = {}

StripDecodedRepresentationHeaders(h) ==
  Remove(h, {"content-encoding", "content-length", "content-range", "etag"})

-------------------------------------------------------------------------------
(* normalize_http_response: whether it answers, and with what.               *)

ResponseAccepted(method, r) ==
  /\ CodingsSupported(r.headers)
  /\ BodyHeadValid(method, r)
  /\ Encoded(r.headers) /\ ~BodyForbidden(method, r.status) => DecodedTransformValid(r)
  /\ ConnectionHeaderValid(r.headers)
  /\ \A i \in DOMAIN r.headers["set-cookie"] : SetCookieValid(r.headers["set-cookie"][i])
  /\ LocationValid(r.headers)

ResponseHead(r) ==
  RewriteLocation(NormalizeSetCookies(
    Insert(StripResponseHeaders(r.headers), "connection", <<"close">>)))

NormalizedHeaders(method, r) ==
  IF BodyForbidden(method, r.status) THEN ResponseHead(r)
  ELSE IF Encoded(r.headers) THEN StripDecodedRepresentationHeaders(ResponseHead(r))
  ELSE Remove(ResponseHead(r), {"content-encoding"})

(* Mutant: the rewritten head keeps the connection alive.                    *)
NormalizeForgetsClose(method, r) ==
  [kind |-> "upstream", status |-> r.status,
   headers |-> Remove(NormalizedHeaders(method, r), {"connection"})]

NormalizeHttpResponse(method, r) ==
  [kind |-> "upstream", status |-> r.status, headers |-> NormalizedHeaders(method, r)]

-------------------------------------------------------------------------------
(* Answers of the proxy's own: they close the connection.                    *)

ClosingHeaders == [NoHeaders EXCEPT !["connection"] = <<<<"close">>>>]

(* fixed_response and write_raw_rejection *)
FixedResponse(status) == [kind |-> "fixed", status |-> status, headers |-> ClosingHeaders]

BootstrapResponse ==
  [kind |-> "bootstrap", status |-> 200,
   headers |-> [ClosingHeaders EXCEPT
                  !["set-cookie"] = <<[name |-> "session", domain |-> "none"]>>]]

-------------------------------------------------------------------------------
(* WebSocket.                                                                *)

SwitchesToWebSocket(r) ==
  /\ r.status = 101
  /\ ~Has(r.headers, "content-length") /\ ~Has(r.headers, "transfer-encoding")
  /\ ~Has(r.headers, "sec-websocket-extensions")
  /\ SingleExact(r.headers, "connection", <<"upgrade">>)
  /\ SingleExact(r.headers, "upgrade", "websocket")
  /\ SingleExact(r.headers, "sec-websocket-accept", "accept")
  /\ ~Repeated(r.headers, "sec-websocket-protocol")

ValidateWebSocketResponse(r, offered) ==
  /\ SwitchesToWebSocket(r)
  /\ Has(r.headers, "sec-websocket-protocol") =>
        r.headers["sec-websocket-protocol"][1] \in offered

DownstreamWebSocketResponse(r) ==
  [kind |-> "switch", status |-> 101,
   headers |-> [NoHeaders EXCEPT
                  !["connection"] = <<<<"upgrade">>>>,
                  !["upgrade"] = <<"websocket">>,
                  !["sec-websocket-accept"] = <<"accept">>,
                  !["sec-websocket-protocol"] = r.headers["sec-websocket-protocol"]]]
==============================================================================
