---------------------------- MODULE RequestPolicy ----------------------------
(***************************************************************************)
(* What the transport does with a request head: raw admission before Hyper  *)
(* sees it (admission.rs), the checks of handle_request, the session cookie  *)
(* (cookie.rs), and the request it sends upstream (proxy.rs).                *)
(*                                                                          *)
(* A head is [lines, line, version, method, target, headers].  Credentials  *)
(* are model strings: "session", "bootstrap" and "upstream" are the three    *)
(* secrets of TransportSecrets, any other value is one somebody made up.     *)
(***************************************************************************)
EXTENDS HeaderMap

CONSTANTS
  MaxRequestBody     \* limits.max_request_body_bytes

-------------------------------------------------------------------------------
(* admission.rs                                                              *)

(* CRLF everywhere, no NUL, no folded header; a bounded HTTP/1.1 line.       *)
WellFormed(q) == q.lines = "crlf" /\ q.line = "short" /\ q.version = "1.1"

ValidateMethod(q) == q.method \notin {"TRACE", "CONNECT"}

(* Origin form only: "absolute" stands for every other form of the target.   *)
ValidateTarget(q) == q.target # "absolute"

RequireExactAuthority(h) == SingleExact(h, "host", "authority")

(* TRUE when none of the headers that carry authority is repeated.           *)
UnambiguousSecurityHeaders(h) ==
  \A n \in {"cookie", "origin", "shiny-shared-secret", "x-rpackit-bootstrap",
            "connection", "upgrade"} : ~Repeated(h, n)

(* A length that is no number, or too large for usize, is -1.                *)
ValidateFraming(h) ==
  /\ ~Repeated(h, "content-length") /\ ~Repeated(h, "transfer-encoding")
  /\ ~(Has(h, "content-length") /\ Has(h, "transfer-encoding"))
  /\ Has(h, "content-length") => h["content-length"][1] \in 0 .. MaxRequestBody
  /\ Has(h, "transfer-encoding") => SingleExact(h, "transfer-encoding", "chunked")

ParseConnectionTokens(h) ==
  /\ TokensWellFormed(Tokens(h))
  /\ \A i, j \in DOMAIN Tokens(h) : Tokens(h)[i] = Tokens(h)[j] => i = j

(* Upgrade and the Connection token "upgrade" come together, for websocket.  *)
ValidateUpgrade(h) ==
  /\ ~Has(h, "http2-settings")
  /\ Has(h, "upgrade") <=> "upgrade" \in Nominated(Tokens(h))
  /\ Has(h, "upgrade") => SingleExact(h, "upgrade", "websocket")

(* Mutant: a Connection token may nominate any header.                       *)
ValidateAnyToken(q) ==
  /\ WellFormed(q) /\ ValidateMethod(q) /\ ValidateTarget(q)
  /\ RequireExactAuthority(q.headers) /\ UnambiguousSecurityHeaders(q.headers)
  /\ ValidateFraming(q.headers) /\ ParseConnectionTokens(q.headers)
  /\ ValidateUpgrade(q.headers)

Validate(q) ==
  /\ WellFormed(q) /\ ValidateMethod(q) /\ ValidateTarget(q)
  /\ RequireExactAuthority(q.headers) /\ UnambiguousSecurityHeaders(q.headers)
  /\ ValidateFraming(q.headers) /\ ParseConnectionTokens(q.headers)
  /\ Nominated(Tokens(q.headers)) \cap ProtectedTarget = {}
  /\ ValidateUpgrade(q.headers)

(* RawAdmission: what is kept of the raw head beside Hyper's parse of it.    *)
RawAdmission(q) ==
  [connection_tokens |-> Nominated(Tokens(q.headers)),
   websocket_upgrade |-> Has(q.headers, "upgrade")]

-------------------------------------------------------------------------------
(* cookie.rs.  A Cookie header is a function from cookie names to the values *)
(* it gives them; "session_encoded" stands for every other spelling that     *)
(* is_reserved_name takes for the session cookie, "malformed" for a segment  *)
(* that is not a cookie.                                                     *)

CookieName == {"session", "session_encoded", "app", "malformed"}
ReservedName == {"session", "session_encoded"}

(* Secret::matches; nobody guesses 256 random bits.                          *)
Matches(secret, candidate) == candidate = secret

CookieUnambiguous(jar) ==
  /\ jar["malformed"] = <<>>
  /\ Len(jar["session"]) + Len(jar["session_encoded"]) <= 1
  /\ Len(jar["app"]) <= 1

ApplicationCookies(jar) == [c \in CookieName |-> IF c \in ReservedName THEN <<>> ELSE jar[c]]

Authenticated(h) ==
  /\ Len(h["cookie"]) = 1
  /\ CookieUnambiguous(h["cookie"][1])
  /\ \E c \in ReservedName :
        LET values == h["cookie"][1][c]
        IN  Len(values) = 1 /\ Matches("session", values[1])

(* authenticate_and_strip's rewriting, when it succeeds.                     *)
StripSession(h) ==
  LET application == ApplicationCookies(h["cookie"][1])
  IN IF \A c \in CookieName : application[c] = <<>>
     THEN Remove(h, {"cookie"})
     ELSE Insert(h, "cookie", application)

-------------------------------------------------------------------------------
(* handle_request: the checks in their order.                                *)

IsBootstrap(q) ==
  /\ q.method \in {"GET", "HEAD"} /\ q.target = "bootstrap"
  /\ ~Has(q.headers, "content-length") /\ ~Has(q.headers, "transfer-encoding")

(* Any path with the bootstrap segment, percent-encoded or with a query.     *)
ReferencesBootstrapRoute(q) ==
  q.target \in {"bootstrap", "bootstrap_query", "bootstrap_encoded"}

ValidBootstrapHeader(h) ==
  /\ Len(h["x-rpackit-bootstrap"]) = 1
  /\ Matches("bootstrap", h["x-rpackit-bootstrap"][1])

(* Wanted of websocket and unsafe requests; otherwise right when present.    *)
ValidateOrigin(q, websocket) ==
  IF websocket \/ q.method \notin {"GET", "HEAD", "OPTIONS"}
  THEN SingleExact(q.headers, "origin", "proxy")
  ELSE Has(q.headers, "origin") => SingleExact(q.headers, "origin", "proxy")

(* The class of answer, given that the credential was or was not consumed.   *)
Verdict(q, raw, consumed) ==
  CASE IsBootstrap(q) /\ ValidBootstrapHeader(q.headers) /\ ~consumed -> "bootstrap"
    [] IsBootstrap(q) /\ ~(ValidBootstrapHeader(q.headers) /\ ~consumed) -> "unauthorized"
    [] ~IsBootstrap(q) /\ ReferencesBootstrapRoute(q) -> "rejected"
    [] ~ReferencesBootstrapRoute(q) /\ Has(q.headers, "x-rpackit-bootstrap") -> "rejected"
    [] OTHER ->
         IF ~ValidateOrigin(q, raw.websocket_upgrade) THEN "forbidden"
         ELSE IF ~Authenticated(q.headers) THEN "unauthorized"
         ELSE IF raw.websocket_upgrade THEN "websocket"
         ELSE "http"

-------------------------------------------------------------------------------
(* The request sent upstream.                                                *)

StrippedFromRequests ==
  HopByHop \cup {"content-length", "shiny-shared-secret", "x-rpackit-bootstrap",
                 "x-forwarded-for"}

StripRequestHeaders(h, tokens) == Remove(h, StrippedFromRequests \cup tokens)

RewriteOrigin(h) == IF Has(h, "origin") THEN Insert(h, "origin", "upstream") ELSE h

(* Mutant: strip_request_headers last, after the secret was inserted.        *)
NormalizeStripsLast(q, raw) ==
  [method |-> q.method,
   headers |-> StripRequestHeaders(
                 Insert(Insert(RewriteOrigin(StripSession(q.headers)),
                        "host", "upstream"), "shiny-shared-secret", "upstream"),
                 raw.connection_tokens)]

NormalizeHttpRequest(q, raw) ==
  [method |-> q.method,
   headers |-> Insert(Insert(RewriteOrigin(
                 StripRequestHeaders(StripSession(q.headers), raw.connection_tokens)),
                   "host", "upstream"), "shiny-shared-secret", "upstream")]

(* A protocol or extension list is a set of names, "" among them when an     *)
(* item, or a parameter of an extension, is empty, no token or repeated.     *)
ItemsValid(h, n) == ~Repeated(h, n) /\ (Has(h, n) => "" \notin h[n][1])

ParseProtocols(h) == ItemsValid(h, "sec-websocket-protocol")

ValidateExtensions(h) == ItemsValid(h, "sec-websocket-extensions")

ValidateWebSocketRequest(q) ==
  /\ q.method = "GET"
  /\ ~Has(q.headers, "content-length") /\ ~Has(q.headers, "transfer-encoding")
  /\ ~Has(q.headers, "trailer")
  /\ SingleExact(q.headers, "upgrade", "websocket")
  /\ SingleExact(q.headers, "sec-websocket-version", "13")
  /\ SingleExact(q.headers, "origin", "proxy")
  /\ SingleExact(q.headers, "sec-websocket-key", "key")
  /\ ParseProtocols(q.headers) /\ ValidateExtensions(q.headers)

(* WebSocketOffer.protocols *)
Protocols(q) ==
  IF Has(q.headers, "sec-websocket-protocol") THEN q.headers["sec-websocket-protocol"][1] ELSE {}

(* Built from nothing: only what the offer keeps reaches the upstream.       *)
BuildUpstreamWebSocketRequest(q) ==
  LET kept == StripSession(q.headers)
  IN [method |-> "GET",
      headers |-> [NoHeaders EXCEPT
                     !["host"] = <<"upstream">>,
                     !["connection"] = <<<<"upgrade">>>>,
                     !["upgrade"] = <<"websocket">>,
                     !["sec-websocket-version"] = <<"13">>,
                     !["sec-websocket-key"] = q.headers["sec-websocket-key"],
                     !["origin"] = <<"upstream">>,
                     !["sec-websocket-protocol"] = q.headers["sec-websocket-protocol"],
                     !["cookie"] = kept["cookie"],
                     !["shiny-shared-secret"] = <<"upstream">>]]
==============================================================================
