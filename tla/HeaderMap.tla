------------------------------ MODULE HeaderMap ------------------------------
(***************************************************************************)
(* http::HeaderMap as the transport uses it: every header name has the      *)
(* sequence of its values, empty when the header is absent.  Names are in   *)
(* lower case, as HeaderMap keeps them.  A value is what the code reads out  *)
(* of it: a cookie header is the bag of its cookies, a Connection header the *)
(* sequence of its tokens, a length a number.                                *)
(***************************************************************************)
EXTENDS Integers, Sequences

HeaderName ==
  {"host", "origin", "cookie", "connection", "upgrade", "http2-settings",
   "content-length", "transfer-encoding", "trailer", "keep-alive",
   "shiny-shared-secret", "x-rpackit-bootstrap", "x-forwarded-for", "x-app",
   "sec-websocket-version", "sec-websocket-key", "sec-websocket-accept",
   "sec-websocket-protocol", "sec-websocket-extensions",
   "set-cookie", "location", "content-encoding", "content-range",
   "cache-control", "etag"}

Has(h, n) == h[n] # <<>>

Repeated(h, n) == Len(h[n]) > 1

Remove(h, names) == [n \in HeaderName |-> IF n \in names THEN <<>> ELSE h[n]]

Insert(h, n, v) == [h EXCEPT ![n] = <<v>>]

(* One value, and exactly this one (require_single_exact).                   *)
SingleExact(h, n, v) == h[n] = <<v>>

NoHeaders == [n \in HeaderName |-> <<>>]

(* What only the two ends of one connection may say to each other; keep-alive *)
(* also stands for te, proxy-connection, proxy-authorization and             *)
(* proxy-authenticate, which are only ever removed.                          *)
HopByHop == {"connection", "keep-alive", "transfer-encoding", "trailer", "upgrade"}

(***************************************************************************)
(* admission.rs is_protected_connection_target: headers a Connection token   *)
(* may not nominate for removal.                                             *)
(***************************************************************************)
ProtectedTarget ==
  {"host", "cookie", "origin", "content-length", "transfer-encoding",
   "shiny-shared-secret", "x-rpackit-bootstrap", "x-forwarded-for"}

Tokens(h) == IF Has(h, "connection") THEN h["connection"][1] ELSE <<>>

(* split(',') and is_token_byte: a token that is empty or no token is "".    *)
TokensWellFormed(tokens) == \A i \in DOMAIN tokens : tokens[i] # ""

Nominated(tokens) == {tokens[i] : i \in DOMAIN tokens}
==============================================================================
