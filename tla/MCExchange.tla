------------------------------ MODULE MCExchange -----------------------------
(***************************************************************************)
(* Instance for TLC.  A request is one of four base requests with at most    *)
(* two of its parts replaced, a response one of three with at most two.      *)
(***************************************************************************)
EXTENDS Exchange, FiniteSets

Jar(session, encoded, app, malformed) ==
  [c \in CookieName |->
     CASE c = "session" -> session [] c = "session_encoded" -> encoded
       [] c = "app" -> app [] OTHER -> malformed]

SessionJar == Jar(<<"session">>, <<>>, <<"a">>, <<>>)

PlainHeaders ==
  [NoHeaders EXCEPT !["host"] = <<"authority">>, !["cookie"] = <<SessionJar>>]

Plain ==
  [lines |-> "crlf", line |-> "short", version |-> "1.1", method |-> "GET",
   target |-> "app", size |-> 2, headers |-> PlainHeaders]

Post == [Plain EXCEPT !.method = "POST", !.headers["origin"] = <<"proxy">>,
                      !.headers["content-length"] = <<2>>]

BootstrapGet ==
  [Plain EXCEPT !.target = "bootstrap", !.headers["cookie"] = <<>>,
                !.headers["x-rpackit-bootstrap"] = <<"bootstrap">>]

Socket ==
  [Plain EXCEPT !.headers["origin"] = <<"proxy">>,
                !.headers["connection"] = <<<<"upgrade">>>>,
                !.headers["upgrade"] = <<"websocket">>,
                !.headers["sec-websocket-version"] = <<"13">>,
                !.headers["sec-websocket-key"] = <<"key">>,
                !.headers["sec-websocket-protocol"] = <<{"chat"}>>]

(* Other values of the parts outside the headers.                            *)
PartChanges ==
  {<<"lines", "bare">>, <<"line", "long">>, <<"version", "1.0">>, <<"method", "HEAD">>,
   <<"method", "TRACE">>, <<"target", "bootstrap">>, <<"target", "bootstrap_query">>,
   <<"target", "bootstrap_encoded">>, <<"target", "absolute">>}

HeaderChanges ==
  {<<"host", <<>>>>, <<"host", <<"authority", "authority">>>>, <<"host", <<"other">>>>,
   <<"origin", <<"foreign">>>>, <<"origin", <<"proxy">>>>,
   <<"cookie", <<>>>>, <<"cookie", <<SessionJar, SessionJar>>>>,
   <<"cookie", <<Jar(<<>>, <<"session">>, <<"a">>, <<>>)>>>>,
   <<"cookie", <<Jar(<<"session">>, <<>>, <<>>, <<>>)>>>>,
   <<"cookie", <<Jar(<<"session">>, <<"session">>, <<>>, <<>>)>>>>,
   <<"cookie", <<Jar(<<"guess">>, <<>>, <<"a">>, <<>>)>>>>,
   <<"cookie", <<Jar(<<"session">>, <<>>, <<"a", "a">>, <<>>)>>>>,
   <<"cookie", <<Jar(<<"session">>, <<>>, <<>>, <<"x">>)>>>>,
   <<"connection", <<<<"close", "x-app">>>>>>, <<"connection", <<<<"origin">>>>>>,
   <<"connection", <<<<"cookie">>>>>>, <<"connection", <<<<"shiny-shared-secret">>>>>>,
   <<"connection", <<<<"">>>>>>, <<"upgrade", <<>>>>, <<"upgrade", <<"h2c">>>>,
   <<"http2-settings", <<"x">>>>, <<"content-length", <<MaxRequestBody + 1>>>>, <<"content-length", <<-1>>>>,
   <<"transfer-encoding", <<"chunked">>>>, <<"transfer-encoding", <<"gzip">>>>,
   <<"shiny-shared-secret", <<"guess">>>>, <<"x-rpackit-bootstrap", <<"guess">>>>,
   <<"x-rpackit-bootstrap", <<"bootstrap">>>>, <<"x-forwarded-for", <<"x">>>>,
   <<"x-app", <<"x">>>>, <<"sec-websocket-protocol", <<{"chat", ""}>>>>,
   <<"sec-websocket-protocol", <<>>>>, <<"sec-websocket-key", <<"short">>>>,
   <<"sec-websocket-extensions", <<{""}>>>>}

Change(q, c) ==
  CASE c[1] = "part" -> [q EXCEPT ![c[2]] = c[3]]
    [] c[1] = "header" -> [q EXCEPT !.headers[c[2]] = c[3]]
    [] OTHER -> q

Same == <<"same">>

Changes(parts, headers) ==
  {Same} \cup {<<"part">> \o c : c \in parts} \cup {<<"header">> \o c : c \in headers}

RequestChanges == Changes(PartChanges, HeaderChanges)

(* What may go with another change: a method, a Connection header, a cookie. *)
FirstChanges ==
  {c \in RequestChanges : c = Same \/ c[2] \in {"method", "connection", "cookie"}}

(* Heads that reach the limit and exceed it are not changed otherwise.       *)
MCRequests ==
  {Change(Change(q, c), d) : q \in {Plain, Post, BootstrapGet, Socket},
                             c \in FirstChanges, d \in RequestChanges}
  \cup {[Plain EXCEPT !.size = n] : n \in {MaxHeaderBytes, MaxHeaderBytes + 1}}

Ok == [lines |-> "crlf", version |-> "1.1", status |-> 200, size |-> 2, headers |-> NoHeaders]

Zipped == [Ok EXCEPT !.headers["content-encoding"] = <<<<"identity", "gzip">>>>,
                     !.headers["content-length"] = <<2>>, !.headers["etag"] = <<"x">>]

Switch ==
  [Ok EXCEPT !.status = 101, !.headers["connection"] = <<<<"upgrade">>>>,
             !.headers["upgrade"] = <<"websocket">>,
             !.headers["sec-websocket-accept"] = <<"accept">>,
             !.headers["sec-websocket-protocol"] = <<"chat">>]

ResponseParts ==
  {<<"lines", "bare">>, <<"version", "1.0">>, <<"status", 100>>, <<"status", 101>>,
   <<"status", 204>>, <<"status", 205>>, <<"status", 206>>, <<"status", 304>>,
   <<"size", MaxHeaderBytes + 1>>}

SetCookie(name, domain) == [name |-> name, domain |-> domain]

ResponseHeaders ==
  {<<"content-length", <<0>>>>, <<"content-length", <<2>>>>, <<"content-length", <<-1>>>>,
   <<"content-length", <<MaxDecodedBody + 1>>>>, <<"content-length", <<MaxResponseBody + 1>>>>, <<"transfer-encoding", <<"chunked">>>>,
   <<"transfer-encoding", <<"gzip">>>>, <<"trailer", <<"x">>>>,
   <<"connection", <<<<"close", "x-app">>>>>>, <<"connection", <<<<"cookie">>>>>>,
   <<"connection", <<<<"">>>>>>, <<"x-app", <<"x">>>>, <<"keep-alive", <<"x">>>>,
   <<"shiny-shared-secret", <<"x">>>>,
   <<"set-cookie", <<SetCookie("app", "upstream"), SetCookie("app", "none")>>>>,
   <<"set-cookie", <<SetCookie("session_encoded", "none")>>>>,
   <<"set-cookie", <<SetCookie("session", "none")>>>>,
   <<"set-cookie", <<SetCookie("app", "other")>>>>,
   <<"location", <<"relative">>>>, <<"location", <<"upstream">>>>, <<"location", <<"invalid">>>>,
   <<"content-encoding", <<<<"gzip", "br", "zstd">>>>>>, <<"content-encoding", <<<<"compress">>>>>>,
   <<"content-range", <<"x">>>>, <<"cache-control", <<{"public"}>>>>,
   <<"cache-control", <<{"public"}, {"private", "no-transform"}>>>>,
   <<"cache-control", <<{"invalid"}>>>>,
   <<"sec-websocket-protocol", <<"other">>>>, <<"sec-websocket-accept", <<"guess">>>>,
   <<"sec-websocket-extensions", <<{"x"}>>>>}

ResponseChanges == Changes(ResponseParts, ResponseHeaders)

MCResponses ==
  {Change(r, c) : r \in {Ok, Zipped, Switch}, c \in ResponseChanges}
  \cup {Change(Change(Ok, <<"header", "content-length", <<2>>>>), c) : c \in ResponseChanges}
==============================================================================
