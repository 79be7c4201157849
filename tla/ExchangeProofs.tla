---------------------------- MODULE ExchangeProofs ---------------------------
(***************************************************************************)
(* Proofs about Exchange, for all request and response heads, all limits    *)
(* and any number of connections.                                            *)
(***************************************************************************)
EXTENDS Exchange, TLAPS

(***************************************************************************)
(* What is known of the head at each stage.  A head that reached handle is   *)
(* one that raw admission passed; a request for the upstream exists only     *)
(* while the connection to it is being made, an answer only after that.      *)
(***************************************************************************)
HeadAt ==
  /\ got \in Nat /\ wire \in Nat
  /\ stage = "listening" => got = 0
  /\ stage = "prefix" => wire > 0 /\ (got >= wire => request \in Requests)
  /\ stage = "handle" =>
       request \in Requests /\ Validate(request) /\ raw = RawAdmission(request)
  /\ stage # "connect" => sent = None
  /\ stage \in {"listening", "prefix", "handle", "connect", "exchange"} => answer = None

LEMMA HeadInitial == Init => HeadAt
BY DEF Init, HeadAt

LEMMA SizesNat == \A n \in Sizes(Requests) \cup Sizes(Responses) : n \in Nat \ {0}
BY HeadsAssumption DEF Sizes

LEMMA HeadStep == HeadAt /\ [Next]_exchangeVars => HeadAt'
<1> SUFFICES ASSUME HeadAt, [Next]_exchangeVars PROVE HeadAt' OBVIOUS
<1> USE DEF HeadAt, Answer, BadGateway
<1>1. CASE UNCHANGED exchangeVars
  BY <1>1 DEF exchangeVars
<1>2. CASE Accept
  BY <1>2, SizesNat DEF Accept
<1>3. CASE ReadPrefix
  <2>1. got' \in Nat
    BY <1>3, ExchangeAssumption DEF ReadPrefix, ReadHead
  <2>2. got' >= wire => request' \in Requests
    BY <1>3, <2>1 DEF ReadPrefix
  <2> QED BY <1>3, <2>1, <2>2 DEF ReadPrefix
<1>4. CASE PrefixFails \/ Disconnect
  BY <1>4 DEF PrefixFails, Disconnect
<1>5. CASE AdmitRequest
  BY <1>5 DEF AdmitRequest
<1>6. CASE Bootstrap \/ Refuse
  BY <1>6 DEF Bootstrap, Refuse
<1>7. CASE ForwardHttp \/ ForwardWebSocket
  BY <1>7 DEF ForwardHttp, ForwardWebSocket, ToUpstream
<1>8. CASE ConnectUpstream \/ ConnectFails \/ PollUpload \/ UploadFails \/ UploadAborts
           \/ ResponseHeadFails
  BY <1>8 DEF ConnectUpstream, ConnectFails, PollUpload, UploadFails, UploadAborts,
              ResponseHeadFails
<1>9. CASE ResponseStarts
  BY <1>9, SizesNat DEF ResponseStarts
<1>10. CASE ReadResponseHead
  <2>1. got' \in Nat
    BY <1>10, ExchangeAssumption DEF ReadResponseHead, ReadHead
  <2> QED BY <1>10, <2>1 DEF ReadResponseHead
<1>11. CASE UpstreamResponse
  <2>1. PICK r \in Responses : HttpResponse(r) \/ SwitchResponse(r)
    BY <1>11 DEF UpstreamResponse
  <2>2. stage = "exchange"
    BY <1>11 DEF UpstreamResponse
  <2>3. CASE HttpResponse(r)
    BY <2>2, <2>3 DEF HttpResponse
  <2>4. CASE SwitchResponse(r)
    BY <2>2, <2>4 DEF SwitchResponse
  <2> QED BY <2>1, <2>3, <2>4
<1>12. CASE Body
  BY <1>12 DEF Body, PollBody, PollDecoder, BodyEnds, NoBodyWritten, BrowserLeaves, CloseBody
<1>13. CASE Tunnelling
  BY <1>13 DEF Tunnelling, TunnelRead, TunnelWaits, TunnelEof, TunnelWrite, TunnelEnds,
               TunnelIdles, TunnelFails, Watch, KeepTunnelStage, CloseTunnel
<1>14. CASE Tick
  BY <1>14 DEF Tick
<1> QED BY <1>1, <1>2, <1>3, <1>4, <1>5, <1>6, <1>7, <1>8, <1>9, <1>10, <1>11, <1>12, <1>13,
           <1>14 DEF Next, Reading, Handling, Forwarding

(* What the exchange keeps of a request is the head that was read and          *)
(* admitted, from the moment it is handled until the connection ends.         *)
THEOREM HeadAlways == Spec => []HeadAt
BY HeadInitial, HeadStep, PTL DEF Spec

-------------------------------------------------------------------------------
(* Every step but Bootstrap leaves the credential alone.                      *)
LEMMA CredentialFrame ==
  ASSUME [Next]_exchangeVars
  PROVE  Bootstrap \/ UNCHANGED <<consumed, issued>>
<1>1. CASE UNCHANGED exchangeVars
  BY <1>1 DEF exchangeVars
<1>2. CASE Reading
  BY <1>2 DEF Reading, Accept, ReadPrefix, PrefixFails, AdmitRequest, Disconnect
<1>3. CASE Handling
  BY <1>3 DEF Handling, Refuse, ForwardHttp, ForwardWebSocket
<1>4. CASE Forwarding
  BY <1>4 DEF Forwarding, ConnectUpstream, ConnectFails, PollUpload, UploadFails,
              UploadAborts, ResponseStarts,
              ReadResponseHead, ResponseHeadFails, UpstreamResponse, HttpResponse, SwitchResponse
<1>5. CASE Body
  BY <1>5 DEF Body, PollBody, PollDecoder, BodyEnds, NoBodyWritten, BrowserLeaves, CloseBody
<1>6. CASE Tunnelling
  BY <1>6 DEF Tunnelling, TunnelRead, TunnelWaits, TunnelEof, TunnelWrite, TunnelEnds,
              TunnelIdles, TunnelFails, Watch, KeepTunnelStage, CloseTunnel
<1>7. CASE Tick
  BY <1>7 DEF Tick
<1> QED BY <1>1, <1>2, <1>3, <1>4, <1>5, <1>6, <1>7 DEF Next

LEMMA VerdictOnConsumed ==
  ASSUME NEW q, NEW admitted, NEW spent, Verdict(q, admitted, spent) = "bootstrap"
  PROVE  ~spent
BY DEF Verdict

(* One bootstrap credential buys one session, however many connections        *)
(* present it.                                                                *)
THEOREM BootstrapOnceAlways == Spec => []BootstrapOnce
<1> DEFINE Credential == issued \in {0, 1} /\ (consumed \/ issued = 0)
<1>1. Init => Credential
  BY Zenon DEF Init
<1>2. Credential /\ [Next]_exchangeVars => Credential'
  <2> SUFFICES ASSUME Credential, [Next]_exchangeVars PROVE Credential' OBVIOUS
  <2>1. CASE Bootstrap
    <3>1. ~consumed
      BY <2>1, VerdictOnConsumed DEF Bootstrap
    <3>2. issued = 0
      BY <3>1
    <3> QED BY <2>1, <3>2 DEF Bootstrap
  <2> QED BY <2>1, CredentialFrame
<1>3. Credential => BootstrapOnce
  BY DEF BootstrapOnce
<1> QED BY <1>1, <1>2, <1>3, PTL DEF Spec

-------------------------------------------------------------------------------
(* The headers of the two requests the proxy can send.                        *)

(* The cookie header after authenticate_and_strip: no reserved name is left,  *)
(* the application's own cookies are all there, and no other header changes.  *)
LEMMA StripSessionKeeps ==
  ASSUME NEW h, h = [n \in HeaderName |-> h[n]]
  PROVE  /\ StripSession(h) = [n \in HeaderName |-> StripSession(h)[n]]
         /\ \A n \in HeaderName \ {"cookie"} : StripSession(h)[n] = h[n]
         /\ Has(StripSession(h), "cookie") =>
              \A c \in ReservedName : StripSession(h)["cookie"][1][c] = <<>>
         /\ h["cookie"][1]["app"] # <<>> =>
              /\ Has(StripSession(h), "cookie")
              /\ StripSession(h)["cookie"][1]["app"] = h["cookie"][1]["app"]
<1> DEFINE jar == h["cookie"][1]
           app == ApplicationCookies(jar)
<1>1. /\ \A c \in ReservedName : app[c] = <<>>
      /\ app["app"] = jar["app"]
  BY DEF ApplicationCookies, CookieName, ReservedName
<1>2. "cookie" \in HeaderName
  BY DEF HeaderName
<1>3. CASE \A c \in CookieName : app[c] = <<>>
  <2>1. StripSession(h) = [n \in HeaderName |-> IF n \in {"cookie"} THEN <<>> ELSE h[n]]
    BY <1>3 DEF StripSession, Remove
  <2>2. jar["app"] = <<>>
    BY <1>1, <1>3 DEF CookieName
  <2> QED BY <1>2, <2>1, <2>2 DEF Has
<1>4. CASE ~\A c \in CookieName : app[c] = <<>>
  <2>1. StripSession(h) = [h EXCEPT !["cookie"] = <<app>>]
    BY <1>4 DEF StripSession, Insert
  <2> HIDE DEF app
  <2>2. /\ StripSession(h)["cookie"] = <<app>>
        /\ \A n \in HeaderName \ {"cookie"} : StripSession(h)[n] = h[n]
        /\ StripSession(h) = [n \in HeaderName |-> StripSession(h)[n]]
    BY <1>2, <2>1
  <2>3. <<app>>[1] = app /\ <<app>> # <<>>
    OBVIOUS
  <2>4. StripSession(h)["cookie"][1] = app
    BY <2>2, <2>3
  <2>5. Has(StripSession(h), "cookie")
    BY <2>2, <2>3 DEF Has
  <2> QED BY <1>1, <2>2, <2>4, <2>5
<1> QED BY <1>3, <1>4

(* normalize_http_request, header by header.                                  *)
LEMMA NormalizedHttp ==
  ASSUME NEW q, NEW admitted, q.headers = [n \in HeaderName |-> q.headers[n]],
         NEW h, h = NormalizeHttpRequest(q, admitted).headers
  PROVE  /\ SingleExact(h, "shiny-shared-secret", "upstream")
         /\ SingleExact(h, "host", "upstream")
         /\ \A n \in HopByHop \cup {"x-rpackit-bootstrap", "x-forwarded-for"} : h[n] = <<>>
         /\ h["origin"] \in {<<>>, <<"upstream">>}
         /\ "origin" \notin admitted.connection_tokens =>
              (Has(h, "origin") <=> Has(q.headers, "origin"))
         /\ h["cookie"] \in {<<>>, StripSession(q.headers)["cookie"]}
         /\ "cookie" \notin admitted.connection_tokens =>
              h["cookie"] = StripSession(q.headers)["cookie"]
<1> DEFINE kept == StripSession(q.headers)
           bare == StripRequestHeaders(kept, admitted.connection_tokens)
           rewritten == RewriteOrigin(bare)
<1>1. /\ bare = [n \in HeaderName |->
                   IF n \in StrippedFromRequests \cup admitted.connection_tokens
                   THEN <<>> ELSE kept[n]]
  BY DEF StripRequestHeaders, Remove
<1>2. kept["origin"] = q.headers["origin"]
  BY StripSessionKeeps DEF HeaderName
<1>3. h = [[rewritten EXCEPT !["host"] = <<"upstream">>]
             EXCEPT !["shiny-shared-secret"] = <<"upstream">>]
  BY DEF NormalizeHttpRequest, Insert
<1> HIDE DEF kept, bare
<1>4. /\ rewritten = [n \in HeaderName |-> rewritten[n]]
      /\ \A n \in HeaderName \ {"origin"} : rewritten[n] = bare[n]
      /\ rewritten["origin"] \in {<<>>, <<"upstream">>}
      /\ rewritten["origin"] = <<>> <=> bare["origin"] = <<>>
  <2>1. CASE bare["origin"] = <<>>
    BY <1>1, <2>1 DEF RewriteOrigin, Has
  <2>2. CASE bare["origin"] # <<>>
    <3>1. rewritten = [bare EXCEPT !["origin"] = <<"upstream">>]
      BY <2>2 DEF RewriteOrigin, Has, Insert
    <3>2. "origin" \in HeaderName
      BY DEF HeaderName
    <3>3. rewritten["origin"] = <<"upstream">> /\ <<"upstream">> # <<>>
      BY <1>1, <3>1, <3>2
    <3> QED BY <1>1, <2>2, <3>1, <3>3
  <2> QED BY <2>1, <2>2
<1> HIDE DEF rewritten
<1>5. {"host", "origin", "cookie", "shiny-shared-secret", "x-rpackit-bootstrap",
       "x-forwarded-for"} \cup HopByHop \subseteq HeaderName
  BY DEF HeaderName, HopByHop
<1>6. /\ h["shiny-shared-secret"] = <<"upstream">> /\ h["host"] = <<"upstream">>
      /\ \A n \in HeaderName \ {"host", "shiny-shared-secret"} : h[n] = rewritten[n]
  BY <1>3, <1>4, <1>5
<1>7. \A n \in HopByHop \cup {"x-rpackit-bootstrap", "x-forwarded-for"} :
        n \in StrippedFromRequests /\ n \notin {"host", "shiny-shared-secret", "origin"}
  BY DEF HopByHop, StrippedFromRequests
<1>8. \A n \in {"origin", "cookie"} : n \notin StrippedFromRequests
  BY DEF HopByHop, StrippedFromRequests
<1>9. \A n \in HopByHop \cup {"x-rpackit-bootstrap", "x-forwarded-for"} : h[n] = <<>>
  BY <1>1, <1>4, <1>5, <1>6, <1>7
<1>10. /\ h["origin"] \in {<<>>, <<"upstream">>}
       /\ "origin" \notin admitted.connection_tokens =>
            (Has(h, "origin") <=> Has(q.headers, "origin"))
  BY <1>1, <1>2, <1>4, <1>5, <1>6, <1>8 DEF Has
<1>11. h["cookie"] = bare["cookie"]
  BY <1>4, <1>5, <1>6
<1>12. /\ h["cookie"] \in {<<>>, kept["cookie"]}
       /\ "cookie" \notin admitted.connection_tokens => h["cookie"] = kept["cookie"]
  BY <1>1, <1>5, <1>8, <1>11
<1> QED BY <1>6, <1>9, <1>10, <1>12 DEF kept, SingleExact

(* build_upstream_websocket_request, header by header.                        *)
LEMMA BuiltWebSocket ==
  ASSUME NEW q, NEW h, h = BuildUpstreamWebSocketRequest(q).headers
  PROVE  /\ h["shiny-shared-secret"] = <<"upstream">> /\ h["host"] = <<"upstream">>
         /\ h["x-rpackit-bootstrap"] = <<>> /\ h["x-forwarded-for"] = <<>>
         /\ h["origin"] = <<"upstream">>
         /\ h["cookie"] = StripSession(q.headers)["cookie"]
BY DEF BuildUpstreamWebSocketRequest, NoHeaders, HeaderName

(* A request reaches either builder only admitted and authenticated.          *)
LEMMA VerdictForwards ==
  ASSUME NEW q, NEW admitted, NEW spent, Verdict(q, admitted, spent) \in {"http", "websocket"}
  PROVE  Authenticated(q.headers)
BY DEF Verdict

(* What is sent at the moment it is built.                                    *)
LEMMA BuiltClean ==
  ASSUME HeadAt, ForwardHttp \/ (ForwardWebSocket /\ sent' # None)
  PROVE  UpstreamRequestClean'
<1>1. stage = "handle" /\ request \in Requests
  BY DEF ForwardHttp, ForwardWebSocket, HeadAt
<1>2. request.headers = [n \in HeaderName |-> request.headers[n]]
  BY <1>1, HeadsAssumption
<1>3. CASE ForwardHttp
  <2>1. sent'.headers = NormalizeHttpRequest(request, raw).headers
    BY <1>3 DEF ForwardHttp
  <2>2. PICK h : h = sent'.headers /\ h = NormalizeHttpRequest(request, raw).headers
    BY <2>1
  <2>3. SingleExact(h, "shiny-shared-secret", "upstream") /\ SingleExact(h, "host", "upstream")
    BY <1>2, <2>2, NormalizedHttp
  <2>4. \A n \in HopByHop \cup {"x-rpackit-bootstrap", "x-forwarded-for"} : h[n] = <<>>
    BY <1>2, <2>2, NormalizedHttp
  <2>5. /\ h["origin"] \in {<<>>, <<"upstream">>}
        /\ h["cookie"] \in {<<>>, StripSession(request.headers)["cookie"]}
    BY <1>2, <2>2, NormalizedHttp
  <2>6. h["cookie"] # <<>> => \A c \in ReservedName : h["cookie"][1][c] = <<>>
    BY <1>2, <2>5, StripSessionKeeps DEF Has
  <2> QED BY <2>2, <2>3, <2>4, <2>5, <2>6 DEF UpstreamRequestClean, SingleExact, Has
<1>4. CASE ForwardWebSocket /\ sent' # None
  <2>1. sent = None
    BY <1>1 DEF HeadAt
  <2>2. /\ sent'.headers = BuildUpstreamWebSocketRequest(request).headers
        /\ asked'.websocket
    BY <1>4, <2>1 DEF ForwardWebSocket
  <2>3. /\ sent'.headers["shiny-shared-secret"] = <<"upstream">>
        /\ sent'.headers["host"] = <<"upstream">>
        /\ sent'.headers["x-rpackit-bootstrap"] = <<>>
        /\ sent'.headers["x-forwarded-for"] = <<>>
        /\ sent'.headers["origin"] = <<"upstream">>
        /\ sent'.headers["cookie"] = StripSession(request.headers)["cookie"]
    BY <2>2, BuiltWebSocket
  <2>4. sent'.headers["cookie"] # <<>> =>
          \A c \in ReservedName : sent'.headers["cookie"][1][c] = <<>>
    BY <1>2, <2>3, StripSessionKeeps DEF Has
  <2> QED BY <2>2, <2>3, <2>4 DEF UpstreamRequestClean, SingleExact, Has
<1> QED BY <1>3, <1>4

(* Every other step sends nothing, or leaves the request and what was asked.   *)
LEMMA SentFrame ==
  ASSUME HeadAt, [Next]_exchangeVars
  PROVE  \/ ForwardHttp \/ (ForwardWebSocket /\ sent' # None)
         \/ sent' = None \/ UNCHANGED <<sent, asked>>
<1> USE DEF HeadAt
<1>1. CASE UNCHANGED exchangeVars
  BY <1>1 DEF exchangeVars
<1>2. CASE Reading
  BY <1>2 DEF Reading, Accept, ReadPrefix, PrefixFails, AdmitRequest, Disconnect
<1>3. CASE Handling
  BY <1>3 DEF Handling, Refuse, Bootstrap
<1>4. CASE Forwarding
  BY <1>4 DEF Forwarding, ConnectUpstream, ConnectFails, PollUpload, UploadFails,
              UploadAborts, ResponseStarts,
              ReadResponseHead, ResponseHeadFails, UpstreamResponse, HttpResponse, SwitchResponse
<1>5. CASE Body
  BY <1>5 DEF Body, PollBody, PollDecoder, BodyEnds, NoBodyWritten, BrowserLeaves, CloseBody
<1>6. CASE Tunnelling
  BY <1>6 DEF Tunnelling, TunnelRead, TunnelWaits, TunnelEof, TunnelWrite, TunnelEnds,
              TunnelIdles, TunnelFails, Watch, KeepTunnelStage, CloseTunnel
<1>7. CASE Tick
  BY <1>7 DEF Tick
<1> QED BY <1>1, <1>2, <1>3, <1>4, <1>5, <1>6, <1>7 DEF Next

(* Whatever a browser sends and its Connection header nominates, the upstream *)
(* gets the proxy's secret once and none of the browser's credentials.        *)
THEOREM UpstreamRequestCleanAlways == Spec => []UpstreamRequestClean
<1>1. Init => UpstreamRequestClean
  BY DEF Init, UpstreamRequestClean
<1>2. HeadAt /\ UpstreamRequestClean /\ [Next]_exchangeVars => UpstreamRequestClean'
  <2> SUFFICES ASSUME HeadAt, UpstreamRequestClean, [Next]_exchangeVars
               PROVE  UpstreamRequestClean'
    OBVIOUS
  <2>1. CASE sent' = None
    BY <2>1 DEF UpstreamRequestClean
  <2>2. CASE UNCHANGED <<sent, asked>>
    BY <2>2 DEF UpstreamRequestClean
  <2> QED BY <2>1, <2>2, SentFrame, BuiltClean
<1> QED BY <1>1, <1>2, HeadAlways, PTL DEF Spec

(* A step that sends a request upstream sends one that was admitted raw and   *)
(* authenticated, with the application's cookies and the Origin's presence    *)
(* intact.                                                                    *)
THEOREM ForwardedFaithfullyAlways == Spec => ForwardedFaithfully
<1> DEFINE Faithful ==
      sent = None /\ sent' # None =>
        /\ Validate(request) /\ Authenticated(request.headers)
        /\ Has(sent'.headers, "origin") <=> Has(request.headers, "origin")
        /\ request.headers["cookie"][1]["app"] # <<>> =>
             /\ Has(sent'.headers, "cookie")
             /\ sent'.headers["cookie"][1]["app"] = request.headers["cookie"][1]["app"]
<1>1. HeadAt /\ [Next]_exchangeVars => [Faithful]_exchangeVars
  <2> SUFFICES ASSUME HeadAt, Next, sent = None, sent' # None PROVE Faithful
    OBVIOUS
  <2>1. ForwardHttp \/ ForwardWebSocket
    BY SentFrame
  <2>2. /\ request \in Requests /\ Validate(request) /\ raw = RawAdmission(request)
        /\ Verdict(request, raw, consumed) \in {"http", "websocket"}
    BY <2>1 DEF HeadAt, ForwardHttp, ForwardWebSocket
  <2>3. request.headers = [n \in HeaderName |-> request.headers[n]]
    BY <2>2, HeadsAssumption
  <2>4. Authenticated(request.headers)
    BY <2>2, VerdictForwards
  <2>5. {"origin", "cookie"} \cap raw.connection_tokens = {}
    BY <2>2 DEF Validate, RawAdmission, ProtectedTarget
  <2>6. CASE ForwardHttp
    <3>1. sent'.headers = NormalizeHttpRequest(request, raw).headers
      BY <2>6 DEF ForwardHttp
    <3>2. sent'.headers["cookie"] = StripSession(request.headers)["cookie"]
      BY <2>3, <2>5, <3>1, NormalizedHttp
    <3>3. Has(sent'.headers, "origin") <=> Has(request.headers, "origin")
      BY <2>3, <2>5, <3>1, NormalizedHttp
    <3> QED BY <2>2, <2>3, <2>4, <3>2, <3>3, StripSessionKeeps DEF Has
  <2>7. CASE ForwardWebSocket
    <3>1. /\ sent'.headers = BuildUpstreamWebSocketRequest(request).headers
          /\ ValidateWebSocketRequest(request)
      BY <2>7 DEF ForwardWebSocket
    <3>2. /\ sent'.headers["cookie"] = StripSession(request.headers)["cookie"]
          /\ sent'.headers["origin"] = <<"upstream">>
      BY <3>1, BuiltWebSocket
    <3>3. request.headers["origin"] = <<"proxy">>
      BY <3>1 DEF ValidateWebSocketRequest, SingleExact
    <3>4. Has(sent'.headers, "origin") <=> Has(request.headers, "origin")
      BY <3>2, <3>3 DEF Has
    <3> QED BY <2>2, <2>3, <2>4, <3>2, <3>4, StripSessionKeeps DEF Has
  <2> QED BY <2>1, <2>6, <2>7
<1> QED BY <1>1, HeadAlways, PTL DEF Spec, ForwardedFaithfully

-------------------------------------------------------------------------------
(* Answers.                                                                   *)

LEMMA FixedCloses ==
  ASSUME NEW status
  PROVE  /\ SingleExact(FixedResponse(status).headers, "connection", <<"close">>)
         /\ SingleExact(BootstrapResponse.headers, "connection", <<"close">>)
BY DEF FixedResponse, BootstrapResponse, ClosingHeaders, NoHeaders, HeaderName, SingleExact

(* normalize_http_response inserts the header after it has stripped the       *)
(* upstream's, and nothing it does later touches it.                          *)
LEMMA NormalizedCloses ==
  ASSUME NEW method, NEW r
  PROVE  SingleExact(NormalizeHttpResponse(method, r).headers, "connection", <<"close">>)
<1> DEFINE bare == StripResponseHeaders(r.headers)
           closing == Insert(bare, "connection", <<"close">>)
           cookies == NormalizeSetCookies(closing)
           head == RewriteLocation(cookies)
<1>1. {"connection", "location"} \subseteq HeaderName
  BY DEF HeaderName
<1>2. closing["connection"] = <<<<"close">>>>
  BY <1>1 DEF StripResponseHeaders, Remove, Insert
<1> HIDE DEF closing
<1>3. /\ cookies = [n \in HeaderName |-> cookies[n]]
      /\ cookies["connection"] = closing["connection"]
  BY <1>1 DEF NormalizeSetCookies
<1> HIDE DEF cookies
<1>4. head["connection"] = cookies["connection"]
  BY <1>1, <1>3 DEF RewriteLocation, Insert
<1>5. NormalizedHeaders(method, r)["connection"] = ResponseHead(r)["connection"]
  BY <1>1 DEF NormalizedHeaders, StripDecodedRepresentationHeaders, Remove
<1>6. ResponseHead(r) = head
  BY DEF ResponseHead, cookies, closing
<1> QED BY <1>2, <1>3, <1>4, <1>5, <1>6 DEF NormalizeHttpResponse, SingleExact

(* The kinds of step, seen from the answer.                                   *)
LEMMA AnswerFrame ==
  ASSUME HeadAt, [Next]_exchangeVars
  PROVE  \/ answer' = None \/ UNCHANGED <<answer, asked>>
         \/ answer' = BootstrapResponse
         \/ \E status : answer' = FixedResponse(status)
         \/ UpstreamResponse
<1> USE DEF HeadAt, Answer, BadGateway
<1>1. CASE UNCHANGED exchangeVars
  BY <1>1 DEF exchangeVars
<1>2. CASE Accept \/ ReadPrefix \/ PrefixFails \/ Disconnect
  BY <1>2 DEF Accept, ReadPrefix, PrefixFails, Disconnect
<1>3. CASE AdmitRequest
  BY <1>3 DEF AdmitRequest
<1>4. CASE Bootstrap \/ Refuse
  BY <1>4 DEF Bootstrap, Refuse
<1>5. CASE ForwardHttp \/ ForwardWebSocket
  BY <1>5 DEF ForwardHttp, ForwardWebSocket
<1>6. CASE Forwarding
  BY <1>6 DEF Forwarding, ConnectUpstream, ConnectFails, PollUpload, UploadFails,
              UploadAborts, ResponseStarts,
              ReadResponseHead, ResponseHeadFails
<1>7. CASE Body
  BY <1>7 DEF Body, PollBody, PollDecoder, BodyEnds, NoBodyWritten, BrowserLeaves, CloseBody
<1>8. CASE Tunnelling
  BY <1>8 DEF Tunnelling, TunnelRead, TunnelWaits, TunnelEof, TunnelWrite, TunnelEnds,
              TunnelIdles, TunnelFails, Watch, KeepTunnelStage, CloseTunnel
<1>9. CASE Tick
  BY <1>9 DEF Tick
<1> QED BY <1>1, <1>2, <1>3, <1>4, <1>5, <1>6, <1>7, <1>8, <1>9 DEF Next, Reading, Handling

LEMMA UpstreamAnswerEnds ==
  ASSUME UpstreamResponse
  PROVE  AnswerEndsAdmission'
<1>1. PICK r \in Responses : HttpResponse(r) \/ SwitchResponse(r)
  BY DEF UpstreamResponse
<1>2. CASE \E status : answer' = FixedResponse(status)
  BY <1>2, FixedCloses DEF AnswerEndsAdmission
<1>3. CASE answer' = NormalizeHttpResponse(asked.method, r)
  BY <1>3, NormalizedCloses DEF AnswerEndsAdmission
<1>4. CASE /\ answer' = DownstreamWebSocketResponse(r) /\ asked' = asked /\ asked.websocket
           /\ ValidateWebSocketResponse(r, asked.protocols)
  <2>1. /\ answer'.kind = "switch"
        /\ answer'.headers["sec-websocket-protocol"] = r.headers["sec-websocket-protocol"]
    BY <1>4 DEF DownstreamWebSocketResponse, NoHeaders, HeaderName
  <2>2. r.headers["sec-websocket-protocol"] # <<>> =>
          r.headers["sec-websocket-protocol"][1] \in asked.protocols
    BY <1>4 DEF ValidateWebSocketResponse, Has
  <2> QED BY <1>4, <2>1, <2>2 DEF AnswerEndsAdmission, Has
<1>5. \/ \E status : answer' = FixedResponse(status)
      \/ answer' = NormalizeHttpResponse(asked.method, r)
      \/ /\ answer' = DownstreamWebSocketResponse(r) /\ asked' = asked /\ asked.websocket
         /\ ValidateWebSocketResponse(r, asked.protocols)
  <2>1. CASE HttpResponse(r)
    BY <2>1 DEF HttpResponse, BadGateway, Answer
  <2>2. CASE SwitchResponse(r)
    BY <2>2 DEF SwitchResponse, BadGateway, Answer
  <2> QED BY <1>1, <2>1, <2>2
<1> QED BY <1>2, <1>3, <1>4, <1>5

(* Every answer closes the connection or switches it to a tunnel that was     *)
(* asked for, so that raw admission never covers a second request.            *)
THEOREM AnswerEndsAdmissionAlways == Spec => []AnswerEndsAdmission
<1>1. Init => AnswerEndsAdmission
  BY DEF Init, AnswerEndsAdmission
<1>2. HeadAt /\ AnswerEndsAdmission /\ [Next]_exchangeVars => AnswerEndsAdmission'
  <2> SUFFICES ASSUME HeadAt, AnswerEndsAdmission, [Next]_exchangeVars
               PROVE  AnswerEndsAdmission'
    OBVIOUS
  <2>1. CASE answer' = None
    BY <2>1 DEF AnswerEndsAdmission
  <2>2. CASE UNCHANGED <<answer, asked>>
    BY <2>2 DEF AnswerEndsAdmission
  <2>3. CASE answer' = BootstrapResponse \/ \E status : answer' = FixedResponse(status)
    BY <2>3, FixedCloses DEF AnswerEndsAdmission
  <2> QED BY <2>1, <2>2, <2>3, AnswerFrame, UpstreamAnswerEnds
<1> QED BY <1>1, <1>2, HeadAlways, PTL DEF Spec

-------------------------------------------------------------------------------
(* The token bucket.                                                          *)

LEMMA CapacityNat ==
  Capacity \in Nat /\ Capacity >= TokenUnits /\ Rate * BurstWindow \in Nat
<1>1. Rate * BurstWindow \in Nat
  BY LimiterAssumption
<1> QED BY <1>1, LimiterAssumption DEF Capacity

(* What a reader is allowed, it can pay for.                                  *)
LEMMA AllowanceIsPaid ==
  ASSUME NEW available \in Nat, NEW n \in Nat, n <= Allowance(available)
  PROVE  /\ n * TokenUnits \in Nat /\ n * TokenUnits <= available
         /\ Consume(available, n) = available - n * TokenUnits
<1> DEFINE whole == available \div TokenUnits
<1>1. whole \in Nat /\ whole * TokenUnits <= available
  BY LimiterAssumption
<1>2. n <= whole
  BY DEF Allowance
<1> HIDE DEF whole
<1>3. n * TokenUnits <= whole * TokenUnits /\ n * TokenUnits \in Nat
  BY <1>1, <1>2, LimiterAssumption
<1>4. whole * TokenUnits \in Nat
  BY <1>1, LimiterAssumption
<1>5. n * TokenUnits <= available
  BY <1>1, <1>3, <1>4
<1> QED BY <1>3, <1>5 DEF Consume

LEMMA RefillBounds ==
  ASSUME NEW available \in 0 .. Capacity
  PROVE  Refill(available) \in 0 .. Capacity /\ Refill(available) <= available + Rate
BY CapacityNat, LimiterAssumption DEF Refill

(* While a window is watched, the tokens left and the tokens spent since its  *)
(* start are never more than the bucket held and the clock brought.           *)
BucketAt ==
  stage = "tunnel" =>
    /\ tunnel \in Tunnel
    /\ tunnel.probe >= 0 =>
         tunnel.available["browser"] + tunnel.read * TokenUnits <= Capacity + Rate * tunnel.probe

LEMMA NewTunnelBucket == NewTunnel \in Tunnel /\ NewTunnel.probe = -1
BY CapacityNat, ExchangeAssumption DEF NewTunnel, Tunnel

LEMMA ReadKeepsBucket ==
  ASSUME BucketAt, NEW s \in Side, TunnelRead(s)
  PROVE  BucketAt'
<1>1. stage = "tunnel" /\ stage' = "tunnel" /\ tunnel \in Tunnel
  BY DEF BucketAt, TunnelRead, KeepTunnelStage
<1> DEFINE a == tunnel.available[s]
<1>2. PICK n \in 1 .. Allowance(a) :
        /\ n <= tunnel.left[s] /\ n <= CopyBuffer - tunnel.buffered[s]
        /\ tunnel' = [tunnel EXCEPT
             !.available[s] = Consume(@, n), !.left[s] = @ - n, !.buffered[s] = @ + n,
             !.wake[s] = -1, !.idle = TunnelIdle,
             !.read = IF tunnel.probe >= 0 /\ s = "browser" THEN @ + n ELSE @]
  BY DEF TunnelRead
<1>3. a \in 0 .. Capacity /\ tunnel.left[s] \in 0 .. Backlog /\ tunnel.buffered[s] \in 0 .. CopyBuffer
  BY <1>1 DEF Tunnel
<1>4. a \in Nat /\ n \in Nat /\ n <= Allowance(a)
  BY <1>2, <1>3, CapacityNat, LimiterAssumption DEF Allowance
<1>5. /\ n * TokenUnits \in Nat /\ n * TokenUnits <= a
      /\ Consume(a, n) = a - n * TokenUnits
  BY <1>4, AllowanceIsPaid
<1>6. Consume(a, n) \in 0 .. Capacity
  BY <1>3, <1>5, CapacityNat
<1>7. tunnel.left[s] - n \in 0 .. Backlog /\ tunnel.buffered[s] + n \in 0 .. CopyBuffer
  BY <1>2, <1>3, <1>4, ExchangeAssumption
<1>8. /\ tunnel'.available = [tunnel.available EXCEPT ![s] = Consume(a, n)]
      /\ tunnel'.left = [tunnel.left EXCEPT ![s] = tunnel.left[s] - n]
      /\ tunnel'.buffered = [tunnel.buffered EXCEPT ![s] = tunnel.buffered[s] + n]
      /\ tunnel'.read = IF tunnel.probe >= 0 /\ s = "browser" THEN tunnel.read + n ELSE tunnel.read
      /\ tunnel'.probe = tunnel.probe
  BY <1>1, <1>2 DEF Tunnel
<1>9. tunnel' \in Tunnel
  <2>1. /\ tunnel'.available \in [Side -> 0 .. Capacity]
        /\ tunnel'.left \in [Side -> 0 .. Backlog]
        /\ tunnel'.buffered \in [Side -> 0 .. CopyBuffer]
    BY <1>1, <1>6, <1>7, <1>8 DEF Tunnel
  <2>2. /\ tunnel.read \in Nat /\ tunnel.wake \in [Side -> Int] /\ TunnelIdle \in 0 .. TunnelIdle
    BY <1>1, ExchangeAssumption DEF Tunnel
  <2>3. tunnel'.read \in Nat
    BY <1>4, <1>8, <2>2
  <2>4. [tunnel.wake EXCEPT ![s] = -1] \in [Side -> Int]
    BY <2>2
  <2>5. tunnel' = [tunnel EXCEPT
           !.available = tunnel'.available, !.left = tunnel'.left,
           !.buffered = tunnel'.buffered, !.wake = [tunnel.wake EXCEPT ![s] = -1],
           !.idle = TunnelIdle, !.read = tunnel'.read]
    BY <1>1, <1>2 DEF Tunnel
  <2> QED BY <1>1, <2>1, <2>2, <2>3, <2>4, <2>5 DEF Tunnel
<1>10. ASSUME tunnel.probe >= 0
       PROVE  tunnel'.available["browser"] + tunnel'.read * TokenUnits
                <= Capacity + Rate * tunnel.probe
  <2>1. tunnel.available["browser"] + tunnel.read * TokenUnits <= Capacity + Rate * tunnel.probe
    BY <1>1, <1>10 DEF BucketAt
  <2>2. /\ tunnel.read \in Nat /\ tunnel.available["browser"] \in Nat
        /\ tunnel.available \in [Side -> 0 .. Capacity] /\ tunnel.probe \in Int
    BY <1>1, CapacityNat DEF Tunnel, Side
  <2>3. CASE s = "browser"
    <3>1. tunnel'.read = tunnel.read + n /\ tunnel'.available["browser"] = a - n * TokenUnits
      BY <1>5, <1>8, <1>10, <2>2, <2>3
    <3>2. (tunnel.read + n) * TokenUnits = tunnel.read * TokenUnits + n * TokenUnits
      BY <1>4, <2>2, LimiterAssumption
    <3>3. tunnel.read * TokenUnits \in Nat /\ Rate * tunnel.probe \in Int
      BY <2>2, LimiterAssumption
    <3> QED BY <1>4, <1>5, <2>1, <2>2, <2>3, <3>1, <3>2, <3>3, CapacityNat
  <2>4. CASE s # "browser"
    BY <1>8, <2>1, <2>2, <2>4
  <2> QED BY <2>3, <2>4
<1> QED BY <1>1, <1>8, <1>9, <1>10 DEF BucketAt

LEMMA TickKeepsBucket ==
  ASSUME BucketAt, stage = "tunnel", Tick
  PROVE  BucketAt'
<1>1. stage' = "tunnel" /\ tunnel \in Tunnel /\ tunnel' = TickTunnel(tunnel)
  BY DEF BucketAt, Tick
<1>2. /\ tunnel'.available = [s \in Side |-> Refill(tunnel.available[s])]
      /\ tunnel'.probe = IF tunnel.probe = -1 \/ tunnel.probe = ProbeTicks THEN -1
                         ELSE tunnel.probe + 1
      /\ tunnel'.read = IF tunnel.probe = ProbeTicks THEN 0 ELSE tunnel.read
  BY <1>1 DEF TickTunnel, Tunnel
<1>3. \A s \in Side : /\ Refill(tunnel.available[s]) \in 0 .. Capacity
                      /\ Refill(tunnel.available[s]) <= tunnel.available[s] + Rate
  BY <1>1, RefillBounds DEF Tunnel
<1>4. /\ tunnel.probe \in -1 .. ProbeTicks /\ tunnel.read \in Nat /\ ProbeTicks \in Nat
      /\ tunnel.available["browser"] \in 0 .. Capacity /\ tunnel.idle \in 0 .. TunnelIdle
      /\ tunnel.wake \in [Side -> Int] /\ TunnelIdle \in Nat
  BY <1>1, ExchangeAssumption DEF Tunnel, Side
<1>5. Elapse(tunnel.idle) \in 0 .. TunnelIdle
  BY <1>4 DEF Elapse
<1>6. [s \in Side |-> IF tunnel.wake[s] > 0 THEN tunnel.wake[s] - 1 ELSE tunnel.wake[s]]
        \in [Side -> Int]
  BY <1>4
<1>7. tunnel'.probe \in -1 .. ProbeTicks /\ tunnel'.read \in Nat
  BY <1>2, <1>4
<1>8. [s \in Side |-> Refill(tunnel.available[s])] \in [Side -> 0 .. Capacity]
  BY <1>3
<1>9. tunnel' \in Tunnel
  BY <1>1, <1>2, <1>5, <1>6, <1>7, <1>8 DEF TickTunnel, Tunnel
<1>10. ASSUME tunnel'.probe >= 0
       PROVE  tunnel'.available["browser"] + tunnel'.read * TokenUnits
                <= Capacity + Rate * tunnel'.probe
  <2>1. /\ tunnel.probe >= 0 /\ tunnel'.probe = tunnel.probe + 1 /\ tunnel'.read = tunnel.read
    BY <1>2, <1>4, <1>10
  <2>2. tunnel.available["browser"] + tunnel.read * TokenUnits <= Capacity + Rate * tunnel.probe
    BY <2>1 DEF BucketAt
  <2>3. Rate * (tunnel.probe + 1) = Rate * tunnel.probe + Rate
    BY <1>4, LimiterAssumption
  <2>4. /\ tunnel.read * TokenUnits \in Nat /\ Rate * tunnel.probe \in Int
    BY <1>4, LimiterAssumption
  <2>5. /\ tunnel'.available["browser"] \in 0 .. Capacity
        /\ tunnel'.available["browser"] <= tunnel.available["browser"] + Rate
    BY <1>2, <1>3 DEF Side
  <2> QED BY <1>4, <2>1, <2>2, <2>3, <2>4, <2>5, CapacityNat, LimiterAssumption
<1> QED BY <1>1, <1>9, <1>10 DEF BucketAt

(* The other steps of a tunnel spend no tokens.                               *)
LEMMA OtherTunnelSteps ==
  ASSUME BucketAt, NEW s \in Side,
         TunnelWaits(s) \/ TunnelEof(s) \/ TunnelWrite(s) \/ Watch
  PROVE  BucketAt'
<1>1. stage = "tunnel" /\ stage' = "tunnel" /\ tunnel \in Tunnel
  BY DEF BucketAt, TunnelWaits, TunnelEof, TunnelWrite, Watch, KeepTunnelStage
<1>2. CASE TunnelWaits(s)
  <2>1. WaitTicks(tunnel.available[s]) \in Int
    BY <1>1, CapacityNat, LimiterAssumption DEF WaitTicks, Tunnel
  <2>2. tunnel' = [tunnel EXCEPT !.wake[s] = WaitTicks(tunnel.available[s])]
    BY <1>2 DEF TunnelWaits
  <2> QED BY <1>1, <2>1, <2>2 DEF BucketAt, Tunnel
<1>3. CASE TunnelEof(s)
  <2>1. tunnel' = [tunnel EXCEPT !.eof[s] = TRUE, !.wake[s] = -1]
    BY <1>3 DEF TunnelEof
  <2>2. tunnel' \in Tunnel
    <3> DEFINE ended == [tunnel.eof EXCEPT ![s] = TRUE]
               wakes == [tunnel.wake EXCEPT ![s] = -1]
    <3>1. tunnel.eof \in [Side -> BOOLEAN] /\ tunnel.wake \in [Side -> Int]
      BY <1>1 DEF Tunnel
    <3>2. ended \in [Side -> BOOLEAN]
      BY <3>1, Zenon
    <3>3. wakes \in [Side -> Int]
      BY <3>1
    <3>4. tunnel' = [tunnel EXCEPT !.eof = ended, !.wake = wakes]
      BY <1>1, <2>1 DEF Tunnel
    <3> HIDE DEF ended, wakes
    <3> QED BY <1>1, <3>2, <3>3, <3>4 DEF Tunnel
  <2>3. /\ tunnel'.available = tunnel.available /\ tunnel'.read = tunnel.read
        /\ tunnel'.probe = tunnel.probe
    BY <1>1, <2>1 DEF Tunnel
  <2> QED BY <1>1, <2>2, <2>3 DEF BucketAt
<1>4. CASE TunnelWrite(s)
  <2>1. PICK n \in 1 .. tunnel.buffered[s] :
          tunnel' = [tunnel EXCEPT !.buffered[s] = @ - n, !.idle = TunnelIdle]
    BY <1>4 DEF TunnelWrite
  <2>2. tunnel.buffered[s] - n \in 0 .. CopyBuffer /\ TunnelIdle \in 0 .. TunnelIdle
    BY <1>1, <2>1, ExchangeAssumption DEF Tunnel
  <2>3. tunnel' \in Tunnel
    BY <1>1, <2>1, <2>2 DEF Tunnel
  <2>4. /\ tunnel'.available = tunnel.available /\ tunnel'.read = tunnel.read
        /\ tunnel'.probe = tunnel.probe
    BY <1>1, <2>1 DEF Tunnel
  <2> QED BY <1>1, <2>3, <2>4 DEF BucketAt
<1>5. CASE Watch
  <2>1. tunnel' = [tunnel EXCEPT !.probe = 0, !.read = 0]
    BY <1>5 DEF Watch
  <2>2. tunnel' \in Tunnel
    <3>1. 0 \in -1 .. ProbeTicks /\ 0 \in Nat
      BY ExchangeAssumption
    <3> QED BY <1>1, <2>1, <3>1 DEF Tunnel
  <2>3. /\ tunnel'.available["browser"] \in 0 .. Capacity /\ tunnel'.read = 0
        /\ tunnel'.probe = 0
    BY <1>1, <2>1 DEF Tunnel, Side
  <2>4. 0 * TokenUnits = 0 /\ Rate * 0 = 0
    BY LimiterAssumption
  <2> QED BY <1>1, <2>2, <2>3, <2>4, CapacityNat DEF BucketAt
<1> QED BY <1>2, <1>3, <1>4, <1>5

(* Any step but those starts no tunnel, or starts a fresh one.                *)
LEMMA OutsideTunnel ==
  ASSUME BucketAt, [Next]_exchangeVars,
         ~(Tick /\ stage = "tunnel"), ~Watch,
         \A s \in Side : ~TunnelRead(s) /\ ~TunnelWaits(s) /\ ~TunnelEof(s) /\ ~TunnelWrite(s)
  PROVE  BucketAt'
<1>1. CASE UNCHANGED exchangeVars
  BY <1>1 DEF exchangeVars, BucketAt
<1>2. CASE UpstreamResponse
  <2>1. PICK r \in Responses : HttpResponse(r) \/ SwitchResponse(r)
    BY <1>2 DEF UpstreamResponse
  <2>2. stage' # "tunnel" \/ tunnel' = NewTunnel
    <3>1. CASE HttpResponse(r)
      BY <3>1 DEF HttpResponse, BadGateway, Answer
    <3>2. CASE SwitchResponse(r)
      BY <3>2 DEF SwitchResponse, BadGateway, Answer
    <3> QED BY <2>1, <3>1, <3>2
  <2>3. NewTunnel \in Tunnel /\ ~(NewTunnel.probe >= 0)
    BY NewTunnelBucket
  <2> QED BY <2>2, <2>3 DEF BucketAt
<1>3. CASE stage' # "tunnel"
  BY <1>3 DEF BucketAt
<1>4. stage' # "tunnel" \/ UpstreamResponse \/ UNCHANGED exchangeVars
  <2>1. CASE Reading
    BY <2>1 DEF Reading, Accept, ReadPrefix, PrefixFails, AdmitRequest, Disconnect, Answer
  <2>2. CASE Handling
    BY <2>2 DEF Handling, Bootstrap, Refuse, ForwardHttp, ForwardWebSocket, ToUpstream,
                BadGateway, Answer
  <2>3. CASE Forwarding
    BY <2>3 DEF Forwarding, ConnectUpstream, ConnectFails, Uploading, PollUpload, UploadFails,
                UploadAborts, ResponseStarts, ReadResponseHead, ResponseHeadFails, BadGateway,
                Answer
  <2>4. CASE Body
    BY <2>4 DEF Body, PollBody, PollDecoder, BodyEnds, NoBodyWritten, BrowserLeaves, CloseBody
  <2>5. CASE Tunnelling
    BY <2>5 DEF Tunnelling, TunnelEnds, TunnelIdles, TunnelFails, CloseTunnel
  <2>6. CASE Tick
    BY <2>6 DEF Tick
  <2> QED BY <2>1, <2>2, <2>3, <2>4, <2>5, <2>6 DEF Next
<1> QED BY <1>1, <1>2, <1>3, <1>4

(* In a window of any length, begun at any moment, a tunnel direction reads   *)
(* no more than its burst and the rate's share of the time.                   *)
THEOREM RateBoundAlways == Spec => []RateBound
<1>1. Init => BucketAt
  BY DEF Init, BucketAt
<1>2. BucketAt /\ [Next]_exchangeVars => BucketAt'
  BY ReadKeepsBucket, TickKeepsBucket, OtherTunnelSteps, OutsideTunnel DEF Side
<1>3. BucketAt => RateBound
  <2> SUFFICES ASSUME BucketAt, stage = "tunnel", tunnel.probe >= 0
               PROVE  tunnel.read * TokenUnits <= Capacity + Rate * tunnel.probe
    BY DEF RateBound
  <2>1. /\ tunnel.available["browser"] \in Nat /\ tunnel.read \in Nat /\ tunnel.probe \in Int
    BY CapacityNat DEF BucketAt, Tunnel, Side
  <2>2. tunnel.read * TokenUnits \in Nat /\ Rate * tunnel.probe \in Int
    BY <2>1, LimiterAssumption
  <2> QED BY <2>1, <2>2, CapacityNat DEF BucketAt
<1> QED BY <1>1, <1>2, <1>3, PTL DEF Spec
===============================================================================
