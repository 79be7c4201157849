-------------------------- MODULE ExchangePromises ---------------------------
(***************************************************************************)
(* What the transport promises of an exchange once its request is forwarded: *)
(* the head and the body the browser gets, and a tunnel that shaping does    *)
(* not starve.  For all heads, limits, rates and any number of connections.  *)
(***************************************************************************)
EXTENDS ExchangeProofs

(* normalize_http_response, header by header.                                 *)
LEMMA NormalizedHead ==
  ASSUME NEW method, NEW r, NEW h, h = NormalizeHttpResponse(method, r).headers
  PROVE  /\ h["set-cookie"] \in
              {<<>>, [i \in DOMAIN r.headers["set-cookie"] |->
                        NormalizeSetCookie(r.headers["set-cookie"][i])]}
         /\ h["location"] # <<"upstream">>
         /\ \A n \in (HopByHop \ {"connection"}) \cup {"shiny-shared-secret"} : h[n] = <<>>
         /\ h["content-length"] \in {<<>>, r.headers["content-length"]}
         /\ Encoded(r.headers) /\ ~BodyForbidden(method, r.status) => h["content-length"] = <<>>
<1> DEFINE stripped == HopByHop \cup {"shiny-shared-secret", "x-rpackit-bootstrap"}
                         \cup Nominated(Tokens(r.headers))
           bare == StripResponseHeaders(r.headers)
           closing == Insert(bare, "connection", <<"close">>)
           cookies == NormalizeSetCookies(closing)
           head == RewriteLocation(cookies)
<1>1. {"connection", "location", "set-cookie", "content-length", "shiny-shared-secret"}
        \cup HopByHop \subseteq HeaderName
  BY DEF HeaderName, HopByHop
<1>2. bare = [n \in HeaderName |-> IF n \in stripped THEN <<>> ELSE r.headers[n]]
  BY DEF StripResponseHeaders, Remove
<1>3. \A n \in HopByHop \cup {"shiny-shared-secret"} : n \in stripped
  OBVIOUS
<1> HIDE DEF stripped
<1>4. /\ \A n \in HeaderName : bare[n] \in {<<>>, r.headers[n]}
      /\ \A n \in HopByHop \cup {"shiny-shared-secret"} : bare[n] = <<>>
  BY <1>1, <1>2, <1>3
<1>5. /\ closing = [n \in HeaderName |-> closing[n]]
      /\ \A n \in HeaderName \ {"connection"} : closing[n] = bare[n]
  BY <1>1, <1>2 DEF Insert
<1> HIDE DEF bare, closing
<1>6. /\ cookies = [n \in HeaderName |-> cookies[n]]
      /\ \A n \in HeaderName \ {"set-cookie"} : cookies[n] = closing[n]
      /\ cookies["set-cookie"] = [i \in DOMAIN closing["set-cookie"] |->
                                    NormalizeSetCookie(closing["set-cookie"][i])]
  BY <1>1 DEF NormalizeSetCookies
<1> HIDE DEF cookies
<1>7. /\ \A n \in HeaderName \ {"location"} : head[n] = cookies[n]
      /\ head["location"] # <<"upstream">>
  <2>1. CASE cookies["location"] = <<"upstream">>
    <3>1. head = [cookies EXCEPT !["location"] = <<"proxy">>]
      BY <2>1 DEF RewriteLocation, Insert
    <3>2. head["location"] = <<"proxy">>
      BY <1>1, <1>6, <3>1
    <3>3. <<"proxy">> # <<"upstream">>
      OBVIOUS
    <3> QED BY <1>6, <3>1, <3>2, <3>3
  <2>2. CASE cookies["location"] # <<"upstream">>
    BY <2>2 DEF RewriteLocation
  <2> QED BY <2>1, <2>2
<1>8. h = NormalizedHeaders(method, r) /\ ResponseHead(r) = head
  BY DEF NormalizeHttpResponse, ResponseHead, cookies, closing, bare
<1> HIDE DEF head
<1>9. \A n \in HeaderName : h[n] \in {<<>>, head[n]}
  BY <1>8 DEF NormalizedHeaders, StripDecodedRepresentationHeaders, Remove
<1>10. Encoded(r.headers) /\ ~BodyForbidden(method, r.status) => h["content-length"] = <<>>
  BY <1>1, <1>8 DEF NormalizedHeaders, StripDecodedRepresentationHeaders, Remove
<1>11. h["location"] # <<"upstream">>
  BY <1>1, <1>7, <1>9
<1>12. \A n \in (HopByHop \ {"connection"}) \cup {"shiny-shared-secret"} : h[n] = <<>>
  <2> SUFFICES ASSUME NEW n \in (HopByHop \ {"connection"}) \cup {"shiny-shared-secret"}
               PROVE  h[n] = <<>>
    OBVIOUS
  <2>1. n \in HeaderName \ {"connection", "set-cookie", "location"}
    BY DEF HeaderName, HopByHop
  <2>2. head[n] = bare[n] /\ bare[n] = <<>>
    BY <1>4, <1>5, <1>6, <1>7, <2>1
  <2> QED BY <1>9, <2>1, <2>2
<1>13. h["content-length"] \in {<<>>, r.headers["content-length"]}
  BY <1>1, <1>4, <1>5, <1>6, <1>7, <1>9
<1>14. h["set-cookie"] \in {<<>>, [i \in DOMAIN r.headers["set-cookie"] |->
                                     NormalizeSetCookie(r.headers["set-cookie"][i])]}
  <2>1. closing["set-cookie"] \in {<<>>, r.headers["set-cookie"]}
    BY <1>1, <1>4, <1>5
  <2>2. h["set-cookie"] \in {<<>>, cookies["set-cookie"]}
    BY <1>1, <1>7, <1>9
  <2>3. CASE closing["set-cookie"] = <<>>
    <3>1. cookies["set-cookie"] = <<>>
      BY <1>6, <2>3
    <3> QED BY <2>2, <3>1
  <2>4. CASE closing["set-cookie"] = r.headers["set-cookie"]
    BY <1>6, <2>2, <2>4
  <2> QED BY <2>1, <2>3, <2>4
<1> QED BY <1>10, <1>11, <1>12, <1>13, <1>14

LEMMA AcceptedHeadSafe ==
  ASSUME NEW method, NEW r, ResponseAccepted(method, r),
         NEW h, h = NormalizeHttpResponse(method, r).headers
  PROVE  /\ \A i \in DOMAIN h["set-cookie"] :
              h["set-cookie"][i].name \notin ReservedName /\ h["set-cookie"][i].domain = "none"
         /\ h["location"] # <<"upstream">>
         /\ \A n \in HopByHop \ {"connection"} : ~Has(h, n)
         /\ ~Has(h, "shiny-shared-secret")
<1>1. CASE h["set-cookie"] = <<>>
  BY <1>1, NormalizedHead DEF Has
<1>2. CASE h["set-cookie"] = [i \in DOMAIN r.headers["set-cookie"] |->
                                NormalizeSetCookie(r.headers["set-cookie"][i])]
  <2> SUFFICES ASSUME NEW i \in DOMAIN h["set-cookie"]
               PROVE  /\ h["set-cookie"][i].name \notin ReservedName
                      /\ h["set-cookie"][i].domain = "none"
    BY NormalizedHead DEF Has
  <2>1. i \in DOMAIN r.headers["set-cookie"]
    BY <1>2
  <2>2. r.headers["set-cookie"][i].name \notin ReservedName
    BY <2>1 DEF ResponseAccepted, SetCookieValid
  <2> QED BY <1>2, <2>1, <2>2 DEF NormalizeSetCookie
<1> QED BY <1>1, <1>2, NormalizedHead

(***************************************************************************)
(* Whatever head the upstream sends, the browser gets none that sets a       *)
(* cookie under the session's name or for the upstream's host, redirects to  *)
(* the upstream, or carries a hop-by-hop header or the secret.               *)
(***************************************************************************)
THEOREM BrowserHeadSafeAlways == Spec => []BrowserHeadSafe
<1>1. Init => BrowserHeadSafe
  BY DEF Init, BrowserHeadSafe
<1>2. HeadAt /\ BrowserHeadSafe /\ [Next]_exchangeVars => BrowserHeadSafe'
  <2> SUFFICES ASSUME HeadAt, BrowserHeadSafe, [Next]_exchangeVars PROVE BrowserHeadSafe'
    OBVIOUS
  <2>1. CASE answer' = None
    BY <2>1 DEF BrowserHeadSafe
  <2>2. CASE UNCHANGED <<answer, asked>>
    BY <2>2 DEF BrowserHeadSafe
  <2>3. CASE answer' = BootstrapResponse \/ \E status : answer' = FixedResponse(status)
    <3>1. answer'.kind # "upstream"
      BY <2>3 DEF BootstrapResponse, FixedResponse
    <3> QED BY <3>1 DEF BrowserHeadSafe
  <2>4. CASE UpstreamResponse
    <3>1. PICK r \in Responses : HttpResponse(r) \/ SwitchResponse(r)
      BY <2>4 DEF UpstreamResponse
    <3>2. \/ \E status : answer' = FixedResponse(status)
          \/ /\ answer' = NormalizeHttpResponse(asked.method, r)
             /\ ResponseAccepted(asked.method, r)
          \/ answer' = DownstreamWebSocketResponse(r)
      <4>1. CASE HttpResponse(r)
        BY <4>1 DEF HttpResponse, BadGateway, Answer
      <4>2. CASE SwitchResponse(r)
        BY <4>2 DEF SwitchResponse, BadGateway, Answer
      <4> QED BY <3>1, <4>1, <4>2
    <3>3. CASE answer' = DownstreamWebSocketResponse(r)
      <4>1. answer'.kind # "upstream"
        BY <3>3 DEF DownstreamWebSocketResponse
      <4> QED BY <4>1 DEF BrowserHeadSafe
    <3>4. CASE answer' = NormalizeHttpResponse(asked.method, r) /\ ResponseAccepted(asked.method, r)
      BY <3>4, AcceptedHeadSafe DEF BrowserHeadSafe
    <3> QED BY <2>3, <3>2, <3>3, <3>4
  <2> QED BY <2>1, <2>2, <2>3, <2>4, AnswerFrame
<1> QED BY <1>1, <1>2, HeadAlways, PTL DEF Spec

-------------------------------------------------------------------------------
(* The request body's guard, from the moment the request is forwarded.  The   *)
(* bytes of a rate window are among those forwarded, which the limit binds.    *)
UploadAt ==
  upload # None => upload \in RequestGuard /\ upload.window <= upload.forwarded

LEMMA NewUpload ==
  ASSUME NEW g, g = NewRequestGuard(MaxRequestBody)
  PROVE  g \in RequestGuard /\ g.window <= g.forwarded
BY GuardAssumption, ExchangeAssumption DEF NewRequestGuard, RequestGuard

LEMMA PolledUpload ==
  ASSUME NEW g \in RequestGuard, g.window <= g.forwarded, NEW f \in Frame
  PROVE  LET next == PollRequest(g, f)
         IN  next \in RequestGuard /\ next.window <= next.forwarded
<1> DEFINE next == PollRequest(g, f)
           open == NextWindow(g)
<1>1. /\ open \in RequestGuard /\ open.window <= open.forwarded
      /\ open.forwarded = g.forwarded /\ open.limit = g.limit
  <2>1. CASE g.rate = 0
    <3>1. open = [g EXCEPT !.window = 0, !.rate = RateWindow]
      BY <2>1 DEF NextWindow
    <3>2. 0 \in 0 .. MaxRequestBody /\ RateWindow \in 0 .. RateWindow
      BY GuardAssumption, ExchangeAssumption
    <3>3. g.forwarded \in 0 .. MaxRequestBody
      BY DEF RequestGuard
    <3> HIDE DEF open
    <3>4. open \in RequestGuard
      BY <3>1, <3>2 DEF RequestGuard
    <3>5. open.window = 0 /\ open.forwarded = g.forwarded /\ open.limit = g.limit
      BY <3>1 DEF RequestGuard
    <3> QED BY <3>3, <3>4, <3>5, ExchangeAssumption
  <2>2. CASE g.rate # 0
    BY <2>2 DEF NextWindow
  <2> QED BY <2>1, <2>2
<1>2. /\ Failed(g) \in RequestGuard /\ Failed(g).window = g.window
      /\ Failed(g).forwarded = g.forwarded
  BY DEF Failed, RequestGuard
<1>3. CASE next = Failed(g)
  BY <1>2, <1>3
<1>4. CASE next = g
  BY <1>4
<1>5. CASE next = open
  BY <1>1, <1>5
<1> HIDE DEF open
<1>6. CASE next = [open EXCEPT !.end = "complete"]
  BY <1>1, <1>6 DEF RequestGuard
<1>7. CASE next = AcceptData(open, f.bytes) /\ g.forwarded + f.bytes <= g.limit /\ f.kind = "data"
  <2>1. f.bytes \in Nat
    BY <1>7, GuardAssumption DEF Frame
  <2>2. /\ open.forwarded \in Nat /\ open.window \in Nat /\ open.limit = MaxRequestBody
        /\ MaxRequestBody \in Nat /\ IdleTimeout \in 0 .. IdleTimeout /\ open.idle \in 0 .. IdleTimeout
    BY <1>1, GuardAssumption, ExchangeAssumption DEF RequestGuard
  <2>3. /\ open.forwarded + f.bytes \in 0 .. MaxRequestBody
        /\ open.window + f.bytes \in 0 .. MaxRequestBody
        /\ open.window + f.bytes <= open.forwarded + f.bytes
    BY <1>1, <1>7, <2>1, <2>2
  <2>4. next = [open EXCEPT !.forwarded = open.forwarded + f.bytes,
                            !.window = open.window + f.bytes,
                            !.idle = IF f.bytes > 0 THEN IdleTimeout ELSE open.idle]
    BY <1>1, <1>7 DEF AcceptData, RequestGuard
  <2> HIDE DEF next
  <2>5. next \in RequestGuard /\ next.window = open.window + f.bytes
        /\ next.forwarded = open.forwarded + f.bytes
    BY <1>1, <2>2, <2>3, <2>4 DEF RequestGuard
  <2> QED BY <2>3, <2>5 DEF next
<1>8. \/ next = Failed(g) \/ next = g \/ next = open \/ next = [open EXCEPT !.end = "complete"]
      \/ next = AcceptData(open, f.bytes) /\ g.forwarded + f.bytes <= g.limit /\ f.kind = "data"
  BY DEF PollRequest, open
<1> QED BY <1>3, <1>4, <1>5, <1>6, <1>7, <1>8

LEMMA TickedUpload ==
  ASSUME NEW g \in RequestGuard
  PROVE  /\ TickRequest(g) \in RequestGuard
         /\ TickRequest(g).window = g.window /\ TickRequest(g).forwarded = g.forwarded
<1>1. /\ g.idle \in 0 .. IdleTimeout /\ g.total \in 0 .. TotalTimeout /\ g.rate \in 0 .. RateWindow
  BY DEF RequestGuard
<1>2. /\ Elapse(g.idle) \in 0 .. IdleTimeout /\ Elapse(g.total) \in 0 .. TotalTimeout
      /\ Elapse(g.rate) \in 0 .. RateWindow
  BY <1>1, GuardAssumption DEF Elapse
<1> QED BY <1>2 DEF TickRequest, RequestGuard

LEMMA UploadStep == UploadAt /\ [Next]_exchangeVars => UploadAt'
<1> SUFFICES ASSUME UploadAt, [Next]_exchangeVars PROVE UploadAt' OBVIOUS
<1> USE DEF UploadAt
<1>1. CASE UNCHANGED exchangeVars
  BY <1>1 DEF exchangeVars
<1>2. CASE Reading
  BY <1>2 DEF Reading, Accept, ReadPrefix, PrefixFails, AdmitRequest, Disconnect, Answer
<1>3. CASE Bootstrap \/ Refuse
  BY <1>3 DEF Bootstrap, Refuse, Answer
<1>4. CASE ForwardHttp
  BY <1>4, NewUpload DEF ForwardHttp
<1>5. CASE ForwardWebSocket
  BY <1>5 DEF ForwardWebSocket
<1>6. CASE ConnectUpstream \/ ConnectFails \/ UploadFails \/ UploadAborts \/ ResponseHeadFails
           \/ ResponseStarts \/ ReadResponseHead
  BY <1>6 DEF ConnectUpstream, ConnectFails, UploadFails, UploadAborts, ResponseHeadFails,
              ResponseStarts, ReadResponseHead
<1>7. CASE PollUpload
  <2>1. PICK f \in Frame : upload' = Unfinished(PollRequest(upload, f))
    BY <1>7 DEF PollUpload
  <2>2. upload # None
    BY <1>7 DEF PollUpload, Uploading
  <2>3. upload' = None \/ upload' = PollRequest(upload, f)
    BY <2>1 DEF Unfinished
  <2> QED BY <2>2, <2>3, PolledUpload
<1>8. CASE UpstreamResponse
  <2>1. PICK r \in Responses : HttpResponse(r) \/ SwitchResponse(r)
    BY <1>8 DEF UpstreamResponse
  <2>2. upload' \in {None, upload}
    BY <2>1 DEF HttpResponse, SwitchResponse
  <2> QED BY <2>2
<1>9. CASE Body
  BY <1>9 DEF Body, PollBody, PollDecoder, BodyEnds, NoBodyWritten, BrowserLeaves, CloseBody
<1>10. CASE Tunnelling
  BY <1>10 DEF Tunnelling, TunnelRead, TunnelWaits, TunnelEof, TunnelWrite, TunnelEnds,
               TunnelIdles, TunnelFails, Watch, KeepTunnelStage, CloseTunnel
<1>11. CASE Tick
  <2>1. (upload # None /\ upload' = TickRequest(upload)) \/ upload' = upload
    BY <1>11 DEF Tick, Uploading
  <2> QED BY <2>1, TickedUpload
<1> QED BY <1>1, <1>2, <1>3, <1>4, <1>5, <1>6, <1>7, <1>8, <1>9, <1>10, <1>11
        DEF Next, Handling, Forwarding
(* The counters, and the bytes read of a head.                                *)
CountsAt ==
  /\ stage \in {"listening", "prefix", "handle", "connect", "exchange", "body", "tunnel", "closed"}
  /\ timer \in Nat /\ got \in 0 .. MaxHeaderBytes
  /\ issued \in Nat

LEMMA ReadHeadBounded ==
  ASSUME got \in 0 .. MaxHeaderBytes, ReadHead
  PROVE  got' \in 0 .. MaxHeaderBytes
<1>1. PICK n \in 1 .. MaxChunk : got' = IF got + n > MaxHeaderBytes THEN MaxHeaderBytes ELSE got + n
  BY DEF ReadHead
<1> QED BY <1>1, ExchangeAssumption

LEMMA CountsStep == CountsAt /\ [Next]_exchangeVars => CountsAt'
<1> SUFFICES ASSUME CountsAt, [Next]_exchangeVars PROVE CountsAt' OBVIOUS
<1> USE DEF CountsAt
<1>0. 0 \in 0 .. MaxHeaderBytes /\ HeaderTimeout \in Nat /\ UpstreamTimeout \in Nat
  BY ExchangeAssumption
<1>1. CASE UNCHANGED exchangeVars
  BY <1>1 DEF exchangeVars
<1>2. CASE Accept
  BY <1>0, <1>2 DEF Accept
<1>3. CASE ReadPrefix \/ ReadResponseHead
  <2>1. got' \in 0 .. MaxHeaderBytes
    BY <1>3, ReadHeadBounded DEF ReadPrefix, ReadResponseHead
  <2> QED BY <1>3, <2>1 DEF ReadPrefix, ReadResponseHead
<1>4. CASE PrefixFails \/ AdmitRequest \/ Disconnect
  BY <1>0, <1>4 DEF PrefixFails, AdmitRequest, Disconnect, Answer
<1>5. CASE Bootstrap \/ Refuse
  BY <1>0, <1>5 DEF Bootstrap, Refuse, Answer
<1>6. CASE ForwardHttp \/ ForwardWebSocket
  BY <1>0, <1>6 DEF ForwardHttp, ForwardWebSocket, ToUpstream, BadGateway, Answer
<1>7. CASE ConnectUpstream \/ ConnectFails \/ PollUpload \/ UploadFails \/ UploadAborts
           \/ ResponseStarts \/ ResponseHeadFails
  BY <1>0, <1>7 DEF ConnectUpstream, ConnectFails, PollUpload, UploadFails, UploadAborts,
                    ResponseStarts, ResponseHeadFails, BadGateway, Answer
<1>8. CASE UpstreamResponse
  <2>1. PICK r \in Responses : HttpResponse(r) \/ SwitchResponse(r)
    BY <1>8 DEF UpstreamResponse
  <2>2. CASE HttpResponse(r)
    <3>1. stage' \in {"body", "closed"} /\ timer' \in {0, timer}
      BY <2>2 DEF HttpResponse, BadGateway, Answer
    <3>2. UNCHANGED <<issued>> /\ got' = 0
      BY <2>2 DEF HttpResponse
    <3> QED BY <1>0, <3>1, <3>2
  <2>3. CASE SwitchResponse(r)
    <3>1. stage' \in {"tunnel", "closed"} /\ timer' \in {0, timer}
      BY <2>3 DEF SwitchResponse, BadGateway, Answer
    <3>2. UNCHANGED <<issued>> /\ got' = 0
      BY <2>3 DEF SwitchResponse
    <3> QED BY <1>0, <3>1, <3>2
  <2> QED BY <2>1, <2>2, <2>3
<1>9. CASE Body
  BY <1>9 DEF Body, PollBody, PollDecoder, BodyEnds, NoBodyWritten, BrowserLeaves, CloseBody
<1>10. CASE Tunnelling
  BY <1>10 DEF Tunnelling, TunnelRead, TunnelWaits, TunnelEof, TunnelWrite, TunnelEnds,
               TunnelIdles, TunnelFails, Watch, KeepTunnelStage, CloseTunnel
<1>11. CASE Tick
  <2>1. Elapse(timer) \in Nat
    BY DEF Elapse
  <2> QED BY <1>11, <2>1 DEF Tick
<1> QED BY <1>1, <1>2, <1>3, <1>4, <1>5, <1>6, <1>7, <1>8, <1>9, <1>10, <1>11
        DEF Next, Reading, Handling, Forwarding
-------------------------------------------------------------------------------
(***************************************************************************)
(* The response body.  A guard never forwards more than its limit, and ends  *)
(* cleanly only at the declared length; the decoders yield nothing before    *)
(* they are fed and end only behind a whole encoded body, whose length the   *)
(* browser's head does not announce.                                         *)
(***************************************************************************)
GuardShape(g) ==
  g = [end |-> g.end, forwarded |-> g.forwarded, declared |-> g.declared, limit |-> g.limit,
       timed |-> g.timed, window |-> g.window, idle |-> g.idle, rate |-> g.rate]

Within(g) ==
  /\ g.forwarded \in Nat /\ g.limit \in Nat /\ g.forwarded <= g.limit
  /\ g.end = "complete" => g.declared \in {-1, g.forwarded}

EncodedAt == GuardShape(body) /\ Within(body)

IdentityAt ==
  /\ body.limit <= MaxDecodedBody
  /\ body.limit > 0 /\ Has(answer.headers, "content-length") =>
       body.declared = answer.headers["content-length"][1] /\ body.declared # -1

DecodedAt ==
  /\ decoded = [end |-> decoded.end, forwarded |-> decoded.forwarded, limit |-> MaxDecodedBody]
  /\ decoded.forwarded \in 0 .. MaxDecodedBody
  /\ decoded.forwarded > 0 => body.forwarded > 0
  /\ decoded.end = "complete" => body.end = "complete"
  /\ ~Has(answer.headers, "content-length")

StreamAt ==
  /\ stage = "body" => body # None
  /\ stage \notin {"body", "closed"} => body = None /\ decoded = None
  /\ body # None => EncodedAt /\ (decoded = None => IdentityAt)
  /\ decoded # None => body # None /\ DecodedAt

LEMMA GuardsAreNotNone ==
  /\ \A g : GuardShape(g) => g # None
  /\ \A end, forwarded, limit :
       [end |-> end, forwarded |-> forwarded, limit |-> limit] # None
<1>1. DOMAIN None = {"kind"}
  BY DEF None
<1>2. ASSUME NEW g, GuardShape(g) PROVE g # None
  <2>1. "end" \in DOMAIN g
    BY <1>2 DEF GuardShape
  <2> QED BY <1>1, <2>1
<1>3. ASSUME NEW end, NEW forwarded, NEW limit
      PROVE  [end |-> end, forwarded |-> forwarded, limit |-> limit] # None
  <2>1. "end" \in DOMAIN [end |-> end, forwarded |-> forwarded, limit |-> limit]
    OBVIOUS
  <2> QED BY <1>1, <2>1
<1> QED BY <1>2, <1>3

(* A poll of the response guard.                                              *)
LEMMA PolledBody ==
  ASSUME NEW g, GuardShape(g), Within(g), g.end = "open", NEW f \in Frame,
         NEW next, next = PollResponse(g, f)
  PROVE  /\ GuardShape(next) /\ Within(next)
         /\ next.limit = g.limit /\ next.declared = g.declared
         /\ next.forwarded >= g.forwarded
<1> DEFINE open == NextWindow(g)
<1>1. /\ GuardShape(open) /\ open.forwarded = g.forwarded /\ open.declared = g.declared
      /\ open.limit = g.limit /\ open.end = "open"
  BY DEF NextWindow, GuardShape
<1> HIDE DEF open
<1>2. CASE next = Failed(g)
  BY <1>2 DEF Failed, GuardShape, Within
<1>3. CASE next = open
  BY <1>1, <1>3 DEF Within
<1>4. CASE next = EndOfStream(open)
  <2>1. CASE next = Failed(open)
    BY <1>1, <2>1 DEF Failed, GuardShape, Within
  <2>2. CASE /\ next = [open EXCEPT !.end = "complete"]
             /\ open.declared = -1 \/ open.declared = open.forwarded
    BY <1>1, <2>2 DEF GuardShape, Within
  <2> QED BY <1>4, <2>1, <2>2 DEF EndOfStream
<1>5. CASE next = AcceptData(open, f.bytes) /\ Fits(g, f.bytes) /\ f.kind = "data"
  <2>1. f.bytes \in Nat
    BY <1>5, GuardAssumption DEF Frame
  <2>2. /\ GuardShape(next) /\ next.forwarded = g.forwarded + f.bytes /\ next.declared = g.declared
        /\ next.limit = g.limit /\ next.end = "open"
    BY <1>1, <1>5 DEF AcceptData, GuardShape
  <2> QED BY <1>5, <2>1, <2>2 DEF Fits, Within
<1>6. \/ next = Failed(g) \/ next = open \/ next = EndOfStream(open)
      \/ next = AcceptData(open, f.bytes) /\ Fits(g, f.bytes) /\ f.kind = "data"
  BY DEF PollResponse, open
<1> QED BY <1>2, <1>3, <1>4, <1>5, <1>6

LEMMA TickedBody ==
  ASSUME NEW g, GuardShape(g), Within(g), NEW next, next = TickResponse(g)
  PROVE  /\ GuardShape(next) /\ Within(next)
         /\ next.limit = g.limit /\ next.declared = g.declared
         /\ next.forwarded = g.forwarded /\ next.end = g.end
<1>1. CASE next = [g EXCEPT !.idle = Elapse(@), !.rate = Elapse(@)]
  <2>1. /\ GuardShape(next) /\ next.limit = g.limit /\ next.declared = g.declared
        /\ next.forwarded = g.forwarded /\ next.end = g.end
    BY <1>1 DEF GuardShape
  <2> QED BY <2>1 DEF Within
<1>2. CASE next = g
  BY <1>2
<1> QED BY <1>1, <1>2 DEF TickResponse
(* The guards a response starts with, against the head the browser gets.      *)
LEMMA ResponseOpensStream ==
  ASSUME StreamAt, stage = "exchange", NEW r \in Responses, HttpResponse(r)
  PROVE  StreamAt'
<1>1. body = None /\ decoded = None
  BY DEF StreamAt
<1>2. CASE ~(ValidateResponseHead(r, FALSE) /\ ResponseAccepted(asked.method, r))
  <2>1. stage' = "closed" /\ body' = None /\ decoded' = None
    BY <1>1, <1>2 DEF HttpResponse, BadGateway, Answer
  <2> QED BY <2>1 DEF StreamAt
<1>3. CASE ValidateResponseHead(r, FALSE) /\ ResponseAccepted(asked.method, r)
  <2> DEFINE h == answer'.headers
             forbidden == BodyForbidden(asked.method, r.status)
             limit == EncodedBodyLimit(r.headers)
             declared == DeclaredLength(r.headers)
  <2>1. /\ stage' = "body" /\ answer' = NormalizeHttpResponse(asked.method, r)
        /\ body' = IF forbidden THEN Forbidden ELSE Streaming(declared, limit)
        /\ decoded' = IF Encoded(r.headers) /\ ~forbidden
                      THEN NewDecodedGuard(MaxDecodedBody) ELSE None
    BY <1>3 DEF HttpResponse
  <2>2. /\ limit \in Nat
        /\ ~Encoded(r.headers) => limit <= MaxDecodedBody
    BY ExchangeAssumption DEF EncodedBodyLimit
  <2>3. /\ h["content-length"] \in {<<>>, r.headers["content-length"]}
        /\ Encoded(r.headers) /\ ~forbidden => h["content-length"] = <<>>
    BY <2>1, NormalizedHead
  <2>4. Has(h, "content-length") => declared = h["content-length"][1] /\ declared # -1
    <3> SUFFICES ASSUME Has(h, "content-length")
                 PROVE  declared = h["content-length"][1] /\ declared # -1
      OBVIOUS
    <3>1. h["content-length"] = r.headers["content-length"] /\ Has(r.headers, "content-length")
      BY <2>3 DEF Has
    <3>2. declared = r.headers["content-length"][1] /\ r.headers["content-length"][1] >= 0
      BY <1>3, <3>1 DEF DeclaredLength, ValidateResponseHead
    <3> QED BY <3>1, <3>2
  <2> HIDE DEF h, forbidden, limit, declared
  <2>5. CASE forbidden
    <3>1. body' = Forbidden /\ decoded' = None
      BY <2>1, <2>5
    <3>2. GuardShape(Forbidden) /\ Within(Forbidden) /\ Forbidden.limit = 0
      BY DEF Forbidden, GuardShape, Within
    <3>3. Forbidden.limit <= MaxDecodedBody /\ ~(Forbidden.limit > 0)
      BY <3>2, ExchangeAssumption
    <3>4. Forbidden # None
      BY <3>2, GuardsAreNotNone
    <3> HIDE DEF Forbidden
    <3> QED BY <2>1, <3>1, <3>2, <3>3, <3>4 DEF StreamAt, EncodedAt, IdentityAt
  <2>6. CASE ~forbidden
    <3>1. body' = Streaming(declared, limit)
      BY <2>1, <2>6
    <3>2. /\ GuardShape(Streaming(declared, limit)) /\ Within(Streaming(declared, limit))
          /\ Streaming(declared, limit).limit = limit
          /\ Streaming(declared, limit).declared = declared
      BY <2>2 DEF Streaming, GuardShape, Within
    <3>3. body' # None /\ EncodedAt' /\ body'.limit = limit /\ body'.declared = declared
      BY <3>1, <3>2, GuardsAreNotNone DEF EncodedAt
    <3>4. CASE Encoded(r.headers)
      <4>1. decoded' = [end |-> "open", forwarded |-> 0, limit |-> MaxDecodedBody]
        BY <2>1, <2>6, <3>4 DEF NewDecodedGuard
      <4>2. decoded' # None
        BY <4>1, GuardsAreNotNone
      <4>3. ~Has(h, "content-length")
        BY <2>3, <2>6, <3>4 DEF Has
      <4>4. DecodedAt'
        BY <4>1, <4>3, ExchangeAssumption DEF DecodedAt, h
      <4> QED BY <2>1, <3>3, <4>2, <4>4 DEF StreamAt
    <3>5. CASE ~Encoded(r.headers)
      <4>1. decoded' = None
        BY <2>1, <3>5
      <4>2. IdentityAt'
        BY <2>2, <2>4, <3>3, <3>5 DEF IdentityAt, h
      <4> QED BY <2>1, <3>3, <4>1, <4>2 DEF StreamAt
    <3> QED BY <3>4, <3>5
  <2> QED BY <2>5, <2>6
<1> QED BY <1>2, <1>3

LEMMA BodyKeepsStream ==
  ASSUME StreamAt,
         \/ PollBody \/ (Tick /\ stage = "body" /\ body' # body)
         \/ UploadAborts /\ body.end = "open"
  PROVE  StreamAt'
<1>1. /\ stage = "body" /\ stage' = "body" /\ UNCHANGED <<answer, decoded>> /\ body.end = "open"
      /\ (\E f \in Frame : body' = PollResponse(body, f)) \/ body' = TickResponse(body)
  <2>1. BrokenFrame \in Frame
    BY DEF BrokenFrame, Frame
  <2> QED BY <2>1 DEF PollBody, Tick, UploadAborts
<1>2. body # None /\ GuardShape(body) /\ Within(body)
  BY <1>1 DEF StreamAt, EncodedAt
<1>3. /\ GuardShape(body') /\ Within(body') /\ body'.limit = body.limit
      /\ body'.declared = body.declared /\ body'.forwarded >= body.forwarded
  <2>1. CASE \E f \in Frame : body' = PollResponse(body, f)
    BY <1>1, <1>2, <2>1, PolledBody
  <2>2. CASE body' = TickResponse(body)
    <3>1. /\ GuardShape(body') /\ Within(body') /\ body'.limit = body.limit
          /\ body'.declared = body.declared /\ body'.forwarded = body.forwarded
      BY <1>2, <2>2, TickedBody
    <3> QED BY <1>2, <3>1 DEF Within
  <2> QED BY <1>1, <2>1, <2>2
<1>4. body' # None
  BY <1>3, GuardsAreNotNone
<1>5. CASE decoded = None
  <2>1. IdentityAt'
    BY <1>1, <1>2, <1>3, <1>5 DEF StreamAt, IdentityAt
  <2> QED BY <1>1, <1>3, <1>4, <1>5, <2>1 DEF StreamAt, EncodedAt
<1>6. CASE decoded # None
  <2>1. DecodedAt
    BY <1>6 DEF StreamAt
  <2>2. decoded.end # "complete"
    BY <1>1, <2>1 DEF DecodedAt
  <2>3. body.forwarded \in Nat /\ body'.forwarded \in Nat
    BY <1>2, <1>3 DEF Within
  <2>4. decoded.forwarded > 0 => body'.forwarded > 0
    BY <1>3, <2>1, <2>3 DEF DecodedAt
  <2>5. DecodedAt'
    BY <1>1, <2>1, <2>2, <2>4 DEF DecodedAt
  <2> QED BY <1>1, <1>3, <1>4, <1>6, <2>5 DEF StreamAt, EncodedAt
<1> QED BY <1>5, <1>6

LEMMA DecoderKeepsStream ==
  ASSUME StreamAt, PollDecoder
  PROVE  StreamAt'
<1>1. /\ stage = "body" /\ stage' = "body" /\ UNCHANGED <<answer, body>>
      /\ decoded # None /\ decoded.end = "open"
  BY DEF PollDecoder
<1>2. PICK f \in Frame : DecoderYields(f) /\ decoded' = PollDecoded(decoded, f)
  BY DEF PollDecoder
<1>3. DecodedAt /\ body # None /\ EncodedAt
  BY <1>1 DEF StreamAt
<1>4. CASE decoded' = decoded
  BY <1>1, <1>3, <1>4 DEF StreamAt, DecodedAt, EncodedAt
<1>5. CASE decoded' # decoded
  <2>1. \/ decoded' = Failed(decoded)
        \/ f.kind = "end" /\ decoded' = [decoded EXCEPT !.end = "complete"]
        \/ /\ f.kind = "data" /\ decoded.forwarded + f.bytes <= decoded.limit
           /\ decoded' = [decoded EXCEPT !.forwarded = @ + f.bytes]
    BY <1>2, <1>5 DEF PollDecoded
  <2>2. DecodedAt'
    <3>1. CASE decoded' = Failed(decoded)
      BY <1>1, <1>3, <3>1 DEF DecodedAt, Failed
    <3>2. CASE f.kind = "end" /\ decoded' = [decoded EXCEPT !.end = "complete"]
      <4>1. body.end = "complete"
        BY <1>2, <3>2 DEF DecoderYields
      <4> QED BY <1>1, <1>3, <3>2, <4>1 DEF DecodedAt
    <3>3. CASE /\ f.kind = "data" /\ decoded.forwarded + f.bytes <= decoded.limit
               /\ decoded' = [decoded EXCEPT !.forwarded = @ + f.bytes]
      <4>1. f.bytes \in Nat
        BY <3>3, GuardAssumption DEF Frame
      <4>2. body.forwarded > 0
        BY <1>2, <3>3 DEF DecoderYields
      <4>3. /\ decoded'.forwarded = decoded.forwarded + f.bytes /\ decoded'.end = "open"
            /\ decoded' = [end |-> decoded'.end, forwarded |-> decoded'.forwarded,
                           limit |-> MaxDecodedBody]
            /\ decoded.limit = MaxDecodedBody
        BY <1>1, <1>3, <3>3 DEF DecodedAt
      <4>4. decoded'.forwarded \in 0 .. MaxDecodedBody
        BY <1>3, <3>3, <4>1, <4>3, ExchangeAssumption DEF DecodedAt
      <4> QED BY <1>1, <1>3, <4>2, <4>3, <4>4 DEF DecodedAt
    <3> QED BY <2>1, <3>1, <3>2, <3>3
  <2>3. decoded' # None
    BY <2>2, GuardsAreNotNone DEF DecodedAt
  <2> QED BY <1>1, <1>3, <2>2, <2>3 DEF StreamAt, EncodedAt
<1> QED BY <1>4, <1>5
LEMMA StreamStep == StreamAt /\ [Next]_exchangeVars => StreamAt'
<1> SUFFICES ASSUME StreamAt, [Next]_exchangeVars PROVE StreamAt' OBVIOUS
<1>1. CASE UNCHANGED <<stage, answer, body, decoded>>
  BY <1>1 DEF StreamAt, EncodedAt, IdentityAt, DecodedAt
<1>2. CASE stage \notin {"body", "closed"} /\ stage' # "body" /\ UNCHANGED <<body, decoded>>
  <2>1. body' = None /\ decoded' = None
    BY <1>2 DEF StreamAt
  <2> QED BY <1>2, <2>1 DEF StreamAt
<1>3. CASE UNCHANGED exchangeVars
  BY <1>1, <1>3 DEF exchangeVars
<1>4. CASE Disconnect
  <2>1. stage' = "listening" /\ body' = None /\ decoded' = None
    BY <1>4 DEF Disconnect
  <2> QED BY <2>1 DEF StreamAt
<1>5. CASE Accept \/ ReadPrefix \/ PrefixFails \/ AdmitRequest
  BY <1>2, <1>5 DEF Accept, ReadPrefix, PrefixFails, AdmitRequest, Answer
<1>6. CASE Handling
  BY <1>2, <1>6 DEF Handling, Bootstrap, Refuse, ForwardHttp, ForwardWebSocket, ToUpstream,
                    BadGateway, Answer
<1>7. CASE ConnectUpstream \/ ConnectFails \/ PollUpload \/ UploadFails \/ ResponseStarts
           \/ ReadResponseHead \/ ResponseHeadFails
  <2>1. CASE PollUpload
    BY <1>1, <2>1 DEF PollUpload
  <2>2. CASE ~PollUpload
    BY <1>2, <1>7, <2>2 DEF ConnectUpstream, ConnectFails, UploadFails, ResponseStarts,
                            ReadResponseHead, ResponseHeadFails, BadGateway, Answer
  <2> QED BY <2>1, <2>2
<1>8. CASE UpstreamResponse
  <2>1. PICK r \in Responses : HttpResponse(r) \/ SwitchResponse(r)
    BY <1>8 DEF UpstreamResponse
  <2>2. stage = "exchange"
    BY <1>8 DEF UpstreamResponse
  <2>3. CASE SwitchResponse(r)
    BY <1>2, <2>2, <2>3 DEF SwitchResponse, BadGateway, Answer
  <2> QED BY <2>1, <2>2, <2>3, ResponseOpensStream
<1>9. CASE PollBody
  BY <1>9, BodyKeepsStream
<1>10. CASE PollDecoder
  BY <1>10, DecoderKeepsStream
<1>11. CASE BodyEnds \/ NoBodyWritten \/ BrowserLeaves
  <2>1. stage = "body" /\ stage' = "closed" /\ UNCHANGED <<answer, body, decoded>>
    BY <1>11 DEF BodyEnds, NoBodyWritten, BrowserLeaves, CloseBody
  <2> QED BY <2>1 DEF StreamAt, EncodedAt, IdentityAt, DecodedAt
<1>12. CASE Tunnelling
  BY <1>2, <1>12 DEF Tunnelling, TunnelRead, TunnelWaits, TunnelEof, TunnelWrite, TunnelEnds,
                     TunnelIdles, TunnelFails, Watch, KeepTunnelStage, CloseTunnel
<1>13. CASE Tick
  <2>1. UNCHANGED <<stage, answer, decoded>> /\ (body' # body => stage = "body")
    BY <1>13 DEF Tick
  <2> QED BY <1>1, <1>13, <2>1, BodyKeepsStream
<1>14. CASE UploadAborts
  <2>1. CASE body.end # "open"
    <3>1. UNCHANGED <<stage, answer, body, decoded>>
      BY <1>14, <2>1 DEF UploadAborts, PollResponse
    <3> QED BY <1>1, <3>1
  <2> QED BY <1>14, <2>1, BodyKeepsStream
<1> QED BY <1>3, <1>4, <1>5, <1>6, <1>7, <1>8, <1>9, <1>10, <1>11, <1>12, <1>13, <1>14
        DEF Next, Reading, Forwarding, Body

(* Through both guards and the decoders, what holds of the stream holds of     *)
(* every response body of every exchange.                                     *)
THEOREM StreamAlways == Spec => []StreamAt
<1>1. Init => StreamAt
  BY DEF Init, StreamAt
<1> QED BY <1>1, StreamStep, PTL DEF Spec

(***************************************************************************)
(* The body the browser gets stays within the decoded limit and, if it ends  *)
(* cleanly, is a whole upstream body of the announced length, however the    *)
(* frames, the decoders and the timers interleave.                           *)
(***************************************************************************)
THEOREM BodyAsAnnouncedAlways == Spec => []BodyAsAnnounced
<1>1. StreamAt => BodyAsAnnounced
  <2> SUFFICES ASSUME StreamAt, body # None PROVE BodyAsAnnounced
    BY DEF BodyAsAnnounced
  <2>1. EncodedAt
    BY DEF StreamAt
  <2>2. CASE decoded = None
    <3>1. Outer = body /\ IdentityAt
      BY <2>2 DEF Outer, StreamAt
    <3>2. /\ body.forwarded <= MaxDecodedBody /\ (body.limit = 0 => body.forwarded = 0)
      BY <2>1, <3>1, ExchangeAssumption DEF EncodedAt, Within, IdentityAt
    <3>3. body.end = "complete" /\ body.limit > 0 /\ Has(answer.headers, "content-length") =>
            answer.headers["content-length"][1] = body.forwarded
      BY <2>1, <3>1 DEF EncodedAt, Within, IdentityAt
    <3> QED BY <3>1, <3>2, <3>3 DEF BodyAsAnnounced
  <2>3. CASE decoded # None
    <3>1. Outer = decoded /\ DecodedAt
      BY <2>3 DEF Outer, StreamAt
    <3>2. decoded.forwarded <= MaxDecodedBody /\ (body.limit = 0 => decoded.forwarded = 0)
      BY <2>1, <3>1, ExchangeAssumption DEF EncodedAt, Within, DecodedAt
    <3> QED BY <3>1, <3>2 DEF BodyAsAnnounced, DecodedAt
  <2> QED BY <2>2, <2>3
<1> QED BY <1>1, StreamAlways, PTL

(***************************************************************************)
(* Every state of an exchange is of its type: a head is never read past      *)
(* max_header_bytes, an upload's guard never forwards past its limit, and    *)
(* each stage has the guard or the tunnel its steps look into.               *)
(***************************************************************************)
THEOREM ExchangeTypes == Spec => []TypeOK
<1> DEFINE Flag == consumed \in BOOLEAN
<1>1. Init => CountsAt /\ UploadAt /\ BucketAt
  BY ExchangeAssumption DEF Init, CountsAt, UploadAt, BucketAt
<1>2. Init => Flag
  BY Zenon DEF Init
<1>3. Flag /\ [Next]_exchangeVars => Flag'
  <2>1. [Next]_exchangeVars => consumed' = TRUE \/ consumed' = consumed
    BY CredentialFrame, Zenon DEF Bootstrap
  <2> QED BY <2>1, Zenon
<1>4. BucketAt /\ [Next]_exchangeVars => BucketAt'
  BY ReadKeepsBucket, TickKeepsBucket, OtherTunnelSteps, OutsideTunnel DEF Side
<1>5. HeadAt /\ StreamAt /\ CountsAt /\ UploadAt /\ BucketAt /\ Flag => TypeOK
  <2> SUFFICES ASSUME HeadAt, StreamAt, CountsAt, UploadAt, BucketAt, Flag PROVE TypeOK
    OBVIOUS
  <2>1. stage = "handle" => Validate(request) /\ raw = RawAdmission(request)
    BY DEF HeadAt
  <2>2. Uploading => upload \in RequestGuard
    BY DEF UploadAt, Uploading
  <2>3. (stage = "body" => body # None) /\ (stage = "tunnel" => tunnel \in Tunnel)
    BY DEF StreamAt, BucketAt
  <2> QED BY <2>1, <2>2, <2>3, Zenon DEF TypeOK, CountsAt
<1> QED BY <1>1, <1>2, <1>3, <1>4, <1>5, CountsStep, UploadStep, HeadAlways, StreamAlways, PTL
        DEF Spec
-------------------------------------------------------------------------------
(***************************************************************************)
(* The tunnel's clocks.  A reader sleeps no longer than until it has a whole *)
(* byte of allowance, and since the last activity of the tunnel each side    *)
(* has saved up the rate's share of the time, or a byte already.             *)
(***************************************************************************)
ClockOf(s) ==
  /\ tunnel.wake[s] > 0 => tunnel.available[s] + Rate * (tunnel.wake[s] - 1) < TokenUnits
  /\ \/ tunnel.available[s] >= TokenUnits
     \/ tunnel.available[s] >= Rate * (TunnelIdle - tunnel.idle)

ClockAt == stage = "tunnel" => \A s \in Side : ClockOf(s)

(***************************************************************************)
(* The relation between the limits that is_valid leaves out: a byte's worth  *)
(* of tokens comes in before the last tick of the idle timeout.              *)
(***************************************************************************)
ByteBeforeIdle == Rate * (TunnelIdle - 1) >= TokenUnits

LEMMA RateTimes ==
  ASSUME NEW n \in Int
  PROVE  Rate * n \in Int /\ Rate * (n + 1) = Rate * n + Rate /\ Rate \in Nat \ {0}
BY LimiterAssumption

LEMMA WaitIsShort ==
  ASSUME NEW available \in Nat, NEW wait, wait = WaitTicks(available)
  PROVE  wait \in Int /\ available + Rate * (wait - 1) < TokenUnits
<1> DEFINE missing == TokenUnits - available + Rate - 1
<1>1. missing \in Int /\ Rate \in Nat \ {0} /\ TokenUnits \in Nat
  BY LimiterAssumption
<1>2. wait = missing \div Rate
  BY DEF WaitTicks
<1> HIDE DEF missing
<1>3. wait \in Int /\ Rate * wait <= missing
  BY <1>1, <1>2
<1>4. wait - 1 \in Int /\ (wait - 1) + 1 = wait
  BY <1>3
<1>5. Rate * wait = Rate * (wait - 1) + Rate /\ Rate * (wait - 1) \in Int
  BY <1>4, RateTimes
<1> QED BY <1>1, <1>3, <1>5 DEF missing

(* A whole byte of allowance is there exactly when a byte's tokens are.        *)
LEMMA AllowanceOfByte ==
  ASSUME NEW available \in Nat
  PROVE  available >= TokenUnits => Allowance(available) > 0
BY LimiterAssumption DEF Allowance

LEMMA TunnelFields ==
  ASSUME tunnel \in Tunnel, NEW s \in Side
  PROVE  /\ tunnel.available[s] \in Nat /\ tunnel.available[s] <= Capacity /\ tunnel.wake[s] \in Int
         /\ tunnel.idle \in 0 .. TunnelIdle /\ tunnel.left[s] \in Nat
         /\ tunnel.buffered[s] \in Nat /\ TunnelIdle \in Nat
BY ExchangeAssumption, CapacityNat DEF Tunnel

LEMMA TickKeepsClock ==
  ASSUME BucketAt, ClockAt, stage = "tunnel", Tick, NEW s \in Side
  PROVE  ClockOf(s)'
<1>1. tunnel \in Tunnel /\ tunnel' = TickTunnel(tunnel) /\ ClockOf(s)
  BY DEF BucketAt, ClockAt, Tick
<1> DEFINE a == tunnel.available[s]
           w == tunnel.wake[s]
           saved == Rate * (TunnelIdle - tunnel.idle)
<1>2. /\ tunnel'.available[s] = Refill(a) /\ tunnel'.idle = Elapse(tunnel.idle)
      /\ tunnel'.wake[s] = IF w > 0 THEN w - 1 ELSE w
  BY <1>1 DEF TickTunnel, Tunnel
<1>3. /\ a \in Nat /\ a <= Capacity /\ w \in Int /\ tunnel.idle \in 0 .. TunnelIdle
      /\ TunnelIdle \in Nat
  BY <1>1, TunnelFields
<1>4. /\ Refill(a) \in Int /\ Refill(a) <= a + Rate /\ Refill(a) >= a
      /\ Refill(a) = a + Rate \/ Refill(a) >= TokenUnits
  BY <1>3, CapacityNat, LimiterAssumption DEF Refill
<1>5. ASSUME tunnel'.wake[s] > 0
      PROVE  Refill(a) + Rate * (tunnel'.wake[s] - 1) < TokenUnits
  <2>1. w > 0 /\ tunnel'.wake[s] = w - 1
    BY <1>2, <1>3, <1>5
  <2>2. a + Rate * (w - 1) < TokenUnits
    BY <1>1, <2>1 DEF ClockOf
  <2>3. w - 2 \in Int /\ (w - 2) + 1 = w - 1 /\ (w - 1) - 1 = w - 2
    BY <1>3
  <2>4. Rate * (w - 1) = Rate * (w - 2) + Rate /\ Rate * (w - 2) \in Int
    BY <2>3, RateTimes
  <2>5. Refill(a) + Rate * (w - 2) < TokenUnits
    BY <1>3, <1>4, <2>2, <2>4, LimiterAssumption
  <2> QED BY <2>1, <2>3, <2>5
<1>6. \/ Refill(a) >= TokenUnits
      \/ Refill(a) >= Rate * (TunnelIdle - Elapse(tunnel.idle))
  <2>1. a >= TokenUnits \/ a >= saved
    BY <1>1 DEF ClockOf
  <2>2. CASE a >= TokenUnits
    BY <1>3, <1>4, <2>2, LimiterAssumption
  <2>3. CASE a >= saved /\ tunnel.idle = 0
    <3>1. Elapse(tunnel.idle) = 0 /\ saved \in Int
      BY <1>3, <2>3, RateTimes DEF Elapse
    <3> QED BY <1>3, <1>4, <2>3, <3>1
  <2>4. CASE a >= saved /\ tunnel.idle > 0
    <3>1. /\ TunnelIdle - tunnel.idle \in Int
          /\ TunnelIdle - Elapse(tunnel.idle) = (TunnelIdle - tunnel.idle) + 1
      BY <1>3, <2>4 DEF Elapse
    <3>2. Rate * (TunnelIdle - Elapse(tunnel.idle)) = saved + Rate /\ saved \in Int
      BY <3>1, RateTimes
    <3> HIDE DEF saved
    <3> QED BY <1>3, <1>4, <2>4, <3>2, LimiterAssumption
  <2> QED BY <1>3, <2>1, <2>2, <2>3, <2>4
<1> QED BY <1>2, <1>5, <1>6 DEF ClockOf
(* Activity restarts the idle clock, and leaves a sleeping reader asleep.      *)
LEMMA ActivityKeepsClock ==
  ASSUME NEW s \in Side, ClockOf(s), tunnel \in Tunnel, tunnel' \in Tunnel,
         tunnel'.idle = TunnelIdle,
         \/ tunnel'.wake[s] = -1
         \/ tunnel'.wake[s] = tunnel.wake[s] /\ tunnel'.available[s] = tunnel.available[s]
  PROVE  ClockOf(s)'
<1>1. tunnel'.available[s] \in Nat
  BY CapacityNat DEF Tunnel
<1>2. Rate * (TunnelIdle - tunnel'.idle) = 0
  <2>1. TunnelIdle - tunnel'.idle = 0
    BY ExchangeAssumption
  <2> QED BY <2>1, LimiterAssumption
<1>3. ~(-1 > 0)
  OBVIOUS
<1> QED BY <1>1, <1>2, <1>3 DEF ClockOf

LEMMA ReadKeepsClock ==
  ASSUME BucketAt, BucketAt', ClockAt, NEW s \in Side, TunnelRead(s), NEW t \in Side
  PROVE  ClockOf(t)' /\ tunnel'.idle = TunnelIdle
<1>1. stage = "tunnel" /\ stage' = "tunnel"
  BY DEF TunnelRead, KeepTunnelStage
<1>2. tunnel \in Tunnel /\ tunnel' \in Tunnel /\ ClockOf(t)
  BY <1>1 DEF BucketAt, ClockAt
<1>3. PICK n \in 1 .. Allowance(tunnel.available[s]) :
        tunnel' = [tunnel EXCEPT
             !.available[s] = Consume(@, n), !.left[s] = @ - n, !.buffered[s] = @ + n,
             !.wake[s] = -1, !.idle = TunnelIdle,
             !.read = IF tunnel.probe >= 0 /\ s = "browser" THEN @ + n ELSE @]
  BY DEF TunnelRead
<1>4. /\ tunnel'.idle = TunnelIdle
      /\ tunnel'.wake = [tunnel.wake EXCEPT ![s] = -1]
      /\ tunnel'.available = [tunnel.available EXCEPT ![s] = Consume(tunnel.available[s], n)]
  BY <1>2, <1>3 DEF Tunnel
<1>5. \/ tunnel'.wake[t] = -1
      \/ tunnel'.wake[t] = tunnel.wake[t] /\ tunnel'.available[t] = tunnel.available[t]
  BY <1>2, <1>4 DEF Tunnel
<1> QED BY <1>2, <1>4, <1>5, ActivityKeepsClock

LEMMA WriteKeepsClock ==
  ASSUME BucketAt, BucketAt', ClockAt, NEW s \in Side, TunnelWrite(s), NEW t \in Side
  PROVE  ClockOf(t)' /\ tunnel'.idle = TunnelIdle
<1>1. stage = "tunnel" /\ stage' = "tunnel"
  BY DEF TunnelWrite, KeepTunnelStage
<1>2. tunnel \in Tunnel /\ tunnel' \in Tunnel /\ ClockOf(t)
  BY <1>1 DEF BucketAt, ClockAt
<1>3. PICK n \in 1 .. tunnel.buffered[s] :
        tunnel' = [tunnel EXCEPT !.buffered[s] = @ - n, !.idle = TunnelIdle]
  BY DEF TunnelWrite
<1>4. /\ tunnel'.idle = TunnelIdle /\ tunnel'.wake = tunnel.wake
      /\ tunnel'.available = tunnel.available
  BY <1>2, <1>3 DEF Tunnel
<1> QED BY <1>2, <1>4, ActivityKeepsClock

(* Waiting, the end of a stream and the watch are no activity.                *)
LEMMA QuietKeepsClock ==
  ASSUME BucketAt, ClockAt, NEW s \in Side, TunnelWaits(s) \/ TunnelEof(s) \/ Watch, NEW t \in Side
  PROVE  /\ ClockOf(t)' /\ tunnel'.idle = tunnel.idle
         /\ Wanted(t)' /\ tunnel'.left[t] > 0 => Wanted(t) /\ tunnel.left[t] > 0
<1>1. stage = "tunnel" /\ tunnel \in Tunnel /\ ClockOf(t)
  BY DEF BucketAt, ClockAt, TunnelWaits, TunnelEof, Watch
<1>2. CASE TunnelWaits(s)
  <2> DEFINE wait == WaitTicks(tunnel.available[s])
  <2>1. tunnel' = [tunnel EXCEPT !.wake[s] = wait]
    BY <1>2 DEF TunnelWaits
  <2> HIDE DEF wait
  <2>2. /\ tunnel'.idle = tunnel.idle /\ tunnel'.available = tunnel.available
        /\ tunnel'.wake = [tunnel.wake EXCEPT ![s] = wait] /\ tunnel'.left = tunnel.left
        /\ tunnel'.eof = tunnel.eof /\ tunnel'.buffered = tunnel.buffered
    BY <1>1, <2>1 DEF Tunnel
  <2>3. tunnel.available[s] + Rate * (wait - 1) < TokenUnits
    BY <1>1, TunnelFields, WaitIsShort DEF wait
  <2>4. tunnel'.wake[t] = IF t = s THEN wait ELSE tunnel.wake[t]
    BY <1>1, <2>2 DEF Tunnel
  <2> QED BY <1>1, <2>2, <2>3, <2>4 DEF ClockOf, Wanted
<1>3. CASE TunnelEof(s)
  <2>1. tunnel' = [tunnel EXCEPT !.eof[s] = TRUE, !.wake[s] = -1]
    BY <1>3 DEF TunnelEof
  <2>2. /\ tunnel'.idle = tunnel.idle /\ tunnel'.available = tunnel.available
        /\ tunnel'.wake = [tunnel.wake EXCEPT ![s] = -1] /\ tunnel'.left = tunnel.left
        /\ tunnel'.eof = [tunnel.eof EXCEPT ![s] = TRUE] /\ tunnel'.buffered = tunnel.buffered
    BY <1>1, <2>1 DEF Tunnel
  <2>3. tunnel'.wake[t] \in {-1, tunnel.wake[t]}
    BY <1>1, <2>2 DEF Tunnel
  <2>4. tunnel'.eof[t] = TRUE \/ tunnel'.eof[t] = tunnel.eof[t]
    BY <1>1, <2>2 DEF Tunnel
  <2>5. ~(-1 > 0)
    OBVIOUS
  <2>6. ClockOf(t)'
    BY <1>1, <2>2, <2>3, <2>5 DEF ClockOf
  <2> QED BY <2>2, <2>4, <2>6 DEF Wanted
<1>4. CASE Watch
  <2>1. tunnel' = [tunnel EXCEPT !.probe = 0, !.read = 0]
    BY <1>4 DEF Watch
  <2>2. /\ tunnel'.idle = tunnel.idle /\ tunnel'.available = tunnel.available
        /\ tunnel'.wake = tunnel.wake /\ tunnel'.left = tunnel.left
        /\ tunnel'.eof = tunnel.eof /\ tunnel'.buffered = tunnel.buffered
    BY <1>1, <2>1 DEF Tunnel
  <2> QED BY <1>1, <2>2 DEF ClockOf, Wanted
<1> QED BY <1>2, <1>3, <1>4

LEMMA FreshClock ==
  ASSUME tunnel' = NewTunnel, NEW t \in Side
  PROVE  ClockOf(t)' /\ tunnel'.idle = TunnelIdle
<1>1. /\ tunnel'.wake[t] = -1 /\ tunnel'.available[t] = Capacity /\ tunnel'.idle = TunnelIdle
  BY DEF NewTunnel
<1>2. ~(-1 > 0) /\ Capacity >= TokenUnits
  BY CapacityNat
<1> QED BY <1>1, <1>2 DEF ClockOf

(* Any other step ends the tunnel, is outside one, or opens one.              *)
LEMMA TunnelFrame ==
  ASSUME [Next]_exchangeVars
  PROVE  \/ stage' # "tunnel" \/ UNCHANGED <<stage, tunnel>> \/ tunnel' = NewTunnel
         \/ (Tick /\ stage = "tunnel") \/ Watch
         \/ \E s \in Side : TunnelRead(s) \/ TunnelWaits(s) \/ TunnelEof(s) \/ TunnelWrite(s)
<1>1. CASE UNCHANGED exchangeVars
  BY <1>1 DEF exchangeVars
<1>2. CASE Reading
  BY <1>2 DEF Reading, Accept, ReadPrefix, PrefixFails, AdmitRequest, Disconnect, Answer
<1>3. CASE Handling
  BY <1>3 DEF Handling, Bootstrap, Refuse, ForwardHttp, ForwardWebSocket, ToUpstream, BadGateway,
              Answer
<1>4. CASE UpstreamResponse
  <2>1. PICK r \in Responses : HttpResponse(r) \/ SwitchResponse(r)
    BY <1>4 DEF UpstreamResponse
  <2> QED BY <2>1 DEF HttpResponse, SwitchResponse, BadGateway, Answer
<1>5. CASE Forwarding
  BY <1>4, <1>5 DEF Forwarding, ConnectUpstream, ConnectFails, PollUpload, UploadFails,
              UploadAborts, ResponseStarts, ReadResponseHead, ResponseHeadFails, BadGateway, Answer
<1>6. CASE Body
  BY <1>6 DEF Body, PollBody, PollDecoder, BodyEnds, NoBodyWritten, BrowserLeaves, CloseBody
<1>7. CASE Tunnelling
  BY <1>7 DEF Tunnelling, TunnelEnds, TunnelIdles, TunnelFails, CloseTunnel
<1>8. CASE Tick
  BY <1>8 DEF Tick
<1> QED BY <1>1, <1>2, <1>3, <1>5, <1>6, <1>7, <1>8 DEF Next

(* The last tick of the idle timeout comes only when nobody could read.        *)
LEMMA LastTick ==
  ASSUME ByteBeforeIdle, BucketAt, ClockAt, BusyTunnelLives, stage = "tunnel", Tick,
         tunnel'.idle = 0, NEW s \in Side
  PROVE  ~(Wanted(s)' /\ tunnel'.left[s] > 0)
<1>1. tunnel \in Tunnel /\ tunnel' = TickTunnel(tunnel) /\ ClockOf(s) /\ ~CanRead(s)
  BY DEF BucketAt, ClockAt, Tick
<1>2. /\ tunnel'.idle = Elapse(tunnel.idle) /\ tunnel'.left = tunnel.left
      /\ tunnel'.eof = tunnel.eof /\ tunnel'.buffered = tunnel.buffered
  BY <1>1 DEF TickTunnel, Tunnel
<1>3. /\ tunnel.available[s] \in Nat /\ tunnel.wake[s] \in Int
      /\ tunnel.idle \in 0 .. TunnelIdle /\ TunnelIdle \in Nat
  BY <1>1, TunnelFields
<1>4. CASE tunnel.idle = 0
  BY <1>2, <1>4 DEF BusyTunnelLives, Wanted
<1>5. CASE tunnel.idle # 0
  <2>1. tunnel.idle = 1
    BY <1>2, <1>3, <1>5 DEF Elapse
  <2>2. Rate * (TunnelIdle - 1) \in Int
    BY <1>3, RateTimes
  <2>3. tunnel.available[s] >= TokenUnits
    BY <1>1, <1>3, <2>1, <2>2, LimiterAssumption DEF ClockOf, ByteBeforeIdle
  <2>4. Allowance(tunnel.available[s]) > 0
    BY <1>3, <2>3, AllowanceOfByte
  <2>5. ~(tunnel.wake[s] > 0)
    <3> SUFFICES ASSUME tunnel.wake[s] > 0 PROVE FALSE
      OBVIOUS
    <3>1. tunnel.available[s] + Rate * (tunnel.wake[s] - 1) < TokenUnits
      BY <1>1 DEF ClockOf
    <3>2. tunnel.wake[s] - 1 \in Nat
      BY <1>3
    <3>3. Rate * (tunnel.wake[s] - 1) \in Nat
      BY <3>2, LimiterAssumption
    <3> QED BY <1>3, <2>3, <3>1, <3>3, LimiterAssumption
  <2> QED BY <1>1, <1>2, <1>3, <2>4, <2>5 DEF CanRead, Wanted
<1> QED BY <1>4, <1>5

(***************************************************************************)
(* Where a byte's worth of tokens comes in before the idle timeout, shaping  *)
(* never starves a tunnel into it: when wait_until_idle gives up, no side    *)
(* had bytes to send that there was room for.                                *)
(***************************************************************************)
THEOREM BusyTunnelLivesAlways == ByteBeforeIdle => (Spec => []BusyTunnelLives)
<1> DEFINE Lives == BucketAt /\ ClockAt /\ BusyTunnelLives
<1> SUFFICES ASSUME ByteBeforeIdle PROVE Spec => []BusyTunnelLives
  OBVIOUS
<1>1. Init => Lives
  BY DEF Init, BucketAt, ClockAt, BusyTunnelLives
<1>2. Lives /\ [Next]_exchangeVars => Lives'
  <2> SUFFICES ASSUME BucketAt, ClockAt, BusyTunnelLives, [Next]_exchangeVars PROVE Lives'
    OBVIOUS
  <2>1. BucketAt'
    BY ReadKeepsBucket, TickKeepsBucket, OtherTunnelSteps, OutsideTunnel DEF Side
  <2>2. TunnelIdle # 0
    BY ExchangeAssumption DEF IsValid
  <2>3. CASE stage' # "tunnel"
    BY <2>1, <2>3 DEF ClockAt, BusyTunnelLives
  <2>4. CASE UNCHANGED <<stage, tunnel>>
    BY <2>1, <2>4 DEF ClockAt, BusyTunnelLives, ClockOf, Wanted
  <2>5. CASE tunnel' = NewTunnel
    BY <2>1, <2>2, <2>5, FreshClock DEF ClockAt, BusyTunnelLives
  <2>6. CASE Tick /\ stage = "tunnel"
    BY <2>1, <2>6, TickKeepsClock, LastTick DEF ClockAt, BusyTunnelLives
  <2>7. ASSUME NEW s \in Side, TunnelRead(s) \/ TunnelWrite(s) PROVE Lives'
    BY <2>1, <2>2, <2>7, ReadKeepsClock, WriteKeepsClock DEF ClockAt, BusyTunnelLives
  <2>8. ASSUME NEW s \in Side, TunnelWaits(s) \/ TunnelEof(s) \/ Watch PROVE Lives'
    <3>1. stage = "tunnel"
      BY <2>8 DEF TunnelWaits, TunnelEof, Watch
    <3>2. ASSUME NEW t \in Side
          PROVE  /\ ClockOf(t)' /\ tunnel'.idle = tunnel.idle
                 /\ Wanted(t)' /\ tunnel'.left[t] > 0 => Wanted(t) /\ tunnel.left[t] > 0
      BY <2>8, QuietKeepsClock
    <3>3. ClockAt'
      BY <3>2 DEF ClockAt
    <3>4. BusyTunnelLives'
      BY <3>1, <3>2 DEF BusyTunnelLives
    <3> QED BY <2>1, <3>3, <3>4
  <2>9. "browser" \in Side
    BY DEF Side
  <2> QED BY <2>3, <2>4, <2>5, <2>6, <2>7, <2>8, <2>9, TunnelFrame
<1> QED BY <1>1, <1>2, PTL DEF Spec
===============================================================================
