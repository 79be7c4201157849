------------------------------- MODULE Exchange ------------------------------
(***************************************************************************)
(* One connection at a time through the transport proxy, from the first     *)
(* byte of the request head to the last of the response body or tunnel       *)
(* (crates/transport/src): what TransportProxy leaves open about a           *)
(* connection task.  Connections follow one another because what they share  *)
(* here, the one-time bootstrap credential, is read and written by a single  *)
(* compare_exchange.                                                         *)
(*                                                                          *)
(* The browser's side and the upstream may say anything in Requests and     *)
(* Responses, in pieces of any size, or nothing at all.  Time passes in      *)
(* ticks; a timeout is the number of ticks left of it.                       *)
(***************************************************************************)
EXTENDS ResponsePolicy, BodyGuards, RateLimiter

CONSTANTS
  Requests,          \* request heads a client may send
  Responses,         \* response heads the upstream may send
  MaxHeaderBytes,    \* limits.max_header_bytes
  MaxChunk,          \* bound: bytes one read of a head returns
  HeaderTimeout,     \* limits.header_timeout
  UpstreamTimeout,   \* limits.upstream_timeout
  TunnelIdle,        \* limits.websocket_idle_timeout
  Backlog,           \* bound: bytes a peer has to send through a tunnel
  CopyBuffer,        \* buffer of copy_bidirectional, external
  ProbeTicks         \* bound: length of the rate window that is watched

(* TransportLimits::is_valid, of the limits that occur here.                 *)
IsValid ==
  /\ HeaderTimeout > 0 /\ UpstreamTimeout > 0 /\ IdleTimeout > 0 /\ TotalTimeout > 0
  /\ MinRequestRate > 0 => RateWindow > 0 /\ RateWindow <= TotalTimeout
  /\ MinResponseRate > 0 => RateWindow > 0
  /\ MaxCodings <= 2
  /\ TunnelIdle > 0 /\ BurstWindow > 0 /\ BurstWindow <= TunnelIdle

ASSUME ExchangeAssumption ==
  /\ IsValid
  /\ MaxHeaderBytes \in Nat \ {0} /\ MaxChunk \in Nat \ {0}
  /\ HeaderTimeout \in Nat /\ UpstreamTimeout \in Nat /\ TunnelIdle \in Nat
  /\ Backlog \in Nat /\ CopyBuffer \in Nat \ {0}
  /\ ProbeTicks \in Nat
  /\ MaxRequestBody \in Nat /\ MaxResponseBody \in Nat /\ MaxDecodedBody \in Nat
  /\ MaxCodings \in Nat

(* A head has at least a byte, and each of its headers its values.           *)
ASSUME HeadsAssumption ==
  \A m \in Requests \cup Responses :
    m.size \in Nat \ {0} /\ m.headers = [n \in HeaderName |-> m.headers[n]]

VARIABLES
  stage,        \* how far the connection has come
  timer,        \* ticks left of the timeout around the running step
  wire,         \* bytes of the head being read, 0 before it starts
  got,          \* how many of them have been read
  request,      \* request head, once it is complete and until it is consumed
  raw,          \* RawAdmission
  consumed,     \* state.bootstrap_consumed
  issued,       \* session cookies handed out
  sent,         \* request for the upstream, until it is handed to Hyper
  asked,        \* of the request, until it is answered: [method, websocket, protocols]
  upload,       \* RequestBodyGuard
  answer,       \* response head the browser gets
  body,         \* ResponseBodyGuard
  decoded,      \* DecodedBodyGuard, when the body is decoded
  tunnel        \* the upgraded connection

exchangeVars ==
  <<stage, timer, wire, got, request, raw, consumed, issued, sent, asked, upload,
    answer, body, decoded, tunnel>>

Side == {"browser", "upstream"}

NoRaw == [connection_tokens |-> {}, websocket_upgrade |-> FALSE]
NotAsked == [method |-> "none", websocket |-> FALSE, protocols |-> {}]

Init ==
  /\ stage = "listening" /\ timer = 0 /\ wire = 0 /\ got = 0
  /\ request = None /\ raw = NoRaw
  /\ consumed = FALSE /\ issued = 0
  /\ sent = None /\ asked = NotAsked /\ upload = None
  /\ answer = None /\ body = None /\ decoded = None /\ tunnel = None

(* The browser gets the head h and the connection ends.                      *)
Answer(h) == answer' = h /\ stage' = "closed" /\ request' = None /\ raw' = NoRaw

(* The connection's task is gone, and what it held.                          *)
Disconnect ==
  /\ stage = "closed"
  /\ stage' = "listening" /\ timer' = 0 /\ wire' = 0 /\ got' = 0
  /\ asked' = NotAsked /\ answer' = None /\ body' = None /\ decoded' = None
  /\ UNCHANGED <<request, raw, consumed, issued, sent, upload, tunnel>>

(***************************************************************************)
(* handle_socket: read_request_prefix under header_timeout, then the raw    *)
(* admission of what was read.  What a head says matters once all of it is   *)
(* there: before, only its size does.                                        *)
(***************************************************************************)
Sizes(heads) == {h.size : h \in heads}

Accept ==
  /\ stage = "listening"
  /\ stage' = "prefix" /\ timer' = HeaderTimeout
  /\ wire' \in Sizes(Requests)
  /\ UNCHANGED <<got, request, raw, consumed, issued, sent, asked, upload,
                 answer, body, decoded, tunnel>>

(* Mutant: a chunk is taken whole, whatever the limit leaves.                *)
ReadHeadUnlimited ==
  /\ got < wire /\ got < MaxHeaderBytes
  /\ \E n \in 1 .. MaxChunk : got' = got + n

(* A chunk is limited to what max_header_bytes leaves; it may bring bytes    *)
(* that follow the head.                                                     *)
ReadHead ==
  /\ got < wire /\ got < MaxHeaderBytes
  /\ \E n \in 1 .. MaxChunk :
        got' = IF got + n > MaxHeaderBytes THEN MaxHeaderBytes ELSE got + n

ReadPrefix ==
  /\ stage = "prefix" /\ ReadHead
  /\ IF got' < wire THEN UNCHANGED request
     ELSE request' \in {q \in Requests : q.size = wire}
  /\ UNCHANGED <<stage, timer, wire, raw, consumed, issued, sent, asked,
                 upload, answer, body, decoded, tunnel>>

(* Over the limit, out of time, or the client has gone.                      *)
PrefixFails ==
  /\ stage = "prefix" /\ got < wire
  /\ Answer(FixedResponse(400))
  /\ UNCHANGED <<timer, wire, got, consumed, issued, sent, asked, upload,
                 body, decoded, tunnel>>

AdmitRequest ==
  /\ stage = "prefix" /\ got >= wire
  /\ IF Validate(request)
     THEN stage' = "handle" /\ raw' = RawAdmission(request) /\ UNCHANGED <<request, answer>>
     ELSE Answer(FixedResponse(400))
  /\ timer' = 0 /\ wire' = 0 /\ got' = 0
  /\ UNCHANGED <<consumed, issued, sent, asked, upload, body, decoded, tunnel>>

(***************************************************************************)
(* handle_request, up to the connection to the upstream.  The credential is *)
(* consumed by the comparison itself.                                        *)
(***************************************************************************)

(* Mutant: the flag is compared and not set.                                 *)
BootstrapNotConsumed ==
  /\ stage = "handle" /\ Verdict(request, raw, consumed) = "bootstrap"
  /\ issued' = issued + 1
  /\ Answer(BootstrapResponse)
  /\ UNCHANGED <<timer, wire, got, consumed, sent, asked, upload, body, decoded, tunnel>>

Bootstrap ==
  /\ stage = "handle" /\ Verdict(request, raw, consumed) = "bootstrap"
  /\ consumed' = TRUE /\ issued' = issued + 1
  /\ Answer(BootstrapResponse)
  /\ UNCHANGED <<timer, wire, got, sent, asked, upload, body, decoded, tunnel>>

Refuse ==
  /\ stage = "handle"
  /\ Verdict(request, raw, consumed) \in {"unauthorized", "rejected", "forbidden"}
  /\ Answer(FixedResponse(
       CASE Verdict(request, raw, consumed) = "unauthorized" -> 401
         [] Verdict(request, raw, consumed) = "rejected" -> 400
         [] OTHER -> 403))
  /\ UNCHANGED <<timer, wire, got, consumed, issued, sent, asked, upload,
                 body, decoded, tunnel>>

(* Err(_) of either forward function: 502.                                   *)
BadGateway == Answer(FixedResponse(502))

(* The head has been dealt with, and a connection to the upstream is wanted. *)
ToUpstream ==
  /\ stage' = "connect" /\ timer' = UpstreamTimeout
  /\ request' = None /\ raw' = NoRaw /\ UNCHANGED <<wire, got>>

(* Hyper's Incoming, as the head frames it: without a body it is at its end, *)
(* and so is the guard around it (is_end_stream).                            *)
HasBody(h) ==
  Has(h, "transfer-encoding") \/ (Has(h, "content-length") /\ h["content-length"][1] > 0)

(* forward_http: normalize_http_request, then connect.                       *)
ForwardHttp ==
  /\ stage = "handle" /\ Verdict(request, raw, consumed) = "http"
  /\ sent' = NormalizeHttpRequest(request, raw)
  /\ asked' = [method |-> request.method, websocket |-> FALSE, protocols |-> {}]
  /\ upload' = IF HasBody(request.headers) THEN NewRequestGuard(MaxRequestBody) ELSE None
  /\ ToUpstream
  /\ UNCHANGED <<consumed, issued, answer, body, decoded, tunnel>>

(* forward_websocket: the offer is checked before anything is sent.          *)
ForwardWebSocket ==
  /\ stage = "handle" /\ Verdict(request, raw, consumed) = "websocket"
  /\ IF ValidateWebSocketRequest(request)
     THEN /\ sent' = BuildUpstreamWebSocketRequest(request)
          /\ asked' = [method |-> "GET", websocket |-> TRUE, protocols |-> Protocols(request)]
          /\ ToUpstream /\ UNCHANGED answer
     ELSE BadGateway /\ UNCHANGED <<sent, asked, timer, wire, got>>
  /\ UNCHANGED <<consumed, issued, upload, body, decoded, tunnel>>

(* Connected, driver spawned and ready: send_request gets its own timeout.   *)
ConnectUpstream ==
  /\ stage = "connect"
  /\ stage' = "exchange" /\ timer' = UpstreamTimeout /\ sent' = None
  /\ UNCHANGED <<wire, got, request, raw, consumed, issued, asked, upload,
                 answer, body, decoded, tunnel>>

(* Refused, out of time, or the proxy is shutting down.                      *)
ConnectFails ==
  /\ stage = "connect"
  /\ BadGateway /\ sent' = None /\ upload' = None
  /\ UNCHANGED <<timer, wire, got, consumed, issued, asked, body, decoded, tunnel>>

(***************************************************************************)
(* The request body streams up while the response head comes down, and, if   *)
(* the upstream answers before it has all of it, while the body does.         *)
(***************************************************************************)
Uploading == stage \in {"exchange", "body"} /\ upload # None

(* Hyper drops a body that has ended.                                        *)
Unfinished(g) == IF g.end = "complete" THEN None ELSE g

PollUpload ==
  /\ Uploading /\ upload.end = "open"
  /\ \E f \in Frame : upload' = Unfinished(PollRequest(upload, f))
  /\ UNCHANGED <<stage, timer, wire, got, request, raw, consumed, issued, sent, asked,
                 answer, body, decoded, tunnel>>

(* A guard error fails send_request.                                         *)
UploadFails ==
  /\ stage = "exchange" /\ upload # None /\ upload.end = "failed"
  /\ BadGateway /\ upload' = None
  /\ UNCHANGED <<timer, wire, got, consumed, issued, sent, asked, body, decoded, tunnel>>

(* After the head it ends Hyper's driver, and with it the response body that *)
(* the driver was reading.                                                   *)
UploadAborts ==
  /\ stage = "body" /\ upload # None /\ upload.end = "failed"
  /\ upload' = None
  /\ body' = PollResponse(body, BrokenFrame)
  /\ UNCHANGED <<stage, timer, wire, got, request, raw, consumed, issued, sent, asked,
                 answer, decoded, tunnel>>

ResponseStarts ==
  /\ stage = "exchange" /\ wire = 0
  /\ wire' \in Sizes(Responses)
  /\ UNCHANGED <<stage, timer, got, request, raw, consumed, issued, sent, asked, upload,
                 answer, body, decoded, tunnel>>

(* ResponseGuardIo::poll_read, one read of the inner stream.                 *)
ReadResponseHead ==
  /\ stage = "exchange" /\ ReadHead
  /\ UNCHANGED <<stage, timer, wire, request, raw, consumed, issued, sent, asked, upload,
                 answer, body, decoded, tunnel>>

(* Over the limit, closed or failed before the head was complete, or too late. *)
ResponseHeadFails ==
  /\ stage = "exchange" /\ (wire = 0 \/ got < wire \/ timer = 0)
  /\ BadGateway /\ upload' = None
  /\ UNCHANGED <<timer, wire, got, consumed, issued, sent, asked, body, decoded, tunnel>>

(***************************************************************************)
(* The head is complete: validate_prefix decides whether Hyper sees it, and *)
(* normalize_http_response what becomes of it.  An upload that is not        *)
(* complete goes on.                                                         *)
(***************************************************************************)
HttpResponse(r) ==
  /\ ~asked.websocket
  /\ IF ValidateResponseHead(r, FALSE) /\ ResponseAccepted(asked.method, r)
     THEN /\ answer' = NormalizeHttpResponse(asked.method, r)
          /\ body' = IF BodyForbidden(asked.method, r.status) THEN Forbidden
                     ELSE Streaming(DeclaredLength(r.headers), EncodedBodyLimit(r.headers))
          /\ decoded' = IF Encoded(r.headers) /\ ~BodyForbidden(asked.method, r.status)
                        THEN NewDecodedGuard(MaxDecodedBody) ELSE None
          /\ stage' = "body" /\ timer' = 0 /\ UNCHANGED <<request, raw, upload>>
     ELSE BadGateway /\ upload' = None /\ UNCHANGED <<body, decoded, timer>>
  /\ wire' = 0 /\ got' = 0 /\ asked' = NotAsked
  /\ UNCHANGED <<consumed, issued, sent, tunnel>>

NewTunnel ==
  [available |-> [s \in Side |-> Capacity], left |-> [s \in Side |-> Backlog],
   buffered |-> [s \in Side |-> 0], eof |-> [s \in Side |-> FALSE],
   wake |-> [s \in Side |-> -1], idle |-> TunnelIdle, probe |-> -1, read |-> 0]

SwitchResponse(r) ==
  /\ asked.websocket
  /\ IF ValidateResponseHead(r, TRUE) /\ ValidateWebSocketResponse(r, asked.protocols)
     THEN /\ answer' = DownstreamWebSocketResponse(r)
          /\ tunnel' = NewTunnel
          /\ stage' = "tunnel" /\ timer' = 0 /\ UNCHANGED <<request, raw>>
     ELSE BadGateway /\ UNCHANGED <<tunnel, timer>>
  /\ wire' = 0 /\ got' = 0
  /\ UNCHANGED <<consumed, issued, sent, asked, upload, body, decoded>>

UpstreamResponse ==
  /\ stage = "exchange" /\ wire > 0 /\ got >= wire
  /\ \E r \in Responses : r.size = wire /\ (HttpResponse(r) \/ SwitchResponse(r))

(***************************************************************************)
(* The response body.  With content codings the decoders sit between the    *)
(* two guards: they yield any bytes once they have been fed, fail at will,   *)
(* and end only after the encoded body has ended.                            *)
(***************************************************************************)
PollBody ==
  /\ stage = "body" /\ body.end = "open"
  /\ \E f \in Frame : body' = PollResponse(body, f)
  /\ UNCHANGED <<stage, timer, wire, got, request, raw, consumed, issued, sent, asked,
                 upload, answer, decoded, tunnel>>

DecoderYields(f) ==
  CASE f.kind = "data" -> body.forwarded > 0
    [] f.kind = "end" -> body.end = "complete"
    [] f.kind = "trailers" -> FALSE
    [] OTHER -> TRUE

PollDecoder ==
  /\ stage = "body" /\ decoded # None /\ decoded.end = "open"
  /\ \E f \in Frame : DecoderYields(f) /\ decoded' = PollDecoded(decoded, f)
  /\ UNCHANGED <<stage, timer, wire, got, request, raw, consumed, issued, sent, asked,
                 upload, answer, body, tunnel>>

(* The guard Hyper polls; the other one feeds it.                            *)
Outer == IF decoded # None THEN decoded ELSE body

(* The connection closes, and with it the source of an upload.               *)
CloseBody ==
  /\ stage' = "closed" /\ upload' = None
  /\ UNCHANGED <<timer, wire, got, request, raw, consumed, issued, sent, asked,
                 answer, body, decoded, tunnel>>

(* End of the stream or its error reached Hyper.                             *)
BodyEnds == stage = "body" /\ Outer.end # "open" /\ CloseBody

(* Hyper writes no body after a head that allows none, or whose size hint is *)
(* exactly 0, and drops the guard unpolled.                                  *)
NoBodyWritten == stage = "body" /\ body.limit = 0 /\ CloseBody

(* The browser is gone.                                                      *)
BrowserLeaves == stage = "body" /\ Outer.end = "open" /\ CloseBody

(***************************************************************************)
(* The tunnel: copy_bidirectional over two WebSocketIo, in a select with     *)
(* wait_until_idle.  `left` is what a peer still has to send, `buffered`     *)
(* what was read from it and not yet written to the other.  Reads, not       *)
(* writes, pay tokens; both are activity.                                    *)
(***************************************************************************)
KeepTunnelStage ==
  UNCHANGED <<stage, timer, wire, got, request, raw, consumed, issued, sent, asked, upload,
              answer, body, decoded>>

(* The copy polls a side for reading: room in the buffer, no end yet.        *)
Wanted(s) == ~tunnel.eof[s] /\ tunnel.buffered[s] < CopyBuffer

CanRead(s) ==
  Wanted(s) /\ tunnel.left[s] > 0 /\ tunnel.wake[s] <= 0 /\ Allowance(tunnel.available[s]) > 0

TunnelRead(s) ==
  /\ stage = "tunnel" /\ CanRead(s)
  /\ \E n \in 1 .. Allowance(tunnel.available[s]) :
        /\ n <= tunnel.left[s] /\ n <= CopyBuffer - tunnel.buffered[s]
        /\ tunnel' = [tunnel EXCEPT
             !.available[s] = Consume(@, n), !.left[s] = @ - n, !.buffered[s] = @ + n,
             !.wake[s] = -1, !.idle = TunnelIdle,
             !.read = IF tunnel.probe >= 0 /\ s = "browser" THEN @ + n ELSE @]
  /\ KeepTunnelStage

(* No whole byte of allowance: sleep until there should be one.              *)
TunnelWaits(s) ==
  /\ stage = "tunnel" /\ Wanted(s)
  /\ tunnel.wake[s] = -1 /\ Allowance(tunnel.available[s]) = 0
  /\ tunnel' = [tunnel EXCEPT !.wake[s] = WaitTicks(tunnel.available[s])]
  /\ KeepTunnelStage

(* End of stream is read like data, and is no activity.                      *)
TunnelEof(s) ==
  /\ stage = "tunnel" /\ Wanted(s) /\ tunnel.left[s] = 0
  /\ tunnel.wake[s] <= 0 /\ Allowance(tunnel.available[s]) > 0
  /\ tunnel' = [tunnel EXCEPT !.eof[s] = TRUE, !.wake[s] = -1]
  /\ KeepTunnelStage

TunnelWrite(s) ==
  /\ stage = "tunnel" /\ tunnel.buffered[s] > 0
  /\ \E n \in 1 .. tunnel.buffered[s] :
        tunnel' = [tunnel EXCEPT !.buffered[s] = @ - n, !.idle = TunnelIdle]
  /\ KeepTunnelStage

CloseTunnel ==
  /\ stage' = "closed" /\ tunnel' = None
  /\ UNCHANGED <<timer, wire, got, request, raw, consumed, issued, sent, asked, upload,
                 answer, body, decoded>>

(* Both directions have ended and everything is written.                     *)
TunnelEnds ==
  /\ stage = "tunnel" /\ \A s \in Side : tunnel.eof[s] /\ tunnel.buffered[s] = 0
  /\ CloseTunnel

(* wait_until_idle wins the select.                                          *)
TunnelIdles == stage = "tunnel" /\ tunnel.idle = 0 /\ CloseTunnel

(* A read or a write fails, or the upgrade itself does.                      *)
TunnelFails == stage = "tunnel" /\ CloseTunnel

(* A rate window to be watched begins, at any time.                          *)
Watch ==
  /\ stage = "tunnel" /\ tunnel.probe = -1
  /\ tunnel' = [tunnel EXCEPT !.probe = 0, !.read = 0]
  /\ KeepTunnelStage

TickTunnel(t) ==
  [t EXCEPT !.available = [s \in Side |-> Refill(t.available[s])],
            !.wake = [s \in Side |-> IF t.wake[s] > 0 THEN t.wake[s] - 1 ELSE t.wake[s]],
            !.idle = Elapse(@),
            !.probe = IF @ = -1 \/ @ = ProbeTicks THEN -1 ELSE @ + 1,
            !.read = IF t.probe = ProbeTicks THEN 0 ELSE @]

(***************************************************************************)
(* Time passes for whatever runs.  A tunnel task that can read does so       *)
(* before the next tick: a tick is long beside a poll.                       *)
(***************************************************************************)
Tick ==
  /\ stage \in {"prefix", "connect", "exchange", "body", "tunnel"}
  /\ stage = "tunnel" => \A s \in Side : ~CanRead(s)
  /\ timer' = IF stage \in {"prefix", "connect", "exchange"} THEN Elapse(timer) ELSE timer
  /\ upload' = IF Uploading /\ upload.end = "open" THEN TickRequest(upload) ELSE upload
  /\ body' = IF stage = "body" /\ body.end = "open" THEN TickResponse(body) ELSE body
  /\ tunnel' = IF stage = "tunnel" THEN TickTunnel(tunnel) ELSE tunnel
  /\ UNCHANGED <<stage, wire, got, request, raw, consumed, issued, sent, asked,
                 answer, decoded>>

-------------------------------------------------------------------------------
Reading == Accept \/ ReadPrefix \/ PrefixFails \/ AdmitRequest \/ Disconnect
Handling == Bootstrap \/ Refuse \/ ForwardHttp \/ ForwardWebSocket
Forwarding ==
  \/ ConnectUpstream \/ ConnectFails \/ PollUpload \/ UploadFails \/ UploadAborts
  \/ ResponseStarts \/ ReadResponseHead \/ ResponseHeadFails
  \/ UpstreamResponse
Body == PollBody \/ PollDecoder \/ BodyEnds \/ NoBodyWritten \/ BrowserLeaves
Tunnelling ==
  \/ \E s \in Side : TunnelRead(s) \/ TunnelWaits(s) \/ TunnelEof(s) \/ TunnelWrite(s)
  \/ TunnelEnds \/ TunnelIdles \/ TunnelFails \/ Watch

Next == Reading \/ Handling \/ Forwarding \/ Body \/ Tunnelling \/ Tick

Spec == Init /\ [][Next]_exchangeVars

(***************************************************************************)
(* Fairness: the clock runs; tasks run to their next await; a timer that has *)
(* fired wakes its task, which polls the guard; a decoder whose input has    *)
(* ended ends.  Nothing is assumed of the client or the upstream, except     *)
(* that the client takes what it is sent: Hyper polls no body while its      *)
(* write buffer is full.                                                     *)
(***************************************************************************)
TimedOut == timer = 0 /\ (PrefixFails \/ ConnectFails \/ ResponseHeadFails)

UploadTimer == upload.rate = 0 \/ RequestExpired(upload)
UploadWakes == (Uploading /\ UploadTimer) /\ PollUpload

BodyTimer == body.rate = 0 \/ ResponseExpired(body)
BodyWakes == (stage = "body" /\ BodyTimer) /\ PollBody

DecoderEnds == (stage = "body" /\ body.end # "open" /\ PollDecoder) /\ decoded'.end # "open"

FairSpec ==
  /\ Spec
  /\ WF_exchangeVars(Tick)
  /\ WF_exchangeVars(AdmitRequest) /\ WF_exchangeVars(Handling)
  /\ WF_exchangeVars(TimedOut)
  /\ WF_exchangeVars(UploadWakes) /\ WF_exchangeVars(UploadFails)
  /\ WF_exchangeVars(BodyWakes) /\ WF_exchangeVars(DecoderEnds)
  /\ WF_exchangeVars(BodyEnds) /\ WF_exchangeVars(NoBodyWritten)
  /\ \A s \in Side : WF_exchangeVars(TunnelRead(s))
  /\ WF_exchangeVars(TunnelIdles)

-------------------------------------------------------------------------------
RequestGuard ==
  [end : {"open", "complete", "failed"}, forwarded : 0 .. MaxRequestBody,
   limit : {MaxRequestBody}, window : 0 .. MaxRequestBody,
   idle : 0 .. IdleTimeout, total : 0 .. TotalTimeout, rate : 0 .. RateWindow]

Tunnel ==
  [available : [Side -> 0 .. Capacity], left : [Side -> 0 .. Backlog],
   buffered : [Side -> 0 .. CopyBuffer], eof : [Side -> BOOLEAN],
   wake : [Side -> Int], idle : 0 .. TunnelIdle, probe : -1 .. ProbeTicks, read : Nat]

(***************************************************************************)
(* Type invariant; what was read of a head never exceeds max_header_bytes,  *)
(* whatever the chunks are.                                                  *)
(***************************************************************************)
TypeOK ==
  /\ stage \in {"listening", "prefix", "handle", "connect", "exchange", "body", "tunnel", "closed"}
  /\ timer \in Nat /\ got \in 0 .. MaxHeaderBytes
  /\ consumed \in BOOLEAN /\ issued \in Nat
  /\ stage = "handle" => Validate(request) /\ raw = RawAdmission(request)
  /\ Uploading => upload \in RequestGuard
  /\ stage = "body" => body # None
  /\ stage = "tunnel" => tunnel \in Tunnel

(***************************************************************************)
(* What the proxy sends upstream (normalize_http_request,                   *)
(* build_upstream_websocket_request) carries the upstream secret exactly     *)
(* once and under the proxy's value, and nothing of the browser's session,   *)
(* bootstrap credential, forwarding headers or connection management,        *)
(* whatever the Connection header nominated.                                 *)
(***************************************************************************)
UpstreamRequestClean ==
  sent # None =>
    /\ SingleExact(sent.headers, "shiny-shared-secret", "upstream")
    /\ SingleExact(sent.headers, "host", "upstream")
    /\ ~Has(sent.headers, "x-rpackit-bootstrap") /\ ~Has(sent.headers, "x-forwarded-for")
    /\ \A n \in HopByHop : Has(sent.headers, n) => asked.websocket
    /\ Has(sent.headers, "origin") => SingleExact(sent.headers, "origin", "upstream")
    /\ Has(sent.headers, "cookie") =>
          \A c \in ReservedName : sent.headers["cookie"][1][c] = <<>>

(***************************************************************************)
(* Only a request admitted raw and authenticated is forwarded, and what the *)
(* application decides by is forwarded with it: its cookies, and an Origin   *)
(* if there was one (admission.rs keeps Connection tokens from removing      *)
(* them).                                                                    *)
(***************************************************************************)
ForwardedFaithfully ==
  [][sent = None /\ sent' # None =>
       /\ Validate(request) /\ Authenticated(request.headers)
       /\ Has(sent'.headers, "origin") <=> Has(request.headers, "origin")
       /\ request.headers["cookie"][1]["app"] # <<>> =>
            /\ Has(sent'.headers, "cookie")
            /\ sent'.headers["cookie"][1]["app"] = request.headers["cookie"][1]["app"]
    ]_exchangeVars

(***************************************************************************)
(* One bootstrap credential buys one session, however many connections       *)
(* present it (authenticate_bootstrap).                                      *)
(***************************************************************************)
BootstrapOnce == issued <= 1

(***************************************************************************)
(* Raw admission covers one request per connection although Hyper keeps      *)
(* connections alive: every answer closes the connection, or switches it to  *)
(* a tunnel that the client asked for under a protocol it offered.           *)
(***************************************************************************)
AnswerEndsAdmission ==
  answer # None =>
    \/ SingleExact(answer.headers, "connection", <<"close">>)
    \/ /\ answer.kind = "switch" /\ asked.websocket
       /\ Has(answer.headers, "sec-websocket-protocol") =>
             answer.headers["sec-websocket-protocol"][1] \in asked.protocols

(***************************************************************************)
(* An upstream cannot use its response head against the proxy: it sets no    *)
(* cookie under the session's name in any spelling, none for its own host,   *)
(* keeps no redirect to itself and no hop-by-hop header                      *)
(* (normalize_http_response).                                                *)
(***************************************************************************)
BrowserHeadSafe ==
  answer # None /\ answer.kind = "upstream" =>
    /\ \A i \in DOMAIN answer.headers["set-cookie"] :
          /\ answer.headers["set-cookie"][i].name \notin ReservedName
          /\ answer.headers["set-cookie"][i].domain = "none"
    /\ answer.headers["location"] # <<"upstream">>
    /\ \A n \in HopByHop \ {"connection"} : ~Has(answer.headers, n)
    /\ ~Has(answer.headers, "shiny-shared-secret")

(***************************************************************************)
(* The body the browser gets keeps what the head promised, through both      *)
(* guards and the decoders: never more than the decoded limit, and if it     *)
(* ends cleanly, a whole upstream body of exactly the announced length.      *)
(***************************************************************************)
BodyAsAnnounced ==
  body # None =>
    /\ Outer.forwarded <= MaxDecodedBody
    /\ Outer.end = "complete" /\ body.limit > 0 =>
         /\ body.end = "complete"
         /\ Has(answer.headers, "content-length") =>
               answer.headers["content-length"][1] = Outer.forwarded
    /\ body.limit = 0 => Outer.forwarded = 0

(***************************************************************************)
(* In every window of every length, a tunnel direction carries at most its   *)
(* burst capacity and the rate's share of the time (ByteRateLimiter).        *)
(***************************************************************************)
RateBound ==
  stage = "tunnel" /\ tunnel.probe >= 0 =>
    tunnel.read * TokenUnits <= Capacity + Rate * tunnel.probe

(***************************************************************************)
(* Shaping never starves a tunnel into its idle timeout: when                *)
(* wait_until_idle gives up, no side had bytes to send that there was room   *)
(* for.                                                                      *)
(***************************************************************************)
BusyTunnelLives ==
  stage = "tunnel" /\ tunnel.idle = 0 =>
    \A s \in Side : ~(Wanted(s) /\ tunnel.left[s] > 0)

(***************************************************************************)
(* Every connection ends, whatever the client and the upstream withhold: in  *)
(* the request head, the upload, the response head, the body (where empty    *)
(* frames are no activity and each other one counts against the limit), or   *)
(* the tunnel.                                                               *)
(***************************************************************************)
ExchangeEnds == stage = "prefix" ~> stage = "closed"
==============================================================================
