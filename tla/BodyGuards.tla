------------------------------ MODULE BodyGuards -----------------------------
(***************************************************************************)
(* The streaming guards of the transport: RequestBodyGuard                  *)
(* (request_body.rs), ResponseBodyGuard and DecodedBodyGuard                 *)
(* (response_body.rs).  A guard is a record, and poll_frame a function from  *)
(* the guard and the frame its inner body has for it to the guard after the  *)
(* poll.  A timer is the number of clock ticks left of it.                   *)
(*                                                                          *)
(* `end` is "open" while the guard may still yield frames, "complete" after  *)
(* a clean end of stream, "failed" once it has yielded an error; either of   *)
(* the last two is the latch that ends the stream.                           *)
(***************************************************************************)
EXTENDS Integers

CONSTANTS
  MinRequestRate,    \* min_request_body_bytes_per_second
  MinResponseRate,   \* min_response_body_bytes_per_second
  RateWindow,        \* request_body_rate_window, response_body_rate_window
  IdleTimeout,       \* request_body_idle_timeout, response_body_idle_timeout
  TotalTimeout,      \* request_body_total_timeout
  MaxFrame           \* bound: bytes of one data frame

ASSUME GuardAssumption ==
  /\ MinRequestRate \in Nat /\ MinResponseRate \in Nat
  /\ RateWindow \in Nat \ {0} /\ MaxFrame \in Nat
  /\ IdleTimeout \in Nat \ {0} /\ TotalTimeout \in Nat \ {0}

(* One poll of an inner body: nothing yet, data, trailers, an error, the end. *)
Frame ==
  [kind : {"data"}, bytes : 0 .. MaxFrame] \cup
  [kind : {"pending", "trailers", "error", "end"}, bytes : {0}]

BrokenFrame == [kind |-> "error", bytes |-> 0]

(* minimum_bytes_for_window; 0 turns the floor off.                          *)
MinimumBytesForWindow(rate) == rate * RateWindow

Elapse(timer) == IF timer > 0 THEN timer - 1 ELSE 0

Failed(g) == [g EXCEPT !.end = "failed"]

(***************************************************************************)
(* RequestBodyGuard.  Timers start with the first poll, which Hyper makes as *)
(* soon as the request is handed to it.                                      *)
(***************************************************************************)
NewRequestGuard(limit) ==
  [end |-> "open", forwarded |-> 0, limit |-> limit, window |-> 0,
   idle |-> IdleTimeout, total |-> TotalTimeout, rate |-> RateWindow]

RequestExpired(g) ==
  \/ g.total = 0 \/ g.idle = 0
  \/ g.rate = 0 /\ g.window < MinimumBytesForWindow(MinRequestRate)

(* A rate window that was fast enough is followed by a new one.              *)
NextWindow(g) ==
  IF g.rate = 0 THEN [g EXCEPT !.window = 0, !.rate = RateWindow] ELSE g

(* An empty frame is no activity.                                            *)
AcceptData(g, bytes) ==
  [g EXCEPT !.forwarded = @ + bytes, !.window = @ + bytes,
            !.idle = IF bytes > 0 THEN IdleTimeout ELSE @]

PollRequest(g, f) ==
  IF g.end # "open" THEN g
  ELSE IF RequestExpired(g) THEN Failed(g)
  ELSE CASE f.kind = "pending" -> NextWindow(g)
         [] f.kind = "end" -> [NextWindow(g) EXCEPT !.end = "complete"]
         [] f.kind = "data" /\ g.forwarded + f.bytes <= g.limit -> AcceptData(NextWindow(g), f.bytes)
         [] OTHER -> Failed(g)

TickRequest(g) ==
  [g EXCEPT !.idle = Elapse(@), !.total = Elapse(@), !.rate = Elapse(@)]

(***************************************************************************)
(* ResponseBodyGuard.  A forbidden body has no timers and lets no byte      *)
(* through; declared = -1 when the head gives no length.                     *)
(***************************************************************************)
Streaming(declared, limit) ==
  [end |-> "open", forwarded |-> 0, declared |-> declared, limit |-> limit, timed |-> TRUE,
   window |-> 0, idle |-> IdleTimeout, rate |-> RateWindow]

Forbidden ==
  [end |-> "open", forwarded |-> 0, declared |-> -1, limit |-> 0, timed |-> FALSE,
   window |-> 0, idle |-> IdleTimeout, rate |-> RateWindow]

ResponseExpired(g) ==
  /\ g.timed
  /\ g.idle = 0 \/ (g.rate = 0 /\ g.window < MinimumBytesForWindow(MinResponseRate))

Fits(g, bytes) ==
  /\ g.forwarded + bytes <= g.limit
  /\ g.declared # -1 => g.forwarded + bytes <= g.declared

(* Mutant: end of stream without a look at the declared length.              *)
EndOfAnyLength(g) == [g EXCEPT !.end = "complete"]

(* A body that ends before its declared length is an UnexpectedEof.          *)
EndOfStream(g) ==
  IF g.declared = -1 \/ g.declared = g.forwarded
  THEN [g EXCEPT !.end = "complete"]
  ELSE Failed(g)

(* Mutant: the timers are looked at only while the inner body has nothing.    *)
PollResponsePending(g, f) ==
  IF g.end # "open" THEN g
  ELSE CASE f.kind = "pending" -> IF ResponseExpired(g) THEN Failed(g) ELSE NextWindow(g)
         [] f.kind = "end" -> EndOfStream(NextWindow(g))
         [] f.kind = "data" /\ Fits(g, f.bytes) -> AcceptData(NextWindow(g), f.bytes)
         [] OTHER -> Failed(g)

PollResponse(g, f) ==
  IF g.end # "open" THEN g
  ELSE IF ResponseExpired(g) THEN Failed(g)
  ELSE CASE f.kind = "pending" -> NextWindow(g)
         [] f.kind = "end" -> EndOfStream(NextWindow(g))
         [] f.kind = "data" /\ Fits(g, f.bytes) -> AcceptData(NextWindow(g), f.bytes)
         [] OTHER -> Failed(g)

TickResponse(g) ==
  IF g.timed THEN [g EXCEPT !.idle = Elapse(@), !.rate = Elapse(@)] ELSE g

(***************************************************************************)
(* DecodedBodyGuard, behind the decoders: only a byte cap and the latch.     *)
(***************************************************************************)
NewDecodedGuard(limit) == [end |-> "open", forwarded |-> 0, limit |-> limit]

PollDecoded(g, f) ==
  IF g.end # "open" THEN g
  ELSE CASE f.kind = "pending" -> g
         [] f.kind = "end" -> [g EXCEPT !.end = "complete"]
         [] f.kind = "data" /\ g.forwarded + f.bytes <= g.limit ->
              [g EXCEPT !.forwarded = @ + f.bytes]
         [] OTHER -> Failed(g)
==============================================================================
