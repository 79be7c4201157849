----------------------------- MODULE RateLimiter -----------------------------
(***************************************************************************)
(* ByteRateLimiter (websocket_io.rs): the token bucket before each read of   *)
(* an upgraded tunnel.  Tokens are counted in units, TokenUnits to a byte,   *)
(* and Rate units come in with each tick of the clock (bytes per second and  *)
(* nanoseconds in the code, where TOKEN_UNITS_PER_BYTE is 10^9).  refill is  *)
(* capped, so adding the ticks one by one gives what the code gets from      *)
(* adding the time since the last poll at once.  A rate of 0 turns the       *)
(* limiter off and is not modelled.                                          *)
(***************************************************************************)
EXTENDS Integers

CONSTANTS
  TokenUnits,        \* TOKEN_UNITS_PER_BYTE
  Rate,              \* max_websocket_bytes_per_second, in units per tick
  BurstWindow        \* websocket_rate_burst_window, in ticks

ASSUME LimiterAssumption ==
  /\ TokenUnits \in Nat \ {0} /\ Rate \in Nat \ {0} /\ BurstWindow \in Nat \ {0}

(* Mutant: without the floor of one byte.                                    *)
CapacityOfBurst == Rate * BurstWindow

Capacity == IF Rate * BurstWindow < TokenUnits THEN TokenUnits ELSE Rate * BurstWindow

Refill(available) == IF available + Rate < Capacity THEN available + Rate ELSE Capacity

Allowance(available) == available \div TokenUnits

(* Mutant: reading is free.                                                  *)
ConsumeNothing(available, bytes) == available

(* A caller reads at most its allowance, so the subtraction never saturates. *)
Consume(available, bytes) ==
  IF bytes * TokenUnits <= available THEN available - bytes * TokenUnits ELSE 0

(* Sleep of a reader without a whole byte: missing.div_ceil(rate).max(1).    *)
WaitTicks(available) == (TokenUnits - available + Rate - 1) \div Rate
==============================================================================
