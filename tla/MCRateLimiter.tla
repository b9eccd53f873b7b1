--------------------------- MODULE MCRateLimiter ---------------------------
(* Two clients, a window of two ticks, two requests allowed in it.         *)
EXTENDS RateLimiter

CONSTANTS c1, c2

(* rate_limiter.h, line 42: "Memory is bounded (max                        *)
(* RATE_LIMIT_MAX_REQUESTS entries per client)".  Rejected requests are    *)
(* recorded in the queue as well.                                          *)
MemoryBounded ==
  \A c \in Client : currentCount(c) <= MaxRequests
=============================================================================
