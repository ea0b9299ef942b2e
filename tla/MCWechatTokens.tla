--------------------------- MODULE MCWechatTokens ---------------------------
(* Two callers, two calls each, on a clock of 7 units: a token lives 5,    *)
(* Expired() keeps a margin of 2, a replaced token is accepted 3 more, and *)
(* the clock moves at most 1 during a call.                               *)
EXTENDS WechatTokens

MCCallers == {"c1", "c2"}

====
