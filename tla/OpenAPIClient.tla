---------------------------- MODULE OpenAPIClient ----------------------------
(***************************************************************************)
(* openapi.Client of src/openapi: Get, PostReader and Post call do, which *)
(* takes a token from getAccessToken and sends the request with it.      *)
(* getAccessToken returns the stored token unless it is missing, empty or *)
(* expired; otherwise it requests /oauth/token, stamps ExpiresAt with     *)
(* FixExpireAt (now + expires_in - 10 s, `now` taken after the response)  *)
(* and saves it through the AccessTokenStorager, if one was given.        *)
(* Nothing serialises concurrent calls.                                   *)
(*                                                                         *)
(* Time is a clock of units.  FixMargin is the 10 s of FixExpireAt and    *)
(* Timeout the http.Client's Timeout (10 s unless ClientTimeOut): a       *)
(* response is taken before Timeout units have passed since the request, *)
(* after that the request fails.  The OpenAPI server is the environment: *)
(* it issues a token valid for Lifetime units from the time it answers,  *)
(* and accepts it until then.                                            *)
(***************************************************************************)
EXTENDS Naturals

CONSTANTS
  Callers,      \* goroutines calling Get / Post
  MaxCalls,     \* calls of each
  Lifetime,     \* expires_in of an issued token
  FixMargin,    \* FixExpireAt's 10 seconds
  Timeout,      \* http.Client.Timeout
  MaxTime,      \* no call starts after MaxTime
  MaxTokens,    \* bound on the tokens the server issues
  Storagers,    \* the subset of {FALSE, TRUE (WithAccessTokenStorager)} to check
  None          \* model value: the storager holds no token

ASSUME FixMargin \in Nat /\ Timeout \in Nat \ {0} /\ Lifetime > FixMargin

Tok == 1..MaxTokens
\* Requests sent by MaxTime time out by MaxTime + Timeout; a request with
\* a fetched token is sent by then, and times out by EndTime.
EndTime == MaxTime + 2 * Timeout

VARIABLES
  stor,       \* an AccessTokenStorager was given
  now,        \* the clock
  srvExp,     \* srvExp[n]: until when the server accepts token n (0: not issued)
  issued,     \* tokens issued so far
  store,      \* the stored token: None or [tok, exp] (exp is ExpiresAt)
  pc,         \* pc[c]: "idle", "tok_wait", "tok_resp", "api_wait", "api_resp"
  sentAt,     \* the time c's pending request was sent
  resp,       \* the token response: [kind, tok, rem]
  held,       \* the token c's request carries (0: none)
  calls,      \* calls made by c
  sentStale,  \* a request was sent with a token the server no longer accepts
  rejected    \* the server refused a request's token

vars == <<stor, now, srvExp, issued, store, pc, sentAt, resp, held, calls,
          sentStale, rejected>>

Answer(kind, tok, rem) == [kind |-> kind, tok |-> tok, rem |-> rem]
Failed == Answer("err", 0, 0)

\* NewClient with or without WithAccessTokenStorager.
Init ==
  /\ stor \in Storagers /\ now = 0
  /\ srvExp = [n \in Tok |-> 0] /\ issued = 0 /\ store = None
  /\ pc = [c \in Callers |-> "idle"] /\ sentAt = [c \in Callers |-> 0]
  /\ resp = [c \in Callers |-> Failed] /\ held = [c \in Callers |-> 0]
  /\ calls = [c \in Callers |-> 0] /\ sentStale = FALSE /\ rejected = FALSE

\* Mutant: an off-by-one that keeps a token one unit past ExpiresAt.
ExpiredLate(x) == x.exp + 1 < now

\* AccessToken.Expired: ExpiresAt.Before(time.Now()); no margin.
Expired(x) == x.exp < now

\* loadAccessToken: a storager, a stored non-empty token, not expired.
\* (Expired's error for a zero ExpiresAt is ignored; FixExpireAt always
\* sets it, so every stored token has one.)
Loaded == stor /\ store # None /\ ~Expired(store)

\* Mutant: ExpiresAt without the 10 seconds.
FixExpireAtNoMargin(rem) == now + rem

\* AccessTokenDTO.FixExpireAt: time.Now() + expires_in - 10 s.
FixExpireAt(rem) == now + rem - FixMargin

\* saveAccessToken: without a storager nothing is saved; c.ats.Set may
\* fail, and its error becomes do's.
Saves == IF stor THEN BOOLEAN ELSE {TRUE}

\* A call returns; its locals are gone.
Return(c) ==
  /\ pc' = [pc EXCEPT ![c] = "idle"] /\ sentAt' = [sentAt EXCEPT ![c] = 0]
  /\ resp' = [resp EXCEPT ![c] = Failed] /\ held' = [held EXCEPT ![c] = 0]

\* do: the Authorization header from the token, then c.cl.Do(req).
SendApi(c, tok) ==
  /\ held' = [held EXCEPT ![c] = tok] /\ sentAt' = [sentAt EXCEPT ![c] = now]
  /\ pc' = [pc EXCEPT ![c] = "api_wait"] /\ resp' = [resp EXCEPT ![c] = Failed]
  /\ sentStale' = (sentStale \/ (tok \in Tok /\ now >= srvExp[tok]))

\* getAccessToken without a usable stored token: the token request.
Fetch(c) ==
  /\ sentAt' = [sentAt EXCEPT ![c] = now] /\ pc' = [pc EXCEPT ![c] = "tok_wait"]
  /\ UNCHANGED <<resp, held, sentStale>>

\* Get / PostReader / Post build the request and call do, which calls
\* getAccessToken: a loaded token is used at once.
Call(c) ==
  /\ pc[c] = "idle" /\ calls[c] < MaxCalls /\ now <= MaxTime
  /\ calls' = [calls EXCEPT ![c] = @ + 1]
  /\ IF Loaded THEN SendApi(c, store.tok) ELSE Fetch(c)
  /\ UNCHANGED <<stor, now, srvExp, issued, store, rejected>>

\* The clock; past MaxTime it only runs while a request is pending.
Tick ==
  /\ now < EndTime /\ (now < MaxTime \/ \E c \in Callers : pc[c] # "idle")
  /\ now' = now + 1
  /\ UNCHANGED <<stor, srvExp, issued, store, pc, sentAt, resp, held, calls, sentStale, rejected>>

\* Environment: the server answers the token request with a new token
\* valid for Lifetime from now, or with an error (code != 200).
TokServe(c) ==
  /\ pc[c] = "tok_wait"
  /\ pc' = [pc EXCEPT ![c] = "tok_resp"]
  /\ \/ resp' = [resp EXCEPT ![c] = Failed] /\ UNCHANGED <<srvExp, issued>>
     \/ /\ issued < MaxTokens
        /\ issued' = issued + 1 /\ srvExp' = [srvExp EXCEPT ![issued + 1] = now + Lifetime]
        /\ resp' = [resp EXCEPT ![c] = Answer("ok", issued + 1, Lifetime)]
  /\ UNCHANGED <<stor, now, store, sentAt, held, calls, sentStale, rejected>>

\* Mutant: r.Code is not checked; the empty token of a failed response
\* is used.
TokRecvIgnoreCode(c) ==
  /\ pc[c] = "tok_resp" /\ now - sentAt[c] < Timeout
  /\ LET at == [tok |-> resp[c].tok, exp |-> FixExpireAt(resp[c].rem)] IN
     \E ok \in Saves :
       IF ok THEN /\ store' = IF stor THEN at ELSE store
                  /\ SendApi(c, at.tok)
             ELSE Return(c) /\ UNCHANGED <<store, sentStale>>
  /\ UNCHANGED <<stor, now, srvExp, issued, calls, rejected>>

\* getAccessToken takes the response within the timeout: a code other
\* than 200 returns the error; else FixExpireAt, saveAccessToken (an error
\* returns), and do sends the request with the token.
TokRecv(c) ==
  /\ pc[c] = "tok_resp" /\ now - sentAt[c] < Timeout
  /\ IF resp[c].kind # "ok"
       THEN Return(c) /\ UNCHANGED <<store, sentStale>>
       ELSE LET at == [tok |-> resp[c].tok, exp |-> FixExpireAt(resp[c].rem)] IN
            \E ok \in Saves :
              IF ok THEN /\ store' = IF stor THEN at ELSE store
                         /\ SendApi(c, at.tok)
                    ELSE Return(c) /\ UNCHANGED <<store, sentStale>>
  /\ UNCHANGED <<stor, now, srvExp, issued, calls, rejected>>

\* c.cl.Do returns the timeout error once Timeout has passed.
TokTimeout(c) ==
  /\ pc[c] \in {"tok_wait", "tok_resp"} /\ now - sentAt[c] >= Timeout
  /\ Return(c)
  /\ UNCHANGED <<stor, now, srvExp, issued, store, calls, sentStale, rejected>>

\* Environment: the server serves the request, refusing an expired token.
ApiServe(c) ==
  /\ pc[c] = "api_wait"
  /\ pc' = [pc EXCEPT ![c] = "api_resp"]
  /\ rejected' = (rejected \/ now >= srvExp[held[c]])
  /\ UNCHANGED <<stor, now, srvExp, issued, store, sentAt, resp, held, calls, sentStale>>

\* Mutant: a client without a Timeout waits for the server forever.
ApiDoneNoTimeout(c) ==
  /\ pc[c] = "api_resp"
  /\ Return(c)
  /\ UNCHANGED <<stor, now, srvExp, issued, store, calls, sentStale, rejected>>

\* do returns c.cl.Do's response, or its timeout error.
ApiDone(c) ==
  /\ \/ pc[c] = "api_resp" /\ now - sentAt[c] < Timeout
     \/ pc[c] \in {"api_wait", "api_resp"} /\ now - sentAt[c] >= Timeout
  /\ Return(c)
  /\ UNCHANGED <<stor, now, srvExp, issued, store, calls, sentStale, rejected>>

Next ==
  \/ Tick
  \/ \E c \in Callers :
       Call(c) \/ TokServe(c) \/ TokRecv(c) \/ TokTimeout(c) \/ ApiServe(c) \/ ApiDone(c)

\* The client's own steps and the clock run; the server need not answer.
Spec ==
  /\ Init /\ [][Next]_vars
  /\ WF_vars(Tick)
  /\ \A c \in Callers : WF_vars(TokRecv(c) \/ TokTimeout(c) \/ ApiDone(c))

-----------------------------------------------------------------------------
(* Properties.                                                             *)

\* A request being sent carries a token.
TypeOK ==
  /\ now \in 0..EndTime /\ issued \in 0..MaxTokens /\ srvExp \in [Tok -> Nat]
  /\ store \in [tok : Tok, exp : Nat] \cup {None}
  /\ \A c \in Callers : pc[c] \in {"api_wait", "api_resp"} => held[c] \in Tok

\* The stored ExpiresAt never lies past the server's expiry of the token:
\* FixExpireAt stamps it after the response, and its 10 seconds cover the
\* response's delay only because the client's Timeout is no longer.
StoredExpiryNeverLate == store # None => store.exp <= srvExp[store.tok]

\* do never sends a request with a token the server no longer accepts: a
\* stored token passes Expired only before its ExpiresAt, which lies
\* before the server's expiry, and a fetched one is used at once.
ValidWhenSent == ~sentStale

\* Every call of do returns, even when the server never answers: the
\* http.Client's Timeout ends both requests.
EveryCallReturns == \A c \in Callers : pc[c] # "idle" ~> pc[c] = "idle"

=============================================================================
