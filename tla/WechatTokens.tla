---------------------------- MODULE WechatTokens ----------------------------
(***************************************************************************)
(* The access-token and JS-API-ticket caches of src/wechat: GetAccessToken *)
(* (access_token.go) and GetJsApiTicket (jsapi_ticket.go) read the token   *)
(* from the configured storage, return it unless Expired(), and otherwise  *)
(* fetch a new one and store it in a deferred Set.  Several goroutines    *)
(* call them concurrently and use the token in an API request             *)
(* (SendTplMessage of send_message.go, the getticket request).            *)
(*                                                                         *)
(* The storage is storage.Memory (a sets.Set under its RWMutex: Get and   *)
(* Set are atomic) or storage.File (write is os.Create, which truncates,  *)
(* then an Encode: a read in between decodes nothing and returns nil).    *)
(*                                                                         *)
(* The WeChat server is the environment, with the token semantics its     *)
(* documentation gives: /cgi-bin/token issues a new token on every call   *)
(* and the previous one stays valid for Grace more; /cgi-bin/stable_token *)
(* returns the current token while more than Grace of it is left and a    *)
(* new one otherwise.  A request with a token the server no longer        *)
(* accepts fails with errcode 40001.  Time is a clock `now` in abstract   *)
(* units: Lifetime is expires_in, Margin the minute of Expired().         *)
(***************************************************************************)
EXTENDS Naturals, FiniteSets

CONSTANTS
  Callers,       \* goroutines calling the API
  MaxCalls,      \* calls each of them makes
  Lifetime,      \* expires_in of a token or ticket
  Margin,        \* Expired(): time.Until(ExpireAt) < time.Minute
  Grace,         \* how long the server keeps accepting a replaced token
  MaxCallTime,   \* how far the clock moves during one call
  MaxTime,       \* bound on the clock
  MaxTokens,     \* bound on the tokens the server issues
  StableModes,   \* the subset of {FALSE, TRUE (UseStableAccessToken)} to check
  Backends,      \* the subset of {"memory", "file", "redis"} to check
  None           \* model value: the storage returns nil

ASSUME Margin < Lifetime /\ Grace < Lifetime /\ MaxCallTime < MaxTime

VARIABLES
  stable,     \* w.ops.stableAccessToken
  backend,    \* the storage passed to WithStorage
  now,        \* the clock
  srvUntil,   \* srvUntil[n]: until when the server accepts token n (0: not issued)
  issued,     \* the number of tokens issued
  atStore,    \* the stored access token: None or [tok, exp]
  tkStore,    \* the stored ticket: None or [exp]
  pc,         \* pc[c]: where caller c is
  op,         \* op[c]: "ticket" (GetJsApiTicket) or "send" (SendTplMessage)
  callAt,     \* callAt[c]: the time the call started
  sentAt,     \* sentAt[c]: `now := time.Now()` before the request
  resp,       \* resp[c]: the response of the request in flight
  pending,    \* pending[c]: the token or ticket being stored
  held,       \* held[c]: the access token the caller uses
  calls,      \* calls[c]: the calls made so far
  rejected    \* some request was refused with an invalid-token error

vars == <<stable, backend, now, srvUntil, issued, atStore, tkStore, pc, op,
          callAt, sentAt, resp, pending, held, calls, rejected>>

Tok == 1..MaxTokens

\* A response as the caller decodes it: "ok" with the token and the
\* expires_in, "invalid" (errcode 40001), or "err" (any other failure).
Answer(kind, tok, rem) == [kind |-> kind, tok |-> tok, rem |-> rem]
Failed == Answer("err", 0, 0)

Init ==
  /\ stable \in StableModes /\ backend \in Backends
  /\ now = 0 /\ srvUntil = [n \in Tok |-> 0] /\ issued = 0
  /\ atStore = None /\ tkStore = None
  /\ pc = [c \in Callers |-> "idle"] /\ op = [c \in Callers |-> "send"]
  /\ callAt = [c \in Callers |-> 0] /\ sentAt = [c \in Callers |-> 0]
  /\ resp = [c \in Callers |-> Failed] /\ pending = [c \in Callers |-> None]
  /\ held = [c \in Callers |-> 0] /\ calls = [c \in Callers |-> 0]
  /\ rejected = FALSE

\* Mutant: Expired() without the minute of margin.
ExpiredNoMargin(x) == x.exp - now < 0

\* (*AccessToken).Expired and (*JsApiTicket).Expired: less than a minute
\* left.  A zero ExpireAt never reaches the store.
Expired(x) == x.exp - now < Margin

\* `tk != nil && !tk.Expired()` on what the storage returned.
Fresh(x) == x # None /\ ~Expired(x)

\* The storage's Get finds a fresh value x.  storage.Redis returns nil
\* when the GET fails; its key expires at ExpireAt (the TTL of the Set),
\* which Expired already rules out.
Hits(x) == IF ~Fresh(x) THEN {FALSE} ELSE IF backend = "redis" THEN BOOLEAN ELSE {TRUE}

\* Whether the Set of x stores it: storage.Redis refuses an expired value
\* with an error, and its SET (with the TTL time.Until(ExpireAt)) may fail.
Saves(x) == IF backend # "redis" THEN {TRUE} ELSE IF Expired(x) THEN {FALSE} ELSE BOOLEAN

\* A step of caller c that touches only the listed variables of c.
Frame == <<stable, backend, srvUntil, issued, callAt, calls, rejected>>

\* The clock advances; no call in progress takes longer than MaxCallTime.
Tick ==
  /\ now < MaxTime
  /\ \A c \in Callers : pc[c] # "idle" => now + 1 - callAt[c] <= MaxCallTime
  /\ now' = now + 1
  /\ UNCHANGED <<stable, backend, srvUntil, issued, atStore, tkStore, pc, op,
                 callAt, sentAt, resp, pending, held, calls, rejected>>

\* A call starts.  GetJsApiTicket returns a fresh stored ticket at once,
\* else getJsApiTicket calls GetAccessToken; SendTplMessage calls
\* GetAccessToken.
Call(c) ==
  /\ pc[c] = "idle" /\ calls[c] < MaxCalls
  /\ \E o \in {"ticket", "send"} :
       /\ op' = [op EXCEPT ![c] = o]
       /\ \E hit \in Hits(tkStore) :
            pc' = [pc EXCEPT ![c] = IF o = "ticket" /\ hit THEN "idle" ELSE "at_get"]
  /\ calls' = [calls EXCEPT ![c] = @ + 1] /\ callAt' = [callAt EXCEPT ![c] = now]
  /\ UNCHANGED <<stable, backend, now, srvUntil, issued, atStore, tkStore,
                 sentAt, resp, pending, held, rejected>>

\* GetAccessToken: `s.GetAccessToken(w.AppID)`; a fresh token is returned.
AtGet(c) ==
  /\ pc[c] = "at_get"
  /\ \E hit \in Hits(atStore) :
     IF hit
       THEN held' = [held EXCEPT ![c] = atStore.tok] /\ pc' = [pc EXCEPT ![c] = "use_send"]
       ELSE pc' = [pc EXCEPT ![c] = "at_send"] /\ UNCHANGED held
  /\ UNCHANGED <<now, atStore, tkStore, op, sentAt, resp, pending>> /\ UNCHANGED Frame

\* getAccessToken / getStableAccessToken: `now := time.Now()`, then the
\* request.
AtSend(c) ==
  /\ pc[c] = "at_send"
  /\ sentAt' = [sentAt EXCEPT ![c] = now] /\ pc' = [pc EXCEPT ![c] = "at_wait"]
  /\ UNCHANGED <<now, atStore, tkStore, op, resp, pending, held>> /\ UNCHANGED Frame

\* The server issues token n: /cgi-bin/token cuts the previous one to Grace.
Issue(n) ==
  /\ n <= MaxTokens
  /\ srvUntil' = [k \in Tok |-> IF k = n THEN now + Lifetime
                                ELSE IF ~stable /\ k = n - 1
                                     THEN IF srvUntil[k] < now + Grace THEN srvUntil[k] ELSE now + Grace
                                     ELSE srvUntil[k]]
  /\ issued' = n

\* The server answers the token request, or the request fails (transport
\* error, non-200 status, undecodable body, errcode).
AtServe(c) ==
  /\ pc[c] = "at_wait"
  /\ pc' = [pc EXCEPT ![c] = "at_recv"]
  /\ \/ resp' = [resp EXCEPT ![c] = Failed] /\ UNCHANGED <<srvUntil, issued>>
     \/ /\ stable /\ issued > 0 /\ srvUntil[issued] - now > Grace
        /\ resp' = [resp EXCEPT ![c] = Answer("ok", issued, srvUntil[issued] - now)]
        /\ UNCHANGED <<srvUntil, issued>>
     \/ /\ ~(stable /\ issued > 0 /\ srvUntil[issued] - now > Grace)
        /\ Issue(issued + 1)
        /\ resp' = [resp EXCEPT ![c] = Answer("ok", issued + 1, Lifetime)]
  /\ UNCHANGED <<stable, backend, now, atStore, tkStore, op, callAt, sentAt,
                 pending, held, calls, rejected>>

\* Caller c returns: the locals of the call (sentAt, resp, pending, held)
\* are gone.
Return(c) ==
  /\ pc' = [pc EXCEPT ![c] = "idle"]
  /\ sentAt' = [sentAt EXCEPT ![c] = 0] /\ resp' = [resp EXCEPT ![c] = Failed]
  /\ pending' = [pending EXCEPT ![c] = None] /\ held' = [held EXCEPT ![c] = 0]

\* Mutant: GetAccessToken stores the fetched token but returns the stale
\* one it read from the storage.
StoreAtNoHeld(c, tk) ==
  IF resp[c].kind # "ok"
    THEN Return(c) /\ UNCHANGED atStore
    ELSE /\ resp' = [resp EXCEPT ![c] = Failed] /\ sentAt' = [sentAt EXCEPT ![c] = 0]
         /\ CASE backend = "memory" ->
                   /\ atStore' = tk /\ UNCHANGED held
                   /\ pc' = [pc EXCEPT ![c] = "use_send"] /\ UNCHANGED pending
              [] backend = "redis" ->
                   \/ /\ TRUE \in Saves(tk) /\ atStore' = tk /\ held' = [held EXCEPT ![c] = tk.tok]
                      /\ pc' = [pc EXCEPT ![c] = "use_send"] /\ UNCHANGED pending
                   \/ FALSE \in Saves(tk) /\ Return(c) /\ UNCHANGED atStore
              [] backend = "file" ->
                   /\ atStore' = None /\ pending' = [pending EXCEPT ![c] = tk]
                   /\ pc' = [pc EXCEPT ![c] = "at_write"] /\ UNCHANGED held

\* The token is built with ExpireAt `now.Add(expires_in)`, `now` taken
\* before the request; then GetAccessToken's deferred SetAccessToken.
\* An error is returned as it is (no Set, the call fails).  storage.Redis
\* refuses an expired token, and its SET may fail: the error of the Set
\* becomes GetAccessToken's, and the call fails.
StoreAt(c, tk) ==
  IF resp[c].kind # "ok"
    THEN Return(c) /\ UNCHANGED atStore
    ELSE /\ resp' = [resp EXCEPT ![c] = Failed] /\ sentAt' = [sentAt EXCEPT ![c] = 0]
         /\ CASE backend = "memory" ->
                   /\ atStore' = tk /\ held' = [held EXCEPT ![c] = tk.tok]
                   /\ pc' = [pc EXCEPT ![c] = "use_send"] /\ UNCHANGED pending
              [] backend = "redis" ->
                   \/ /\ TRUE \in Saves(tk) /\ atStore' = tk /\ held' = [held EXCEPT ![c] = tk.tok]
                      /\ pc' = [pc EXCEPT ![c] = "use_send"] /\ UNCHANGED pending
                   \/ FALSE \in Saves(tk) /\ Return(c) /\ UNCHANGED atStore
              [] backend = "file" ->
                   /\ atStore' = None /\ pending' = [pending EXCEPT ![c] = tk]
                   /\ pc' = [pc EXCEPT ![c] = "at_write"] /\ UNCHANGED held

\* Mutant: ExpireAt taken from the clock when the response arrives.
AtRecvNowStamp(c) ==
  /\ pc[c] = "at_recv"
  /\ StoreAt(c, [tok |-> resp[c].tok, exp |-> now + resp[c].rem])
  /\ UNCHANGED <<now, tkStore, op>> /\ UNCHANGED Frame

\* The response is taken.
AtRecv(c) ==
  /\ pc[c] = "at_recv"
  /\ StoreAt(c, [tok |-> resp[c].tok, exp |-> sentAt[c] + resp[c].rem])
  /\ UNCHANGED <<now, tkStore, op>> /\ UNCHANGED Frame

\* storage.File: the Encode into the truncated file.
AtWrite(c) ==
  /\ pc[c] = "at_write"
  /\ atStore' = pending[c] /\ held' = [held EXCEPT ![c] = pending[c].tok]
  /\ pending' = [pending EXCEPT ![c] = None] /\ pc' = [pc EXCEPT ![c] = "use_send"]
  /\ UNCHANGED <<now, tkStore, op, sentAt, resp>> /\ UNCHANGED Frame

\* The request with the access token: getticket, or template/send.
UseSend(c) ==
  /\ pc[c] = "use_send"
  /\ sentAt' = [sentAt EXCEPT ![c] = now] /\ pc' = [pc EXCEPT ![c] = "use_wait"]
  /\ UNCHANGED <<now, atStore, tkStore, op, resp, pending, held>> /\ UNCHANGED Frame

\* The server accepts the token until srvUntil, and refuses it after with
\* errcode 40001; or the request fails on the way.
UseServe(c) ==
  /\ pc[c] = "use_wait"
  /\ pc' = [pc EXCEPT ![c] = "use_recv"]
  /\ \/ resp' = [resp EXCEPT ![c] = Failed] /\ UNCHANGED rejected
     \/ LET valid == now < srvUntil[held[c]] IN
        /\ resp' = [resp EXCEPT ![c] = IF valid THEN Answer("ok", held[c], Lifetime)
                                                ELSE Answer("invalid", held[c], 0)]
        /\ rejected' = (rejected \/ ~valid)
  /\ UNCHANGED <<stable, backend, now, srvUntil, issued, atStore, tkStore, op,
                 callAt, sentAt, pending, held, calls>>

\* The response is taken.  A getticket success builds the ticket and runs
\* GetJsApiTicket's deferred SetJsApiTicket (storage.File truncates
\* first; storage.Redis refuses an expired ticket, and its SET may fail);
\* the call returns.
UseRecv(c) ==
  /\ pc[c] = "use_recv"
  /\ IF op[c] = "ticket" /\ resp[c].kind = "ok" /\ backend = "file"
       THEN /\ tkStore' = None
            /\ pending' = [pending EXCEPT ![c] = [exp |-> sentAt[c] + resp[c].rem]]
            /\ pc' = [pc EXCEPT ![c] = "tk_write"]
            /\ UNCHANGED <<sentAt, resp, held>>
       ELSE /\ LET tk == [exp |-> sentAt[c] + resp[c].rem] IN
                 \E set \in Saves(tk) :
                   tkStore' = IF op[c] = "ticket" /\ resp[c].kind = "ok" /\ set
                                THEN tk ELSE tkStore
            /\ Return(c)
  /\ UNCHANGED <<now, atStore, op>> /\ UNCHANGED Frame

\* storage.File: the Encode of the ticket into the truncated file.
TkWrite(c) ==
  /\ pc[c] = "tk_write"
  /\ tkStore' = pending[c] /\ Return(c)
  /\ UNCHANGED <<now, atStore, op>> /\ UNCHANGED Frame

Next ==
  \/ Tick
  \/ \E c \in Callers :
       \/ Call(c) \/ AtGet(c) \/ AtSend(c) \/ AtServe(c) \/ AtRecv(c) \/ AtWrite(c)
       \/ UseSend(c) \/ UseServe(c) \/ UseRecv(c) \/ TkWrite(c)

Spec == Init /\ [][Next]_vars

-----------------------------------------------------------------------------
(* Properties.                                                             *)

Stored == [tok : Tok, exp : 0..MaxTime + Lifetime]

TypeOK ==
  /\ stable \in BOOLEAN /\ backend \in {"memory", "file", "redis"}
  /\ now \in 0..MaxTime /\ issued \in 0..MaxTokens
  /\ srvUntil \in [Tok -> 0..MaxTime + Lifetime]
  /\ atStore \in Stored \cup {None}
  /\ tkStore \in [exp : 0..MaxTime + Lifetime] \cup {None}
  /\ pc \in [Callers -> {"idle", "at_get", "at_send", "at_wait", "at_recv", "at_write",
                         "use_send", "use_wait", "use_recv", "tk_write"}]
  /\ held \in [Callers -> 0..MaxTokens] /\ calls \in [Callers -> 0..MaxCalls]
  /\ \A c \in Callers : pc[c] \in {"use_send", "use_wait", "use_recv"} => held[c] \in Tok

\* The stored access token never claims to outlive the server's own
\* expiry of it: ExpireAt is stamped with the time taken before the
\* request, and no other caller's fetch shortens a token the store holds.
CachedExpiryNeverLate ==
  atStore # None => atStore.exp <= srvUntil[atStore.tok]

\* No request is refused with an invalid-token error: a token that
\* GetAccessToken returns, from the store or fresh, is still accepted when
\* the API request that uses it reaches the server, whatever the other
\* callers fetched and stored meanwhile.
NoInvalidTokenError == ~rejected

=============================================================================
