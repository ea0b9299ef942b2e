# TLA+ models of letsgo

This directory holds TLA+ models of the parts of `src/` that have state
worth model checking:
- the two NLP dictionary builders (`nlp/tfidf`, `nlp/ngram`);
- the concurrent plumbing: `queue`, `callback`, `common/async`,
  `common/limiter` and `bootstrap`;
- the wechat access-token and JS-API-ticket caches over the memory, file
  and redis storages;
- the time-rotated log file writer (`log/logger.go`);
- the openapi client's token handling (`openapi/client.go`).

Each module is translated from the Go source. `PROJECT.json` maps every
modelling definition to the lines it stands for. It also lists every
component, run, mutant, finding and hazard.

Commands, run in this directory:
- parse a module: `tlasany M.tla`;
- run a check: `tlc -workers 2 -config X.cfg M`.

## The system and how its parts interact

### nlp/tfidf
- `Scanner` (`scanner.go`) is a trie of keywords with a window loop `Scan`.
  The loop reports keyword matches in a text.
- `Matcher` (`matcher.go`) counts, per keyword, the documents it occurs in,
  plus the total document count. Its operations are:
  - `AddSample`: scan one document;
  - `AddWord` and `RemoveWord`;
  - `Save` and `Load` of a CSV file (`word,docs` rows) whose header holds
    the document count.

  Several matchers can share one file. The spec also feeds a builder's
  `Dump` file (below) to `Load`, but that file's rows are tab-separated.

### nlp/ngram
`NGram` builds an n-gram lexicon. It has three operations:
- `Sample` enumerates spans of up to `n` tokens (`match`) and merges them
  (`merge`);
- `Dump` prunes prefix-redundant entries and applies a threshold;
- `LoadDict` streams a dump back in through `ReadDict` (`dict.go`).

`NGram.Scan` (`scanner.go`) runs a copy of the tfidf window loop over the
lexicon. Blocked entries (stop words) still extend the window, but never
become a match. Its `ScanResult` counts in the lexicon's own `*Meta`, so a
Scan changes the builder's state: it is an action of `NGram` beside the
three operations above.

Workers exchange dumps through files.

### queue
`queue.Queue[T]` is made of:
- a mutex-protected slice;
- an unbuffered channel `reading`;
- one `Read` goroutine per reader;
- a shutdown goroutine started by `New`. When the context is cancelled it
  closes `reading` and hands what is left to the save handler.

### callback
`callback.Callback` feeds tasks to an HTTP call and retries failures:
- `Do` sends a task on `listen`.
- `stream` merges `listen` with the retry queue's `Read` output, using
  `async.MultiRead`, which runs one `async.Pipe` per input.
- `Listen` runs each task. A failed task is written back to the queue while
  retries are left.

The queue, the pipes and the stream goroutines all run concurrently.

### common/limiter
`limiter.Limiter` is a token bucket. Its parts:
- a buffered channel `tokens`;
- a ticker goroutine that calls `assign` and closes `tokens` on return;
- a first `assign`, run directly (`New`) or by `time.AfterFunc`
  (`NewWithDelay`);
- `Stop`, which closes `done`;
- `Wait`, which receives a token.

### bootstrap
`Register` runs its start-up handlers once (`sync.Once`) and collects their
destroy functions. `End` runs them once, then waits on a `WaitGroup` that
Start counted up.

### wechat tokens
`Wechat.GetAccessToken` and `Wechat.GetJsApiTicket` implement
get-or-refresh:
- read the token from the storage and return it unless `Expired()` (less
  than a minute left);
- otherwise fetch a new one (`/cgi-bin/token`, or `/cgi-bin/stable_token`
  with `UseStableAccessToken`);
- store it in a deferred `Set`.

API calls such as `SendTplMessage` and the getticket request use the token.
`storage.Memory` keeps the tokens in a `sets.Set` under its RWMutex.
`storage.File` writes JSON files, truncating each with `os.Create` before
the encode. `storage.Redis` keeps them under keys whose TTL ends at
`ExpireAt`. Its Set refuses an expired value. A failed GET returns nil, and
a failed SET becomes the error of the call.

### openapi
`openapi.Client` calls an OAuth-protected API. `Get`, `PostReader` and
`Post` build the request and call `do`. `do` takes a token from
`getAccessToken` and sends the request with it. `getAccessToken`:
- returns the storager's token unless it is missing, empty or `Expired()`;
  `Expired()` has no margin and its error is ignored;
- otherwise requests `/oauth/token`;
- sets `ExpiresAt` with `FixExpireAt` to `time.Now()` plus `expires_in`
  minus 10 s, taken after the response;
- saves the token.

The `http.Client` times out after 10 s unless `ClientTimeOut` changes it.
Nothing serialises concurrent calls.

### log
`NewLogger` starts a 10 s ticker and runs `checkRotate(time.Now())`,
ignoring its error. It then starts the `rotate` goroutine once, which runs
`checkRotate` with the time of every tick. `checkRotate` holds the write
lock. When the tick's path differs from `l.path`, it:
- makes the directory;
- opens the new file;
- closes the old `l.w`;
- swaps in the new file.

`Write` writes to `l.w` under the read lock. `Close` stops the ticker
only.

## Modules

| Module | Models | State / actions |
|---|---|---|
| `Tokenizer` | the promise of `Scanner.Scan` (abstract) | `emitted` grows by admissible matches: ordered, non-overlapping, each the longest keyword at its offset; `Finish` |
| `ScanLoop` | the window loop of `tfidf/scanner.go` as operators | `Slice`, `HasKeysWithPrefix`, `Commit`, `Iterate` (one turn of `for left < L`), `RunScan` (recursive whole scan), `ScanMatches` |
| `WindowScanner` | `Scanner.Scan` and `NGram.Scan` as a state machine (one turn per step) | `left`, `right`, the pending `meta`, `out`, and the result (`seen`, `cnt`, `total`); `Step` (tfidf) and `NGramStep` (candidates `Unblocked`), each committing through `Add` (`ScanResult.add`); refines `Tokenizer` through `Abs` |
| `TfIdfMatcher` | `Matcher` instances sharing files | `AddWord`, `RemoveWord`, `AddSample` (uses `RunScan`), `Save`, `Load` (any prefix of the rows, as an error or empty word can stop it; of an `NGram.Dump` file only the header, `Readable`), `NGramDump` (a builder overwrites the shared path) |
| `NGram` | `NGram` builders sharing dictionary paths | `Sample` (`ValidSpans`, `MatchSpans`, `Merged`), `LoadDict` (a prefix of the rows in any order: the goroutine of `ReadDict` streams a map), `Dump` (`IsPrefixRedundant`, `DefaultDumpThreshold` in integer arithmetic), `Scan` (`ScanMatches` over the trie; each matched entry's `Freq` becomes its count in the text) |
| `Queue` | `queue.Queue` with one Read goroutine and one Write call per value | `WriteSelect`/`WriteAppend` (Write's select, then `write` under the mutex), `ReaderDrain`/`ReaderSend`/`ReaderArrive`/`ReaderWake` (Read's loop and select), `ShutdownClose`/`ShutdownSave` (New's goroutine), `Cancel`, `CancelRead` |
| `Callback` | `Callback` with `Queue` instantiated for retry tasks | `DoCheck`/`DoSelect`/`DoWake` (Do), `CloseListen`/`NilListen` (stream's closer), `StreamRecv`/`StreamDelay`/`StreamSend`/`StreamEnd` (stream's retry goroutine), `PipeRecv`/`PipeSend`/`ListenEnd` (MultiRead and Pipe), `ListenDo`/`ListenWrite`/`ListenAppend` (Listen and its retry), `QueueStep` (the queue's goroutines) |
| `Limiter` | `Limiter` with its goroutines and waiters | `Ticker`/`TickerAssign`, `AfterFuncFire`/`AfterFuncAssign`, `Stop`, `Wait`; `AssignSteps` is one turn of `assign`'s select |
| `WechatTokens` | `GetAccessToken`, `GetJsApiTicket` and `SendTplMessage` by concurrent goroutines, over memory, file or redis storage, with the WeChat server as environment | `Call` (GetJsApiTicket's cache check, or SendTplMessage), `AtGet` (GetAccessToken's cache check), `AtSend`/`AtRecv` (getStableAccessToken/getAccessToken, `now` taken before the request), `Hits` (the storage's Get; a redis GET may fail), `Saves` (redis refuses an expired value, its SET may fail), `StoreAt`/`AtWrite` (deferred SetAccessToken; file truncates first), `UseSend`/`UseRecv` (getticket or template/send), `TkWrite`, `Return`; environment: `Tick`, `AtServe`, `UseServe`, `Issue` |
| `Logger` | `log.Logger`: NewLogger, the ticker, the rotate goroutine, concurrent Write callers, Close | `Init` (the first `checkRotate`, success or failure), `Tick` (a tick sent, or dropped while `tc.C` is full), `RotRecv`, `RotLock`, `RotCheck` (same path, MustDir/OpenFile error, open), `RotClose` (outcome from `CloseOutcomes`; a closed file fails again), `RotSwap`, `WriteCall`/`WriteLock` (RLock, blocked while Lock holds or waits)/`WriteDo` (panics on a nil `l.w`), `Close`; a path is the period `t \div Span` |
| `OpenAPIClient` | `openapi.Client` used by concurrent goroutines, with or without a storager, with the OpenAPI server as environment | `Call` (Get/Post, `do`, `loadAccessToken` through `Loaded` and `Expired`), `Fetch`, `TokRecv` (code check, `FixExpireAt`, `saveAccessToken` through `Saves`, then `SendApi`), `TokTimeout`, `ApiDone` (response or timeout), `Return`; environment: `Tick`, `TokServe`, `ApiServe` |
| `Register` | `Register` with concurrent Start and End callers | `StartCall`/`StartStep`/`StartUnblock` (Do of `executed` and its loop), `EndCall`/`EndStep`/`EndUnblock`/`EndWait` (Do of `destroyed`, the destroy loop with its recover, `wg.Wait`) |

The `MC*` modules give model values. Each definition marked `Mutant:` is a
plausibly wrong version of the definition after it. Those mutants show that
each checked property can fail.

### Modelling choices
- **Go select.** A select takes one of its ready cases at random and
  `default` only when none is ready. Consequences:
  - a send on a closed channel is a ready case that panics;
  - a receive on a closed channel yields the zero value;
  - a select parked with no ready case is woken by the first case to
    become ready.
- **Time.** It is not modelled. A timer is a case that may fire at any
  step. A delay is a step that ends by itself or is cut short by
  cancellation.
- **HTTP.** The HTTP call of `do` succeeds or fails nondeterministically.
- **WeChat server.** It follows WeChat's documented token rules:
  - `/cgi-bin/token` issues a new token on every call and keeps accepting
    the previous one for a grace period (five minutes);
  - `/cgi-bin/stable_token` returns the current token while more than the
    grace period of it is left, and a new one otherwise.

  A request with a token the server no longer accepts fails with errcode
  40001. Time in `WechatTokens` is a bounded clock: `Lifetime` 5 stands for
  7200 s, `Margin` 2 for the minute of `Expired()`, `Grace` 3 for the five
  minutes. The clock moves at most `MaxCallTime` 1 during a call, so a call
  is shorter than the margin. This is an assumption: `New` uses
  `http.DefaultClient` (`wechat.go:26`), which has no timeout, so nothing
  in the code bounds a call. `NoInvalidTokenError` holds under it.
- **Segmentation and data.** jieba's segmentation is replaced by given
  token sequences. A word is a rune sequence over a 2- or 3-rune alphabet.

## Runs

| Run | Config | Expect | What it shows |
|---|---|---|---|
| scanner_refines | `MCWindowScanner.cfg` | pass | Every text of up to 5 runes over {a,b,c}, three lexicons, both scanners, every set of blocked entries. Both Scans implement `Tokenizer`; its weak fairness on `Finish` makes every scan end, so the refinement also shows termination. No blocked entry is matched. The result's counts equal the committed matches; for `NGram.Scan` they are written into the lexicon's `Meta.Freq` (`ScanResultCounts`) |
| tfidf_corpus | `MCTfIdfMatcher.cfg` | pass | Two matchers, one file that a builder's dump may also overwrite, any mix of the operations. No word's document count exceeds the corpus count |
| ngram_corpus | `MCNGram.cfg` | pass | Two builders, one path, 2-grams, Scans of two texts between the other operations: no entry is in more documents than the corpus (`DocsWithinCorpus`), no symbol-only entry |
| queue_lost | `MCQueueLost.cfg` | violation | A Write that took `default` appends after the save: the item is lost |
| callback_retry | `MCCallback.cfg` | pass | Two tasks, one retry, buffers of 1: one copy per task, at most retryMax+1 attempts, and a failed task with retries left is retried unless the context ends |
| callback_panic | `MCCallbackPanic.cfg` | violation | A goroutine panics: `Do` sends on the closed `listen`, or after cancellation `stream` dereferences the nil task `Read` forwarded |
| limiter_wait | `MCLimiter.cfg` | pass | Both constructors and three waiters: the bucket stays within capacity, and every Wait returns unless the program panicked |
| register_cleanup | `MCRegister.cfg` | pass | Two Start and two End callers, End after a Start returned: each destroy runs at most once, the WaitGroup counter never goes negative, and every End returns |
| wechat_tokens | `MCWechatTokens.cfg` | pass | Stable-token API, memory, file and redis storage, two goroutines with two calls each: the stored token never outlives the server's expiry of it, and no request is refused for an invalid token |
| logger_rotate | `MCLogger.cfg` | pass | Two writers with two writes each, 4 ticks, a new file every 2, open errors possible: no Write reaches a closed file, no replaced file stays open, and every Write returns |
| openapi_token | `MCOpenAPIClient.cfg` | pass | Default 10 s timeout, two goroutines with two calls each, with and without a storager: the stored `ExpiresAt` never lies past the server's expiry, no request is sent with a token the server already dropped, and every call returns even when the server never answers |
| wechat_refresh_race | `MCWechatTokensRefresh.cfg` | violation | Default token API: two concurrent refreshes, the older token stored last, and a later call is refused with errcode 40001 |

### Why these bounds are enough
- **Scanner.** Texts of up to 5 runes and keywords of up to 4 runes
  (three lexicons) reach every
  branch of the window loop:
  - a commit and then a rewind;
  - a dead window with and without a pending match;
  - a window that runs off the end;
  - a blocked key that extends the window past an unblocked match (the
    lexicon {ab, abc}, with abc blocked).
- **Matchers and builders.** Two actors sharing one file is the smallest
  setting in which one dump is loaded on top of another's state. A second
  Load of the same file is also reached. Builders count at most 2
  documents: one Sample and a Load of another builder's one-document dump
  reach it. With 3, Scan's rewrites of `Freq` multiply the reachable
  lexicons past what TLC explores in minutes. The builders are
  interchangeable, so `MCNGram.cfg` declares them a symmetry set.
- **Queue and Callback.**
  - Two writers let a handed value and an appended one race the shutdown.
  - Retries up to 1 and buffers of 1 reach the retry path, the full
    buffer and the drop paths.
  - `MaxZeros` bounds the zero values read from the closed `reading`.
- **WechatTokens.** Two goroutines with two calls each reach:
  - two concurrent refreshes;
  - a token stored over a newer one;
  - a cached token that is near its expiry.

  A clock of 5 units covers a token's whole life (5), the margin (2) and the
  grace period (3). At most 3 tokens are issued. The mutants show that the
  bounds bite: dropping the margin, or stamping `ExpireAt` after the
  response, is caught.
- **Logger.** Four ticks with a period of two give two rotations. There
  are two writers, so one can hold the read lock while the rotation waits
  for it, and the other is blocked behind the waiting Lock. Open errors
  are on, so a failed first `checkRotate` (nil `l.w`) and a failed
  rotation are both reached. Skipping the close, skipping the RLock,
  ignoring the open error, or returning without the unlock are each caught.
- **OpenAPIClient.** A unit is 5 s, so `FixMargin` 2 is FixExpireAt's
  10 s and `Timeout` 2 the default timeout. `Lifetime` 4 lets a stored
  token expire while calls still start (`MaxTime` 4). Two goroutines race
  on the fetch and the save. At most three tokens are issued.
- **Limiter.** `Concurrency` 2 with `AssignCount` 1 reaches both a full
  bucket (the `default` case) and an empty one.
- **Register.** Two handlers and two callers of each kind reach the
  blocking of both Onces.

### Fairness
Every goroutine that can run eventually runs: weak fairness per goroutine.
No one is promised to call `Stop`, `Cancel` or End, and the environment
never has to cancel.

The limiter's ticker loop picks at random between the closed `done` and a
tick. Go's uniform choice among ready cases takes `done` eventually with
probability 1, which the model states as strong fairness of that case.

`Logger` assumes weak fairness of the ticker until `Close`, of the rotate
goroutine, and of each writer once it has called `Write`. No one has to
call `Write` or `Close`. `EveryWriteReturns` depends on Go's RWMutex: a
waiting `Lock` blocks new readers but is granted once the readers leave.
The run does not check deadlock, because after `Close` the rotate
goroutine waits on `tc.C` forever.

`OpenAPIClient` assumes weak fairness of the clock and of each caller's own
steps: taking a response, and timing out. The server's answers get no
fairness. `EveryCallReturns` therefore rests on the client timeout alone.
The clock runs past `MaxTime` only while a request is pending, up to
`MaxTime + 2 * Timeout`.

`WechatTokens` checks only safety properties and assumes no fairness. Its
runs do not check deadlock: the callers stop after `MaxCalls` calls and the
clock stops at `MaxTime`.

## Findings
One finding comes from a passing run; the others are violation runs.
- **scanner_refines** (`ngram/scanner.go:32`), a divergence from the spec.
  Spec section 3 calls `ScanResult` transient and never persisted. But
  `ScanResult.add` keeps the trie's own `*Meta` and sets `meta.Freq = 1`.
  `ScanResultCounts` holds with `cnt` being the lexicon's `Freq`: every
  `NGram.Scan` replaces the corpus frequency of each matched word by its
  count in the scanned text. A later `Dump` writes those counts, and
  `NGram.freq` is no longer their sum. The spec's "append/merge-only"
  lexicon is therefore no invariant of the code: `NGram.Next` includes
  `Scan`, and no passing run claims either.
- **queue_lost** (`queue.go:110`): `Write` can lose an item. It takes
  `default` while the context is live, then appends after the shutdown
  goroutine's `save(read())`.
- **callback_panic** (`callback.go:109`): `Do` panics. Its
  `listen != nil` check races the close at line 48. TLC reports this panic
  first.
- **callback_panic**, second finding (`callback.go:59`, with
  `queue.go:86`): `stream` dereferences a nil task. The nil comes from the
  closed `reading` and `Read` forwards it. The model reaches this panic
  too: with `crash # "nil_task"` as the invariant, TLC finds it violated.
- **wechat_refresh_race** (`access_token.go:35`): without
  `UseStableAccessToken` the store can keep a dead access token.
  1. Two goroutines find the token expired and both fetch.
  2. The second fetch makes the server cut the first token to the grace
     period.
  3. The first fetch's deferred `SetAccessToken` runs last.
  4. Every call then fails with an invalid-token error until the dead
     token's `ExpireAt`, two hours later. Nothing clears the store on
     errcode 40001.

Other behaviours met while modelling are listed as hazards in
`PROJECT.json` and are not run:
- **A builder's dump seeds no matcher** (`tfidf/matcher.go:176`). The
  spec's data flow feeds the N-Gram Builder's dump to a TF-IDF Matcher.
  `Dump` writes tab-separated rows and `Load` reads CSV with two fields
  per row: `Load` adds the dump's document count, then fails with
  `ErrFieldCount` on the first row whose word has no comma. The model
  has this (`NGramDump`, `Readable`); d <= D still holds, so no passing
  property tells it apart.
- **tfidf `Scan` skips keywords.** After a dead window it skips offsets:
  text "ac" with keywords {c, ab, abca} yields nothing. After a commit it
  rewinds to `right-1`, not to the end of the match. `Tokenizer` states
  the behaviour as it is.
- **`match` keeps the longer breakdown.** The spec asks for the shorter
  one.
- **`NewWithDelay` can panic** (`limiter.go:56/75`). Its AfterFunc
  `assign` can run after Stop. `NoSendOnClosedTokens` in `Limiter.tla`
  states the property. With `DelayModes = {TRUE}`, `AssignCount` 1,
  `Concurrency` 2 and three waiters, TLC finds it violated.
- **An openapi token can expire in flight.** `Expired()` has no margin,
  so a request sent with a few seconds left can reach the server after
  the token expired. With the run's bounds, TLC reaches the server's
  refusal (`rejected`) after 9 states.
- **A `ClientTimeOut` longer than 10 s breaks `FixExpireAt`'s margin.**
  TLC finds `ValidWhenSent` violated with `Timeout = 3` and
  `StoredExpiryNeverLate` violated with `Timeout = 4`.
- **A panicking destroy function** makes End hang.
- **A failing `Close` of the old log file breaks the logger for good.**
  `checkRotate` returns with `l.w` closed and the new file leaked. Every
  later rotation then fails on the second `Close`. With
  `CloseOutcomes = {TRUE, FALSE}`, TLC finds `NoWriteToClosedFile`
  violated in 13 states.
- **The rotate goroutine never ends.** `tc.Stop` does not close `tc.C`,
  so after `Close` the goroutine blocks forever and the file stays open.
- **End during Start blocks forever.** End snapshots the destroy handlers
  while Start may still append them and count them up. `MCRegister.cfg`
  calls End only after a Start returned. With `EndAfterStart = FALSE`, TLC
  finds `EveryEndReturns` violated.
- **OAuth token expiry is in nanoseconds.** `oauth_access_token.go:85`
  takes `expires_in` seconds as a `time.Duration`.

## Not modelled
- **wechat.** The request wrappers other than `SendTplMessage`; the OAuth
  token and session caches, including their redis functions.
- **openapi debug output.** `debugRequest` and `debugResponse` print only
  in Debug mode. `debugResponse` copies the body through an `io.Pipe` and
  a goroutine.
- **zap configuration** (`log/config.go`, `options.go`, `zap.go`).
- **HTTP.** The resolver, transport, metrics and signature packages.
- **restful, rbac and jwt.**
- **Configuration and small helpers** (`fs`, `str`, `array`).

The request wrappers are I/O and encoding with no shared state. The OAuth
token and session caches have state, but every property worth checking of
them fails against this code. Each would need a run that expects a
violation, and the project keeps the ones listed under Findings:
- **OAuth token cache.** `GetOAuthAccessToken` refreshes on every call,
  because `oauth_access_token.go:85` stamps `ExpireAt` in nanoseconds. So
  a validity property holds whatever the code does, and "a cached token
  is reused" fails at once. Through `storage.Memory`, concurrent refreshes
  also write the fields of one shared `*OAuthAccessToken`, which is a
  data race.
- **Session cache.** `CheckSession` deletes the session on any errcode
  (`check_session.go:41`), a busy server (-1) or a dead access token
  (40001) included. It also deletes by openID what it read before its two
  requests. A concurrent `Code2Session` that stored a new session key
  loses it.

Other parts left out:
- `Matcher.RemoveWord` is modelled as the exact removal of one key. The
  trie library's `Remove` prunes from the first branching ancestor and
  panics on an absent key; no property depends on it.
- `Matcher.Save`, `Load` and `NGram.Dump` are atomic in the model, so no
  reader sees a file that `os.Create` truncated and the writer has not
  finished.
- `Matcher.Match`, `TopN` and the float scores are pure queries.
- `ScanResult.TopN` is a slice.
- The retry delay's length (`callback.go:59` grows it with the task's age)
  would need time.
