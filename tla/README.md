# Verification of the GOTRS Python SDK transport layer and schema converter

These TLA+ modules model two parts of the repository's `src/`.

The first is the authenticated transport layer of the Python SDK
(`src/sdk/python/gotrs_sdk/`):

- the authenticators (`auth.py`);
- the HTTP engine that uses them (`http_client.py`), which raises the classes
  of `exceptions.py`.

This is the only part of the repository where coroutines interleave, where a
lock guards shared state, and where failures are retried.

The second is the MySQL to PostgreSQL schema converter
(`src/scripts/mysql_to_postgres.py`). It is a one-pass state machine over
the lines of a dump, with per-table accumulators.

The TLC runs check the models on small instances. TLAPS proves the following
for every instance:

- the authenticator's two safety properties;
- that the engine uses the authenticator only through its interface (a
  refinement), so those two properties hold among the engine's requests;
- the two safety properties of the retry loop, and which exceptions can
  leave the engine;
- the converter's type correctness and column types.

## The system and how its parts interact

| Part | Source | State | Operations |
|------|--------|-------|------------|
| Refreshable authenticator (`JWTAuth`, `OAuth2Auth`) | `auth.py` 60-183 | token, refresh_token, expires_at, `_refresh_lock` | `is_expired`, `refresh` (guard, lock, re-check, `refresh_function`, assignments, error) |
| Static authenticators (`APIKeyAuth`, `NoAuth`) | `auth.py` 36-57, 186-203 | none that changes | never expired, `refresh` does nothing |
| Error taxonomy | `exceptions.py` | none | classes with fixed status/code |
| Transport engine `HTTPClient` | `http_client.py` | auth, retries, shared `httpx.AsyncClient` | verbs and `download_file` → `_prepare_headers` (may await `auth.refresh()`) → `_make_request_with_retries` (loop, backoff `2**attempt`, `_handle_error`) → `_extract_data` (with optional `model_class` hydration) |
| Schema converter | `mysql_to_postgres.py` 9-128 | `in_table`, `table_name`, `columns`, `constraints`, `indexes`, `output` | one branch per class of line: CREATE TABLE, `) ENGINE=`, column, PRIMARY KEY, UNIQUE KEY, KEY, CONSTRAINT |

One `HTTPClient` and its authenticator are shared by every coroutine of the
event loop that issues a request. A request that finds the credential expired
awaits `auth.refresh()`. Several requests can therefore queue on the
authenticator's `asyncio.Lock`. Each attempt of a request ends in one of five
ways:

- a success;
- a client error, raised at once;
- a transient failure, retried after a sleep;
- the last failure, raised;
- an unexpected httpx exception that escapes.

Hard behaviours:

- refreshes interleaving around the lock;
- state read before an await and used after it (the guard at `auth.py:93`);
- a partial update when `expires_at` cannot be parsed;
- retries racing other requests' refreshes;
- backoff timers;
- transport failures of several kinds.

## Modules

- **`Auth`** models `JWTAuth.refresh` / `OAuth2Auth.refresh`. The two methods
  have the same code.
  - **Variables:**
    - `token`: a version number, bumped on every assignment;
    - `refresh_token`: truthy or not;
    - `ttl`: `expires_at - now` in model time units, clipped at 0, or
      `NoExpiry` for `None`;
    - `holder`: the lock owner;
    - `pc`: per coroutine.
  - **Actions:** one per outcome of each step of `refresh()`.
    - `RefreshNoCredentials`: the guard at line 93 raises.
    - `RefreshEnter`: the guard passes.
    - `AcquireFresh`: the lock is taken and the re-check returns, lines 96-99.
    - `AcquireCall`: the lock is taken and `refresh_function` is awaited,
      96-102.
    - `RefreshSucceeds`: lines 102-112. `expires_at` is kept when the key is
      absent.
    - `RefreshBadExpiry`: token and refresh_token are assigned, then
      `fromisoformat` raises.
    - `RefreshFails`: `refresh_function` raises, or there is no
      `access_token`.

    `Call`/`Return` are the environment (callers). `Tick` is time passing.
  - **Time:** `is_expired` depends only on `expires_at - now`, so the clock is
    abstracted to `ttl`. `Buffer` stands for the inclusive 60 s buffer of
    line 89.
- **`Errors`** models `_handle_error`'s classification (status → class, body →
  code) and the fixed status/code of `NotFoundError` .. `RateLimitError`.
  Messages, details and `__str__` are text and are left out.
- **`HTTPClient`** composes the engine with the authenticator:
  `A == INSTANCE Auth WITH Coro <- Requests`. `ClientAuthAssumption` requires
  Auth's constant assumption with the requests as coroutines.
  - `Authenticator` instantiates `Auth` a second time, with `pc` replaced by
    `AuthPc`. `AuthPc` shows a request inside `refresh()` at its label and
    every other request as idle. `AuthImplemented == Authenticator!Spec` is
    the refinement: the composed behaviours are behaviours of the
    authenticator on its own.
  - Each request is one coroutine running a verb. get/post/put/patch/delete/
    upload_file share the same control flow.
  - The per-request state is:
    - `attempt`: the loop variable;
    - `hdr`: the token version put in the headers;
    - `wait`: the backoff time left;
    - `outcomes`: the history of the responses the transport gave;
    - `result`: the value returned or the error raised.
  - The transport may answer an attempt with any member of `Responses`:
    - an HTTP status with one of a few body shapes (not JSON, plain JSON,
      JSON with `code`, success/failure envelopes);
    - a timeout;
    - a network error;
    - another httpx error (`"protocol"`).
  - `call` records how the request was made:
    - `"plain"`: a verb without `model_class`;
    - `"model"`: a verb with `model_class`, whose data is hydrated with
      `model_validate`. A body `env_bad` stands for data the model rejects;
    - `"download"`: `download_file`, which returns the raw bytes of a
      success.

    `Deliver` is what the call returns on a success (lines 215-220 and
    349-359).
- **`MySQLToPostgres`** models `convert_mysql_to_postgres`.
  - **Input:** a line of the dump is a record after `strip()` and backtick
    removal. It holds the line's class, its name, its column type, whether
    it is `AUTO_INCREMENT`, whether a KEY is `FK_` and the key's columns.
  - **Variables:** the code's locals (`in_table`, `table_name`, `columns`,
    `constraints`, `indexes`, `output`) and `pos`, the index of the for loop.
    An output item is a record (kind, table, name, type, columns) and not
    the text line. The text is formatting, and the properties compare
    structure.
  - **Actions:** one per branch of the loop body, in the order the code tests
    them: `CreateTable`, `EndTable`, `Column`, `PrimaryKey`, `UniqueKey`,
    `Key`. `Skip` covers CONSTRAINT lines and every line no branch takes.
  - **Type rewriting:** the `re.sub`/`str.replace` pipeline of lines 64-93
    acts on the type token as a sequence of substitution maps. `Apply4` and
    `Apply10` apply them in order, as the code's straight-line chains of
    assignments at lines 73-77 and 79-93 do. `AutoConvert` is the
    AUTO_INCREMENT branch. The maps are built with `:>` and `@@`, defined in
    the module as the TLC module defines them, so that the provers can
    expand them.
    Because the code replaces substrings, `tinyint(4)` meets line 74's
    `int\(\d+\)` first, so the maps send it to `tinyINTEGER`, as the code
    does.
- **`AuthProofs`**, **`HTTPClientProofs`** and **`MySQLToPostgresProofs`**
  hold the TLAPS proofs about `Auth`, `HTTPClient` and `MySQLToPostgres`.
- **`MC_Auth`**, **`MC_HTTPClient`**, **`MC_MySQLToPostgres`** fix the
  constants for TLC. `MC_MySQLToPostgres` builds the dumps: one or two
  tables, each a CREATE TABLE line, columns, keys and the closing ENGINE
  line, separated by other lines.

## Runs

| Run | Expect | What it shows |
|-----|--------|---------------|
| `auth_safety` | pass | 3 coroutines, symmetric: the refresh lock is released on every exit of `refresh()`, the exception paths included (`LockHeld`). At most one coroutine awaits `refresh_function` (the lock works), and only while the credential is expired (the re-check under the lock works). |
| `auth_refresh_without_token` | violation | The guard at line 93 is read before the lock. A waiter calls `refresh_function` after the holder's refresh cleared `refresh_token`. |
| `auth_expiry_not_cleared` | violation | A successful refresh without `expires_at`, or with a lifetime within the buffer, leaves the credential expired. Every waiter refreshes again. |
| `client_retry` | pass | 2 requests with a shared authenticator, `retries = 2`, each a plain verb, a verb with `model_class` or `download_file`: only transient outcomes are retried, at most `retries + 1` attempts are made, and the result is what the design derives from the last outcome and the kind of call. The composition refines `Auth` (`AuthImplemented`). |
| `client_liveness` | pass | Every request finishes, through refreshes, lock waits and backoff sleeps. Every exit path of `refresh()` therefore releases the lock. |
| `client_raw_exception` | violation | `RemoteProtocolError` and similar escape the taxonomy (spec §7). |
| `client_3xx_retry` | violation | A 3xx is retried like a 5xx (spec §4.3). |
| `client_server_code` | violation | `ServerError` carries `""` or the body's code, not a fixed code (spec §3). |
| `client_hydration` | violation | Data that `model_class` rejects raises pydantic's `ValidationError`, outside the SDK taxonomy (spec §4.3). |
| `conv_tables` | pass | On dumps of one or two tables, every output table has exactly its own columns in input order, and only its own indexes. It has at most one primary key and only PostgreSQL column types. |
| `conv_types` | violation | `tinyint` and `tinyblob` come out as `tinyINTEGER` and `tinyBYTEA`. |
| `conv_pk` | violation | A composite PRIMARY KEY with an AUTO_INCREMENT column becomes a key on that column alone. |

`MC_Auth_live.cfg` checks `RefreshTerminates` for the authenticator alone.
It is not among the runs, because `client_liveness` covers the same exit
paths of `refresh()` through the composition. The keep-the-lock mutants of
`RefreshBadExpiry` and `RefreshFails` both break `AllRequestsComplete`.

Each property of a passing run has a mutant: a plausible bug in the mapped
code that makes TLC fail the property. They are listed in PROJECT.json:

- the re-check dropped;
- the lock not awaited before `refresh_function`;
- a request sent without awaiting `auth.refresh()`;
- the lock kept on an exception path;
- the retry loop off by one;
- client errors listed instead of ranged;
- the last exception dropped;
- `download_file` treated like a verb;
- the converter's accumulators not reset at CREATE TABLE;
- PRIMARY KEY kept next to a SERIAL column;
- `blob` replaced before `longblob`;
- UNIQUE KEY emitted as an index.

### Bounds

- **Buffer and time.** `Buffer = 1` and `MaxTTL = 3`. A refresh may return
  lifetime 1, which lies inside the buffer (the inclusive edge), or 3, which
  lies beyond it. It may also return an absent field or `None`. Initial ttl
  covers every value, so a token expires mid-run.
- **Token versions.** `MaxToken` is 3 for `Auth` and 2 for the client. This
  allows two or more successful refreshes, which is enough for one coroutine
  to refresh after another has.
- **Retries.** `Retries = 2`. This gives backoffs of 1 and 2 time units, a
  first, a middle and a last attempt, and so the off-by-one cases.
- **Coroutines.** Three for the authenticator: a holder and two waiters, so
  two waiters see the holder's result. Two requests for the client: the
  state space grows with the response set.
- **Responses.** Each run's response set holds one status of each class
  it is about. `client_retry` has 200 with every body shape `_extract_data`
  tells apart, 404, 429, a timeout and a protocol error. Each request is a
  plain verb, a verb with `model_class` or `download_file`, so every
  success is delivered in all three ways. 429 is the retried class in this
  run because its exclusion from the client errors (line 161) is the
  delicate test. 5xx answers are retried in `client_liveness`, and their
  class is checked in `client_server_code`. A network error takes the
  timeout's path and is left out to keep the run within its time budget.
  The violation runs add the one answer each is about.
- **Converter.** The dumps hold one or two tables. Each table has one or
  two columns drawn from the types of the repository's baseline schema:
  int, bigint, smallint, varchar, datetime, text, longtext, longblob and
  blob, with and without AUTO_INCREMENT where the type is an integer. The
  keyed tables add a PRIMARY KEY (single or composite), UNIQUE KEY, KEY,
  FK_ KEY and CONSTRAINT line. Two tables are enough to catch state that
  leaks from one table into the next. The `conv_types` run adds tinyint and
  tinyblob.

Liveness runs use 2 coroutines without symmetry (symmetry is unsound for
liveness checking), and a smaller response set.

### Fairness

- **Strong fairness on taking the lock.** `asyncio.Lock` wakes waiters in
  FIFO order, so a coroutine waiting on a lock that is repeatedly released
  gets it.
- **Weak fairness on every request's step and on `Tick`.** The event loop
  runs every runnable coroutine, and time passes.
- **What the liveness results assume.** The transport answers every attempt,
  since httpx enforces the timeout. `refresh_function` must also return. The
  code cannot enforce that, so the liveness results are conditional on it.

## Proofs (TLAPS)

`AuthProofs` proves, for every set of coroutines, buffer, lifetime set and
token bound that satisfy `AuthAssumption`:

- `LockReleasedOnEveryExit`: `Spec => []LockHeld`. The lock is released on
  every exit of `refresh()`, including the `fromisoformat` failure after
  `token` and `refresh_token` were assigned;
- `RefreshOnlyWhenExpired`: `Spec => []InFlightOnlyWhenExpired`;
- `OneRefreshAtATime`: `Spec => []SingleRefreshInFlight`. At most one
  coroutine awaits `refresh_function` at a time.

`InFlightOnlyWhenExpired` is not inductive on its own. When the calling
coroutine's refresh succeeds, the credential becomes valid. If a second
coroutine could also be calling, the invariant would break. The inductive
invariant therefore adds `LockHeld`: the lock holder is exactly the coroutine
that is calling, so at most one coroutine calls.

The proof has three parts:

- `InitIInv`: `Init => IInv`;
- `NextIInv`: `IInv /\ [Next]_vars => IInv'`, with one step per action;
- a `PTL` step.

`LockHeld` and `SingleRefreshInFlight` follow from the same inductive
invariant, as does `TypeCorrect` (`Spec => []TypeOK`). `TypeOK` is proved but
not among the run's invariants: no plausible bug of `refresh()` takes the
abstracted state out of its type. Lemma `AgeKeepsExpired` shows that time passing keeps an expired credential
expired.

`HTTPClientProofs` proves, for every set of requests and every retry
count:

- `RetriesOnlyTransient`: `Spec => []OnlyTransientRetried`, under the
  hypothesis `NoUnfollowedAnswers`. The hypothesis says the transport gives
  no 1xx answer and no unfollowed 3xx answer. It is needed: run
  `client_3xx_retry` shows the code retrying a 3xx. It is a hypothesis about
  the server, so it is stated as the theorem's `ASSUME` and not as a
  constant assumption. The theorem covers every interleaving with other
  requests and refreshes.

The inductive invariant is `RetryTypeOK /\ RetryHistory`:

- `RetryTypeOK` types `pc`, `attempt` and `outcomes`;
- `RetryHistory` relates a request's history to its loop variable:
  - while the request runs, it holds one outcome per attempt counted;
  - once it is done, it holds at most one more;
  - every outcome an attempt was counted for was transient.

`OnlyTransientRetried` alone is not inductive. It says nothing of
`attempt`, so it cannot rule out a further attempt after the history is
full. The lemmas are:

- `RetriedIsTransient`: what line 164 retries is transient under the
  hypothesis;
- `RefreshLabels`: a step of `auth.refresh()` only moves its request
  between refresh labels;
- `AttemptEndsIInv` and `AttemptRetryIInv`: the loop's two kinds of
  iteration;
- `NextIInv`: one step per action of `Request` and `Tick`.

`HTTPClientProofs` also proves:

- `ResultMatchesLastOutcome`: `Spec => []ResultFromLastOutcome`, under
  `NoUnfollowedAnswers` and `ModelAcceptsData`. The second hypothesis says
  that, when a verb is called with a `model_class`, the model accepts the
  data of every success envelope. It is needed: run `client_hydration`
  shows pydantic's own error escaping instead. Both are hypotheses about
  the server's answers and are stated in the theorem's `ASSUME`.

Its inductive invariant `ResultIInv` strengthens `IInv` with:

- the typing of `call`, and `DOMAIN result = Requests`;
- `PreLoop`: a request that is idle or inside `auth.refresh()` has no
  outcome yet, so an `AuthenticationError` never follows an attempt;
- `DoneResult`: a finished request that made attempts holds one outcome
  more than it counted. Its result is `CodeResult` of its last outcome,
  which is what the branches of lines 151-194 make of that outcome. If that
  outcome was transient, the loop variable had reached `retries`.

`ResultFromLastOutcome` alone is not inductive. It says nothing of
`attempt`, nor of a request that has not finished. The lemmas are:

- `CodeResultMatchesDesign`: for every answer other than a stray
  transport exception, the code's classification agrees with the design's
  (`SpecOutcome`), under the two hypotheses;
- `EndingResults` and `EndingNotTransient`: what each ending branch
  stores, and that only the give-up branch can end on a transient outcome;
- `AttemptEndsResultIInv` and `NextResultIInv`: one step per action.

Writing these proofs exposed a fault in the model. `ExtractData` and
`SpecOutcome` were written with `CASE` arms that overlap: a
`model_class` arm and an envelope arm both matched `env_bad`. In TLA+,
such a `CASE` takes an unspecified one of the true arms. TLC always takes
the first. So the formula did not say what TLC checked, and the lemma
could not be proved. Both are now `IF` chains in the order the code tests
the conditions. Every run gives the same result as before.

### The engine refines the authenticator

`HTTPClientProofs` proves the refinement `ClientImplementsAuth`:
`Spec => AuthImplemented`, for every set of requests, retry count and set of
transport answers, with no hypothesis. The refinement mapping is `AuthPc`.
Each step of the engine maps to a step of `Auth`, or to a stutter:

- `StartExpired` maps to `Call`;
- a step of `refresh()` maps to the same step (`RefreshRefines`);
- `AuthFailed` maps to `Return`, and so does an attempt sent right after
  `refresh()` returned (`AttemptRefines`);
- every other step of a request is a stutter. It moves the request between
  labels outside `refresh()` and leaves the token, expiry and lock alone
  (`HiddenStutters`);
- `Tick` maps to `Tick`.

The only invariant the proof needs is `PcType`: every request is at one of
its labels. TLC checks the same property in run `client_retry`. The mutant
that lets a request send while it is still inside `refresh()` breaks it.

Carried through the refinement, `ClientRefreshesSerialised` proves
`Spec => []ClientRefreshDiscipline` for the engine: among the requests, at
most one awaits `refresh_function`, and only while the credential is
expired. The proof instantiates `AuthProofs` with `pc <- AuthPc` and uses
its two theorems. Using them requires Auth's constant assumption for the
substituted constants, which is why `HTTPClient` states
`ClientAuthAssumption`.

### Exceptions that leave the engine

`TaxonomyOnlyErrors` proves `Spec => []OnlyTaxonomyErrors` under two
hypotheses:

- `NoStrayTransportErrors`: the transport raises no httpx error other than
  a timeout or a network error;
- `ModelAcceptsData`.

Each hypothesis excludes one of the two leaks the runs found:
`client_raw_exception` and `client_hydration`. So the theorem shows that
those two leaks are the only ones. TLC confirms that the run's property
holds when both hypotheses do. The invariant is `TaxIInv`: the typing of
`call`, the domain of `result`, and the property itself. Lemmas
`HandleErrorKind`, `GiveUpErrorKind` and `DeliverKind` give the class of
each ending branch.

### The converter

`MySQLToPostgresProofs` proves, for every dump satisfying the constant
assumption `DumpsAssumption`, of any length and with any number of tables:

- `TypeCorrect`: `Spec => []TypeOK`;
- `BaselineColumnsArePostgres`: `Spec => []ColumnsArePostgres`, under the
  hypothesis `BaselineColumns`. It says the dump's columns use the types of
  the baseline schema, with `AUTO_INCREMENT` only on int, bigint and
  smallint. It is needed: run `conv_types` shows tinyint and tinyblob
  coming out as non-types. TLC confirms that the dumps of run `conv_tables`
  satisfy the hypothesis.

`DumpsAssumption` says that every dump is a sequence of well-formed line
records. This is the shape the model abstracts a line to.

The inductive invariants are these:

- `TypeIInv` types the loop index and gives each accumulator the item kinds
  it may hold. An item's fields range over values taken from the dumps: the
  lines' names, key columns and converted types. These sets replace
  `STRING`, because no installed prover knows that a string literal is in
  `STRING`.
- `PgIInv` adds that `columns` and `output` are sequences of items whose
  column definitions have PostgreSQL types. `EndTable` concatenates the
  accumulators into the output, so the invariant is needed on `columns`,
  and not only on `output`.

The core lemma is `ConvertBaseline`. It follows the token through the ten
substitutions of lines 79-93 one at a time:

- `TypesAfter(i)` is the set of tokens still possible after step `i`;
- `CommonStep` shows that step `i` maps `TypesAfter(i-1)` into
  `TypesAfter(i)`.

Unfolding the whole chain at once makes the proof obligation grow
exponentially: `Sub` repeats its argument, fourteen levels deep.

### What is not proved

The full `TypeOK` of `HTTPClient` is not proved, for two reasons:

- its `wait` conjunct is bounded by `2 ^ Retries`, and no installed prover
  knows anything of `^` with a variable exponent, not even that `2 ^ a` is
  a natural;
- it types `result` fields with `STRING`, and no installed prover knows
  that a string literal is in `STRING`.

The parts of it that the other proofs need are proved as invariants:
`PcType`, `RetryTypeOK`, and the typing of `call` and of `result`'s domain.

Only model-checked, for these reasons:

- Liveness (`AllRequestsComplete`) is beyond TLAPS's reach.
- The converter's `TablesKeepTheirColumns`, `IndexesOfOwnTable` and
  `SinglePrimaryKey` are stated on the finished output. They locate each
  table's statement by `CHOOSE` over output positions, and their inductive
  form would have to relate the output to the prefix of the dump read so
  far. That is induction over the data, which the provers cannot do here.
- The violations are facts about the code, shown by TLC traces.

## Findings

All eight violation runs are listed with their lines in PROJECT.json.

- **Divergences between the code and the design (spec.md):**
  - `auth_refresh_without_token`;
  - `auth_expiry_not_cleared`;
  - `client_raw_exception`;
  - `client_3xx_retry`;
  - `client_server_code`;
  - `client_hydration`.
- **Bugs in the converter**, whose purpose is a valid PostgreSQL schema:
  - `conv_types`: the substitution order produces non-types;
  - `conv_pk`: a composite primary key is lost.

## Not modelled, and why

- `models.py`: Pydantic data shapes with no behaviour.
- `__init__.py`: re-exports only. The `GotrsClient` it imports is not in the
  repository's `src/`.
- `scripts/tools/make_help.py`: a formatter of Makefile help text. It has
  no interleaving and no failure path. Its one stated promise is the comment
  at lines 22-25: every target of `make -pq` is listed, either in a curated
  group or under "Other Targets". That is the set difference at line 420,
  and the rest is text layout. The one behaviour worth a run depends on
  GNU make's database format: `# Not a target:` file entries such as
  `Makefile` are listed as targets. A later sitting may model it once a run
  can be spared for it.
- In the converter:
  - `main()` (file I/O);
  - the exact output text;
  - lines on which the regexes of lines 25 and 101 fail (the code crashes
    with `AttributeError`). The model's inputs are lines those regexes match.
- In `HTTPClient`, not yet modelled:
  - `set_auth`;
  - `close`;
  - the `Retry-After` value;
  - `_build_url` (string formatting).

## Plan for the next sittings

1. **HTTPClient lifecycle:** `set_auth` swapping the authenticator during a
   refresh await, and `close` followed by requests.
2. **Rate limits:** `RateLimitError.retry_after` against the fixed backoff.
3. **Retried writes:** count the server-side applications of a request, to
   state at-most-once for timed-out POSTs (expected to fail).
4. **Refinement:** an abstract per-request spec `RetryAbstract`, where a
   request is a sequence of outcomes ending in a result. Show that
   `HTTPClient` refines it through `INSTANCE ... WITH`, as a PROPERTY, then
   prove it.
5. **Proofs:** an action property of the retry loop (an attempt never
   shrinks a request's history).
