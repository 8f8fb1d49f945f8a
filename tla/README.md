# Lang2SQL: a verification project

Lang2SQL is a Discord bot that answers questions about a database: a user asks in a
channel, a thread or a direct message, a language model explores the schema, runs
read-only SQL and answers. This directory holds TLA+ models of the program under
`src/src/lang2sql`, TLC configurations that check them on small instances, and proofs
about them that TLAPS checks for every instance. Paths below are relative to
`src/src/lang2sql`.

Every theorem is checked by `tlapm <Module>Proofs.tla`, every run by
`tlc -workers 2 -config <run>.cfg <MC module>.tla`.

## The system

| component | state it keeps | operations | talks to |
|---|---|---|---|
| Identity (`core/identity.py`) | none: user, guild, channel, thread, admin | `session_key`, `kv_scope`, `effective_channel_id` | all others |
| Turn engine (`harness/`, `frontends/discord/commands.py` `query`) | the session of a turn in flight | `query`, `agent_loop`, `compress`, `dispatch` | LLM, tools, session store |
| Store (`adapters/storage/sqlite_store.py`) | tables `sessions`, `kv`, `audit`; every write is its own transaction | `load`, `save`, `kv_*`, `record`, `query` | all others |
| Term dictionary (`tools/semantic_federation.py`) | `cterm` entries of `kv` | `term_custom` register, remove, list; the prompt's term section | store, audit |
| Organisation setup (`tools/org_setup.py`) | org and team entries of `kv`, inferred terms | scan, clear | explorer, LLM, dictionary |
| Databases (`commands.py` `register_db_for_guild`, `tenancy/concierge.py`) | encrypted credentials in `kv`, explorer cache in memory | `/setup`, `build_context`, `forget_explorer` | explorers, secrets |
| Secrets (`tenancy/encrypted_secrets.py`) | generated key in `kv`, key in memory | `_resolve_key`, `get`, `set` | store |
| System prompt, enrichment (`harness/system_prompt.py`, `tools/enrich_schema.py`) | `enriched_desc`, `schema_relationships` in `kv` | scan, clear, overlay | explorer, LLM, store |
| SQL gate (`tools/run_sql.py`, `safety/`) | none (pure), audit records | `evaluate`, `run_sql` | explorer, audit |
| Discord shell (`frontends/discord/bot.py`, wizards, `render.py`) | views and modals | `on_message`, slash commands, wizards | command handlers |
| Setup form (`adapters/db/dsn_builder.py`, `factory.py`) | none (pure) | `assemble`, `build_explorer` | Discord shell, databases |
| LLM adapters (`adapters/llm/`) | none | `complete` | turn engine, scans |
| Explorers (`adapters/db/`) | an engine, created lazily | `list_tables`, `describe_table`, `execute` | prompt, tools |
| Memory, ingestion (`memory/`, `ingestion/`) | facts in memory | `remember`; propose definitions | tools |

**How it runs.** One asyncio event loop serves everybody. The sqlite calls run inline, so
code between two awaits of a worker thread or of Discord is atomic; but every `await` of
the model, of the database or of the gateway lets other turns and commands run. Nothing
serialises two turns of one conversation. The databases of users are read in worker
threads, which share an explorer's engine without a lock. Each sqlite write commits alone,
so a crash can fall between any two writes.

**What is hard, and what must hold.**

- *Conversations*: two turns of one channel overlap; a turn fails or the process dies in
  the middle; the transcript must stay acceptable to the chat API across compression and
  cut-off turns; nobody's messages may show in another conversation; an answered question
  must be remembered; each result must be shown with its own SQL; every turn must end.
- *Dictionary*: several users and long scans write one namespace; a team's terms must stay
  in its channel; one's own definition must win; what was confirmed by hand must survive
  what is automatic; changes must be audited.
- *Databases*: `/setup` races with turns and other `/setup`s; a cached explorer must not
  outlive its credentials; credentials must not cross workspaces; what was stored must be
  readable after restarts; DSN and token are two writes.
- *Enrichment*: a run lasts minutes and stores at its end, while prompts are put together
  table by table and others clear the cache or switch the database; what is shown must come
  from the workspace, and what was cleared must not come back.
- *Reads*: worker threads create, replace and empty the engine they share; a question must
  not be answered from an older schema than the one it was asked about; the statement that
  runs must be the one the model wrote, with a row limit in force; every read must end.
- *Replies*: Discord may refuse any call, by length or for reasons of its own; nothing may
  be changed for a user who is told that the bot did not respond, no answer may be too long
  to be shown, and every interaction must end. What is typed into `/setup` passes through
  quoting and two URL parsers before it reaches a server.

`PROJECT.json` lists every component with its status, and each hazard at its line.

## Modules

| module | models |
|---|---|
| `Identity` | `core/identity.py`: identities, session keys, kv scopes, channels |
| `ConversationLog` | abstract: a conversation is the log of the turns answered in it |
| `Conversations` | the turn engine, from `on_message` to the reply |
| `Federation` | `term_custom` and `org_setup` on the shared dictionary |
| `DatabaseRegister` | abstract: a workspace has one database, which `/setup` replaces |
| `Databases` | `/setup`, `build_context`, secrets, explorer cache, restarts |
| `Enrichment` | `/enrich` and its clear, and the readers of its cache: prompts and `explore_schema` |
| `Positions` | picking elements of a sequence by their positions, as `compress` and the SQL gate do |
| `SqlGate` | the whitelist, the row limit and the limit argument, as operators on texts and numbers |
| `Queries` | the reads of turns in worker threads that share a SQLAlchemy engine; extends `SqlGate` |
| `SetupForm` | from the fields of `/setup` to the database an explorer reaches, as operators |
| `Replies` | the Discord shell: commands, mentions and wizards, from arrival to the last reply; extends `SetupForm` |
| `MC...` | values for the constants, for TLC |
| `...Proofs` | theorems and their proofs; `TranscriptsProofs` continues `ConversationsProofs`, `PositionsProofs` has what both it and `QueriesProofs` need of `Positions` |

Operators named `Bad...` are mistakes a change of the code could make (a dropped guard, a
missing reset). No specification uses them. Put in the place of the definition that follows
them, each makes the run named in `PROJECT.json` fail, which shows that the property is
about the code.

### Conversations

`pc[r]` is where the turn of message `r` is: `prompt` (awaiting `list_tables`), `llm`
(awaiting `complete`), `tools` (dispatching), `reply` and `error` (awaiting Discord).
`session[r]` is the in-memory transcript, `store` the `sessions` table, `base` the length
before the turn (`pre_loop_len`), `asked` the number of LLM calls, `todo` the calls still
to dispatch, `report` the SQL section of the answer.

| action | code |
|---|---|
| `Arrive` | `on_message`, `build_context`, the first line of `agent_loop` |
| `BuildPrompt` | `build_system_prompt` has its tables |
| `Answer` | a completion without calls: the loop returns, `query` compresses, saves and renders, all without suspending |
| `AskTools`, `RunTool` | a completion with calls; one dispatched call |
| `ReachMaxTurns` | the last call of the last allowed completion: the loop gives up, `query` saves |
| `Raise` | `build_context`, `list_tables` or `complete` raises: nothing is saved |
| `Reply`, `ReplyError` | Discord accepts or refuses the answer, then the error text |
| `Crash` | the process stops; turns in memory are gone, the table stays |

A message is abstracted to its role, its turn, whether its text is empty, its calls, and
for a result the call's id and statement. The codec of the `sessions` table writes and reads
each of these fields, so the store holds transcripts as they are. Ids of the calls of a turn
are distinct: the chat API promises it and `query` relies on it (the adapter turns a missing
id into an empty one, which is listed as a hazard). `Overlap = FALSE` describes users who
wait for their answer; the code has nothing that makes them.

### Federation

`dict` maps a slot, the kv scope, the term and the place (`guild`, one channel, one
member), to a definition with its `inferred` flag, as the key `cterm:{term}:{layer}:{entity}`
does. `scans` holds the `org_setup` of each caller that is waiting for the database and the
model. `Register` and `Remove` are `term_custom`; `StartScan`, `FinishScan`, `FailScan` and
`Clear` are `org_setup`; the actions whose names end in `Cut` are the same handlers, cut by a crash after some
of their writes. A scan writes what the model proposed into the layer as it is then.
`handmade` and `last` are history, for properties only: what was registered by hand and not
removed by hand, and who did the last step. `Effective` is the narrow-to-wide lookup of
`build_prompt_section`.

### Databases

A credential is named by the `/setup` form it was typed in, together with the key it was
sealed with. `dsn` and `token` are the kv entries `db_dsn` and `db_extras.d1_token`,
`cache` is `_scope_explorers`, `key` the key of the running process and `savedKey` the
generated one in the kv table. `Submit` is the modal, whose database is then tried in a
worker thread; `Connect` is the rest of `register_db_for_guild`, `ConnectCut` the same with
a crash after the DSN; `Begin` is `build_context`, `FailToBegin` the `InvalidToken` it
raises when a credential does not decrypt; `Restart` picks any of the environments in
`EnvKeys`.

### Enrichment

`described` and `related` are the kv entries `enriched_desc:{table}:{column}` and
`schema_relationships` of each workspace; an entry is named by the `/enrich` that stored it.
A command under way has the `database` of its context and the tables it has still `todo`;
`shown`, `listed` and `joins` are what a prompt or a tool call has put into its text; `listed`
tells a table named because nobody asked for its columns from one whose `describe_table`
failed (`Listings`). `erased` is history: whose inferences a clear has removed.

| action | code |
|---|---|
| `Begin` | `build_context`; the first call of the database is awaited |
| `ListToEnrich`, `Sample` | `list_tables` returns; one `describe_table` with its samples |
| `Store` | the model's answer: columns and relationships are stored without suspending |
| `StorePart` | a description that is no text raises among the writes |
| `Clear` | `/enrich clear:true` |
| `ListForPrompt`, `DescribeForPrompt` | `build_system_prompt`: tables, then one table at a time, described or, if that raises, by its bare name, then the relationships |
| `Look` | `explore_schema` of one table |
| `Connect` | a `/setup` of another database, which leaves the cache as it is |
| `Fail` | the database or the model raises |
| `Crash`, `StoreCut`, `ClearCut` | the process dies, perhaps among the writes |

`Databases` justifies that a command keeps one database and finds the current one when it
begins. The model does not state that a description was sampled from the database it is shown
for: the code does not promise it, and `/setup` breaks it (see the hazards). Nor does it state
that every table beside relationships has columns: a table that cannot be described has none.
What holds is `JoinsAskForColumns`: each of them was asked.

### SqlGate and Queries

A text is a sequence of tokens: the words and signs that the layers or the database tell apart,
among them the signs of comments and the quote of a literal, at any place. Three readings of
a text stand beside each other.

- `Code` is that of the whitelist: block comments go first, wherever their signs stand, then
  line comments; literals mean nothing to it. `Accepted` is `WhitelistLayer.check`.
- `HasTopLevelLimit` and `Unended` are those of the row limit, which reads comments and literals
  like anything else. `Rewrite` is `RowLimitLayer.check`.
- `Read` is that of the database, which the properties compare with: a quote and the signs of
  comments begin what hides the others until it ends (`Modes`).

`Sending` says what the properties ask of an accepted text. `limited`: the database finds a
`LIMIT` of its only statement outside parentheses (`HasLimit`), for texts that end in no literal
and no block comment (`Closed`) and have no `LIMIT` and no parenthesis in literals or comments, balanced
parentheses and no semicolon in the middle (`Regular`); `SELECT 'limit 5' FROM t` is not such a
text, and is sent without a limit. `written`: the database reads what the model wrote and at
most a `LIMIT` behind it, for texts whose last semicolons are not followed by a comment
(`EndsWhereRead`). There is no property that the whitelist reads what the database reads:
`whitelist.py:3-6` says of itself that it is deliberately blunt.

`LimitOf`, `RowLimit`, `Sliced` and `Fetched` are the numbers a limit argument passes through.
An argument is missing, an integer, another value that `int()` makes an integer of (a text, a
fraction), one it makes none of, or infinite: `or 1000` sees it before `int()` does, so the
integer 0 becomes the default and the text `"0"` or the fraction 0.5 becomes 0. `Results`
compares the rows returned with those due (`Exact`).

In `Queries` an action is what a worker thread does up to its next access to `self._engine`
or to the pool; `pc` says which access that is.

| state | code |
|---|---|
| `engine` | `self._engine`, named by the turn whose thread created it |
| `idle`, `pooled` | the connections in the pool of each engine, and those that will go back to it; a connection is the version of the schema at which it was opened |
| `local`, `conn` | what a thread holds: the engine it has read, its connection |
| `schema`, `began`, `seen` | the version of the schema now, when the turn began, and the one its last read saw |
| `sending`, `result` | what `run_sql` has sent, and the rows it returned |

| action | code |
|---|---|
| `Begin` | `build_system_prompt` awaits `list_tables` |
| `Start` | `asyncio.to_thread`: a thread of the executor takes the call |
| `Check`, `Create`, `Get` | `_get_engine`: the test, the assignment, the read for the return value |
| `NoEngine` | `create_engine` raises: no driver, or no URL |
| `Dispose` | `engine.dispose()` of `list_tables` |
| `Connect`, `Run`, `Refuse` | the pool hands out a connection; the database answers or refuses, and the connection goes back |
| `Look`, `RunSql`, `Blocked`, `Finish` | the model calls `explore_schema` or `run_sql`, is blocked by the gate or by an infinite limit, or answers |
| `Change`, `Restart` | somebody changes the schema; the process starts again |

A connection may show anything between the schema it was opened at and the present one:
that is the reason the code gives for emptying the pool ("flush stale pool connections so
schema changes are visible"). `FreshTurn` therefore is the promise of that line, and is
subtle because another turn's connections may come back to the pool, or to an engine that
was replaced, between the dispose and the read.

### SetupForm and Replies

A field is a sequence of tokens: words, blanks, the characters with a meaning in a URL and
their quoted forms; what users type is given by the constants `Hosts`, `Ports`, `Names`,
`Secrets` and `Paths`. `Dsn` is `assemble` with its builders, `Quote` its `quote_plus`, `Explorer`
is `build_explorer`. `Credentials`, `ParsedUrl` and `ParsedD1` are what SQLAlchemy and `urlsplit`
make of the URL in between, the only external part. `Named` is the reference: the target a form
names, written without any URL, word for word as it was typed; only the path and the options
of a URL pasted with a PostgreSQL host are left out, as `build_postgresql` promises.

`SetupFaithful` says three things of every form, and that only accepted ones register:

- it assembles exactly if it is complete (`Complete`);
- its credentials arrive whatever the other fields hold, as `Arrived` says: `quote_plus` makes a
  `+` of a blank, and `make_url` leaves it, so a password with a blank in it does not arrive as
  typed;
- where what the builders put into the URL unquoted means nothing else there (`Plain`), the
  explorer reaches what the form names, or the URL is refused (`Usable`).

`Plain` excepts a port pasted with a PostgreSQL host (it is dropped), a MySQL host with a path,
and database, account and project names with a `?` or an address sign in them. That it excepts
nothing else is `PlainIsNeeded` in `MCReplies`: of the forms of the run, none that is not plain
reaches what it names.

`Replies` follows an interaction (`kind`: command, mention, or a form of one of the wizards)
through `pc`. `acked` and `effects` say whether Discord has its acknowledgement and whether
the handler has changed anything, `out` is the text about to be sent, `answer` and `error`
what became of the answer and of the error message. A text is its number of characters.

| action | code |
|---|---|
| `Command`, `Mention` | a slash command that `_run` answers; a message `on_message` takes up |
| `Open`, `Show`, `Pick`, `CloseView`, `Submit` | the wizards: the view is sent, a choice opens a form, the view times out after two minutes, the form is submitted |
| `Defer` | `response.defer`, outside of every `try` |
| `Return`, `Register` | the handler returns; `register_db_for_guild` returns |
| `Raise` | the handler raises, before or after it has changed something |
| `Send`, `SendError` | the answer, or the error message, is sent or refused; a call may raise although it was carried out |
| `Restart` | the process stops: handlers, views and forms are gone |

The handlers themselves are the other modules; `Replies` keeps of them that they return or
raise, and may have changed something.

## Runs

| run | shows | bounds |
|---|---|---|
| `ConvInterleaved` | transcripts of different conversations never mix; an answer follows its question; a save keeps what was loaded | 3 messages: two at once in a channel, one in a thread of it; 2 LLM calls per turn, 1 call each |
| `ConvSerial` | every prompt pairs calls and results; a result is reported under its statement; answered questions are remembered and `ConversationLog` is implemented, when users wait; every turn ends | 2 messages of one conversation, 2 LLM calls of up to 2 tool calls, 2 statements |
| `ConvLostUpdate` | violation: overlapping turns lose an answered question | 3 messages in one channel |
| `FedIsolation` | isolation of channels and guilds; one's own definition wins; automatic deletion spares confirmed definitions | 4 identities in 2 guilds, 3 commands, 1 crash |
| `FedManualLost` | violation: a scan and a clear lose a definition registered by hand | 2 identities, 3 commands |
| `FedRemoveLayer` | violation: remove ignores the layer | 2 identities, 3 commands |
| `FedUnaudited` | violation: `org_setup` changes definitions without a record | 2 identities, 3 commands |
| `DatabasesCurrent` | the cache follows the credentials; turns stay in their workspace; setups take effect; secrets survive; `DatabaseRegister` is implemented | 3 forms of one guild, 2 of them D1, 2 turns there and one in another guild, 2 restarts with or without a key |
| `DatabasesKeyChange` | violation: a setup does not take effect after a key change | 2 forms, 1 turn, 1 restart |
| `EnrichmentShared` | shown descriptions stay in their workspace; cleared ones stay cleared; a prompt with relationships has asked for all columns; every command ends | 2 enrichments, a clear, a `/setup` and a prompt in one guild, a tool call in another; 2 databases, 2 tables of a column each, 1 crash |
| `QueriesFresh` | a read is as new as its turn; what is sent is what was written and has a `LIMIT` in force; a call gets the rows it is due; every read ends | 3 turns, 2 worker threads, 1 tool call of one turn, 1 change of the schema; texts of up to 5 tokens, statements with up to 5 rows, limits from -2 on, a default limit of 3 |
| `ShellReplies` | answers fit; nothing is changed unacknowledged; silence is explained; credentials arrive and a plain form reaches what it names; every interaction ends | 2 interactions, texts of 0, 1, 1900, 1901 and 2001 characters and 1, 50 and 51 lines, the forms of 6 databases, their fields from plain words to a pasted URL |

The bounds are the least at which the interesting cases meet. Two messages overlap in one
conversation and a third is next to it; a turn has a completion with calls and a last one,
so it can be cut off by `max_turns`; three commands are a registration, a scan and a clear or
remove by different people, with a crash among their writes; three forms of one guild are a
D1, another database and a D1 again, and two restarts leave a key and come back to it; one
enrichment ends while another is under way, a clear falls before, between or after them, and
a prompt of two tables has a point between the tables at which any of it may happen. Of three
turns with two worker threads one has to wait for a thread, and two can create an engine each
while a third holds a connection; five tokens are enough for an `EXPLAIN` with options in
parentheses, for a comment or a semicolon on either side of a line end, and for a literal that
holds a `LIMIT`, a parenthesis or the sign of a comment. The lengths are
those on both sides of 1900, above 2000, and nothing at all; two interactions are a wizard and
its form, or two commands.
`max_turns` is 8 in the code and 2 in the runs: the loop treats all its rounds but the last
alike. Call ids are symmetric (they are only compared), and symmetry is not used with
liveness.

Fairness (`FairSpec`, in `ConvSerial`, `EnrichmentShared`, `QueriesFresh` and `ShellReplies`) is
weak fairness of each turn, command, worker thread or interaction under way; nothing is
assumed of users, of the model's choices or of restarts. The event loop runs every ready task,
the executor serves its queue, the LLM request has a timeout of 60 seconds, Discord's client
bounds its requests and its views have timers. That the databases answer or refuse is an
assumption, because the timeout of `safety/layers/timeout.py` is never passed on to them; and
`Replies` takes from `Conversations` and `Enrichment` that handlers end.

### Where code and words differ

The five runs that expect a violation are such cases; `PROJECT.json` quotes the words.

1. Overlapping turns of one conversation: the later `save` overwrites the earlier
   (`commands.py:44-70`).
2. `org_setup` stores inferred terms over definitions registered by hand, and its clear,
   which promises to keep those, deletes them (`org_setup.py:222`, `:93`, `:158`).
3. `term_custom` remove deletes every layer, not the one named
   (`semantic_federation.py:163`, `:130`).
4. `org_setup` changes definitions without audit records (`org_setup.py:152`, `:222`).
5. After a key change a database without a token cannot replace a D1: the old token is
   still decrypted (`concierge.py:105`).

Smaller ones have no run of their own. They are the exceptions the properties above name:

- `row_limit.py:1` "appends LIMIT to queries that lack one", but not if the word stands in a
  literal or a comment (`Regular`), and behind a semicolon if a comment follows it (`EndsWhereRead`).
- A `run_sql` limit of `"0"` or 0.5 fetches no row, where 0 fetches 1000 (`LimitOf`).
- `dsn_builder.py:36` quotes a blank as `+`, which nothing undoes (`Arrived`); `build_mysql` takes the
  host field as it is, where `build_postgresql` cleans it (`Plain`).
- A table whose columns cannot be read stands by its bare name beside the relationships
  (`system_prompt.py:44`).

## Proofs

All theorems hold for every value of the constants that satisfies the named `ASSUME`s, which
only say that identities have their coordinates, that `NONE` is none of the values it stands
apart from, and that bounds are natural numbers. TLC evaluates them in the runs.

- `PositionsProofs`: lemmas on `Pick`, which takes the elements of a sequence at a set of
  positions. The number of an element (`Rank`) and the element of a number (`Nth`) are
  inverse and increasing; with that, picking from what was picked, from a concatenation, from
  one element more and from a beginning, and counting in what was picked, come without
  induction over the sequence: an increasing enumeration of a finite set is unique
  (`NthUnique`), so a candidate for the result need only be shown to be one.
- `ConversationsProofs`: types, isolation, and that a save extends what was loaded. The
  inductive invariant joins the types (`TypeInv`) with `ShapeInv`: the transcript of a
  turn in flight: what lies before `base` is clean, what lies after it belongs to the turn,
  and all of it comes from identities with one session key. Without the first part the save
  could not be shown to keep the loaded prefix, because compression would reach into it. The
  lemmas on `Compress` (the positions it keeps, in order) carry the argument; isolation
  follows from one session key meaning one conversation.
- `TranscriptsProofs`: the messages of a transcript and the log of turns. A lemma
  (`StepKinds`) sorts the steps into those that add a message, those that end a turn with or
  without a save, and the rest.
  - `WellFormedPrompt` and `ReportFaithful` from `ProtocolInv`: in the middle of a turn every
    call of the transcript has its result at the place behind it or is in `todo` at the place
    that fits, what is in `todo` was called for, each result has its call, and from
    `base` on no id is used twice. The property of the prompt is the case `todo = <<>>`.
  - `TurnsWhole` from `WholeInv`: a turn that has not ended is nowhere but behind `base` in its
    own session (`Unseen`); that is what keeps questions single when the last writer wins.
  - `AnsweredRemembered` and the refinement of `ConversationLog`, assuming
    `Overlap = FALSE`, from `SerialInv`: one turn of a conversation at a time, which has
    loaded what is stored now. Without the assumption both fail, as `ConvLostUpdate` shows for the
    first; that `compress` keeps exactly one question of each turn is what makes an `Append`
    of the log out of a save.
- `FederationProofs`: types, non-interference, stability of one's own definition, and that
  confirmed definitions go by hand only. The action properties follow from three facts: the
  types, that nothing is ever stored at a channel place without a channel (`NoNowhere`), and
  that a scan in flight was allowed when it began (`ScansAllowed`), which is what makes its
  late writes harmless to others. The proofs have one step per action, with a lemma for what
  a set of written or removed slots can change in a lookup.
- `DatabasesProofs`: types, `CacheCurrent`, `OwnDatabase`, `SecretsSurvive`,
  `SetupTakesEffectUnlessLeftOver`, and the refinement of `DatabaseRegister`. Besides the
  types the invariant says that credentials are stored where they were typed (`Homed`), that
  an acknowledged D1's token was sealed together with its DSN (`TokenPaired`; a crash between
  the two leaves a form that is never acknowledged), and that an idle turn has no explorer.
  A second invariant says that only one key is ever generated.

- `EnrichmentProofs`: types, `OwnWorkspace`, `ClearedForGood`, `JoinsAskForColumns`. The
  invariant says that kv entries come from enrichments of their workspace (`OwnEntries`),
  that an enrichment stores once, when it ends (`StoresAtTheEnd`: otherwise a clear could
  not be for good), and that a prompt which names tables without asking has ended without
  relationships (`BareEnds`: there is no suspension between the check and the second read).
  `KvStep` and `Reads` say once what a step may do to the cache and to what is shown.

- `QueriesProofs`: types (no thread uses an engine that is not there) and `FreshTurn`, for any
  number of turns, threads, calls and changes. The invariant says that an engine exists for
  whoever is past `_get_engine`, that an engine about to be created is nobody's yet
  (`EngineInv`), and that a turn that has emptied a pool finds nothing older than itself in the
  engine in use, even if another thread has replaced it (`PoolInv`): connections opened before
  are closed, or no longer return to the pool, and a new engine has no connections at all.
  The gate needs no invariant but the types: `sending` and `result` hold members of `Sendings`
  and `Results`, so the theorems are about every text of every length and every number.
  - Both theorems about texts rest on the modes in which the database reads a text: they exist and
    are what `Modes` says (`ModesFollow`), two texts with a common beginning have the same modes
    there (`SameModes`), and what is appended is read in the modes that follow (`ModesAlong`).
  - `LimitInForce` (`LimitedText`): the line end in front of the appended `LIMIT` ends a line comment
    (`LimitedModes`), and in a regular text the depth that `row_limit.py` counts is that of the
    code (`DepthOfCode`).
  - `SentAsWritten` (`WrittenText`): `rstrip(";")` takes semicolons only (`UnendedShape`), what is
    left is read as before (`ReadLimited`), and what was taken the database reads as the
    semicolons behind the statement (`ReadEnding`, `BodyBefore`).
  - `RowsBounded` (`ResultsExact`, `ReturnedExact`): what the two limits leave, by the form of the
    argument.
- `RepliesProofs`: types, `AnswersFit`, `NoEffectUnacked` and `SilenceExplained`, for texts of
  every length and number of lines. The invariant (`InteractionOK`) says of one interaction what
  each value of `pc` means for its acknowledgement and its texts; `SendableFits` and
  `MessagesWhole` are the arithmetic of the limits: a text that is cut had a file beside it, and
  no handler returns a long text with a file.
  - `SetupFaithful` from `FormInv` (a submitted form belongs to a `/setup` interaction that has
    left its modal, and what it has changed it changed accepted) and from `FormRight`: every form
    comes to what it should, for any sets `Hosts`, `Ports`, `Names`, `Secrets`, `Paths` of typed
    texts, of every length. That rests on laws of the parser: a text cut at its first stop gives
    back what is in front and behind (`UptoCut`); unquoting what was quoted gives what was typed
    with `+` for blanks, and what is quoted holds no stop (`QuoteRound`); so credentials
    (`CredentialsSurvive`), address, database and options (`Placed`, `PlacedWithOptions`) come
    back from a URL, and an address with a `:` too many is refused (`AddressRefused`).
    `AcceptsComplete` says which forms assemble; `PostgresqlForm` and the lemmas of the other
    databases apply the laws to the builders.

Every invariant and action property of the passing runs is proved. Only model-checked: liveness
(`EveryTurnEnds`, `EveryCommandEnds`, `EveryReadEnds`, `EveryInteractionEnds`: fairness is beyond
the proof system's reach).

## Not modelled

- The content of prompts and answers; HTTP, JSON and sqlite themselves; the cipher; layout.
- Ingestion, which proposes definitions and stores nothing; remembered facts, which no prompt
  ever contains; the CLI, and the empty Slack and web frontends; `/connect`, which stores an
  entry nobody reads; `audit_me` and the audit records of `run_sql`, which nothing reads back
  but that listing.
- The branch of `render_answer` for rows, which nothing calls; `TimeoutLayer`, whose field
  nothing reads; the HTTP exchange of the D1 explorer.
- What the database reads beyond literals in single quotes and plain comments: nested block
  comments (PostgreSQL), `#` comments (MySQL), quoted identifiers, backslashes and dollar quotes.
  Words inside other words: the layers look for whole words.
- What the whitelist accepts against what the database reads (see `SqlGate`). Whether accepted
  texts are SQL at all.
- IPv6 addresses and the letter case of a host, which `urlsplit` changes.
- Answers of white space only, which Discord takes for empty ones.

See `components` in `PROJECT.json`.

## Plan

Next, in this order:

1. `Glossary`: an abstract cache with merge, erase and reads of whole tables, which
   `Enrichment` implements; then `Enrichment` on top of `Databases` instead of its own
   `Connect`.
2. `Lang2SQL`: composition of conversations, dictionary and databases, to state what a turn's
   prompt contains while commands run beside it.
