# kanban-ai in TLA+

A specification of kanban-ai, a kanban board with accounts and an assistant: a
FastAPI back end over PostgreSQL (`src/backend`), a React front end
(`src/frontend`). The modules are translated from the code, at the lines that
`PROJECT.json` ("map") names for each definition. TLC checks them on small
instances; TLAPS proves most of their safety properties for every instance.

What the project looks at is what the tests of the repository hardly reach. They
run one request at a time against a database of their own, and the page against a
mocked API. In use, a request gives up the event loop at every `await`, another one
commits, and the first goes on with what it had read.

## 1. Inventory

| Component | State | Operations | What is hard | What makes it correct |
|---|---|---|---|---|
| **Ordering** `ordering.py` | none: the `position` of the rows it is given | `renumber`, `_without`, `insert_at`, `remove_from` | clamping, rows that are already misnumbered | after a call the list is numbered 0..n-1 in the order asked for |
| **Board services** `services/{boards,columns,cards}.py`, their routes, `models.py` | tables boards, columns, cards; one session (identity map) per request | create, rename/update, move, delete of each; the reads of a board and of its lists | several SELECTs per request, then writes made from them; cascades; deferred unique constraints | a user reaches their own rows only; positions 0..n-1; each operation acts on the lists as one step; a board is shown with each card once |
| **Accounts** `routers/auth.py`, `services/users.py` | table users: e-mail, failure count, lock | register, login, logout | Argon2 runs in a thread between read and write | one account per address; a lock ends |
| **Sessions** `services/sessions.py`, `deps.py` | table sessions: two expiries | create, authenticate and slide, delete, purge | the slide is written after the row was read | what has ended stays ended; nobody else is signed out |
| **Agent** `agent/*.py`, `routers/agent.py` | budget, actions and conversation of one turn; the turn's database session | chat; five tools | the model is arbitrary; the user edits meanwhile; a turn commits many times | budgets; reports all it did; the board of the URL only; ends |
| **Board page** `BoardPage.tsx` and its components | board and error on screen; runs in progress | drag, buttons, `run`, `load`; the chat's reload | runs overlap; answers are lost, late, out of order | at rest the page shows the database |
| **Sign-in state** `auth.tsx`, login and register pages | each tab's user on screen; the cookie, which the tabs share | sign in, register, sign out, reload, 401 handler | answers late, lost or out of order; a second tab; a 401 to an older request after a new sign-in | the page's user is the cookie's; signed out on screen is signed out |
| **Board list** `BoardListPage.tsx` | list, error and the text in the form; runs in progress | type, create, delete, `run`, `load` | as the board page; a second submit of one text | at rest the page lists the boards; one text, one board |
| **API client** `api.ts` | the 401 listener | `request` | a failure does not say whether the write happened; headers of requests without a body | an answer is an answer, the rest is a failure; the guard lets the page's own requests through |
| **CSRF guard, rate limiter, hashing** | none; counters in memory; none | one decision per request | - | - |
| **Migrations, wiring, deployment** | - | - | - | - |

How they interact: the routes authenticate (Sessions), then call the services with
the caller's id. The services renumber lists with Ordering. The agent's tools call
the same services with the same session object for a whole turn. The page calls the
routes, and reloads after each of its writes and after a turn that says `changed`.
Every request of the page goes through `api.ts`, passes the CSRF guard, carries the
cookie, and a 401 to it signs the page out.
All requests share the database and nothing else. There are no locks in the
application, no `SELECT ... FOR UPDATE`, and no isolation level above PostgreSQL's
default.

The full list of hazards, each with its line and the properties aimed at it, is
"hazards" in `PROJECT.json`.

## 2. Modules

| Module | What it is |
|---|---|
| `Ordering` | the functions of `ordering.py` |
| `MCOrdering` | every call on every short list |
| `OrderingProofs` | theorems about them, and lemmas on cutting and joining lists |
| `KanbanLists` | abstract: boards and columns are lists, every operation one step |
| `BoardService` | the services over the tables, one step per `await`, any number of requests |
| `BoardServiceImplements` | the refinement mapping from rows with positions to lists |
| `BoardOverlap` | `BoardService` with a history of which requests overtook which |
| `MCBoardService`, `MCBoardOverlap` | small databases |
| `BoardServiceProofs`, `BoardOverlapProofs` | the theorems about `BoardService` and `BoardOverlap`, and the lemmas they rest on |
| `Accounts`, `MCAccounts` | accounts, login backoff, sessions |
| `AgentTurn`, `MCAgentTurn` | one turn of the agent, with the user editing meanwhile |
| `BoardPage`, `MCBoardPage` | the board page and a server that may fail it |
| `SignIn` | who is signed in, as the tabs of one browser believe and as the server knows |
| `BoardListPage` | the list of boards, its form, and a server that may fail them |
| `AccountsProofs`, `AgentTurnProofs`, `SignInProofs`, `BoardPageProofs`, `BoardListPageProofs` | the theorems about those modules, each with the lemmas it rests on |

`BoardService` and `BoardPage` both extend `Ordering`. Definitions whose names end
in `_Something` after the name of another (`Placed_Appends` of `Placed`, and so
on) are mutants: the form a plausible bug would give it. Nothing uses them; they
record, for every property, a change to the code that it would notice.

### BoardService

| Variable | In the code |
|---|---|
| `parent`, `position` | the committed rows: `user_id`, `board_id`, `column_id`; `position`. `Unborn` and `Gone` stand for no row yet, no row any more |
| `call`, `pc` | what a request asks for, and at which `await` it is or how it was answered |
| `seenParent`, `seenPosition` | the attributes of the objects in the request's session |
| `siblings`, `targets` | the lists it has loaded |

A request *arrives*, *reads* (`GetOwnedBoard`, `GetOwnedColumn`, `GetOwnedCard`; a
move goes on with `GetSourceColumn`, `GetTargetColumn`; then `ListSiblings`,
`ListTargetSiblings`), *writes* (one action per operation) and *refreshes*. A request
that only reads goes from its list, and for `get_board` from the cards of its columns
(`ListContents`, one statement for all of them), to its answer (`Show`). `Abort`
may end it at any wait. What the actions take from SQLAlchemy and PostgreSQL:

- READ COMMITTED: a SELECT sees what is committed when it runs. Two SELECTs of a
  request see two different moments.
- A row that is loaded keeps its attributes (identity map); `expire_on_commit` is off.
- The UPDATEs, INSERTs and DELETEs of a request follow its last read, so flush and
  commit are one step. Only attributes that changed are written.
- An UPDATE of one row that is gone is a `StaleDataError`. In a batch (executemany)
  it is not noticed. A DELETE that finds no row is not an error.
- `(parent, position)` is unique, *deferred* to the commit: a violation is an
  `IntegrityError`, answered 500, and nothing is written. Foreign keys likewise; a
  DELETE cascades to whatever hangs from the row when it commits.
- The refresh after a commit fails if the row is gone: the write stays, the answer
  is 500.

Two simplifications. `selectinload` reads the cards of 500 columns at a time; the model's
one statement is a board of up to 500 columns. And SQLAlchemy batches UPDATEs by the set of
columns written, so a sibling that is alone in its group is counted, and its absence refused,
where the model (`MissesARow`) accepts the commit: the model commits in more cases than the
code.

Titles and descriptions are left out, as no property tells two of them apart.

### Accounts

`users` and `sessions` are the committed tables, `seen` the account object a login
holds while Argon2 runs, `waited` the age of the time stamp a slide is about to
write. Time passes in `Tick`; only distances in time are kept. A password is right
or wrong, a token is a key. `RegisterCreate` and the three ends of a login
(`LoginRefused`, `LoginFailed`, `LoginSucceeded`) write what they make of the row as
it was read. The unique index on the e-mail is not deferred: it is met by the flush
inside `create_user`. The exponent of the backoff (`doublings`) is clamped to
`MAX_DOUBLINGS`, 30 in the code, before the power is taken; a power above
`TIMEDELTA_MAX` is an `OverflowError`, and the login a 500 that writes nothing.

### AgentTurn

`Complete` is a round trip to the model, which fails, answers or asks for calls.
Each call is then refused by the budget (`Refuse`), answered with an error
(`Reject`), of a shape that raises (`Unreadable`: a name or arguments that are no string),
a listing (`ListBoard`), or passes its checks (`Check`), commits at a
later step (`CommitCreate`, `CommitEdit`, `CommitMove`, `CommitDelete`) and refreshes
its row (`Refresh`). `Edit` is one complete request of the user from the browser,
possible at every point. A move compares its target with the `column_id` that its check
loaded (`from`), and commits on that. `wrote` and `erased` count what was really committed, next
to what the budget counts and the actions report. A position conflict with the
browser is a choice (`overtaken`): whether one occurs is `BoardService`'s business.

### BoardPage

`phase[r]` follows one `run()`: the action sent, executed or refused, the GET sent,
executed, answered. An answer may be lost at each point, after the write too.
`board` and `error` are the page's state; `server` the database. A drag changes
`board` at once (`applyMove`) and the server later (`Moved`, by `Ordering`). The
assistant edits the database between a question and its answer. A request whose
connection broke has been executed by then or never is.

### SignIn

| Variable | In the code |
|---|---|
| `registered`, `sessions` | the accounts and the sessions as `Accounts` has them, each handler one step |
| `jar` | the session cookie in the browser, one for all tabs |
| `known` | `AuthProvider`'s `user`: `undefined` is "checking", `null` is "out" |
| `busy` | the request a form or the sign-out button waits for |
| `wire` | requests in flight: the cookie they were sent with, the answer once there is one |
| `unaware` | a history: the tabs to which the cookie has changed behind their back |

A tab *submits* the login or register form, *signs out*, *works* (any other request),
*navigates* (the form or button is gone, its request is not) and *reloads* (the
requests of the old page are dropped, a check under way included, and `/me` is asked).
The browser drops the cookie when its `max_age` is over (`CookieExpires`); the session has
ended by then, as the server counts the same time. The server answers as of the
cookie the request left with. When the answer arrives the browser changes the cookie
(`JarAfter`) and the page its user (`KnownAfter`), in one step: an answer arrives whole
or not at all. A request may also fail (`Lose`) before or after it
was executed, in which case the cookie stays as it was. The guard of `csrf.py` stands
in front of every handler, with the headers `request()` gives: `SendsBody`,
`HasCsrfHeader`, `MediaType`.

### BoardListPage

As `BoardPage`, over a list of boards and without drag and assistant. `title` is the
text in the form and `made` has the text of each board there has been, so that a
second board for one text can be seen. Two histories have the texts of which the page
allows a second board: `unsure`, submitted again while the answer was out, or the answer
was lost; and `early`, submitted again after a good answer, while the run was still fetching
the list and had not emptied the field yet.

## 3. Runs

| Run | States | What it shows |
|---|---|---|
| `ordering` | 10,520 | every call on every list of up to four rows, from arbitrary positions, leaves 0..n-1 and the order asked for |
| `board_tenants` | 410,176 | two requests of any kind and of two users, interleaved at every `await`, on boards with up to two columns: reads and writes stay with the owner, no card changes board, only deletes remove, a board is shown with each card once; the invariant of the proofs holds |
| `board_overlap` | 175,101 | one or two requests at a time: positions stay 0..n-1, a moved row lands at the index asked for and `BoardService` implements `KanbanLists`, until one commits over another's commit; the invariant of the proofs holds |
| `board_race` | violation | and then not: see below |
| `account_sessions` | 789,067 | two requests of any kind: one account per address, ended sessions stay ended, others stay signed in |
| `account_lockout` | 48,066 | every lock ends, while two requests keep failing; every bad login is answered alike |
| `account_register_race` | violation | see below |
| `agent_turn` | 424,066 | budgets, reports, the bound board, termination |
| `agent_silent` | violation | see below |
| `page` | 845,163 | two runs overlap: at rest the page shows the database; a drag does what the server does |
| `sign_in` | 735,938 | two tabs, two accounts: a tab acts as the user it shows, shows the signed-out page over a good cookie for two causes only, ends its check; the guard passes the page |
| `board_list` | 356,275 | two runs overlap while the user types: at rest the page lists the boards; a text makes two boards only if submitted again with no answer, a lost one, or before the list was fetched; Loading ends |

Bounds, and why they are enough to see what matters:

- *Requests in progress* (`MaxInFlight`, `Requests`): two. A behaviour with one request at
  a time is among those with two. Every hazard on the list is between one request's
  read and its write with one other commit in between. What has to hold for any number is proved.
- *Rows*: up to three columns, three cards, three boards of two owners. A board
  service run starts from *every* layout the application can have written (`Layouts`,
  with contiguous positions), so a request meets every list, and a long history is
  not needed to build one. Keys are never reused, so creates end when no `Unborn`
  key is left.
- `MaxIndex`: 2, the last place of a list of three and past the end of every shorter
  one, so the clamp is at work too. In `board_tenants` it is 0: where in a list a row
  goes has no part in whose it is, and a move to the front rewrites the whole list.
- `MaxCount` (failures counted), the lifetimes and the backoff: small numbers with
  room between touch interval, idle and absolute lifetime, and between the first
  lock and the cap. Counters stop where the code no longer tells them apart, except
  `MaxCount`, which is a bound: it is above the count that reaches the cap.
  `MAX_DOUBLINGS` 1 and `TIMEDELTA_MAX` 2: without the clamp the third failure that
  locks would overflow, within `MaxCount`.
- `AGENT_MAX_STEPS` 3, `AGENT_MAX_MUTATIONS` 3, `AGENT_MAX_DELETIONS` 1, `MaxCalls` 2:
  each limit can be hit first, in the middle of a reply too. `MaxEdits` 2: the
  browser may act between check and commit and again before the refresh.
- `MaxRuns` 3 (with the initial load), `MaxChats` 1: two runs can overlap with each
  other, with the assistant and with a load.
- `sign_in`: two tabs, two accounts of which one is registered, two requests on the
  wire, four sent, three sessions. A late answer needs one request that is overtaken
  by another; four allow a check, a sign-in, a sign-out and one more in between.
- `board_list`: two texts (one submitted, one typed meanwhile), two runs at once, four
  in all: the first load, a create, its second submit and a delete.

Keys that no definition tells apart are permuted (SYMMETRY), in runs of safety
properties only. CHECK_DEADLOCK is off where the behaviour really ends: a request is
made once, the page's runs are used up.

Fairness. `Accounts`: WF of `Tick`, that is, time passes. Nothing obliges a client
to ask or a request to end, and `Unlocks` does not need it. `AgentTurn`: WF of
`Turn`. The call to the model has a timeout (`AGENT_TIMEOUT_SECONDS`), after which it
is a `ModelError`; the database answers or the connection fails. `Ends` then says
that the loop is bounded whatever the model replies. `SignIn` and `BoardListPage`: WF
of the end of each request, with an answer or without. A browser ends a `fetch` one
way or the other; that the server answers is not assumed, nor that the user clicks.
`CheckEnds` and `LoadingEnds` say that the page comes to rest on what it is given.

### The properties

- **PositionsContiguous** (`ordering.py:3`) does not hold of overlapping requests.
  **ContiguousUnlessRaced**, **LandsWhereAsked** and **AtomicUntilRaced** (the refinement
  of `KanbanLists`) say how far it goes: until a request commits on a board where
  another has committed since it looked there. Requests one at a time never do that.
- **SeesOnlyItsOwn**, **WritesOnlyItsOwn**: tenant isolation. Ownership is checked in a
  query of its own, and what is written later was read by other queries.
- **StaysOnItsBoard**: the boards of two columns are compared on objects that may be
  stale. It holds because a column never changes board.
- **OnlyDeletesRemove**: cascades against concurrent moves.
- **EachCardOnce**: `get_board` reads columns and cards in two statements. All the cards
  come from one, so a card that moves in between is under its old or its new column
  and not under both or, while its column is listed, neither.
- **OneAccountPerAddress**, **EndedForGood**, **OthersStaySignedIn**, **Unlocks**.
- **RefusalsAlike**: the generic 401 of `login` is no answer to the question whether there
  is such an account, so no count of failures may turn it into a 500 (`users.py:54-60`).
- **WithinBudget**, **ReportsWhatItDid**, **StaysOnBoundBoard**, **Ends**.
- **ShowsTheServer**, **SameRearrangement**. ShowsTheServer needs that since the page
  was last at rest no GET failed and their answers came in the order of their
  execution. It does not need the writes to succeed or runs to be apart: each write
  is followed by a GET of its own, so the last GET is behind every write.
  **ListsWhatIsThere** is the same of the list of boards.
- **OncePerText**, **EmptiedOnlyIfCreated**, **LoadingEnds**: what the form and the page
  of the list owe the user when an answer is lost, late or a refusal. OncePerText names the
  three ways to a second board that the page leaves open, and says that a refused create and
  a list that could not be fetched are none.
- **ShowsWhoItActsFor**, **FalseSignOutCauses**, **CheckEnds**, **OwnRequestsPass**.
  The first speaks of tabs the cookie has not changed behind, or been dropped from. The
  second does not say that the signed-out page over a good cookie never happens: it does,
  after a 401 to an older cookie and after a check that fails or is lost. It says that
  nothing else brings it about.

### Where the code and its documents disagree

Each is a run that TLC ends with a counterexample.

- `board_race`. "The invariant, everywhere" of `ordering.py` does not hold of
  overlapping requests: two deletes in one column leave a gap. The unique constraints
  refuse doubles, nothing refuses gaps. A later call on the list closes it
  (RenumberRestores).
- `account_register_race`. The comment at `auth.py:105` promises 409 to the loser of
  two racing registrations. `create_user` flushes before the `try`: it is a 500. No
  second account comes to be (OneAccountPerAddress).
- `agent_silent`. `run_turn` is written so that changes are always reported; an
  exception that is neither `ModelError` nor `HTTPException` (the refresh of a row
  the user has just deleted, a position conflict, a reply of a shape `parse_reply`
  or a call of a shape `_run_call` does not expect) discards the record.

The models also show, without a run of their own:

- of two failed logins that overlap, one is not counted (`LoginFailed` counts from
  the count that was read);
- a request whose session is ended between `user_for_token`'s SELECT and its UPDATE
  is answered 500 and not 401 (`Touch`);
- in one turn a second `list_board` repeats the first, without what the turn has
  changed since (`ListBoard`: the collections are loaded already);
- a drag whose move and refetch both fail stays on screen (`LoadFails`); and two boards
  that arrive in the wrong order leave the older one there (`LoadArrives`);
- each run of a page ends with `setError(failure)`, null included, so a run that
  succeeds wipes the error of one that failed while it was under way. The comments at
  `BoardPage.tsx:83` and `BoardListPage.tsx:17` say that a refetch never clears it,
  which is so within one run;
- a text typed while a create is under way is wiped when that create succeeds
  (`TitleAfter`); a text whose answer was lost makes a second board if it is
  submitted again (`unsure`), and so does one that is submitted again between a good answer
  and the end of the refetch, when the field still holds it and the button is on (`early`);
- a move that was overtaken may find nothing to write and be answered 200 with the row
  somewhere else (the guard of `LandsWhereAsked`);
- `get_board` shows a column that was deleted after the columns were read as empty, and
  does not show the cards of a column made since;
- a 401 to a request of an old session signs out, on screen, the user who has just
  signed in (`KnownAfter`); the answer to one tab's sign-out deletes the cookie that
  another tab's sign-in has just set (`JarAfter`); and a tab goes on showing its user
  when another has signed in as someone else, until it reloads (`unaware`);
- registering does not end the session it was presented with, as login does
  (`ServeRegister`), and a login whose answer is lost leaves a live session that no
  cookie names.

## 4. Proofs

Proved by TLAPS for every value of the constants, from the assumptions the modules
name:

| Theorem | Says |
|---|---|
| `OrderingProofs!RenumberRestores`, `InsertAtRestores`, `RemoveFromRestores` | writing what `ordering.py` returns leaves the list numbered 0..n-1, whatever its positions were |
| `InsertAtLands` | and the item at the index asked for, or at the end |
| `BoardServiceProofs!Invariance` | Spec => []IInv, with the type invariant in it (`TypeCorrect`) |
| `ReadIsolation` | Spec => []SeesOnlyItsOwn |
| `WriteIsolation` | Spec => WritesOnlyItsOwn |
| `BoardIsForLife` | Spec => StaysOnItsBoard |
| `NothingElseRemoves` | Spec => OnlyDeletesRemove |
| `BoardShownWhole` | Spec => EachCardOnce |
| `BoardOverlapProofs!OverlapInvariance` | OverlapSpec => []OverlapInv |
| `ContiguityUnlessRaced` | OverlapSpec => []ContiguousUnlessRaced |
| `MovesLand` | OverlapSpec => LandsWhereAsked |
| `Atomicity` | OverlapSpec => AtomicUntilRaced, the refinement of `KanbanLists` |
| `AccountsProofs!Invariance` | Spec => []IInv |
| `OneAccount` | Spec => []OneAccountPerAddress |
| `BadLoginsAlike` | Spec => RefusalsAlike |
| `EndedStaysEnded` | Spec => EndedForGood |
| `NobodyElseSignedOut` | Spec => OthersStaySignedIn |
| `AgentTurnProofs!Invariance` | Spec => []IInv |
| `BudgetHolds` | Spec => []WithinBudget |
| `AnswersReport` | Spec => []ReportsWhatItDid |
| `OnlyTheBoundBoard` | Spec => StaysOnBoundBoard |
| `SignInProofs!Invariance` | Spec => []IInv |
| `ShownUserActs` | Spec => []ShowsWhoItActsFor |
| `GuardRefusesNothing` | Spec => []OwnRequestsPass |
| `FalseSignOutHasTwoCauses` | Spec => FalseSignOutCauses |
| `BoardPageProofs!Invariance` | Spec => []IInv |
| `ServerShown` | Spec => []ShowsTheServer |
| `DragsAlike` | Spec => SameRearrangement |
| `BoardListPageProofs!Invariance` | Spec => []IInv |
| `OnePerText` | Spec => []OncePerText |
| `ListedWhenAtRest` | Spec => []ListsWhatIsThere |
| `EmptiedOnlyWhenCreated` | Spec => EmptiedOnlyIfCreated |

What is assumed of the constants is what the code's values have: sets of keys are
disjoint, what stands for NULL is not a key, limits and lifetimes are natural numbers
(where 0 would be a program that does nothing, positive ones), folding an e-mail
address twice is folding it once, the clamped power of the backoff fits a timedelta
(`BackoffAssumption`: 2^30 seconds do), the starting layout is well formed.

Each module has its invariant (`IInv`, in `BoardOverlap` `OverlapInv`) as a definition beside the properties; the run of
that module checks it, and the proof shows that every action keeps it. The action
properties follow from `IInv` and one step.

**BoardService.** None of the properties is inductive: a commit is safe because of what
the request read several steps ago, and in between any other request may have moved
or deleted the rows. `IInv` says what survives that:

- `ForeignKeysInv`: a live row hangs from a live row of the right table;
- `SessionInv`, `Remembers`: a row in a session may have gone or, if a card, changed
  column, but if it lives it is on a board of the caller. So is the parent it was
  read with. For a card that parent, if it lives, is on the card's own board; a
  column lives under the board it was read with;
- `ListsInv`: the loaded lists hold loaded rows;
- `ProgressInv`: what each handler has established at each of its waits. A move that
  is past its comparison has source and target on one board; a request that is about
  to read the contents of a board has listed just the columns its session holds, and no
  cards yet.

`BoardServiceProofs` begins with the facts about one commit: what an accepted transaction
does to parents, that cascades take whole subtrees, that what was on a user's board
is still there or gone. Then each action is shown to keep each conjunct. For `BoardShownWhole` the step is the one statement that reads the cards:
`ProgressInv` says that the columns listed are all the session holds, and an ordering of
the cards that hang from them has each once (`OrderingType`, `ListedContents`).

**BoardOverlap.** Contiguity is not inductive either: a commit numbers the list that the
request read, and whether that is the list there is depends on every commit since. The
history ties the two together. `HomeInv`: whatever a request has read lies on the board it
found its row on, its `home`. So every effect of its commit (`CommitEffect` lists them)
is on that board (`WrittenAtHome`) and the lists of every other board stay as they are
(`ListsElsewhere`). `CurrentInv`: as long as no other request has committed on its home
(it is not `overtaken`), the rows it has loaded are as it loaded them and the lists it has
read are `Listings` of now. When it commits, `OrderingProofs` says that what it writes
numbers those lists 0..n-1: `InsertedList` (the next position), `ReorderedList`,
`ListsMovedAcross` (two lists, the second numbered from what the first was given) and
`ClosedList`. If it has been overtaken the board counts as raced and nothing is claimed of
it again. `MovesLand` is `InsertAtLands` in such a step.

`Atomicity` adds which lists those are. Positions 0..n-1 stand for one list (`InOrderIs`),
and a request that has not been overtaken has read just that list (`ReadAsItIs`). What
`ordering.py` makes of it is an `InsertAt` of the abstract list, a `RemoveAt`, or one after
the other (`RenumberNumbers`, `InsertAtNumbers`, `RemoveFromNumbers`, `SpliceIsPlaced`).
Then effect by effect: `BoardAdded`, `ItemAdded`, `ItemReordered`, `ItemRefiled` (a move
between columns), `BoardDropped` and `ItemDropped` (with the cascades). A step that
commits nothing leaves every list as it is.

**Accounts.** `OneAccountPerAddress` holds because the addresses stored are folded and
the index is looked at in the step that inserts; what the check in front of it saw has no
part in the proof. An account that a login has read is there still (`ProgressInv`), so
its late UPDATE finds the row and keeps its address. For `EndedForGood` the step to look
at is the slide of a session that has ended since: an UPDATE of no row. It may slide the
idle window and never the age, which is what "ended" is about. For `BadLoginsAlike` the
clamp bounds the exponent for every count (`DoublingsBound`), so the delay is always one
that can be computed (`NeverOverflows`).

**AgentTurn.** `CountInv` relates three counts: what is committed, what the budget has
been charged, what the actions report. They agree but for the one call between its
commit and its report, and a call in progress has passed `refusal` with the budget as it
still is (`PendingInv`): hence the limit. `PendingInv` also carries what the checks of a
call have found, over the user's edits, to its commit. It rests on a card never leaving
the board but by deletion (`Ours`), which is `BoardIsForLife` of the services.

**SignIn.** A message is judged when it arrives, and what it says was so when it was
answered: `RequestInv` keeps what of it is so still (a session has the owner it was
made for; one that is dead stays dead). `CheckInv` is the delicate part: a tab that asks
who it is has no other request on the wire and asked with today's cookie, or another tab
has changed that. Without it an answer to `/me` could show the user of a cookie that
an answer of the same tab has replaced since.

**BoardPage.** Every write has a GET of its own behind it, so as long as answers arrive in
order the board that is coming (`Coming`) is the server's, or a GET is still to be
executed (`Awaited`), or a failed turn of the assistant has changed the board unheard:
`OrderInv`. It needs the GETs under way listed in the order of their execution, each
once. At rest none is under way, and `Coming` is the board on screen. For `DragsAlike` the
two splices of `applyMove` are shown to be `without` and `Placed` on every board and at
every index (`MovesAlike`), within a column and between two. That takes a card to be in
one place only, which every action keeps: what is inserted is new (the cards shown are
among those `made`) or has just been cut out.

**BoardListPage.** `TextInv` says of each text what may still create it or empty the
field: as long as it is in neither history, one run at most creates it; a text that is in the
field and has become a board is the text of a run on its way, which has been performed
and will empty the field. `OrderInv` is about the list: the snapshot last in the order of
execution is the list there is, or some run has its GET before it.

Only model-checked: liveness (`Unlocks`, `Ends`, `CheckEnds`, `LoadingEnds`), which is
out of reach of the prover. Every other property of the passing runs is proved:
`EveryCallRestores` and `CallsOrderTheList`, which are about the bounded inputs of
`MCOrdering`, in their general form (`OrderingProofs`).

## 5. Not modelled

- *Validation* (422), wording, titles, descriptions: no state.
- *Origin and Referer* in the CSRF guard: about requests of other pages. What is
  modelled is what the guard makes of the page's own requests.
- *Rate limiter*: slowapi's counters, in the memory of one process. A 429 is one of the
  refusals of the pages' models. *Hashing*: a password is right or wrong.
- *Migrations, wiring, deployment*: one-off or supervision. One worker or several
  make no difference to the models, as requests share only the database. The limits
  in `config.py` are CONSTANTS of the modules that use them.
- *The board page's forms* (their text): the form is that of `BoardListPage`. *The order*
  of columns on the page and of boards in the list.
- *A request that goes on executing after its connection broke*: in the pages' models it
  has been executed by then or never is. What it could still do to the database is what
  another user of the same account may do at any time.
- *The agent's conversation*: the prompt, the wording of results, JSON.
- *The agent and the services in one model*: `AgentTurn` abstracts the tools' writes to
  one commit each and takes a position conflict as a choice (`overtaken`). What the
  services themselves do when requests overlap is `BoardService`, for any requests, and
  the agent's are among them except for the session that lasts a turn.

## 6. Plan

Done: Ordering, the board services with their reads and their abstract specification,
accounts, agent turn, both pages, sign-in; the proofs of section 4.

What the models leave open: the error line two overlapping runs of the board page share
(`BoardPage.tsx:108`), and the agent's tools on the services' own transactions instead of
one commit each.
