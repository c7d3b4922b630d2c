# A verification project for MycDb

MycDb is a small relational database engine in C++ (`src/src/libs/dbcore`): a
file manager, a write-ahead log, a buffer pool, transactions with locking and
recovery, and on top of them records, scans, indexes, a parser and planners.
Beside it are services: running commands, an ssh client, a configuration editor.
This directory holds TLA+ models of its parts, the TLC configurations that check
them on small instances, and theorems about them that TLAPS proves for every
instance. Paths below are relative to `src/src/libs/dbcore`, or to `src/src` where
they begin with `libs/` or `server/`.

The models are translated from the code as it is, not from what a database
should do. Where the code behaves unexpectedly the properties say what it does;
these places are collected in "What the models say about the code".

## 1. Inventory

| Component | State it keeps | Operations | Talks to |
|---|---|---|---|
| file manager (`file/`) | one `fstream` and one shared mutex per file, a map of open files | read, write, append, len | the operating system |
| pages (`file/page/`) | a block of bytes | get/set of ints, bytes, strings at aligned offsets | - |
| log (`log/`) | one page in memory, current block, latest LSN | append, flush, iterator; next | file manager |
| buffer pool (`buffer/`) | buffers with block, bytes, pins, last transaction; count of available ones | pin, unpin, flush_all | file manager, log |
| buffer list (`tx/buffer_list.h`) | a transaction's copies of buffers, the blocks it pinned | pin, unpin, unpin_all | buffer pool |
| lock table (`tx/concurrency/lock_table.h`) | one number per locked block | s_lock, x_lock, unlock | condition variable |
| concurrency manager (`tx/concurrency/concurrency_mgr.h`) | the transaction's locks | s_lock, x_lock, release | lock table |
| transaction (`tx/transaction.*`) | its number; owns the three managers of it | commit, rollback, recover, pin, get/set, size, append | all of the above |
| recovery (`tx/recovery/`) | the transaction's number | log records; rollback, recover | log, buffers, transaction |
| records (`record/`) | layout, a page of slots, a cursor over a file of them | next, insert, delete, move | transaction |
| scans (`scan/`) | inputs and a position | next, before_first | scans |
| materialisation (`materialize/`) | temporary tables, groups, sorted runs, a saved position | sort, group, merge join | scans |
| multi-buffer product (`multibuffer/`) | a chunk of pinned pages | next chunk, next | transaction |
| hash index, index scans and planners (`index/`) | bucket files, one entry per row and key | insert, delete, select, join; insert, delete and modify statements | table scans, metadata |
| B-tree index (`index/btree/`) | directory and leaf pages | search, insert, delete, split | transaction |
| metadata (`metadata/`) | catalog tables, a cache of statistics with a count of calls | create and look up tables, views, indexes; statistics | table scans |
| lexer and parser (`parse/`) | the statement and the position in it, kept between statements | one rule per construct | planner |
| predicates and update planner (`query/`) | terms over fields and constants | evaluate, split a predicate, select, delete, modify | scans |
| heuristic planner and plans (`query/planner/`, `*_plan.h`) | plans, cost estimates | choose plans | metadata |
| process execution (`libs/common/process`) | descriptors, a child, two reader threads | execute | the operating system |
| ssh client (`libs/ssh`) | a session, an sftp session, a transfer mutex | connect, copy, list, run commands | libssh |
| configuration editor (`server/confeditor`) | two maps of settings, a file | parse, set, save | the file |
| kerberos wrappers, server main, build scripts | - | - | libraries |

What is hard, and what makes each part correct:

- **Locks.** Threads wait on one condition variable with a timer; `x_lock` is two
  calls with the table unlocked in between; `release` unlocks block after block.
  Correct: exclusion, agreement of shared and private state, two-phase locking,
  no lost wake-ups, every request ends.
- **Buffers.** A thread is served outside the pool's mutex, and works on a copy.
  Correct: one buffer per block, pinned buffers are not replaced, the counts
  agree, every pin ends.
- **Log.** `append` is locked, `flush` and `iterator` are not; a block switch is
  four accesses; the process may end between any two. Correct: no record is lost,
  the file has no gaps, a flushed record stays, iterators return everything,
  newest first.
- **Files.** Readers share one stream's position and error flags, which no call
  resets. Correct: a writer changes its own block only, a reader gets its block,
  a failure is noticed and does no harm.
- **Transactions and recovery.** A counter read after its mutex is released; the
  order of flush, log record, release of locks and of buffers.
- **Records, scans, indexes, metadata, planners.** Used by one thread each; long
  sequences of legal calls at the edges (empty inputs, calls after the end, full
  blocks, duplicate keys and names), and statements that fail between two of their
  writes. Correct: a pass returns each record once, an index has the rows it
  should, catalogs describe the tables, joins and groups are complete, statements
  change the rows they name.
- **Processes and ssh.** Threads share descriptors and sessions that another thread
  closes under them; a command may end, write, or leave processes behind at any
  time. Correct: output goes to its own caller, calls end, a copy that returns is
  a copy.
- **Configuration.** A save that throws or is cut short leaves part of a file, which
  the next process parses. Correct: a file that was saved has every setting.

`PROJECT.json` lists the components with their files, and every hazard of this
kind at its line, with the properties that cover it.

## 2. Modules

| Module | What it is |
|---|---|
| `AbstractLocks` | two-phase locking with shared and exclusive locks |
| `LockTable` | lock_table and the concurrency_mgr of each transaction; refines `AbstractLocks` |
| `LockTableProofs` | theorems about `LockTable` |
| `BufferMgr` | buffer_mgr, buffer and the buffer_list of each transaction |
| `BufferMgrProofs` | theorems about the buffers, counts and copies of `BufferMgr` |
| `AbstractLog` | a write-ahead log: append, save, crash |
| `LogMgr` | log_mgr and log_iterator over a log file; refines `AbstractLog` for one thread |
| `LogMgrProofs` | theorems about `LogMgr` |
| `AbstractBlocks` | a file as a store of blocks that grows at its end |
| `FileMgr` | one file of file_mgr behind its stream and its shared mutex; refines `AbstractBlocks` |
| `FileMgrProofs` | theorems about `FileMgr` |
| `Transaction` | transaction, recovery_mgr and the log records over the parts above; takes its locks by the actions of `AbstractLocks` |
| `TransactionProofs` | theorems about `Transaction` |
| `Products` | multibuffer_product_scan with chunk_scan, product_scan and best_factor |
| `ProcessExecutor` | calls of process_executor::execute over one descriptor table |
| `SshClient` | one ssh_client that several threads use |
| `ConfEditor` | the configuration editor, its two maps and its file |
| `ServicesProofs` | theorems about `ProcessExecutor`, `SshClient` and `ConfEditor` |
| `TableScan` | table_scan over record_page: a cursor over blocks of slots |
| `IndexedTable` | a table with hash indexes and the statements of index_update_planner |
| `Catalog` | table_mgr, view_mgr, stat_mgr: catalog rows, layouts, cached statistics |
| `RecordsProofs` | theorems about `TableScan`, `IndexedTable`, `Catalog` and `Parser` |
| `Parser` | lexer and parser against the grammar, and the planner's two calls |
| `Selection` | predicates, and select, delete and modify over the rows of a table |
| `Materialize` | sort, group, merge join and index join over the places of records in their tables |
| `QueriesProofs` | theorems about `Products`, `Selection` and `Materialize` |
| `MCLockTable`, `MCBufferMgr`, `MCLogMgr`, `MCFileMgr`, `MCTransaction`, `MCProcess` | instances for TLC: model values, sets, symmetry |
| `MCServices` | an instance of `SshClient` and of `ConfEditor` |
| `MCRecords` | an instance of `TableScan`, of `IndexedTable` and of `Catalog` |
| `MCQueries` | an instance of `Products`, `Parser`, `Selection` and `Materialize` |

`MCServices`, `MCRecords` and `MCQueries` put parts next to each other that share no
state in the program either: the variable `part` is fixed in the initial state and
says whose behaviour it is, and all other parts stay as they are. They are checked
together only because each of them is small.

The engine is layered, and the models compose along that: `Transaction` takes its
locks by the actions `LockTable` is shown to implement, its log by those of
`AbstractLog`, and from `BufferMgr` that no modification reaches the pool. As a
consequence nothing above a transaction could ever read back what it wrote. The
modules above (`TableScan`, `IndexedTable`, `Catalog`, `Selection`, `Materialize`) are
therefore about the code of those layers, over pages that keep what is written to
them; `TableScan` says in `kept` which of the two it is, and its property what
becomes of the file if they do not.

The definitions named `..._<something>` under a comment "Mutant" are changed
forms of the definition they precede, kept to confirm that each property notices
a plausible mistake; nothing else refers to them.

### LockTable

`tbl` is the static table's `locks` (0: no entry), `locks[t]` the private map of
transaction t's manager. A transaction is one thread; `pc`, `req`, `want` and
`expired` are where its call is, `notified` whether a `notify_all` reached it,
`pending` what `release` has still to unlock. Each action is one critical section
of the table's mutex with the private bookkeeping next to it: `SGrant`,
`SRefuse`, `XGrant`, `XRefuse` are the passes through the loops of `s_lock` and
`x_lock`; `Wake` is any return of `wait_for` (notified, timed out or spurious),
`Expire` the passing of MAX_TIMEOUT, `ReleaseOne` one iteration of `release`.

`concurrency_mgr::x_lock` locks its own non-recursive mutex twice, which is
undefined; `RelockOutcomes` says which outcomes an instance admits, the runs
admit both a hang and going on. The static table `lock_tbl` is declared in the
repository and defined nowhere; one table shared by all managers is assumed.

### BufferMgr

`pool` and `avail` are the buffer manager's; `buffers[t]`, `pins[t]` the list of
transaction t. A buffer keeps its block, whose bytes it holds (`page`), its pins
and its transaction. `PinExisting`, `PinReplacing` and `PinFails` are the three
outcomes of `try_pin`; `Copy` is the step, outside the mutex, in which
`buffer_list::pin` copies the buffer; all later calls of the transaction
(`set_modified`, `unpin`, `UnpinNext`) act on the copy. `PinReplacing` has a second
disjunct for a read that throws.

### LogMgr

`disk` is the log file, `page` the page in memory, `cur` the current block. A page
is its boundary word and the records above it, each with its place and length; a
record's bytes are an identity (its position in `hist`, the history of all
appends). `append` is atomic while the record fits, since nobody else writes the
page then and an unlocked reader sees the record only with the boundary; when it
does not fit, `SwitchFlush`, `SwitchGrow`, `SwitchReset`, `SwitchFormat` and
`SwitchEnter` are the accesses of file and page in the order of the code, and other
threads' `DoFlush` and `iterator` fall between them. `Crash` ends the process anywhere;
`StartGrow` and `StartFormat` are the constructor. The iterator's `next` is
`NextRecord`, `NextZero` (a word of zeros is a record of length 0) or `NextThrows`.
The histories `crashed`, `clobbered`, `bare`, `sure` and `due` only record what
happened, for the properties.

A call of the file manager on the log file is one step: the log never reads at
the end of its file, and writers hold the file's mutex exclusively. Two iterators
that read at once share the stream's position; that is `FileMgr`'s and left out here.

### FileMgr

`disk` is the file, `pos`, `fail` and `eof` the stream's position and flags
(failbit and badbit together). `read` and `len` hold the mutex shared and are
several steps each: `seekg` loads the flags (`read`, `len`) and stores them without
eofbit (`ReadSeek`, `LenSeek`), then the block is fetched (`ReadFetch`) and the flags
are looked at (`ReadCheck`), or the position is told (`LenTell`). `write` and `append`
hold the mutex exclusively: the seek is one step and the write with its flush the
next (`Store`), which may fail and may then have reached the file. An actual data
race may do worse than any interleaving of these steps; what is promised of
overlapping readers is therefore nothing, and what is promised of everybody else
(`LoneReadIsExact`, `WritersAreExact`) holds whatever they leave of the position and
the flags, as far as steps of this size can. `alone` and `broken` record, for the
properties, whether a call was overlapped and whether it began on a failed stream.

### Transaction

The module composes the parts by what their own modules show: locks are granted
and dropped by the actions of `AbstractLocks`, which `LockTable` implements; a record
is appended and saved as in `AbstractLog`, with the flush of `log_mgr` (skipped when
another append came first); and since no modification reaches the pool
(`ModificationsStayInCopies`), `flush_all` writes nothing and a pin copies the bytes
the file had ("old"). The constructor is three steps, as its member initializers
run: `next_tx_num` under its mutex, `Started` (recovery_mgr appends the start record),
`Constructed` (`m_tx_num` is initialized with what the counter is by now). `commit`
and `rollback` go on with `EndRecord`, `Sync`, `release`, `Drop` for each lock and
`unpin_all`; `recover` with `Checkpoint` and `Settle`. A transaction may be used again
afterwards, as in the code.

A record is its operation and number. `write_to_log` is what the code does: it fills
a page, which holds a copy of the vector, and appends the vector, so the bytes are
zeros; `create_log_record` decodes them. `Undoes` and `Recovers` are the records that
`do_rollback` and `do_recover` call `undo` for, and `undone` collects them. What `undo`
itself does is not modelled, as it is never called. `known` and `overtaken` are
histories for the properties. Transactions are not destroyed (`m_recovery_mgr.m_tx`
is a `shared_ptr` to the object it is part of), and the failures of the log file are
those of an iterator that cannot read on.

### Products

The left input is an abstract `i_scan` (`left` records, `l` the one it is at), the
right one a table of `size` blocks with `per[c]` records in block c. `open` and
`best_factor` are the constructor with the loop that looks for a chunk's size,
`FirstChunk` and `NextChunk` the call of `use_next_chunk` in `before_first` and in the
loop of `next` (each may throw, `ChunkThrows`), `NextRight` and `NextLeft` the two
branches of `product_scan::next` over `chunk_scan::next`. An input has as many records
as the constructor found, as long as the scan is open. The left input is assumed to
pin no block of the table: `buffer_list::unpin` drops every pin of a block at once.

`record_page` keeps a reference to the `block_id` its caller had on the stack. What is
read through it later is undefined, and `Stray` is every outcome a program could go on
from, and a crash; `strayed` records that it happened. What the product promises is
promised as long as the reference still shows what it did, and likewise until `next`
is called after its end (`overrun`), where `product_scan` asks its left input, which
has ended, once more.

### ProcessExecutor

`table` is the process's descriptor table, `fd[c]` the two local arrays of call c,
`child`, `holds` and `written` what the command it forked does, `reader` and `reading`
the two reader threads of the call. `OpenPipes`, `Fork`, `Reap`, `CloseReads` and `Join`
are the calling thread; `Test` reads `threads_active`, `EnterRead` looks the number up
in the table at that moment, `ReturnFromRead` keeps the pipe it found even if the number
has been closed since. A fork copies every write end that is open, other calls' too.
Both `dup2` of the child have the same target, so nothing ever writes to the pipe of
standard output, and what is returned as standard error is the standard output.
The command and `pipe(2)` are external and are what the code relies on: the lowest
free descriptors, end of file when the last write end is closed. Capacity of a pipe,
exit codes and failing thread creation are left out.

### SshClient

`link` and `sftp` are the sessions, `holder` who has `m_transfer_mtx`, `here` and `there`
the lengths of the two files a copy is about. A copy is `BeginUpload` or
`BeginDownload`, one action per turn of its loop, and `Return` or `Throw`; `disconnect`,
`sftp_delete_file` and the directory calls take no lock and may fall between any two of
them. What libssh does is external: any call may fail (`Fails`), a read returns any
number of bytes up to the buffer's. `UseAfterFree` ends the behaviour.

### ConfEditor

`local` and `global` are the maps of the two sections, `file` what is in the file; a
setting is absent, there without a value, or has one. `save` truncates and writes line
after line up to the first value that is missing; `SaveInterrupted` ends the process in
between, and `EditFile` takes a line out of the file by hand. `Restart` is a new process.

### TableScan

A block has `perBlock` slots, 0 if a record is longer than a block; `used` are the slots
whose flag is set, `block` and `slot` the cursor. `insert` is the whole of
`table_scan::insert`, with the search from the cursor on and the appended blocks;
`insert_grows` is one turn of its loop for a record that fits nowhere. `Stray` is the
reference to a dead `block_id` (see Products). Scans are closed at their end only:
after `close` in the middle of a pass every call dereferences null.

### IndexedTable

Rows of one block, and of each index its entries, counted by key and row: what a
statement inserts and deletes is one sum per key and row (`Inserted`, `Deleted`), whatever
the order of its rows, since no row's entries are another's. Each of
`execute_insert`, `execute_delete`, `execute_modify` is a whole statement that may throw
between any two writes: the arguments say how far it came. Two indexes may have one name and
then share their files; `fits` are the fields whose index has a value of their type.
`bare` and `stale` are the rows of which, after such a failure, less is promised. `Gone` is
the scan that `index_mgr` returns after its owner has been freed.

### Catalog

`tblcat`, `fldcat`, `viewcat` are the catalog tables, `create_table(t, s, n)` a call that
throws after n of its fields; offsets come from the lengths as in the layout's
constructor, where a name that a schema has twice has one length, the last. Calls are
counted in an int; `MaxCalls` is where it ends, and what comes then is not modelled. `stats` are the ages, in calls, of the entries of `stat_mgr`'s map, refreshed
when `Due` and possibly half-way.

### Parser

A statement is a sequence of tokens. Each rule is an operator from the position it
reads at to the one behind what it has consumed, and a parser is given statement after
statement: `analyze` replaces the text and keeps the position, so all statements but the
first are read from some place in them (`Rest`). The recursive rules are recursive
functions of the position (`List`, `predicate`). The reference does not recur: `HasList`,
`HasCondition`, `HasQuery` and `HasInsert` say, by how many items, terms, fields and values
there are, which token is where, and `IsSentence` puts the commands together from them. A parser
that looks one token ahead takes the longest beginning of the text that can still
become a sentence, and `Reads(n, command)` says so of the first n tokens: they are a
sentence, and with one more token, and either of two endings, they are not. No longer
ending need be tried (theorem `NothingLongerIsRead`). `update_cmd` ends in the outcome of the first field of
`create table`, which dereferences a schema that was not made.

### Selection

Predicates, terms and expressions as `is_satisfied`, `applies_to` and the operators
beside them; the parts of a predicate are the places of their terms in it; `select_next`, `delete_next` and `modify_next` are one row of a statement
each. `basic_update_planner.h:40` copies an abstract scan and does not compile; its
statements are modelled as the reference they mean. The scan below goes over each row
once, which is `TableScan`'s `PassIsExact`.

### Materialize

A record is its place in its table, and a temporary table a sequence of places.
`sort_plan::open` goes step by step: `split_into_runs` reads one record, `merge_two_runs`
copies one, `do_a_merge_iteration` goes on to the next two runs or to the next iteration,
and `open_scan` makes the `sort_scan` of at most two runs that are left; a join opens one
for each of its tables. `SortNext` is `sort_scan::next`. A member that the constructor leaves
uninitialized (`m_rhs_has_more` with one run) is any value. `group_next` is
`group_by_scan::next` with a count and a maximum, and `gather` a turn of its loop;
`join_next` is the part of `merge_join_scan::next` before its loop and `meet` a turn of the
loop; `index_next` is `index_join_scan::next` over a complete index. `whole` says whether the
calls since `before_first` are the beginning of one pass, `out` which rows they returned,
`of` the records of a group, and `by` from which of its three places a join's next returned.

## 3. Runs

| Run | Instance | Shows |
|---|---|---|
| `locks_safety` | 3 transactions, 2 blocks, both outcomes of a relock | `TypeOK`, `MutualExclusion`, `TableMatchesHolders`, `NoLostWakeupShared` |
| `locks_steps` | 2 transactions, 2 blocks, fairness | `UpgradeIsNotNotified`, `OrphanedShareStays`, `TwoPhaseLocking` (refinement), `RequestTerminates` |
| `pool_safety` | 2 transactions, 3 blocks, 2 buffers, failing reads | `PoolHoldsBlocks`, `AccountsAgree`, `ModificationsStayInCopies`, `WaitIsHopeless` |
| `pool_steps` | 2 transactions, 2 blocks, 1 buffer, fairness | `PinnedStays`, `PinTerminates` |
| `log_safety` | 2 threads, blocks of 5 words, records of 1 word, 1.5 words and 4 words, 4 records, 4 blocks | `LogIsComplete`, `FlushedStays`, `LogIsReadable`, `NewestFirst` |
| `log_alone` | 1 thread, blocks of 22 bytes, 5 records, 5 blocks | `DurableLog` (refinement) |
| `file_streams` | 2 threads, 2 data, files of up to 2 blocks, reads of blocks -1 to 2 | `LoneReadersAreExact`, `FailureStays`, `WritersAreExact`, `BlockStore` (refinement) |
| `transactions` | 2 transactions, 1 block and the end of its file, 5 records, files of up to 2 blocks, crashes | `NumbersAgree`, `NothingIsUndone`, `RepeatableReads`, `EndedBeforeRelease` |
| `process_calls` | 2 calls, one of a command that writes nothing, 8 descriptors, fairness | `ReturnedOutput`, `ExecuteEnds` |
| `services` | 2 threads on one client, files of up to 3 bytes in chunks of 2; 3 settings of 2 values | `ReturnsAreWhole`, `SavedFileIsWhole` |
| `records` | files of 2 blocks of up to 2 slots; 2 rows, 2 fields, 2 keys, 2 index names; 2 tables, 2 schemas, limits 0, 1 and "never" | `PassIsExact`, `IndexAgrees`, `CatalogAgrees` |
| `queries` | products of up to 2 left records and 4 blocks of up to 2; 8 statements and every edit of one token; tables of up to 2 rows, predicates of up to 2 terms; sorts of up to 4 records, joins of up to 2 and 4 | `ProductIsExact`, `ChunksFit`, `AnswerIsOfGrammar`, `SelectionIsExact`, `ReadsAreComplete`, `PairsMatch` |

Several of these are named parts joined: `PoolHoldsBlocks` is `NoBlockTwice` and
`PageIsItsBlock`, `AccountsAgree` is `AvailableInRange` and `CopiesMatchPins`, `LogIsComplete`
is `NoRecordMissing` and `SavedInOrder`, `LogIsReadable` is `InnerBlocksHaveRecords` and
`NothingSkipped`, `LoneReadersAreExact` is `LoneReadIsExact` and `LoneLenIsExact`,
`FailureStays` is `FailedStreamIsOfNoUse` and `FailureIsForGood`, `SelectionIsExact` is
`StatementIsExact` and `SplitIsExact`. The modules' type invariants are not repeated in the runs where a theorem states them
(section 4).

Bounds, and why they are enough:

- Three transactions on a block are a holder, an upgrader and a third that shares
  in between; two blocks make `release` unlock in either order and let an unlock of
  one block wake sleepers of the other. `MaxShared` keeps a count, which orphaned
  shares could raise for ever, below 3 (2 in `locks_steps`); it guards only the
  request of an exclusive lock.
- Three blocks over two buffers force replacement and waiting; `MaxPins` caps the
  pins of a buffer, which never go down, at 2: one more than the difference
  between pinned once and more than once.
- Two records of one word fill a block of the log, so four make two block
  switches in a row; four blocks leave room for two restarts. A record of 1.5
  words is one that `append` refuses, one of four words fills a block.
- Two blocks are one that is read or written and one that is not; block -1 is what
  a caller gets from an empty file (its length minus 1), block 2 lies beyond any
  end. Two readers are enough to overlap.
- Two transactions are one that is constructed, or writes, or appends to the file,
  while the other one is in between; five records are two starts, two ends and one
  in between. When the log is full, what needs a record waits: deadlock is not
  meant there, since a crash is always possible.
- Four blocks and five buffers give a product every kind of chunk: the whole file, two
  even ones, and the uneven 3, of which the last is cut; blocks of 0 to 2 records put
  empty ones at the start, the middle and the end of a chunk, and make all of it empty.
- Two calls need eight descriptors at once; one of them writes, so that whatever the
  other returns is not its own. A third call would only be a second other.
- A file of 3 bytes in chunks of 2 has a full and a short chunk, one of 2 ends with a
  full one; lengths 0 and "absent" are the other two kinds.
- Of the settings there is one of each kind: local only, local with a default, in both
  sections.
- Two blocks of up to two slots put the end of a pass, a full block and an empty one
  next to each other; `MaxEntries` = 3, the entries of one record under all names, lets one of
  two indexes have an entry once too often.
- Limits 0 and 1 refresh at each and at every other call; 9 is above any count, which `MaxCalls`
  ends at 3. Each schema has a name twice, with different lengths.
- Statements of the parser are one of each kind with lists of two, and all texts one
  token away from them; `Given` lets one more statement follow a single token that has
  been read.
- Four records make up to four runs of one record and so one pass of merging beside
  the last two runs, which are merged by the scan; a left table of two has equal,
  rising and falling values.

Threads and transactions are symmetric in the safety runs. Deadlock is checked in
the runs of `LogMgr`, `FileMgr` and `Transaction`. It is not in those of `LockTable`,
whose threads may really all hang in `x_lock`, nor in those of `BufferMgr`, which stop
when every buffer has `MaxPins` pins and the lists are empty, nor in those of the
layers above and the services, whose behaviours end when a scan is closed, the calls
are made, a bound is met or undefined behaviour has been.

Fairness (`FairSpec` of `LockTable` and `BufferMgr`): weak fairness of each thread
inside a call, of the return of `wait_for` (it has a time limit) and of the clock
(`Expire`). No fairness is put on making calls, on being granted anything, or on
notifications; `RequestTerminates` and `PinTerminates` rest on the time-outs alone.
`Spec` of `ProcessExecutor` has weak fairness of each calling thread, of each reader
thread and of the end of a command: the operating system schedules threads, and the
code has no answer to a command that never ends. A process that a command leaves
behind need not end, and `ExecuteEnds` is about the calls where there is none.

## 4. Proofs

All proofs hold for any constants that satisfy the modules' assumptions
(`LockAssumption`, `BufferAssumption`, `LogAssumption`, `FileAssumption`,
`TransactionAssumption`, `ProductAssumption`, `ProcessAssumption`, `SshAssumption`,
`ConfAssumption`, `ScanAssumption`, `IndexAssumption`, `CatalogAssumption`,
`ParserAssumption`, `SelectionAssumption`, `MaterializeAssumption`), which say of what kind the constants are and
nothing else. A module checked beside others in one run has a specification of its own for
the proofs (`SshSpec`, `ConfSpec`, `ScanSpec`, `IndexSpec`, `CatalogSpec`, `ParserSpec`,
`SelectionSpec`, `MaterializeSpec`), of the same actions without the run's bounds.

- **LockTableProofs.** `LockInv` joins `TypeOK`, `CallOK` (a call is about a lock the
  transaction lacks), `PendingOK`, and for each block "exclusive" (-1, one holder,
  nobody else registered) or "counted" (no exclusive holder and a count of at
  least the registered transactions). The last part is `TableMatchesHolders`, and
  is what `MutualExclusion` needs to be inductive: an upgrade is granted when the
  count is at most 1, and the upgrader is itself registered. From `LockInv` come
  `ExclusiveLocksExclude`, `TableAgreesWithManagers`, `OrphanedShareIsForever`,
  `SharedWakeupIsNotLost`, `UpgradeWaitsForItsTimer` and the refinement
  `LocksAreTwoPhase`.
- **BufferMgrProofs.** `PoolInv` joins `TypeOK` with: no block is in two buffers,
  bytes match unless a read threw, no mark of a modification is in the pool, a
  waiter finds the pool full and without its block. `PoolIsOfBlocks`,
  `ModificationsAreInCopies`, `WaitingIsInVain` and `PinnedBuffersStay` follow.
  The counts need more: `num_available` goes up when a copy, not the pool's
  buffer, has no pin left, and that it stays in range is not obvious. `AccountsInv`
  counts each list's pins of a block: those it has still to give back (`remaining`) and
  one that is not yet copied (`own` is both). `Bounded`: it gives back no more than its copy
  counts. `Counted`: the pool's buffer has the pins of any two lists together. `OneSole`:
  of the lists with a block at most one made every pin its copy counts, and only that one
  can bring the copy to zero. `Credited`: the count is that of the unpinned buffers and,
  once each, of some buffers that are `Spent`, of which no list can do so any more. Every
  step is one of four kinds (`Kinds`): it takes a buffer, copies one, gives a pin back, or
  leaves the counts alone. `AccountsAlwaysAgree` follows.
- **LogMgrProofs.** `LogInv` joins `TypeOK` and the three state properties that are
  inductive only together with the following. `Control`: at most one thread
  switches blocks, and the current block is the last one of the file, or the one
  before it while a switch has grown the file. `PagesOK`: the records of a page lie
  one behind the other above its boundary, newer ones in front. `Homes`: a record
  is in the block it was appended to, and blocks are filled in the order of the
  file. `PageAhead`: the page has all that its block has and only newer records
  besides, except between the reset of the page and the end of the switch; this
  is what makes a flush harmless then and only then. `Owned`: a thread that is
  about to flush has a record that no crash has taken. `Bare`, `Reading` and `Known`
  do the same for empty blocks, iterators and the histories. Each part has a
  lemma of its own (`NextHomes`, `NextPageAhead`, ...), over lemmas that say what a
  step may do to the file, the page, the history and an iterator (`DiskStep`,
  `PageStep`, `HistStep`, `IterStep`). From `LogInv` come `NoRecordIsMissing`,
  `SavedWithoutGaps` (a gap would be a record in the page behind one in its
  block), `FlushedRecordsStay`, `InnerBlocksAreNotEmpty`, `IteratorsSkipNothing`,
  `IteratorsGoBack`, and, assuming one thread and records that leave room for the
  boundary word, the refinement `LogIsDurable`.
- **FileMgrProofs.** `FileInv` joins `TypeOK` with `Exclusion` (nobody is in a call
  beside a writer or a reader that is alone), `WriterAtItsBlock` (the position is
  the writer's, or the stream has failed), `FlagsAreFresh` (the flags a lone reader's
  seek has loaded are the stream's) and `ReaderAtItsBlock` (what a lone reader finds
  at each of its steps). A step of a call can disturb only its own thread's part:
  `ReaderBegins`, `ReaderGoesOn`, `WriterBegins` and `CallEnds` prove that once for all
  calls. All properties of the run follow.
- **TransactionProofs.** `TxInv` joins `TypeOK` with one part per property: `Numbered`
  (numbers given are distinct and at most the counter), `Zeroed` (every record in the
  log is zeros, so nothing was undone), `Alone` (an exclusive lock has one holder) with
  `KnownLength` (who knows the file's length holds a lock on its end, and forgets it
  before the lock is dropped), `OldBytes`, and `Ends` (who is about to release has its
  last record in the log, saved or followed by another). `LogFrame` and
  `NumbersFrame` say what a step may do to the log and the numbers, so that each
  part's lemma looks at few steps. All properties of the run follow.
- **QueriesProofs.** Of a product, `Shape` joins `TypeOK` with `FactorOK` (the size of a chunk
  is at least 1, and fits when best_factor has ended; `CeilIsPositive` is the arithmetic) and
  `ChunkOK` (the chunk lies just before `m_next_blk_num` and is what is pinned). On top of
  it `Exact` says which pairs have been given: those before the scan's place in the
  order chunk, left record, right record (`Reached`). `FindsIsNext` and `FindsNoneIsEnd`
  say that `chunk_scan` passes over no record; with them each step adds one pair to
  both. Both properties of the product follow. Of a statement, `SelectionInv` joins the types
  with `AheadIsBefore` (rows ahead of the scan are as they were and in use) and
  `StatementIsExact`. `HitOf` says of `select_scan::next` that it passes over false rows only,
  so that the hits at or behind the scan grow by one (`OneMore`). That the parts of a
  predicate are the predicate (`SplitHolds`) is about no step: a term of one table evaluates
  alike in its row and in the joined row, and the first term of several is the one a loop
  over them finds. Of sorts and joins, `MaterializeInv` begins with `MatTypes`, whose core is
  that the runs, those of an iteration that is half done included, have each record that has been
  read at one place of one of them (`Each`): each step moves one record, adds one, or gives
  the runs other numbers (`EachCut`, `EachAppended`, `EachRenamed`). Then, for tables of any
  length: a sort has returned what its scan has come to (`SortExact`; `PassStep` says of
  `sort_scan::next` that this grows by the record returned, and is the table at the end);
  groups have the records that the scan has come to, but for one that begins the next
  (`GroupExact`); an index join has returned the pairs up to the one it is at (`IndexExact`,
  `NextPair`); the last left record and the position that was saved have the join's value
  (`JoinExact`, `SavedOK`). `JoinedPairsMatch` follows, and of all reads but merge joins that
  they are complete. A merge join is only of tables that are sorted as they come, with no
  value twice on the left, and takes more (`JoinInv`): while such a table is sorted its runs
  stay one behind the other and share no value, but for those being merged (`Ordered`,
  `SplitOrdered`, `MergeOrdered`, `IterationOrdered`), so that a scan of the last two runs
  meets the records in the order of the table (`RunsFollow`, `GoingNext`). `restore_position`
  puts back the positions and not the current run, so it is right only if both were in the
  first run: `TakenOK` and `EarlyOK` say that a whole pass goes back only as it begins, for the
  first left value, with a position an earlier pass has saved, and that this is that of the
  first record with the value, in the first run. On top of it `PassOK` says what has been
  returned: the pairs up to the last one (`UpTo`), or those of the left records that have been
  left behind, with no pair of the others before the right scan (`PassedBy`); each way on
  keeps this (`PairIsPassed`, `PairIsFound`, `SmallerPassed`), and at the end of either table
  these are all pairs (`AllPassed`). `PassesAreComplete` follows.
- **ServicesProofs.** `ProcessInv` joins `TypeOK` with: a descriptor in use is one
  that a call in progress has and will close (`Owned`), and a call has four different ones
  (`FourFds`); calls in progress together have met (`Overlaps`); reader threads run
  between the fork and the join (`Reading`); so that a reader of a call that met no other
  finds its own pipe at its number, and no other reader does (`OwnReads`). A piece is
  written once and is in one pipe or one output (`Known`, `Apart`), and what a call on its
  own has read and what is left in its pipe are what was written (`Exact`). `OutputsAreOwn`
  follows, that the descriptors come back included. `SshInv` has one part per thread
  (`ThreadOK`): one with a copy under way holds the mutex, what it has moved is the file's
  beginning, in whole chunks for an upload over sftp, and what it returns with is `Whole`;
  a step disturbs its own thread's part only, and the far end's a command's. `ConfInv`: while
  nothing has cut the file short, each value that save looks up is there (`Valued`) in the
  maps and in the file, so that no save throws and a restart or a parse finds them again.
- **RecordsProofs.** `ScanInv` says of the cursor, as long as next only finds records, that
  those behind it have been returned and those ahead are the ones there at the start
  (`UpToHere`), in order also with insertions (`InOrder`); after the end the first of what was
  returned are the whole pass and the rest is of the last block (`Complete`). `IndexInv` joins
  the types with: a row without an entry is in use (`BareIsUsed`), a row told to one of two
  indexes of a name and not to the other is stale (`Mixed`), and the buckets have one entry
  for each field of that name that `Having` says they should (`BucketsAgree`). A statement
  changes the count of a key and row by the fields `With` that entry, and the lemmas are
  about the cardinalities of these sets before and after. `CatalogInv`: each row of `fldcat` is of a
  schema its table was made with (`RowsOfMade`), all rows of one are there once an attempt
  has returned (`WholeHasRows`), and no entry of the cache is older than the calls since the
  refresh (`Ages`), which is why a changed limit or a refresh that threw does no harm.
  `PassesAreExact`, `IndexesAgree` and `CatalogsAgree` follow. Of the parser, `ParserInv` is
  short, since an answer is made from one text; what is long is that the rules are the
  grammar, for texts of any length. A recursive function of the position is first shown
  to exist, by a closed form that satisfies its recursion (`ListUnfolds`, `TermsUnfold`: the
  count of the items is that of the first place where none goes on). Whatever satisfies it
  then takes a list that no comma follows for what it is, and takes nothing else: a list that
  it reads wrongly would have a shortest such rest, or a last such place (`ListTakes`,
  `ListTaken`; with terms and "and" the same). `ListIsOfGrammar` and `PredicateIsOfGrammar` are
  the two results, and `QueryIsOfGrammar` and the lemmas of the commands are put together from
  them by counts. A sentence has its counts in one way, and one that goes on from another
  goes on with a comma, a "where" or an "and" (`ListsMeet`, `ConditionGoesOn`, `InsertsMeet`), so
  that the sentence the parser has read is the longest; the first words tell the
  commands apart (`UpdateAnswer`). `ParserAnswersOfGrammar` and `NothingLongerIsRead` follow.

Only model-checked: the liveness properties (`RequestTerminates`, `PinTerminates`,
`ExecuteEnds`), which rest on fairness. All other properties of the runs are theorems.
Induction as a scheme is out of the prover's reach; where a proof needs the least or
the greatest number of a set it is there (`LeastOf`, from well-foundedness, and
`GreatestOf`), and is all the induction these modules use.

## 5. What the models say about the code

- A transaction whose upgrade times out after another transaction shared the
  block leaves its share in the table for good (`OrphanedShareStays`).
- An upgrade is never notified when the last other share goes
  (`UpgradeIsNotNotified`); it waits for its timer, up to 10 s.
- `concurrency_mgr::x_lock` locks its mutex twice; in a threaded build the thread
  hangs with all its locks (`x_lock_hangs`).
- Buffers are copied into the transaction's list, so the pool is never unpinned,
  never marked modified and never written back (`ModificationsStayInCopies`,
  `PinnedStays`); once every buffer has been pinned, pins of other blocks can only
  time out (`WaitIsHopeless`).
- A failed read leaves a buffer that claims the block and serves its next pin with
  other bytes (`PageIsItsBlock` allows exactly this).
- A flush during another thread's block switch wipes the full block
  (`clobbered`), and records as long as a block are unreadable; nothing else loses
  a record (`NoRecordMissing`). A flush is skipped when another append came first.
- Two starts with no record in between leave the log unreadable from its end: the
  iterator throws (`InnerBlocksHaveRecords` says when such blocks arise).
- Two overlapping reads, or a read and a len, may return anything; a read at the
  end of a file returns zeros and leaves the stream failed for all later calls,
  which throw, or, for len, return 0 (`FailedStreamIsOfNoUse`); only a race brings
  the stream back (`FailureIsForGood`).
- The bytes of every log record are zeros: all records read back as checkpoints, so
  that neither rollback nor recovery undoes anything (`NothingIsUndone`). Were the
  page's bytes appended, most operations would still be stored as other ones
  (`log_operation_to_int` keeps multiples of 4).
- A transaction that was constructed beside others may have another number than its
  recovery manager (`NumbersAgree` says when).
- A transaction does not read its own writes (`RepeatableReads`).
- On an empty log file the constructor throws (`StartThrows`).
- Every page of a scan refers to a `block_id` that no longer exists (`Stray`).
- A product with an empty left input returns every record of the table, beside
  nothing, and one whose table has no blocks crashes on `next`: there `m_prod_scan` is
  null (`ProductIsExact` and `next` of `Products`).
- An exception while a chunk is made leaves its pins to the end of the transaction
  (`ChunksFit` excepts this case).
- Two calls of `execute` that overlap may swap output: a reader that found the flag set
  reads a number that is another call's by then. A call on its own may return a prefix,
  since the flag is cleared with data still in the pipe, and never returns anything as
  standard output (`ReturnedOutput`).
- A process left behind by a command, or forked by another call in between, keeps a
  write end open and the call in `join` (`ExecuteEnds`).
- `sftp_upload` leaves out the last part of a chunk, `scp_upload` of an empty file never
  ends, `sftp_rename` calls itself, a disconnect frees the session under a copy,
  `execute_command` waits for ever, or for its time-out, for a command that writes errors
  (`ReturnsAreWhole` and the actions of `SshClient`).
- A save that meets a missing value has already truncated the file; it takes a line
  lost before, by an interrupted save or by hand, to get there (`SavedFileIsWhole`).
- `next` after the end of a table scan returns the last block's records again, and
  `insert` passes over used slots, which a pass then misses (`PassIsExact`).
- `create_index` makes no entries for existing rows, and two indexes of one name share
  their files (`IndexAgrees`). `index_info` compares a field's length
  with the number of the type integer: an index of an integer gets a value that is a
  string, and one of strings as long as that number an integer, and neither can be
  inserted into (`fits`).
- A table can be created twice, with fields that overlap; a view is never stored; the slot
  size stored for a table is uninitialized (`CatalogAgrees`, `create_view`).
- All statements but the first are read from where the one before ended
  (`analyze`); any first column of a `create table` ends the program; an `insert` with
  fewer values than fields reads past their end (`AnswerIsOfGrammar`).
- `equates_with_constant` throws for every string and for 0, and looks at the first term
  only (`SplitIsExact`).
- The comparator says only whether any field is equal, so a sort does not sort, groups may
  occur more than once, and a merge join finds all pairs only of inputs that are sorted as
  they come, with no value twice on the left (`ReadsAreComplete`). After
  `restore_position` it may return a pair that does not match (`PairsMatch`).
- Sorts of, and joins with, an empty table read what is not there (`open_scan`,
  `InitMaterialize`); an index join does not look at its left input's first `next` either.

## 6. What is left

Not modelled, and why:

- **B-tree index.** `btree_index` never sets its root block or its directory's layout, and
  `btree_page` never pins the block it works on: the constructor already reads a block
  that is not pinned, which dereferences null. There is no behaviour behind that.
- **Heuristic planner and plans.** It deletes each `table_planner` twice, makes objects of
  an abstract class, and the plans for projection, product, merge join and grouping
  dereference a schema that was not made. No plan is ever returned.
- **Estimates.** Numbers of blocks, records and distinct values, and the reduction of a
  predicate, have no state and no definition of being right.
- **Undo.** It is never called, as every record is read back as a checkpoint.
- **Layout of pages, formatting of messages, texts of views** (which are never stored).
- **Map of open files.** It is found and filled under one mutex.
- **Host verification and options of ssh, contents of remote directories, kerberos
  wrappers, the server's main and the build scripts.** Wrappers of libraries, or nothing yet.
- **Closing a table scan in the middle of a pass.** Every later call dereferences null.
