# A TLA+ verification of rsdirstat

rsdirstat scans a folder and shows what takes up its space as a treemap in a
browser: a server (`crates/rsdirstat`) runs a scanner (`crates/core` with one of
`crates/linux`, `crates/macos`, `crates/windows`), folds its events into a tree,
and streams layouts of it over a WebSocket to pages (`crates/wasm`).

This directory holds TLA+ modules translated from that code, TLC configurations
that check them on small instances, and theorems about them checked by TLAPS.
`PROJECT.json` maps every definition to the source lines it stands for, lists the
runs with a mutant of the code for each property, the hazards the properties are
for, and the theorems. Paths below are relative to the repository; `scan.rs`,
`tree.rs` and `layout.rs` are those of `crates/core/src`, `main.rs` is
`crates/rsdirstat/src/main.rs`.

    tlc -workers 2 -config Scan.cfg MC_Scan      # one run
    tlapm Scan_proofs.tla                        # one module's proofs

## The system

| Part | State it keeps | Operations | Module |
|---|---|---|---|
| Work queue (`scan.rs` `WorkQueue`) | queued jobs, `pending`, `cancelled`, `progress`, two condition variables | `push`, `take`, `finish_one`, `record_progress`, `wait`, `cancel_locked` | `WorkQueue` |
| Scan (`scan.rs` `run_scan`, `run_worker`, `DirSink`; `linux/src/scan.rs` `read_dir`) | visited directories and files, `failed`, the event sender, each worker's sink | open and read a directory, take a subdirectory or a file once, send, queue, finish, end | `Scan` |
| Event stream (`ScanEvent`) | what has been sent | a directory, the end | `ScanStream` |
| Tree (`tree.rs` `DirTree`) | nodes with totals and `changed` marks, scan and change counters | `apply` | `DirTree` |
| Layout (`layout.rs`) | per tab: a filter's cached sizes, what was shown last | `compute_layout`, `squarify`, `FilteredSizes::get` | `Treemap`; `DirTree` (the caches) |
| Server, scans (`main.rs`) | `ScanPhase`, the shared tree under its lock, one channel per scan, two watches | `start_scan`, `relay_scan` | `Server` |
| Server, tabs (`main.rs`) | per tab: view, what is owed, what was shown | `handle_ws`, `handle_client_message`, `update_tab` | `Server` |
| Server, lifetime (`main.rs`) | connection counts, timers, the shutdown watch | open, close, signal, drain, exit | `Shutdown` |
| Page, session (`crates/wasm/src/app`) | socket, attempts and timers, toolbar, picker, the snapshot of a zoom | connect, each message, each control, each timer | `Page` |
| Page, canvas (`render.rs`, `interaction.rs`, `logic.rs`) | rects, pointer, hover, zoom, dirty flags, buffer | a layout, the pointer, a click, a resize, a frame | `Canvas` |
| Platform walks (`linux`, `macos`, `windows/src/scan.rs`) | the visited sets | read a directory: which entries are taken, as what, under which id | `Walk` |
| Windows MFT scanner (`windows/src/mft.rs`, `ntfs.rs`) | a counter of reads, torn records, the readers, the table | read, send, gather, end, fall back; parse, complete, build the tree | `Mft`, `MftScan` |
| Volumes (`*/volumes.rs`, `controls.rs`) | probes still running, the page's grid | list, probe, show | `Volumes` |
| Command line (`rsdirstat-cli.rs`) | the largest files so far | receive, print | `Cli` |
| Wire protocol, reveal, HTTP | none of their own | | not modelled |

How they interact:

- `run_scan` starts worker threads that share the `WorkQueue`. A worker takes a
  directory, opens and reads it, sends one `Dir` event, queues the subdirectories
  it found, and only then counts the directory as finished. `run_scan` polls the
  queue (`wait`): it ends with the work, with the caller's flag, or with
  `STALL_TIMEOUT` of silence; a worker stuck in a system call is left behind.
- `start_scan` puts a scan on a blocking thread, and a `relay_scan` on another.
  The relay drains the scan's channel in batches into the `DirTree` under the
  tree's write lock, signals the tabs, and ends the phase (`Done`, or
  `AwaitingPath` with a trip to the picker when no root was read).
- One task per tab selects, in a fixed order, on the picker watch, the socket,
  the tree watch and the next layout's due time, and lays out the tree under a
  read lock.
- On Windows a scan of a volume may read its master file table instead: threads take
  reads off a shared counter and send the records to the one that builds the tree, which
  sends the same events as the walk would. If that fails the folder walk may take over.
- What a walk makes of an entry is its platform's: which id, which file system, through a
  mount, an automount, a firmlink or a reparse point or not.
- The picker's list comes over HTTP, from a blocking thread of the server's that may ask
  mounts which never answer. The page offers what comes; a click on one starts a scan.
- A tab's layouts become the page's rects; frames draw them, and what the pointer is on, when
  the browser asks for a frame.
- The command line runs a scan by itself and keeps the largest files as they come.
- A page connects again when its connection is lost, and sends its toolbar's values anew,
  because the server's view of a new connection is the default one.
- The last connection to close arms a timer, which raises the `shutdown` watch if
  nobody has come back within a grace period; Ctrl+C raises it too. The server
  then has `DRAIN_GRACE` to finish, and blocking tasks as long again.

What is hard here: workers that may block for ever in any system call, and come
back at any later time; a count of work in flight that is read without knowing
who holds what; two condition variables; a stall report made with the lock let
go; directories and files with two names reached by two threads at once; events
that must stay in order although their senders race; a relay that outlives its
scan's phase; tabs that look at two locks and three kinds of notification; marks
that stand for "nothing has changed" in place of comparing; one file or folder reached by
several names, mounts and links, and several told apart by one inode; records of a table that
is read while it changes; threads stuck on a dead mount; and a page whose rects are replaced
under the pointer, in the middle of a zoom, between a frame asked for and the frame drawn.

What makes each part correct:

- *Work queue*: `pending` counts exactly what is queued or in someone's hands; no
  worker sleeps while there is work for it; `Complete` only when all is done;
  after a cancellation nothing is handed out; a stall only after real silence; the
  waiter returns and the workers leave.
- *Scan*: a directory is sent once and after its parent, a file is counted once,
  `ScanDone` is last and always comes; `Complete` means everything reachable was
  read but for what is left out quietly, `Incomplete` that the rest was reported.
- *Tree*: totals exact at every event and whatever the order at the end; no cached
  sizes and no "nothing new" verdict outlives what it was computed from.
- *Server*: one scan writes the tree at a time; `Done` means that scan's tree;
  a page learns of a new scan before it sees it, is never told complete of what
  broke off, and ends up showing where the server is.
- *Walks*: nothing is taken twice nor from where the scan doesn't go, and a scan without
  trouble has taken every file it should; both but for the cases under "Where the walks part
  from the documentation".
- *MFT*: a scan that says it ran to its end has the records of every read, however its
  readers shared them; an error stops the rest; its events are those of the walk, and of a
  table changed meanwhile, still a tree of what was read.
- *Page*: what the toolbar shows is what the server filters by, whatever was typed while
  there was no connection; it gives up on a server that is gone, never on one that answers.
- *Canvas*: what is hovered is what is drawn on top under the pointer; every change is drawn in
  the end; a zoom goes from one whole picture to the other.
- *Treemap*: rects tile their folder in proportion, without overlap, and no container is empty.
- *Volumes*: one probe at most is stuck on a mount; a dead mount keeps only itself off the list.
- *Command line*: what is printed are the largest of all there were.
- *Lifetime*: the server stops after its pages have gone for a whole grace period,
  never sooner, and then always exits.

## Modules

**`WorkQueue.tla`** — `items`, `pending`, `cancelled`, `progressed` are the
`QueueState` behind the mutex; `cancel` is the caller's flag; `pc` and `job` are
the workers, `waiter`, `quiet`, `outcome` the thread in `wait`. Each action is what
one thread does from one acquisition of the lock to the next release: a `take`
that finds nothing goes to sleep (a member of the set asleep on `ready`), `push`
notifies one or all, `finish_one` may wake the waiter, `wait` is a `Poll` (it has a
timeout, so it may look at any time). `StallCancel` is apart from `PollQuiet`
because `wait` lets go of the lock to call `on_stall`. Wakeups may be spurious.
`wait` itself is not modelled as sleeping: `wait_timeout` wakes it within
`POLL_INTERVAL` whether or not anybody notifies it, so `done`'s notification is
only about speed.

**`ScanStream.tla`** — the abstract stream: `Announce` and `Finish`.

**`Scan.tla`** EXTENDS `WorkQueue`; its items are directories. `sink` is each worker's
`DirSink` with how far `read_dir` and `run_worker` are; `visited_dirs`,
`visited_files`, `failed`, `tx` are `Shared`'s. The system calls (`Open`,
`ReadBatch`, each entry) are actions of their own, so that anything can happen
between them, and may fail or never return. A batch holds any of the entries still
unread, in any order. `excused` and `reported` are history: the entries left out
quietly and those reported. `Stream == INSTANCE ScanStream` is the abstraction it
implements, on the same `sent` and `done`.

**`DirTree.tla`** EXTENDS `ScanStream`: each event of a legal stream is applied to
`nodes` as it comes. A file is its identity with a size and an mtime, sizes
saturate at `MaxSize`. `Above` is `propagate`'s way up and `Subtree` what `subtree_order`
finds, as the smallest sets closed under parent and children; `Totals` adds up over them.
`Layout` is a tab's `FilteredSizes::get` followed by `update_tab`'s test of its
`Shown` key; `shown.view` is history, the view itself.

**`Server.tla`** — `phase` is `ScanPhase` with the scan it belongs to (as the
address of its `cancel` flag identifies it); `scan[s]` is the scanner as its relay
sees it, the channel and the relay's program counter; `tree` is the `DirTree` by
whose events it holds and how many directories; `tab[t]` is a `handle_ws` task (with
`NewScan`/`Key`/`LayoutOf` for `update_tab`) and what its page got last. The tree's
write lock is held between the events of a batch (`TreeFree` is what a reader
needs). Locks released between two steps of the code are steps apart here:
`to_picker` moves the phase, then signals; a layout is marked seen before it is drawn.

**`Shutdown.tla`** — `open`, `opened` are `Connections`; `timer[n]` is the timer armed
when `opened` stood at `n`; time is in ticks, and timers may be late. `quiet` is
history.

**`Mft.tla`** — `next`, `torn` are the shared atomics (`torn` by the reads that left
records out), `reader[r]` is a thread in `read_records`, `chan` the channel (a set: records
are inserted by their number, and an error drops whatever is left), `gathered` and `gather`
the thread in `Volume::scan`. A reader that can't open its handle or read is `Fails`; a read
caught half written is `ReadTorn` until `READ_ATTEMPTS`. `Abandoned` is where `scan` either
returns the error or lets `run_scan` take over, which is `Scan`. Whether the scan root is in
the table is a choice.

**`MftScan.tla`** EXTENDS `Mft` with what a read holds. A volume is its files before and after
a change made while it is read; a record is found as either, or torn. `ParseRecord` is
`parse_record` with its attributes in base and extension records, `Insert` the table,
`Completed` is `complete_records` (`Folded` its first loop), `Order`, `Leading`, `FirstLeads`,
`CountedIn`, `Dated` and `Events` `send_scan`. Its recursions are functions over the numbers of
steps, so that it can be proved about. `VolumesAssumption` says what a file on a volume is, not
that a volume is consistent: names may lead anywhere, in circles too. A volume that isn't changed is
(`Consistent`): only `SameAsWalk` is about those. `Listing`, `Walked` and `WalkedFiles` are what `read_dir` would have sent of the
same folder, for `SameAsWalk`. `got` is history. Its events are an implementation of
`ScanStream` by a refinement mapping (`Stream`): the promise `Scan` keeps for a walk.

**`Walk.tla`** — a world is a volume with what is mounted on it. Its nodes are folders and
files with a device and an inode; an entry has a node of its own and the node a lookup of its
name comes to, another one at a mount point, an automount trigger, a firmlink or a link.
`LinuxEntry`, `MacEntry` and `WindowsEntry` are the three `read_dir`s' decisions, over the one
`Sink` (`DirSink`). `Packed` and `Parsed` are the two ends of macOS's attribute buffer: fields
are packed in the order of their bits and read by position, which is how a field left out could
shift the others. A hash of a device and an inode is the pair. A lookup of an entry may fail
(`looks`), for lack of permission or otherwise. A folder is read in one step and
folders in any order: how steps of workers interleave is `Scan`'s. `Unseen`, `ByListing` and
`Unlinked` are what the properties except: lookups whose failure the code doesn't report, folders
it knows by a listing's id only, and files it can't tell from others.

**`Cli.tla`** EXTENDS `Walk` and `Treemap`: `Receives` is the loop of `main` for one event, with
the walk's step that sends it; `Prints` what comes after the loop.

**`Treemap.tla`** — `compute_layout` as pure operators. Lengths are integers, `Unit` to a
pixel, so the aspect ratios of `squarify` are compared as fractions, exactly, and positions are
rounded down where `f64` would keep the fraction; as in the code the last of a row takes what
is left. The recursion of `layout_node` is a function of the places a folder may be laid out in,
that of `squarify` one of the number of rows, and sorting inserts one item after the other, after
those of its size. `Tiles` and `Nested` say what a layout should be.

**`Canvas.tla`** EXTENDS `Treemap`: the page's `View` and `Surface`. `Redraw` is `redraw` with
`schedule_tick`, `Tick` an animation frame; a zoom has `ZoomFrames` instants and frames skip any
of them. `buffer` and `screen` are what has been drawn.

**`Volumes.tla`** — `lists[l]` is the `l`th call of `list_volumes`, from the fetch to its end
(`rx` are its channels), `threads` the probes, `probing` is `PROBING`, `waiting` and `grid` the
page's fetches and the picker. A probe removes its mount from `PROBING` and only then sends, as
two steps. On macOS the mount table is counted and read in two, with mounts made between.

**`Page.tla`** — one page from loading on. `ws`, `attempts`, `retry` are the session with its
reconnect timeout; `toolbar`, `filter_timer` the controls with the debounced filter (depth
and colour mode are sent alike: one of them stands for both); `picker`, `treemap`, `rects`,
`armed` (`pending_old_rects`), `zoom`, `scan_done` what is drawn. Each handler is one action,
since a page is one thread. The server's end is here only what it can do to a page: `conn`
is the tab's `View`, `server` the phase, the scan its tree is of and whether its root has been
read. A connection's messages stay in order (`up`, `down`) and are lost with it.

**`MC_*.tla`** give TLC its instances: trees by name, bounds, and the specifications
with the fairness of a run. **`*_proofs.tla`** hold the theorems: `Scan_proofs` has those of
`WorkQueue` and `Scan`, `Platform_proofs` those of `Volumes` and `Walk`, and `Visit_proofs`, which
EXTENDS it, those of `Cli`, `Treemap` and `Canvas` as `MC_Visit` composes them.

**`MC_Visit.tla`** composes `Volumes`, `Walk`, `Cli`, `Treemap` and `Canvas` as a visit goes
through them: the picker lists volumes, one of them is picked from the grid, its walk's events
build the tree, `update_tab` lays it out, the page draws it; or a walk runs under the command
line. It simplifies where the parts no longer see each other: the list's state goes back to its
start once a volume is picked; on the page folders are read in one order (under the command
line in all); one world is played with, by a pointer at three points, clicks, the filter,
resizes and rescans, and each of the others is laid out once in every view
(`Views`: each folder as the root, four canvas sizes, three depths, with and without a filter).

The composition follows the code's layers: `WorkQueue` ⊂ `Scan` → `ScanStream` ⊂
`DirTree`, and `Mft` ⊂ `MftScan` → `ScanStream`; `Server` has the scanner only as the stream it
sends (`Opens`, `Reads`, `Finishes`, `Stops`), which `Scan` and `MftScan` show it to be. `Page`
has the server only as the order of what it sends; `Walk` ⊂ `Cli`, `Treemap` ⊂ `Canvas`, and both
with `Volumes` ⊂ `MC_Visit`.

Definitions with a name like `PushNotifyingOne`, just above the definition they
vary, are mutants: what a plausible bug would make of it. No specification uses them.

## Runs

| Run | Instance | Shows |
|---|---|---|
| `workqueue` | 4 workers, 2 kinds of item, 5 queued at most, a stall after 3 quiet polls | `PendingExact`, `NoLostWakeup`, `CompleteIsQuiescent`, `CancelledStaysEmpty`, `StallOnlyWhenSilent` |
| `scan` | 2 workers, 3 directories of which one has two names, a file with two names, two failing entries | `CompleteMeansEverything`, `IncompleteMeansReported`; the refinement `StreamIsSafe`; with only `run_scan`'s thread sure to run, `StreamEnds`; with workers that run between system calls, `NoWorkerLeftBehind` |
| `scan_stalled` | a chain with a loop | the finding `StalledIsPartial` |
| `dirtree` | 3 directories, 2 files, sizes that saturate, 2 filters, 2 scans of which the last comes in any order | `TotalsExact`: at every event while parents come first, at the end in any order, and every folder leads to the root; `CacheSound`, `ShownSound` |
| `server` | 2 scans, 1 directory, 1 tab with 1 setting besides the default | `DoneHoldsItsScan`, `CompleteIsComplete`, `ScansNeverOverlap`, `StartBeforeLayout`; with fairness `PhaseEnds`, `PagesSettleOnceHeard` |
| `server_final`, `server_picker` | the same | the findings `FinalNeverRunning`, `PickerBeforeLaterScans` |
| `shutdown` | 2 connections open, 3 in all, a grace period of 2 ticks | `ShutsDownOnlyIdle`, `ShutsDown`, `Exits` |
| `page` | 2 folders, 2 settings, 2 edits, 2 attempts, 1 loss, 2 scans, 2 messages down | `SettingsReach`, `StopsAsking` |
| `page_zoom` | the same | the finding `ProgressNeverZooms` |
| `mft` | 2 readers, 3 reads of 2 records, 2 attempts at a torn read, six small volumes | `VerdictSound`, `ErrorStopsReaders`, `Ends`; `SameAsWalk`, `TreeOfWhatWasRead`, and the refinement `MftStreamIsSafe` |
| `visit` | a machine of each platform, the picker shown twice; 28 worlds; 2 changes of view or rescans | `ProbesOnce`, `ListsWhatAnswers`, `ListEnds`; `TakesOnlyItsOwn`, `WholeVolume`; `PrintsTheLargest`; `LayoutSound`; `HoverIsCurrent`, `DrawnIsCurrent`, `ZoomsBetween` |

Why the bounds are enough for what they ask:

- *workqueue*: a lost wakeup needs a sleeper, a worker that takes and one that
  pushes, and a fourth that sleeps on when one is woken; batches of none, one and two items
  (the code notifies one worker for one item and all for more). `StallPolls = 3` tells
  quiet polls in a row from quiet polls added up.
- *scan*: two workers race for a directory and a file that each have two names,
  one of them under a directory that itself may fail part way. `StallPolls = 1`
  lets a stall come at any silence.
- *dirtree*: `b` is under both `root` and `a`, so its parent is whichever
  sends it first; two files of size 2 with `MaxSize = 3` saturate in every order;
  two scans show what must carry over between them.
- *server*: a scan that is given up on and a second one cover every overlap of two
  relays; each message's order is per tab, and tabs share only the tree and the
  phase that any of them reads, so one tab sees all there is. A scan asked for by
  "another tab" is any `Requests` step: requests do not depend on what a tab shows.
- *page*: one edit of each kind, or two of one, before and after a loss; 2 attempts for
  `MAX_ATTEMPTS` = 10 tell the first failure from the last; a second scan is what the
  snapshot of the first could be drawn against; two messages down is a `ScanStart` with
  the layout after it, or a layout and the trip to the picker.
- *mft*: two readers race for the counter and one's error meets the other at every place;
  three reads leave one that nobody may take after an error. The volumes are the smallest
  that have each thing `ntfs.rs` tells apart: a file whose names and sizes lie in extension
  records, reparse points with and without room for their tag, cloud files, a record used
  again for another file, a file and a folder that move while the table is read (a loop of
  folders among what is found), a folder that goes.
- *visit*: each world is a tree of a dozen nodes in which every case of its platform's
  `read_dir` happens, in pairs where one is to be told from another (the same inode on two
  disks, a mount of a folder and of the whole disk, two folders with no id). Each exception the
  properties make happens too: files mounted on files, an automount of a disk that is mounted
  elsewhere, a mount point, a firmlink and reparse points whose lookup fails, two links into a share
  without ids. Lengths are a
  twentieth of the code's: `MIN_NEST_PX` is 2 pixels of 4 units for 40, a header needs 3 × 1.5
  pixels for 60 × 30 and is 1 pixel, so canvases of 16 × 8 pixels hold three levels, levels too
  small to open, files folded into one, and containers with nothing in them. Two moves are a
  navigation with anything before its layout comes, or a rescan in the middle of it.
  `ZoomFrames = 2` has a frame in the middle and the last one. `Top = 2` is less than the files
  and folders there are. Two showings of the picker make a list find a probe of the other stuck.
- *shutdown*: three connections make two armed timers overlap a third's.

`CHECK_DEADLOCK FALSE` is in every configuration: each system here may really stop
(a scan has returned and its workers have left, the server has exited, the bound on
scans is reached).

### Fairness

- `RunScanFairness`: `wait` wakes up every `POLL_INTERVAL` by itself. Nothing is assumed of
  workers where it matters: `StreamEnds` holds with every worker stuck for good.
- `WorkerRunsFairness`: a thread that is not in a system call runs.
  `NoWorkerLeftBehind` is stated under it, and excepts workers inside one.
- `Server`'s `Fairness`: a relay's receive has a timeout or its scanner goes on or
  goes (that is `Scan`'s `StreamEnds`); a tab's task runs when it has something to do.
  The select is biased, so messages from a page come before a due layout: weak
  fairness of `LayoutDue` takes it that a page falls silent, as the premise of
  `PagesSettle` (the tab is left alone) says.
- `PagesSettleOnceHeard` is `PagesSettle` for behaviours in which no scan starts until every
  tab has heard of the last trip to the picker (`heard`). A person has to use the picker to
  start it, but nothing in the server ensures it, and without it the property fails: a page
  can be put back on the picker of a scan that failed while a later one runs. That
  is the finding below, seen from its end.
- `Page`: `WF_vars(Session)`, for a browser runs a page's callbacks and a connection attempt
  opens or closes in the end. Nothing is assumed of the person, the network or the server.
- `Mft`: a read of the disk returns, with data or an error.
- `MC_Visit`: a list's own thread runs, and its deadline passes (`ListStep`); nothing makes a
  mount answer.
- `Shutdown`'s: timers fire and the shutdown task runs. Nothing makes a request be
  answered or a page leave.

## Findings

1. `scan_stalled`: `wait` lets go of the lock to report a stall and cancels the queue
   only afterwards (`scan.rs:728`). Workers that come unstuck meanwhile can finish
   everything, and the outcome is still `Stalled`, whose doc (`scan.rs:333-334`) says
   that the results are partial.
2. `server_final`: `main.rs:403-404` and `616` say that no layout of a final tree is
   ever marked as still running. `start_scan` moves the phase to `Running` without the
   tree's lock, so between then and the new scan's first event a layout of the
   *previous* scan's finished tree is.
3. `server_picker`: `main.rs:873` says that a trip to the picker reaches a page before
   any later scan's layouts. `to_picker` moves the phase first and signals after, and a tab
   past its select draws whatever runs by then.
4. `page_zoom`: `interaction.rs:37-39` says that a layout in mid-scan must not consume the
   snapshot of a zoom. A click arms it; if the connection is lost before the layout comes,
   it stays armed through the reconnection, and a server whose next scan has already read
   its root greets the new connection with no `ScanStart`, so a progress layout zooms from
   the old scan's rects.

### Where the walks part from the documentation

The repository's `README.md` says that every file is counted once and a folder reachable by two
ways is read once (131-134), that other filesystems are left out without `--all` (138), and that
what can't be read for any reason but missing permission is reported (141-144). The
walks don't keep this everywhere. `TakesOnlyItsOwn` and `WholeVolume` say it with the exceptions
the code makes, which happen in worlds of `visit` but where this says otherwise, so that the rest of it can be claimed, and proved:

- Linux, files mounted on files (`linux/src/scan.rs:284-291`): nothing asks for a file's mount.
  One with a single link is counted under each name it is mounted on, and one of another
  filesystem is counted without `--all`. Containers have such files: `linux/src/volumes.rs:129-130`
  names `/etc/hosts`.
- Linux, automounts with `--all` (`:282`): a trigger has the id `statx` gives for itself, not for
  what opening it mounts. The root of a filesystem that is mounted elsewhere too is read twice, and
  its files with one link counted twice. And whether it is one of the kernel's is asked of the trigger (no
  world has such a one).
- macOS, a mount point whose `fstatat` fails (`macos/src/scan.rs:218`) is left out, and nothing is
  reported, whatever the error.
- macOS, a firmlink whose `fstatat` fails (`:197-199`) is read under its own id, so what it leads to is
  read once more under its other name.
- Windows without `--all`, a folder that is a reparse point, or on a volume without file ids, and can't be
  asked who it is (`windows/src/scan.rs:191-198`) is left out, and nothing is reported.
- Windows with `--all`, such a folder is taken to be what its listing says, of its folder's volume
  (`:199-204`), and read again by another way to it. If it is a link to another volume, its files are
  then told apart by ids of the wrong volume. The model has it on its folder's volume
  (`WindowsKeeps`); what such a link to elsewhere would do is neither modelled nor claimed.
- Windows, volumes without file ids (`:70-87`, `:298-300`): a folder's id is its path and files
  have none, so two links into such a share have it read twice and a hard link there counts twice.

## Proofs

TLAPS checks, for every value of the constants that meets the named assumptions:

The type invariants (`TypeOK` of `WorkQueue`, `Server`, `Shutdown` and `Mft`, `ScanTypes` of
`Scan`) are proved, and no run needs to check them.

- **`Scan_proofs`**, of `WorkQueue` — `TypeOK`, `PendingExact`, `NoLostWakeup`,
  `CompleteIsQuiescent`, `CancelledStaysEmpty` and `StallOnlyWhenSilent` (of `MC_WorkQueue`, which
  has the history it needs), for any finite set of workers, any items and any pushes. The induction needs more than these: `IInv` adds
  `QuietBelowLimit` (the waiter's count is below the limit while it waits),
  `CancelledEmpty` (a cancelled queue holds nothing, so `PendingExact` is about the
  workers alone) and `JobHeld` (a worker has an item just when it is between `take`
  and `finish_one`), without which neither `finish_one` nor `cancel_locked` could be
  seen to keep the count. `NoLostWakeup` is inductive only with `PendingExact`'s parts
  beside it. `CountMove` and the `*Properties` lemmas say what moving one worker,
  waking one and waking all do to the sets that are counted. The assumptions are
  `WorkerAssumption`, `ItemAssumption` and `StallAssumption`: finitely many workers, an item
  to begin with, at least one quiet poll before a stall.
- **`Scan_proofs`**, of `Scan` — for any finite set of workers, any file system (with any names a folder
  or file has), any failures and any cancellation: `ScanRunsTheQueue` (a scan implements
  `WorkQueue`'s `Spec`, so the theorems above hold of it), `CompleteMeansEverything`,
  `IncompleteMeansReported` and `StreamIsSafe`, the refinement of `ScanStream`. `SInv` says
  where a directory is: queued, among the children a worker found, in a worker's hands, or
  announced. It is in one place at most (`NoTwice`), was visited (`Visited`), was found in an
  announced parent (`Found`), and its files are counted by one worker (`FilesOnce`): why each
  event is one the stream allows. It is in one place at least, or left out with a word, and so
  is every entry of what was read (`Covered`): why nothing is missing once the queue's
  `CompleteIsQuiescent` says that no place but the last is left. `Covered` is stated while the
  walk is not cut short (`Live`), for a cancelled queue drops what it holds; all of them until
  `ScanDone`, for the visited sets are cleared behind workers that were stuck, which may then
  read a directory again, with nobody to send it to. `Phases` ties the queue, the sinks and
  `run_scan` together.
- **`Server_proofs`** — `TypeOK`, `DoneHoldsItsScan`, `ScansNeverOverlap`, `CompleteIsComplete`
  and `StartBeforeLayout`, for any tabs and any number of scans and directories. `IInv`: `Shapes` (types), `Unstarted` (scans not
  started are untouched), `OwnsPhase` (a relay that has not ended its phase finds the
  server running its scan: why two never write at once, though one relay may outlive
  its phase by any time) and `StreamsOK` (what is in a scan's channel and batch is a
  `ScanStart`, then directories, then at most one `ScanDone`, in step with the tree:
  why what a `Done` server holds is that scan's). Tabs only look (`TabsOnlyLook`).
  For what pages are told, `Told` follows the word "complete" along its way: scanner, channel and
  batch, tree, messages a tab's task has yet to send, page; nowhere is it given for a scan that
  did not give it, and a scan that gave it has no scanner left to take it back. `InOrder`: the
  messages on their way to a page and the last one it got are of one scan, but for a page owed a
  `ScanStart` that is first among them, and that scan is the tree's while the tab is up to the
  tree's `scans`.
- **`Shutdown_proofs`** — `TypeOK` and `ShutsDownOnlyIdle`, for any grace period and
  number of connections. `Unmoved(n)`: while timer `n` sleeps and nobody has connected
  since it was armed, the silence has lasted at least as long as it has slept.
- **`Mft_proofs`** — `TypeOK`, `VerdictSound` and `ErrorStopsReaders`, for any number of
  readers, reads and attempts, and of `MftScan` the refinement `MftStreamIsSafe` and
  `TreeOfWhatWasRead`, for any volumes besides (`VolumesAssumption`), with any changes while they
  are read, and `SameAsWalk`, for any that are consistent (`ConsistentAssumption`) while nobody changes them. `VerdictSound` is about the counter only through the readers: `NoneLost` (a read
  taken off the counter is gathered, on its way or in a reader's hands, unless something
  broke), `LeftForAReason` (a reader left because no read was left or something broke) and
  `AllIn` (a gathering that ended has no reader and no message left) together say that all
  is gathered (`AllGathered`), which needs that there is at least one reader. For
  `ErrorStopsReaders` the invariant counts what may still be taken: `FewTaken` says that once
  the gathering failed, the counter plus the readers that may still take one (`MayTake`) stays
  within the counter at the failure plus the number of readers. For `MftStreamIsSafe`, `SIInv`
  says of what is gathered (`GatheredOK`) that each entry of the table, and each extension record,
  is of a file that was on the volume at some time, names and all; folding keeps that
  (`FoldKeeps`), for a reused record has another sequence number. `OrderOf` is what the list of
  folders stays while it grows (`AddSubfoldersKeeps`): it starts with the root, holds each once,
  each later one after the one its first name is in, whatever circles the names make. `PlanOK`
  says the same of the events, those sent and those to come together (`SendingOK`). `Steps` and
  `StaysInAll` are the two facts about a value computed in n steps that stand for induction here.
  `TreeOfWhatWasRead` is about what was read, not about the table: `HandedOnce` says that no read
  is gathered twice, `TableIs` that the table and the extension records are therefore exactly
  what was found, whatever the order. Folding by number then lays a file's names in record order
  (`FoldStepLaid`, `NamesLaid`: a one-to-one map from names to the places they were read at that
  keeps the order), so the first name that leads anywhere is the first read (`FirstAmong`); the list of
  folders is complete, for each had its turn (`HadTurns`) and there are no more than the table has room
  for (`FewFolders`); and once sending has begun, what was sent and what is to come is all of it
  (`AllSent`). For `SameAsWalk`, a read that isn't torn found each of its records whole (`GotWhole`), and
  a Complete scan has no torn read, so every record was read as it is on the disk (`AllRead`). Parsing such a
  record says of its file just what lies in it (`Says`, `ParsedSays`), folding adds what its extension records say
  (`FoldedTells`) and each adds its names (`NamesTell`), and a tag that did not fit is asked for (`CompletedTells`): an entry of
  the table is counted as its file is listed (`EntryCounted`), and every file of the volume stands in the table
  (`FilesStand`). The folders in order and those the walk reaches are then the same, each side by induction over the other's
  steps (`SentWalked`, `WalkedSent`).
- **`DirTree_proofs`** — `TotalsExact`, `CacheSound`, `ShownSound` and that a recount
  (`recompute_totals`) changes nothing, for any tree a legal stream may describe, any file
  sizes, any `MaxSize`, any number of scans and filters. `TreeInv`: a directory lists those, and
  only those, that name it their parent (`Linked`); no way up comes back (`Acyclic`) and each
  ends at the root (`Rooted`); totals are the saturated sum, and the newest date, of exactly
  what is under a directory (`Exactly`), which adding up keeps because no file is counted in
  two (`Apart`); marks and what was shown never run ahead of the counts of changes and of scans
  (`MarksOK`), so that a cache filled now is told from one filled after the next event. With
  these `CacheSound` and `ShownSound` are inductive as they stand. Sums, subtrees and ways up
  are recursive; their facts are proved by a smallest counterexample (`Smallest`: a
  set of finite sets has a ⊆-minimal one). The theorems are of `Spec`, where streams keep the
  order `ScanStream` promises. That a recount repairs a stream that came in any other
  order (`AnyOrderSpec`) stays with TLC.
- **`Page_proofs`** — `SettingsReach`, for any settings, any number of scans, connections and
  retries. `PageInv`: `Attached` (a connection there is has its socket) and `Settling`: the
  settings the tab will have once it has read all that is on its way (`up`, in order) are the toolbar's,
  the filter but for the debounce timer, and the viewport is among them or known.
- **`Platform_proofs`**, of `Volumes` — `ProbesOnce` and `ListsWhatAnswers`, for any mount table on the three
  platforms, any calls and any probes that never answer. `VolumesInv`: `ThreadsOK` ties each
  thread to the channel of the list that started it, and `ListsOK` says of each list, by how far
  it is, what its channels hold and what is shown.

- **`Platform_proofs`**, of `Walk` — `TakesOnlyItsOwn` and `WholeVolume`, for any volumes on the
  three platforms, with any mounts, links, firmlinks and reparse points, and any lookups that fail
  (`WorldsAssumption`, below). What they don't claim are the exceptions above, stated in them.
  `AnyEntryOK` says of each platform's `read_dir` that an entry is left out, fails, or is taken as
  the file or folder it leads to, under an id only that one has or, `ByListing`, one that only what the
  listing has could have (`EntryOK`); with `PlaceOf`, that
  macOS's fields are read where they were packed. `WalkInv`: folders queued and sent are apart, each was found
  by a way the scan may go from one that was sent and is known by its id (`DirsOK`,
  `SeenOK`); a file is counted under a link that is known by then, or is one of those no link tells (`FilesOK`); and
  without trouble, each way out of a folder that was sent leads to one taken (`TakenOK`). At the
  end nothing is queued, so what was sent is closed under ways, and with the root holds all that
  can be reached; `Held` reaches it in as many rounds as there are nodes.
- **`Visit_proofs`** — any sequence of the steps of `MC_Visit`, with any worlds, machines, canvases,
  points and number of moves. `VisitTakesOnlyItsOwn` and `VisitTakesWholeVolume` are the above of
  every scan of a visit, whether a volume was picked, scanned again or named on the command line.
  - `DrawnIsCurrent`: `DrawnInv` adds what is so between two frames. What is not drawn yet is
    marked dirty and asks for a frame; a zoom asks for the next one; and the buffer, unless
    marked, shows the current layout, or will once the zoom that runs is over.
  - `HoverIsCurrent`: what the page was sent is always a treemap (`LaidOut`), so under a pointer
    there is one chain of containers and the deepest rect is the last (`HoverShows`). For that,
    (1) what was sent is a tree: no folder is sent before its parent (`TreeInv`), so there are sets of
    descendants that shrink on the way down (`IsTree`), on whose `Height` the recursions of
    `Total` and `layout_node` rest; (2) sorting keeps the items (`BySizeIs`); (3) `squarify`'s rows stay inside what
    is left of the folder's box and apart from what is done, whatever the rounding
    (`SquarifyIs`); (4) laying out a folder in a place keeps `Laid`: its rects are in the place, those of one
    folder apart, each under a container drawn before it or at the top, no folder twice
    (`LaidBoth`, `LaidOpened`), by the levels that are left (`DrawnRects`, `LayoutNodeIs`).
  - `TreemapNests`, what `LayoutSound` says but for the shares of the area: `Nested`, and that rects
    lie below their container's header, apart from each other (`SideBySide`). Besides `Laid`, a place's rects are
    `Stacked`: whatever is between a rect and the container it is in lies in that container too
    (`Covers`), and a container has its first own rect right behind it. A container's rects follow
    it in one piece (`StackedOpened`) and a folder's items follow one another (`StackedBoth`),
    where no item's first rect is taken for one in what precedes it, for a folder isn't in itself.
  - `PrintsTheLargest`: of all files received, those kept are as many as are to be printed, or all,
    and none left out is larger than one kept (`Heaped`, which `KeptIs` says each push and pop
    keeps, whichever of the smallest goes); the largest of those kept are then the largest of
    all. `CliInv` has it of the heap, and of what has been printed.

What the constants are assumed to be, each by name in its module:

- `WorldsAssumption` (`Keeps`): a world is as its platform keeps volumes. A device and an inode are one node, but on
  Windows where file ids are known to tell nothing; of the names of a file with one link, all but one have it mounted on
  them. What is found under a listing's id (`ByListing`) leads to one thing, and nothing else leads to the entry itself.
  Linux: a mount id other than the scan's own is of a pseudo filesystem just when the mount table, read as the scan begins, says so (of a
  trigger it is the trigger's mount: what it mounts may be anything); without mount ids, devices are. macOS: a listing is
  of one device and so is a firmlink (`macos/src/scan.rs`, `dir_id`, `mount_point_id`). Windows: only reparse points lead
  elsewhere, names in a folder differ, volumes have file ids or not throughout, and with `--all` a reparse point that fails to say who it is leads to its folder's volume.
  No lookup is assumed to succeed.
- `ConsistentAssumption` (`Consistent`): a volume nobody changes is as NTFS keeps it. A record is of one file, is in the
  table and is covered by a read; a folder has one name, but for a DOS name; of the records below
  `FIRST_USER_RECORD`, "which folder listings never show", only the root folder's is here, whose name is in itself. The
  model's walk may look into every folder: `ntfs.rs` says of those only the system may open that the walk's total lacks them.
- `TreemapAssumption`, `CanvasAssumption`, `CliAssumption`: lengths, points and `--top` are numbers, a pixel and a zoom are something.
- `WorkerAssumption`, `ItemAssumption`, `StallAssumption`, `FilesAssumption`, `VolumesAssumption`
  and the rest: finite sets, sizes that are numbers, at least one of what there must be one of.

Only model-checked:

- liveness (`StreamEnds`, `NoWorkerLeftBehind`, `PhaseEnds`, `PagesSettleOnceHeard`, `ShutsDown`,
  `Exits`, `StopsAsking`, `Ends`, `ListEnds`), which rests on fairness and `ENABLED`;
- the shares in `LayoutSound`: that rects have their share of the area is so to a rounding that
  grows with the number of items in a folder, and the bound in `Tiles` is one for the instances
  checked. The rest of it is `TreemapNests`, proved above;
- `ZoomsBetween`: a zoom tells files of a folder apart by name, so it needs that no file is named
  as the rest of them is, "(other files)", which nothing in the code ensures.

Induction over data is done here through sets closed under a step and smallest counterexamples,
for no theorem with an operator parameter can be used.

## Not modelled

- Colours, the tooltip, labels and status lines, formatting, and byte layouts (`getdents64`,
  NTFS records, the wire protocol): no interleaving, and arithmetic over `f64` or bytes. Rects
  keep `f64`'s rounding out of it: a level of 2^53 bytes or more, where sizes can no longer be
  told apart, is left to the code's own tests.
- HTTP routes, the session token and headers: functions of one request.
- Hashes of ids: two folders with one hash are taken for one folder by the code.
- A scan for the command line that ends without `ScanDone`: its error is printed.
- `reveal`: starts the platform's file manager.

Hazards that no property covers: a `Navigate` on its way while a new scan starts, whose id, made
of an inode, may name a folder of the new tree; two answers to `/volumes` that come in the other
order (`controls.rs:201`: the later to come stays, and `Volumes` has it so); a disk mounted over a
folder between its `statx` and its `openat` (`linux/src/scan.rs:265`), whose files are then of
another file system.

## What is left

1. Composition: the server with the page in place of its tab's mailbox, so that
   `SettingsReach` and `PagesSettle` are about one system.
