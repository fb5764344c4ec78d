# OS-Course-Design: verification project

Specifications, model-checking runs and proofs about the programs of this
repository: a FAT file system with its shell (`src/EXP5-File_System`), a
character device driver (`EXP3-Device_Driver`), a system monitor
(`EXP4-System_monitor`), three windows that are three processes and a copy
program (`EXP1-LINUX_UI`), and a copy system call in a Linux `kernel/sys.c`
(`EXP2-SYSCALL`), whose own calls are modelled as well.

## 1. Inventory

| Component | State | Operations | Hard behaviour |
|---|---|---|---|
| Virtual disk (`EXP5/disk.c`, `mywlib/fs/const.h`, `fat16.h`) | `vhard`: boot block, two allocation tables, directory and text blocks | `format` | loops of `format` that run across both tables; two tables in a row in memory |
| File system shell (`EXP5/main.c`, `sys.c`, `dir.c`, `file.c`, `stack.c`) | `openfilelist`, `fileopenptr`, `ptrcurdir`, `currentdir`, the stack of `rmdir`, the host file `myfsys` | `startsys`, `exit`, `format`, `mkdir`, `cd`, `rmdir`, `ls`, `create`, `open`, `close`, `read`, `write`, `rmfile` | lookups that fail and go on, full tables, stale slots, crash between two saves, a traversal with its own stack |
| Character driver (`EXP3/myw_dev/myw_dev.c`, `testDevDriver.c`) | the buffer `mem`, a position per open file, what the kernel has registered | open, release, read, write, llseek, module init and exit; the test's script | nothing is locked, unsigned lengths, faults in the middle of a copy, partial failure of init |
| System monitor (`EXP4/sysmonitor.c`, `sysmonitor.h`) | old processor totals, memory totals, two rings of samples, the list of processes, `select_pid` | seven timers, expose events, clicks, search, kill, refresh | callbacks in an order nobody wrote down, a pointer into a list that is rebuilt, processes that end while they are listed |
| Copy system call (`EXP2/mycopy.c`, the end of `sys.c`) and copy program (`EXP1/copy.c`) | two descriptors, a buffer, the address limit | one call, one program | short reads, failing writes, ways out with descriptors open, two copies that cross |
| procUI (`EXP1/procUI.c`) | three processes, the statics of two timers | fork, close, wait; sum; processor usage | windows closed in any order, a fork that fails, counters that wrap |
| Kernel `sys.c` (`EXP2/sys.c`) | credentials, process groups and sessions, resource limits, memory map, priorities, usage, host names | the system calls of the file | calls of several tasks under locks, without them, or between two of them |
| mywlib error helpers | none | print and exit | - |

How they interact: the shell's commands share `vhard` and the globals of
`fat16.h`; `mkdir`, `create`, `write` and `rmfile` meet in the tables, `cd` and
`open` in `openfilelist` (a directory occupies a slot too), `rmdir` calls
`rmfile`, `existsys` and `format` write the host file that `startsys` reads.
The driver's test runs on the driver's calls, and the driver's module can be
loaded and unloaded under it. Both copiers work on the same files. Within
`sys.c` the calls meet in the kernel's tasks: `setpriority` reads ids that
`setreuid` writes and the RLIMIT_NICE that `prlimit` of another task may set, and
`prctl(PR_SET_MM)` reads RLIMIT_DATA, which `prlimit` may set too - both without
the lock `do_prlimit` holds. Apart from that the components do not talk to each
other.

What makes each correct: a volume on which no block belongs to two owners, what
is deleted does not return and reserved cells stay reserved; a current directory
whose path, block and own entry agree; open slots that refer to existing files;
walks and traversals that end; an image that is sound whenever it is whole. For
the driver: lengths stay within the buffer, a write that ran alone is what is
there afterwards, init undoes what it did. For the monitor: curves that show the
last samples in their order, a selection that points into the list that is
there. For the copies: the target equals the source where nothing failed, and
only a call that failed leaves a descriptor open. For the kernel's calls: no way
back to root once it is given up, groups that stay within a session, limits that
only fall without privilege, and locks that every way out lets go.

`PROJECT.json` lists the hazards at their lines with the properties aimed at
them.

## 2. Modules

| Module | What it models |
|---|---|
| Volume | constants of the disk and pure operators on it: cells of the tables, entries, where the loops that look for a name or a free cell stop (`StopsAt`, a relation), pointers that move past a block (`At`), the double store in both tables (`SetBoth`), the blocks of a chain (`Chain`), `format` |
| FileSystem | the shell: one action per command, `Spec`, `FairSpec`, and the properties of *every* session |
| CarefulSession | the same actions under the discipline of a user who keeps clear of the hazards (`Mind...`, one condition each), and the strong properties that then hold |
| Tree | abstract: directories and files as paths, a current directory, open files, the tree the next start brings back |
| TreeSession | what a state of CarefulSession stands for, and `ImplementsTree` |
| CharDriver | the driver's calls on its buffer, byte by byte, by any number of threads |
| TestDriver | `testDevDriver.c`, several runs at once, EXTENDS CharDriver |
| DriverModule | `mywdriver_init` and `mywdriver_cleanup`, one call of the kernel after the other, with failures, while programs open and close the device |
| Copy | both copiers, any number of each, between the same files |
| LoadWindow | abstract: a curve is the last so many samples |
| LoadMeters | the timers, meters and rings of the CPU and Memory pages; implements LoadWindow twice |
| ProcessList | the Processes page |
| ProcUI | the three processes of procUI, the sum and the usage |
| Privilege | abstract: a task without privilege can only drop ids |
| Credentials | the set*id calls, in three steps each; implements Privilege |
| Processes | `setpgid`, `setsid`, the subreaper option of `prctl`, with fork, execve, exit and a controlling terminal |
| Limits | `prlimit64`, `setrlimit`, `getrlimit` down to `do_prlimit` |
| MemoryMap | `prctl(PR_SET_MM)`: fields, whole maps, executable, vector |
| Priority | `setpriority`, `getpriority` |
| Usage | `getrusage` |
| HostName | `sethostname`, `gethostname`, `newuname`, `olduname` |
| KernelCalls | Limits, MemoryMap, Priority, Usage and HostName: the limits of Limits are what MemoryMap reads as RLIMIT_DATA and Priority as RLIMIT_NICE, by substitution, so every store of `do_prlimit` falls between the steps of their calls; the parts share nothing else |
| Driver, UserPrograms | parts that share no state side by side: TestDriver and DriverModule; LoadMeters, ProcessList, ProcUI and Copy. They and KernelCalls declare the constants and variables of all, with one assumption, and name the properties, so that the runs check and the proofs state the same definitions |
| MCFileSystem, MCTree, MCDriver, MCPrograms, MCTasks, MCCalls | the instances that TLC checks |
| FileSystemProofs, WalkProofs, CarefulProofs, CharDriverProofs, ProgramsProofs, CredentialsProofs, ProcessesProofs, CallsProofs | lemmas and theorems |

Operators whose comment begins "A slip" are not part of any specification: each
is a plausible mistake in the definition below it, under which a property of the
runs fails. `PROJECT.json` says which.

### State and the code: file system

| Variable | Code |
|---|---|
| `fat` | table 1 and table 2 of `vhard`, `2*NB` cells in a row: cell `NB` is the first of table 2 and what a search that finds nothing stops at |
| `ents` | the blocks of `vhard` read as `fcb` entries: name, attribute, first block, length |
| `text` | the blocks read as text: which typed text, which chunk of it, how many units; `NoText` when the entries are what counts, `Junk` when the bytes are not decoded |
| `slots`, `fp` | `openfilelist`, `fileopenptr` |
| `cur`, `path` | the three fields of `ptrcurdir` that are read, `currentdir` split at `/` |
| `edit` | locals of `write()`: the text typed and how many full blocks went out |
| `stack`, `scan` | `stack.c`'s array; the block and entry `rmdir`'s inner loop is at |
| `host` | the host file `myfsys`: absent, torn (a crash came after `fopen` had emptied it and before `fwrite` was through), or an image |
| `mode` | `off`, `shell`, `edit` (inside `write`), `rmdir` (inside its loop), `wild` |
| `seen` (TreeSession) | history: the tree the state stands for, kept as a variable so that it is computed once per step |

One action is one command with all its stores. `rmdir` is three actions
(`rmdir`, then `rmdirPop` and `rmdirScan` until `rmdirDone`), so a crash can
fall between its steps; `write` is `write`, `writeFlush` for every full buffer
and `writeQuit`. Commands that only print, and early returns that change
nothing, are stuttering steps.

**wild.** The C program has behaviour the model does not decode: text read as a
directory, a store outside `openfilelist` or `currentdirc`, a torn image loaded,
a chain through the cell both tables share. Such a step goes to `mode = "wild"`
and nothing is claimed afterwards - except that a careful session only gets
there by a start from a torn image (`OnlyTornGoesWild`). A crash is not possible
from `wild`.

**The save.** `existsys`, `format` and the first `startsys` open the host file
with `"w"`, which empties it, and then write it (`sys.c:52-53`, `disk.c:84-86`).
A crash in between (`CrashWhileSaving`) is an action of every session, careful or
not. No care of the user's prevents it and nothing in the code recovers from it:
what the next start reads is not decoded. So the careful sessions show that this
is the one way left to lose the volume, and not that there is none.

**The tree.** `Tree` has no blocks, tables or entries. `TreeSession` maps a
state to one: the directories a walk from the root reaches, each file with the
texts of its chain, the same of the image, and the path of the file each slot
has open. `rmdir` takes the directory away at its first `rmdirPop`, the rest of
its loop is a stutter; a crash brings the saved tree back, unless it falls into a
save, which loses it (`CrashSaving`). `cd` leaves the slot
that was selected without a file, as the code does.

### State and the code: driver

| Variable | Code |
|---|---|
| `mem`, `fpos` | the buffer and `f_pos` of each open file; threads may share one |
| `call` | the call a thread is in, its position, length, how many bytes are done |
| `wild` | a byte outside `mem` was touched |
| `mixed` | history: the threads whose write ran beside another's |
| `pc`, `buf`, `printed` (TestDriver) | the line of the script, `buf[0]`, what was printed and from where |
| `at`, `region`, `cdev`, `class`, `node` (DriverModule) | the next call of init or cleanup; what is registered |
| `open`, `orphans`, `stale`, `late`, `loads` | files open on this load and on one that is gone; entries of the kernel's map that lead to a load that is gone; whether a load failed after `cdev_add` (history) |

`memset`, `copy_to_user` and `copy_from_user` go byte by byte and a copy may
fail at any of them. A call gets a copy of the position and stores it back when
it succeeds, as the kernel does.

### State and the code: programs

| Variable | Code |
|---|---|
| `page`, `turn`, `due`, `running` (LoadMeters) | the page on top, which of main's timers fires next, the curves whose own timer has not fired in this second, `gtk_main` |
| `stat`, `cpu`, `mem`, `usage`, `curve` | `/proc/stat` (modulo `Cycle`), the statics of `get_cpu_usage`, the memory totals, `cpu_usage` and `mem_usage`, each ring with its `now_pos`, `start` and flag |
| `alive` (ProcessList) | the process numbers in `/proc` |
| `rows`, `left`, `lists`, `proc_num` | the list, the names `readdir` has still to give, how often it was filled |
| `selected`, `select_pid`, `entry`, `scroll` | the highlighted row, the pointer - which listing and row it points into -, the entry, the adjustment |
| `parent`, `child`, `sum`, `now`, `stat`, `cpu`, `wrapped` (ProcUI) | the processes; the statics of `refresh_sum` and of `refresh_CPUusage`; whether a counter wrapped (history) |
| `file`, `job`, `fds`, `limit`, `done`, `disturbed` (Copy) | what each file holds; the call a task is in with its positions; open descriptors; `get_fs()`; counts; whose files another task changed (history) |

Every timer of the monitor fires once a second; those of `main` in the order
`main` adds them. How `GtkCList` answers a click is external to the
repository and modelled from how the code relies on it.

### State and the code: kernel calls

| Variable | Code |
|---|---|
| `cred`, `pending` (Credentials) | `current->cred`; the copy between `prepare_creds` and `commit_creds` |
| `refs`, `processes`, `exceeded` | `user_struct`'s references and process count; `PF_NPROC_EXCEEDED` |
| `proc`, `console`, `walking` (Processes) | each thread group's parent, group, session, leader, terminal and the two subreaper flags; the session that has the console; who set its flag and has not walked yet |
| `rlim`, `holder`, `call`, `timer` (Limits) | the two words of each limit, the task lock, the call each process is in, the CPU timer |
| `settled` | history: the limits when the lock was last let go |
| `map`, `auxv`, `exe`, `mapped`, `fds`, `refs`, `sem` (MemoryMap) | the fields of `mm`, `saved_auxv`, `exe_file`, the files some mapping is of, the open files, `f_count`, `mmap_sem`; with `limit` for RLIMIT_DATA, and `peak`, the highest it has been (history) |
| `alive`, `nice`, `uid`, `euid`, `suid`, `rlim_nice`, `refs`, `call` (Priority) | the tasks, their RLIMIT_NICE, and how far the caller is in its loop; `log`, `lifted`, `most_nice` are history |
| `count`, `gone`, `cflt`, `cvcsw`, `unreaped`, `siglock` (Usage) | each thread's counter, what exited threads left in `signal`, the two counters of children, `siglock` |
| `nodename`, `uts_sem` (HostName) | the name byte by byte, who reads and who writes it |

A call is one step where one lock, or the task's own credentials, makes it so,
and several steps where others can come in between: `set_user` between the copy
and the hook, the two words of a limit, the timer after the unlock, the check
and the store of a nice value, the scan of the mappings and the exchange of the
executable, the check of a map and its store, each byte of a name. The
credentials of callers do not change in Limits and MemoryMap; in Priority the ids
do, by `setreuid` (`__sys_setreuid` with its three ids and CAP_SETUID, in one step:
its single steps, and the fsuid, are in Credentials), the capabilities do not.

## 3. Runs

Parts that share no state are checked side by side: a variable `subject` says
which part a behaviour is about and the others stay where they began, so the
state space is the sum of the parts', not their product. Where parts do meet the
subject has both: `DATA` is PR_SET_MM while another process sets RLIMIT_DATA of
the caller, `NICE` is setpriority while its RLIMIT_NICE is set.

| Run | Question | Result |
|---|---|---|
| `sessions` | any session of 8 commands, crashes and restarts included, three names (symmetric) | `TypeOK`, `NoSlotMeansFreeSlot`, `WalksEnd` hold |
| `rmdir` | does `rmdir`'s traversal end, in sessions of 9 commands that share blocks and remove parents | `RmdirEnds` holds |
| `careful` | ten commands of a careful user, names `a` and `a.c` (the stem of one is the other) | `OnlyTornGoesWild`, `VolumeSound`, `PathNamesCwd`, `HandlesLive`, `ImageSound` and `ImplementsTree` hold, with crashes between any two steps and inside a save |
| `write_twice` | does a second write replace the first | violated, finding |
| `open_twice` | does `open` select the file of the current directory | violated, finding |
| `root_name` | do path and current directory agree when a directory is called `root` | violated, finding |
| `reserved_block` | do the reserved cells stay reserved in any session | violated, finding |
| `driver` | callers, tests and loads of the driver, in any interleaving, with faults and failures | `StaysInside`, `LoneWriteStands`, `TestsInv`, `ModuleInv`, `EveryTestEnds` hold |
| `programs` | the monitor's pages, procUI and the copiers, in any order of timers, clicks, expose events, closes and failures | `MetersInv`, `CurvesSlide`, `MemSettles`, `SelectionLives`, `SearchShows`, `WindowsInv`, `FaultlessCopies`, `WaysOut`, `ProgramsEnd` hold |
| `tasks` | the set*id calls of two tasks in any order, the hook refusing at will; forks, exits, job control and subreapers of five processes | `CredentialsInv`, `RefsCounted`, `DropIsFinal`, `GroupsOnlyShrink`, `ImplementsPrivilege`, `JobsInv`, `NewSessionAlone`, `DescendantsFlagged`, `OrphansReachReaper` hold |
| `calls` | two tasks in the same kernel call at once; PR_SET_MM and setpriority while another process sets the limit they check | `LimitsInv`, `HardFalls`, `MapInv`, `PriorityInv`, `UsageInv`, `NameInv`, `EveryCallEnds` hold |
| `add_up` | does the window add up 1 to 100 | violated, finding |

### What the properties say

A property whose name ends in `Inv` is the conjunction of one part's type
invariant and its named safety invariants, each of which is stated and commented
in the part's module.

* *File system, careful sessions*: nothing goes wild but a start from a torn image
  (`OnlyTornGoesWild`); between commands the volume is sound (`VolumeSound`): reserved cells keep their value,
  no block has two owners and what is referred to is allocated, a free block is
  blank so that nothing deleted returns, each directory starts with its own two
  entries, lengths count the subdirectories; the path names the current
  directory; open slots refer to files that are there; while the program runs there
  is a whole image to fall back on, and every whole image is a sound volume
  (`ImageSound`); and every step does to the tree what Tree says, so that a command
  leaves the texts of other files alone (`ImplementsTree`).
* *Driver*: with positions up to the end of the buffer no byte outside it is
  touched whatever calls race (`StaysInside`); what a write that ran beside no
  other wrote is there when it returns (`LoneWriteStands`); runs of the test
  leave the three texts and print only bytes that were in the device
  (`TestsInv`: `TextStands`, `PrintsKnown`), and end (`EveryTestEnds`); the
  device file always has its number and class, a failed load and an unload leave
  neither, and unless a load failed after `cdev_add` nothing leads to a module
  that is gone (`ModuleInv`: `NodeServed`, `GivenBack`, `NothingStale`).
* *Monitor*: the curves are sliding windows (`CurvesSlide`), the CPU curve never
  holds anything but percentages (`MetersInv`: `CpuSampled`), the 0/0 with which
  the memory curve begins leaves it (`MemSettles`); `select_pid` points into the
  list that is there whenever a button can be pressed, and to the row that is
  highlighted (`SelectionLives`); what Search finds is in view (`SearchShows`);
  each listing ends (`ProgramsEnd`).
* *procUI*: the sum is that of the numbers before `now`, over every restart - that
  it never comes to 100 is finding 5 -;
  unless a fork failed the parent ends last and has waited for both; a usage not
  computed across a wrap is a percentage (`WindowsInv`: `SumOfNumbers`,
  `ParentLast`, `UsageBetweenWraps`); all ends once the windows are closed
  (`ProgramsEnd`).
* *Copiers*: without a fault and without another writer the target is the copy
  (`FaultlessCopies`); the address limit is lifted exactly inside `mycopy` and
  only calls that failed leave a descriptor open (`WaysOut`: `LimitLifted`,
  `OnlyErrorsLeak`); every copy ends, also two that read what the other writes
  (`ProgramsEnd`).
* *Credentials*: a task is counted in the account of its real user and without
  privilege the fsuid is among the ids held (`CredentialsInv`: `UserMatchesUid`,
  `FsuidAmongHeld`); the references add up (`RefsCounted`); a task that holds no
  root id has no capability and never gets a root id back (`DropIsFinal`); groups
  only shrink without CAP_SETGID (`GroupsOnlyShrink`).
* *Processes*: a group is within one session, a live session leader leads its
  session, a terminal belongs to the session that took it (`JobsInv`:
  `GroupWithinSession`, `SessionLed`, `TerminalOfSession`); a new session is
  empty (`NewSessionAlone`); the flag prctl spreads is on every descendant of a
  settled subreaper (`DescendantsFlagged`), and orphans go to the nearest one
  (`OrphansReachReaper`).
* *Limits* (`LimitsInv`): the lock is held by who is inside; the old limit
  returned is the one replaced; a soft limit is within the hard one, but for a
  CPU limit of 0 that the code makes 1; files are bounded; the timer is never
  later than the limit once the setters are through. A hard limit rises only with
  CAP_SYS_RESOURCE (`HardFalls`).
* *Other calls*: the map of memory is in order and, but for the one exec left, no
  larger than some RLIMIT_DATA there was, no reference to an executable is lost,
  the vector ends with AT_NULL (`MapInv`); nobody without CAP_SYS_NICE gets a
  better priority than he had or some RLIMIT_NICE of his own has allowed, the
  answer speaks of all tasks, references to users are balanced (`PriorityInv`).
  Both speak of a limit there *was*, since a limit may be lowered between the check
  and the store; what they exclude is that calls together make what no limit ever
  allowed. Usage is counted once and a child's as a
  whole (`UsageInv`); a reader gets one host name, as given, and a faulting setter
  leaves the old one (`NameInv`); every call but those on priorities, which wait
  for nobody, is shown to come back (`EveryCallEnds`).

### Bounds, and why they are enough

*File system.* The real volume has `NB = 1024`, `DS = 32`, `BlockSize = 1024`,
`HalfWord = 65536`, `StrayBlock = 130`, `LastWiped = 21`, `PartWiped = 17`,
`MaxOpen = 10`, `StackSize = 512`. The instances keep every ratio that matters:
entries `.` and `..` and two more, so a directory is filled by two names; two or
four data blocks, so that allocation fails, blocks are reused and chains have
three blocks; two slots, so that they run out; one pointer in `rmdir`'s stack in
`sessions`, so that it overflows, and eight elsewhere; `HalfWord` just above
`NB + 2`, so that lengths are still longer than any directory; `StrayBlock` a
data block in the careful instance, as 130 is on the real disk, and block `NB`
in `sessions` and `rmdir`; `LastWiped` such that one data block is beyond what
`format` clears; a text of 0 to `BlockSize` units and up to `MaxFlush = 2` full
blocks before the last. `MaxCommands` bounds a session; the steps inside `rmdir`
are free.

*Driver.* A buffer of three bytes, a text of two: it fits at the first two
positions and is cut at the last; lengths are counted modulo 8, so an unsigned
difference that wraps is larger than any count. Two threads and two open files,
shared or not. `MaxSeek` is the end of the buffer: beyond it `avail` wraps (see
below) and `StaysInside` claims nothing. Two runs of the test; three loads of
the module with two files open, so that a file opened on one load outlives it
into the next.

*Programs.* Rings of three samples, so that each wraps twice over and first
fills from zeroes; counters modulo `Cycle` = 3; `Watched` keeps a behaviour to
one page at a time, since the two meters share no variable but the timers'
order. Four process numbers, three listings (the first, one while a row is
selected, one after a kill), a window that shows a row and a half. procUI's
counters modulo 4, the sum in its real size. Files of none, one or three units
and a buffer of two: no read, a short one, a full and a short one; each copier
once.

*Credentials.* Root and two users, two groups. Either one task changes beside a
process of root (subject `one`) - user ids among three accounts, or user ids and
group ids together - or two tasks move between two accounts (`both`). A task's
ids depend on no other task; only the accounts are shared, which is the last
case.

*Processes.* Five processes, all but init alike (symmetry). `InGroups` or `Reapers`:
sessions and groups among four numbers, or subreapers among five processes
(three generations below a subreaper and one beside); the two parts share
the tree of parents only, and neither reads the other's fields.

*Calls.* Two tasks: all conflicts are between two. Five limits that are
ordered in every way with each other and the bounds; addresses up to 6 and
four fields that can be set, two executables, a vector of three pairs; nice
values 0 to 2; a child to be reaped; names of up to two bytes, lengths from
below 0 to that of the whole array. The guards `OneLimit`, `OnePart` and `OneCaller`
keep a behaviour to one resource, one part of the map, and the changes of one
task's ids: an exchange to and fro where both call, any effective id where one
does; and a task is in one call at a time (`OneCall`). In the subjects `DATA` and
`NICE` the capable task sets the other's limit to values below and above what the
requests need, at any time between the other's check and store.

`CHECK_DEADLOCK FALSE` where the system may stop: a session used its commands or
went wild, the windows were closed, the tests ran, the tasks ended.

### Fairness

Weak fairness of what the program does by itself once begun: `rmdir`'s loop; a
run of the test; main's timers; a listing; procUI's parent (and, inside
`ProgramsEnd`, the user's closing); each copier; each kernel call on
limits, map, usage and names. Strong fairness
only of taking a lock others take again and again - `mmap_sem`, `siglock`,
`uts_sem`, the task lock -, which the kernel's queues give. Nothing is assumed of
users: no command has to be typed, no button to be pressed.

### The careful discipline

What a user of the file system must observe for the volume to stay sound is
itself a result: room for entry and block in `mkdir` and `create` (`MindRoom`);
`rmfile` only of a file that is there and not open (`MindTarget`); `rmdir` only
of directories whose subdirectories are empty and which hold no file
(`MindContents`); no `cd` or `write` between a `close` and the next `open`
(`MindHandle`); paths within the array (`MindDepth`); `format` from the root
with no file open and nothing beyond the blocks it clears (`MindFormat`); text
that does not spill into a block in use, a successor for a full block, and a
third block only while the block hit by the stray store is unused (`MindSpill`).

`write` of more than one block to a file that already has several is still
allowed to a careful user: the old blocks stay in front, which is the finding of
`write_twice`; Tree says what such a write makes of the text, and that a first
one is read back.

### Findings

1. `rmfile` of a name that is not there deletes the first entry of the next
   block (`file.c:373`; `isfind` is set and never read). In a new volume it
   frees cell 0 and clears the boot block.
2. A second `write` to a file of several blocks leaves the first blocks as they
   were and fills the last (`file.c:257`).
3. `open` recognises an open file by its typed name only (`file.c:130`).
4. A directory called `root` is taken for the root by `cd` (`dir.c:248`).
5. "Show Add 1 to 100" starts again before 100 is added: the last sum is 4950
   (`procUI.c:52`, against `:137` and `:143`).

Also seen while modelling; no run is kept for these, the models show them:

* `rmdir` never frees the block of the directory it is asked to remove.
* `mywdriver_llseek` accepts positions past the end, after which `avail`
  (`myw_dev.c:61`) wraps and every length check passes; the comments on the two
  branches of the length check of `write` (`myw_dev.c:98-100`) are exchanged.
* `mycopy` tests `ksys_open` for -1, while failures are other negative numbers
  (`mycopy.c:39`): it goes on and may return 0 without having copied.
* copying a file onto itself truncates it before it is read (`copy.c:52`).
* the first memory usage is 0/0: the timer that divides (`sysmonitor.c:516`) was
  added before the one that reads the totals (`:965`, `:981`).
* each expose event takes a sample more (`sysmonitor.c:311`): the curve's axis is
  not seconds.
* Kill goes to `select_pid`'s number although the row was unselected, or the
  number given to another process since the listing (`sysmonitor.c:198`); the
  box that asks for root is shown for a process that has ended (`:200`).
* a process that ends while it is listed leaves the row before it twice
  (`sysmonitor.c:52`).
* the priority that is set may be better than the RLIMIT_NICE of that moment, and
  the map that is stored larger than the RLIMIT_DATA, which were lowered since the
  check (`sys.c:180`, `:191`; `:1999`, `:2021`): the ordinary race of a check with
  a limit that is set, and why `PriorityInv` and `MapInv` speak of a limit there
  was.
* the usage after the counters wrapped is none (`procUI.c:90`).
* the executable may be exchanged while the old one is mapped again: the scan's
  lock is let go before (`sys.c:1852`, `:1875`).

## 4. Proofs

Every safety property the runs check - the invariants and the action
properties, and two refinements - is proved by TLAPS for all values of the
constants that satisfy the assumptions named in the modules (each is evaluated
by TLC for every instance). Each proof has the same shape: an inductive
invariant that TLC agreed with first, one lemma that the initial states satisfy
it, one lemma per action that a step keeps it, one that it implies what the run
checks, and a last temporal step.

| Theorem | States | Module |
|---|---|---|
| `TypeCorrect`, `FreeSlotKept` | `TypeOK`, `NoSlotMeansFreeSlot` of every session | FileSystemProofs |
| `ChainEnds`, `WalksAlwaysEnd` | `WalksEnd` | FileSystemProofs, WalkProofs |
| `CarefulKept`, `GoesWildOnlyTorn`, `VolumeStaysSound`, `ImageStaysSound`, `HandlesStayLive`, `PathStaysCwd` | `OnlyTornGoesWild`, `VolumeSound`, `ImageSound`, `HandlesLive`, `PathNamesCwd` of careful sessions | CarefulProofs |
| `NeverOutside`, `LoneWrites`, `TestsStand`, `ModuleSound` | `StaysInside`, `LoneWriteStands`, `TestsInv`, `ModuleInv` | CharDriverProofs |
| `MetersKept`, `WindowsSlide`, `WindowsCount`, `SelectionStays`, `SearchScrolls`, `CopiesAgree`, `WaysOutClean` | `MetersInv`, `CurvesSlide`, `WindowsInv`, `SelectionLives`, `SearchShows`, `FaultlessCopies`, `WaysOut` | ProgramsProofs |
| `CredentialsKept`, `ReferencesCounted`, `DropFinal`, `GroupsKept`, `Implementation` | `CredentialsInv`, `RefsCounted`, `DropIsFinal`, `GroupsOnlyShrink`, `ImplementsPrivilege` | CredentialsProofs |
| `JobsKept`, `SessionsStartAlone`, `FlagsReachAll`, `OrphansAreReached` | `JobsInv`, `NewSessionAlone`, `DescendantsFlagged`, `OrphansReachReaper` | ProcessesProofs |
| `LimitsKept`, `HardLimitsFall`, `MapWhole`, `PrioritiesHeld`, `UsageCounted`, `NameWhole` | `LimitsInv`, `HardFalls`, `MapInv`, `PriorityInv`, `UsageInv`, `NameInv` | CallsProofs |

### File system

Assumptions: `SizesAssumption` (a directory has room for `.`, `..` and one
more; a half word counts further than the cells and than a directory's
entries), `NamesAssumption`, `ShellAssumption`.

*Every session.* `TypeOK` alone is not inductive: the steps inside `write` use
`slots[fp]` and `edit.id`, and those inside `rmdir` read the current directory,
so `TypeInv` adds `Editing` and `Removing`. The arithmetic is in `HalfWords`
(the stray store of a block number in the upper half of a length stays an
unsigned 32 bit number) and `IncDecType`. `WalkInv` says that table 1 is
`Walkable` (every non-empty set of cells without the root's has one whose link,
if any, leaves the set - no cycle, said without recursion - and no other cell
links to the root), in memory and in the image a start would load; that the
root's cell keeps its own number while the program runs; and that no entry, no
open file and no first entry of a block refers to the root, so that `rmfile`
and `dowrite` never free or extend the root's chain. A store of `END` or `FREE`
keeps `Walkable`; the only link ever made leads to a cell that is then marked
`END`.

*Careful sessions.* The theorems assume `Ordinary`: no name is `root` (finding
4 is what happens otherwise) and `rmdir`'s stack holds a block's entries
(`DS - 2 <= StackSize`; 30 and 512 in the code). `CarefulInv` is the longest
invariant of the project, because `VolumeSound` is claimed only between
commands and is not inductive even there:

* `Settled` is what holds between commands and inside `write`: the volume
  (`Volumed`, `Lengths`), the current directory's own entry (`Here`), the blocks
  along the path (`Walked`) and the open slots (`Held`). Beside `VolumeSound` it
  has what keeps it: every entry in use lies in the root's block or in a block
  that the entry of a directory names (`Housed`), so that freeing one entry's
  block leaves nobody else's entries in it; names within a block are different,
  so that a lookup that succeeds finds the entry meant; what has no name has no
  attribute (`Unnamed`); and the blocks along the path are all different, so
  that the name `cd ..` cuts off is that of the block it leaves.
* `Unlinking` is `rmdir` before its first pop: the length of the current
  directory is already one less than its subdirectories.
* `Emptying(D)` is `rmdir` inside its loop, when the entry is gone and the block
  `D` of the directory is not yet empty. Every statement about the volume is
  made with the entries in `D` set aside; what is left in `D` names empty
  directories that nothing else refers to (`Remaining`) and is either on the
  stack or ahead of the scan (`Pending`), so that none is left behind at the
  end; and the stack holds at most as many entries as the scan has passed, so it
  does not overflow.

A crash inside a save leaves none of this: `Torn` says that the program is off, or
wild from having started, and the host's file half written. What is invariant is
`Imaged /\ (CarefulInv \/ Torn)`, with `Imaged` for the image: whole while the
program runs, and a sound volume when it is whole. From `Torn` only the start
leads on, to `wild`, where nothing moves; that is `GoesWildOnlyTorn`.

The chains of files are sets (`Chain` is the least set that holds the first
block and what its cells link to), so "every block of a chain has one owner" is
proved from the definition of least sets, without an induction along the chain.

### Driver

`IInv` (`SizeAssumption`) adds to `TypeOK`: a call never passes its length,
which is what the check made of it (`CallInv`); positions of files are within
the buffer while seeks are (`Inside`); of two writers at once both are in
`mixed` (`Apart`); and for a writer outside `mixed`, what is behind its position
is cleared so far, and then is its text so far and NUL behind (`LoneInv`).

`TestsStand`: once some run is at its writes, each byte of the buffer is what
the script leaves there or will still be stored by a run that is at its own
(`StandsInv`, `Will`): what a run's `memset` takes from the others it writes
itself, the same bytes. `ModuleSound`: at each place of init and cleanup, what
is registered so far (`Registered`); no file is open before `cdev_add` has run
or while cleanup runs (`NoneOpen`).

### Programs

`ProgramsAssumption`, `MetersAssumption`. *Meters*: `IInv` says that a ring
before its first use is all zeroes (`Clear`), that the old totals are one reading
behind the counters exactly when the CPU timer is next (`Reading`, from which the
share is in 0 to 100 although the counters wrap), and that the CPU curve holds
shares (`CpuIn`); `WindowsSlide` is the refinement of LoadWindow, twice.
*Processes page* (`ListOf`): number 1 is always there, so that a listing has a
first row; nothing is highlighted during a listing. `SearchScrolls` holds for
every height of lines, title and window and any number of rows. *procUI*
(`WindowsOf`): which children there are at each place of `main` (`Family`), and
that the statics, which are longs, hold what the unsigned counters were
(`Kept`). *Copiers* (`CopyOf`): at each place of a call, what is open
(`Descriptors`) and that the target and the buffer together are the source as
far as it was read (`Halves`), for a call whose files nobody else changed.

### Kernel calls

*Credentials* (`CredAssumption`). The tasks are fixed: forks and exits are in
Processes, which has no accounts. `IInv` relates the parts of one credential
(`CredInv`: account and uid, capabilities and root ids, fsuid and the ids held)
and what a call has made of its copy with the credential it was copied from
(`Copied`). `ReferencesCounted` adds that the count of an account is the number
of credentials and of copies under way that refer to it (`Balanced`), by the
library's theorems on the cardinality of sets that gain or lose one member.
`Implementation`: every behaviour of the calls is one of Privilege.

*Processes* (`PidAssumption`). `GroupWithinSession` is not inductive: `IInv` adds
that leaders are those whose session has their number (`Leaders`), that the group
named after a live process is in its session (`NumberKept`), that a session named
after a live process is led by it (`SidLed`), `Terminals`, and for the subreapers
the one-generation invariant `FlagsDown`, from which the statement about all
descendants follows by a set argument instead of an induction.

*Limits* (`LimitsAssumption`). `IInv` says what a call carries from step to step
(`Calls`), what the holder of a lock knows of the two words (`Holders`), that a
limit whose lock is free is the one last settled (`FreeSettled`), and that a
timer later than its limit will still be set by a call on its way (`TimerComes`),
which is why the order of the setters outside the lock does no harm.

The theorems on limits and on the four parts that follow are about `CallsSpec`, in
which every store of `do_prlimit` may fall between the steps of the other parts.
`EachPart` shows that it implies the next-state relation of each part, with
`SetLimit` and `SetLimits` for what the limits do meanwhile.

*Memory map* (`CallsAssumption`, also of the next three). `MapOf`: the map a call
carries was found in order and within a limit that `peak` remembers, and its
vector ends with AT_NULL (`MapCarried`), so that writing them late or a pair at a time does no harm; a call holds a file as
`new` or `old` exactly at the places where it has still to give it back; and
`f_count` is the sum of the holds.

*Priorities.* `PrioOf`: a value that was let through stays one the task may have
(`LetThrough`), although others set the task before it is stored, because a
better value in between was itself checked against RLIMIT_NICE or set with
CAP_SYS_NICE, and `most_nice` remembers the limit it was checked against; the answer so far tells of the tasks so far (`Answers`); the hold
of a user that a call has found is the call's until its end, for its caller's
own user cannot change meanwhile (`FoundIn`).

*Usage.* `UsageOf`: while the lock is held, what a sample has added and the
threads it has still to visit come to no more than what was used and no less
than when it began (`Sampling`); the two counters of the children differ only
while a child is being reaped (`ChildrenCounted`). The model counts what threads
used as pairs of a thread and a unit, so that a sum is a cardinality.

*Host name.* `NameOf`: a name is whole while nobody writes it (`Shared`); a
writer's name is its own up to its position and the old one behind (`Partly`); a
reader's copy is the name up to its position (`ReadSoFar`). That the end of a
name - its first NUL - exists is an instance of the least-number principle of
the library (`WFMin` on the naturals), for one set.

### Only model-checked

Liveness (`RmdirEnds`, `EveryTestEnds`, `MemSettles`, `ProgramsEnd`,
`EveryCallEnds`), which the prover does not reach; and the refinement
`ImplementsTree`, whose mapping follows directories and chains by recursive
functions: that the mapping of a changed volume is the changed tree would be an
induction over the depth of a path. What the theorems give of it is that the
volume such a mapping is applied to is sound.

## 5. Not modelled

File system: `ls`, `h`, `read` and all printing; names of more than 10
characters and the buffers they overrun; the end of the input (inside `write`
`getchar`'s EOF makes the loop endless, in `operate` the last command is
repeated); the bytes of text. What `strcpy` spills over the end of a block is
taken to end within the 11 bytes of the name of the entry it meets there. `read`
is represented by what it would find (`ReadsBack`).

Driver: what it prints. Monitor: the layout of the window, the
labels that only show what was read (one action), the search of the fields in
`/proc` texts; that iowait may decrease. procUI: the window of the time; that
`sscanf` stores longs through pointers to unsigned ints - the fields come out
right because they are stored in order, what is overwritten behind the struct is
the compiler's choice. The error helpers of mywlib print and exit.

`sys.c`: `umask`, `times` (it reads `cutime` and `cstime` without `siglock`),
`sysinfo`, `getcpu`, `override_release`, the 32-bit variants, `setdomainname`
(the text of `sethostname` on another field), the options of `prctl` other than
the subreaper's and PR_SET_MM: each reads or sets one word of the caller
(PR_SET_KEEPCAPS, by `security_task_prctl`, would let a task that gives up root
keep its permitted capabilities; it is a hook outside the repository, and
`DropIsFinal` is claimed without it). What
these calls rely on from the rest of the kernel - fork, exit, the account table,
`exe_file`'s counts, `set_user_nice` - is modelled as far as they depend on it
and marked external. The count of a user's processes that `set_user` reads is
best effort by its own comment: two tasks may pass the limit at once, and the
model has it so. Process groups and capabilities are constant in Priority.

## 6. Plan

Done: the parts above, and a theorem for every invariant and action property of
the runs. What is left is `ImplementsTree` for all sizes: the step simulation,
command by command, over `CarefulInv`, with the directories reached and the
chains given as least sets instead of recursive functions; first for the
commands that leave the volume as it is (`open`, `close`, `cd`, a crash, a
start), then for those that change one entry.
