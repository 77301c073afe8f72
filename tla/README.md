# A TLA+ verification of libcap and libpsx

libcap sets and reads the POSIX.1e capabilities of Linux processes and files;
libpsx, kept in the same repository, makes a system call that changes the state
of one thread take effect on all threads of a process.  This directory holds
TLA+ models of the two libraries and of the programs of the repository that are
built on them, the TLC runs that check the models and TLAPS proofs about them.

## 1. Inventory

| Part | State it keeps | Operations | Meets |
|---|---|---|---|
| libpsx core, `psx/psx.c`, `psx/psx_calls.c`, `psx/libpsx.h` | one `psx_tracker`: a lock word, a state, the command, the map of thread references, the installed signal actions | `psx_syscall3/6`, `psx_set_sensitivity`, the handler of signal 33, `_psx_cleanup` at exit | the kernel (`tkill`, `/proc/<pid>/task`), glibc (the same signal), `fork`, the program's threads |
| libcap process operations, `libcap/cap_proc.c` | none of their own: the credentials the kernel keeps | `cap_set_proc`, `cap_setuid`, `cap_setgroups`, `cap_set_mode`, `cap_iab_set_proc`, `cap_drop_bound`, the ambient calls, `cap_set_secbits` | the kernel, through libpsx if it is linked |
| libcap launcher, `libcap/cap_proc.c` | `cap_launch_t`: a mutex, what was asked for; an IAB tuple it locks | the `cap_launcher_*` setters, `cap_launch` | a forked child, a pipe, the process operations |
| libcap objects, `libcap/cap_alloc.c`, `cap_flag.c` | `cap_t`, `cap_iab_t`: a mutex and three vectors | flag and vector operations, `cap_dup`, `cap_free` | each other (two-object operations), the launcher |
| libcap conversions, `cap_text.c`, `cap_extint.c`, `cap_file.c` | none | text, external and xattr forms | the file system, other processes that rename |
| number of capabilities, `libcap.h`, `cap_alloc.c` | `_cap_max_bits` | `_binary_search` over `prctl` | the kernel |
| name tables, `_makenames.c` | generated at build time | - | - |
| `pam_cap` | PAM data of one login, the arguments of the module | `pam_sm_authenticate`, `pam_sm_setcred`, the deferred `iab_apply` | process operations, IAB text, `capability.conf` |
| `progs/capsh.c`, `setcap.c`, `getcap.c` | capsh: the process itself, a child | a line of commands | all of the library |
| `contrib/sucap/su.c` | uid, terminal, PAM session and credentials | `main` and its phases, monitor and shell | libpam, `pam_cap`, the launcher |
| Go package `cap` | `scwMu`, `scwState`, the launcher's locked thread | the same as libcap | Go runtime, package `psx` |
| Go package `psx` | none | a choice of two implementations | libpsx |
| tests, goapps, kdebug, other tools and contrib | none | command lines | the libraries |

What is hard here, and what would make each part correct:

* **libpsx core.**  No other mutual exclusion between the threads of a process
  than a word that holds a pid; a handler that takes the same lock as the code
  it interrupts; threads that start and end while they are being counted; a
  signal number shared with glibc; `fork` and `exit` at any moment.  Correct
  means: when a call comes back every live thread has executed the command,
  exactly once; no thread leaves the handler before that; no handler survives
  its call; the call comes back; a forked child can use the library.
* **Process operations.**  Each reads the capabilities, raises something, makes
  several system calls and lowers the Effective flag, without a lock and with
  most results ignored.  Correct means: what was asked for holds if 0 is
  returned, nothing else has changed, the Effective flag is empty on every
  path, and privilege that was dropped for good does not come back through
  another thread's stale copy.
* **Launcher.**  A child that performs five operations in an order that matters,
  any of which can fail or be cut short, and reports through a pipe whose write
  end other children inherit.  Correct means: no program without all that was
  asked for, the parent's result tells the truth, `cap_launch` returns, and an
  IAB tuple does not change while a launcher has it.

* **Objects.**  Test-and-set mutexes without owner or queue; sets copied and
  changed word by word; operations on two objects; a mutex that is copied with
  the object.  Correct means: operations are atomic, tuples stay applicable, and
  only an IAB that belongs to a launcher is waited for without end.
* **Forms.**  Kernels with fewer or more capabilities than the library has
  names for, two ABIs, three revisions of the attribute, one Effective bit per
  file.  Correct means: conversions lose nothing, a file holds what it was asked
  to hold, and a rename in the middle changes no other file.
* **capsh.**  Raises and restores around single system calls, commands made of
  two operations, lines that go on in a new image.  Correct means: a command
  changes what it is named for and nothing else, on failure too.
* **su with pam_cap.**  A privileged program that changes its uid five times, a
  configuration read twice, a tuple that must reach the child and only it, a
  dozen error exits, kills and hang-ups at any moment.  Correct means: the shell
  is entitled and gets its rule's tuple, the monitor keeps nothing of it, the
  session is closed on every path that ends in `exit()`, the status is the
  shell's, and su ends.

`PROJECT.json` lists the hazards with their lines.

## 2. Modules

| Module | Models | Notes |
|---|---|---|
| `AllThreads` | what `psx_syscall` promises | abstract; no signals, no lock |
| `Psx` | libpsx core | one action per critical section or system call |
| `PsxMap` | the thread map: growth, rehashing, answers | the hash is a parameter; `MCPsxMap` has `psx_mix` |
| `PsxProofs` | theorems about `Psx`, its refinement of `AllThreads` included, and about `PsxMap` | TLAPS |
| `Creds` | the kernel's rules for credentials | external, operators only |
| `CapProc` | the operations of `cap_proc.c` over `Creds` | one action per system call |
| `CapProcProofs` | theorems about `CapProc`: whatever interleaves, and what one undisturbed call does | TLAPS |
| `CapLaunch` | launchers, IAB ownership, parent and child | extends `CapProc` |
| `CapLaunchProofs` | theorems about `CapLaunch` | TLAPS; extends `CapProcProofs` |
| `CapObjects` | `cap_t`, `cap_iab_t`, launchers in shared memory | one action per mutex operation and word |
| `CapObjectsProofs` | theorems about `CapObjects` | TLAPS |
| `CapForms` | `cap_max_bits`, text, external and xattr forms, IAB text | operators only |
| `FileCaps` | `cap_set_file`, `cap_get_file`, setcap, getcap, converting programs | extends `CapForms` |
| `CapFormsProofs` | lemmas about the forms: what is converted back is what was converted | TLAPS |
| `FileCapsProofs` | theorems about `FileCaps` | TLAPS; extends `CapFormsProofs` |
| `Capsh` | `capsh` | extends `CapProc` and `CapForms` |
| `CapshProofs` | the theorem about `Capsh` | TLAPS; extends `CapProcProofs` and `CapFormsProofs` |
| `PamCap` | `pam_cap.so` | extends `CapProc` |
| `SuCap` | `contrib/sucap/su.c` with `pam_cap` in its stack | extends `PamCap` |
| `SuCapProofs` | theorems about `SuCap` | TLAPS; extends `CapProcProofs` |
| `MC...` | model values, starting states, inputs, symmetry | one per family of runs |

### Psx

A thread has two frames, ordinary code (`pc`) and the handler on top of it
(`hpc`).  `psx_lock` is one step and the body of a critical section up to
`psx_unlock` the next, so that a signal can hit a thread that holds the lock;
between two critical sections everything interleaves.  `mu` holds 0 or a pid
and `_psx_mu_lock` succeeds unless it holds *this* pid: that is what makes a
lock held at `fork()` harmless in the child.  A behaviour follows one process
image; `Fork` moves to the child's image.  The map is a function from threads
to entries (blank, or pending, or answered with a result that equals the
caller's or not); `seen`, `buf`, `cur`, `some`, `inc`, `mismatch` and `verified`
are the locals of the sweep.  `getdents64` returns any subset of the listed
threads that are not yet returned, at most `BufEntries` of them, and ends only
when every task that exists has been returned: this is what procfs gives, since
it walks the thread list in order and new threads are appended.

Left out: the errno of the caller and what is printed; the command's arguments
(a number stands for a call).

### PsxMap

The map of `Psx` as the hash table it is.  `slots` holds the slots that are not
blank; a thread whose slot is another's makes the caller double the table until
the two differ (`Grown`), and the entries of this sweep and the last are copied
over, later ones over earlier ones.  The hash function and the sizes are
constants: any hash that some size separates will do (`MixAssumption`), and
`psx_mix` with the powers of two is what `MCPsxMap` gives.

### CapProc and Creds

With libpsx linked a state-changing system call acts on all threads at once, so
`creds` belongs to a process and one system call is one step; `AllThreads` is
the specification that justifies this, and `Psx` is shown to implement it.
`frame[t]` is the call a thread is in: its program point, its working `cap_t`,
the bits left to do and the result so far, with two history fields, the
credentials when the call began and whether another thread has changed them
since.  `Creds` gives for each system call when it succeeds and what it leaves;
it keeps one uid and one gid, no user namespaces, and covers kernels with and
without the ambient set.  Out of memory is a choice (`AllocMayFail`).

### CapLaunch

The threads of `CapProc` are the children, each its own process.  A child goes
through callback, the five operations in the order of `_cap_launch`, exec, or
to `defer`, where it writes its errno and exits.  `pipe[ch].w` is the set of
processes that hold the write end of a child's pipe: a fork copies every write
end the parent has open, exec and exit close them.  `cap_launcher_set_iab` is
two steps, unlocking the old tuple and locking the new one, with the launcher's
mutex held.  What the program may do is a `plan` chosen initially: threads,
launchers, settings and how many of each, whether signals arrive.
`cap_launcher_set_chroot` may find no memory and then stores NULL and returns 0;
`want[l]` (history) is the directory it was given.  `read` and `waitpid` may be
interrupted, each by a signal of its own, and `eintr[t]` (history) says which
were; a `waitpid` that is not interrupted returns when the child is gone and not
before.  Freeing launchers is in `CapObjects`.

### CapObjects

Two threads call operations of `cap_alloc.c` and `cap_flag.c`.  A frame goes
through `lock_ref`, `copy` (a step per word), then `lock` and `work` (a step per
word), as the code does: a private copy of the second object under its mutex,
then the first under its own.  One capability of each word is followed, so that
a set of capabilities is a set of word indices.  `mu` is a Boolean: the mutexes
have no owner.  `cap_dup` copies the word of the mutex as well and then unlocks
both.  Only `cap_free` of an object no call is using is an action: freeing one
that is in use is an error of the program the library does not guard against.

### CapForms and FileCaps

A library is what it found when it was loaded: `cmb` by bisection, the ABI
version, and whether names are looked up by the perfect hash (`gperf`), which
decides if names of capabilities the kernel lacks are understood.  A text is a
sequence of clauses (a set of names and numbers, or "all", which forgets the
names before it; then operators with flags, of which only the first may be "=");
letters and spaces are left out.  The external form is a sequence of
bytes per flag; the attribute a record of revision, size, Effective bit, two
sets and a rootid, so that wrong sizes and unknown revisions can be read.

`FileCaps` has one process in one of four roles: setcap or getcap over a command
line, or a program that converts its `cap_t` or `cap_iab_t` between the forms.
Every system call of `cap_set_file` and `cap_get_file` is a step, and `Rename`
may change what the path names between any two.  `-v`
replaces a missing set by an empty one on both sides of the comparison, as the
code does; what is set or removed is kept apart.

### Capsh

One process obeys commands until one fails.  Commands that call several libcap
operations take the steps of `CapProc`; those that are system calls of their own
are one step (`Call` begins one, `Stepping` takes its steps, `Returns` its
result).  `==` and `--` go through `Execve`, with file capabilities of the
program.  The forked child of `--forkfor` is kept as what became of it.  `--inh`
goes by way of text as the code does: the flags without I are written with
`cap_to_text`, a clause is appended and the whole is read again.  What the
arguments of the commands are is `ArgumentOK`; the process makes no calls of
`CapProc` but those of its commands, which is why `MaxCalls` is 0 in this run.

### PamCap and SuCap

`PamCap` gives the choice of the rule (`read_capabilities_for_user`: groups, `*`,
the default, a file that is missing, cannot be examined or is writable by others,
a rule whose text cannot be stored), what `pam_sm_authenticate` and `set_capabilities` answer, and when the destructor of
deferred data applies the tuple.  `SuCap` walks through `main`: unkillable,
authenticate, account, credentials (groups, uid, raise, `pam_setcred`), terminal,
session, launch, monitor, wait, close, delete, `pam_end`, exit.  Each libcap call
in it is a sequence of `CapProc` steps, and at each may come a `Kill` (SIGKILL
from a process of the uid su has) or, from the kernel and whatever the uid, a
hang-up or an alarm (`Signalled`): they are fatal until `prepare_for_job_control`
blocks every signal (`guarded`), and an alarm again once `wait_for_child` has
unblocked it.  A `waitpid` that fails (`WaitFails`) leaves the status to whatever
the uninitialised variable holds.  A second `PAM_ESTABLISH_CRED` on one handle
(`PAM_DATA_REPLACE`) does not happen in su and is left out, and so are the
kernel's own SIGKILL when memory runs out and the reuse of a pid.  The other
modules of the PAM stack answer as they like; libpam returns the first failure of
a stack of required modules.  The configuration can be edited at any time.

## 3. Runs

All passing runs have all their states explored.  Deadlock is checked in
`psx_live`; in the others it is off because the bounded program stops, or
because the run allows what makes the library hang.

| Run | Instance | Shows |
|---|---|---|
| `psx_hostile` | 3 threads, 2 callers, 2 calls, ids reused, leader may turn zombie, one foreign signal 33 (not by tkill), `exit()` at any moment | lock and call exclusion, all live threads have executed the command when the barrier falls, once each, no straggler, barrier, the right handler is installed, no answer lost, divergence reported exactly, nothing freed is used |
| `psx_live` | 3 threads, 1 caller, 2 calls, sensitivity set, one `fork` | every call returns, in a forked child too; `Psx` implements `AllThreads` |
| `psx_map` | ids that collide at 256 and at 512 slots, 4 sweeps | growing the table ends, loses no answer and invents none |
| `psx_two_callers` | as `psx_live`, 2 callers | **violation**, see below |
| `capsh` | one command from every state of two capabilities, securebits of 7 kinds, both kernels; lines of three of some fifty commands from usual states | each command and each library operation does what it says and nothing else, on its failing paths as well |
| `cap_races` | 2 threads, 2 calls each out of 15, out of memory at any read | NOPRIV and the locked modes are for ever, whatever interleaves |
| `cap_mode_race` | 2 threads, `cap_set_mode(NOPRIV)` against `cap_setuid` | **violation**, see below |
| `launch` | four plans: one launcher with up to 3 settings (7 starting credentials; 2 settings or, as root, 3); two threads that launch at once with interrupted reads and waits; two threads, launchers and tuples | the program is as configured, but for a root directory there was no memory for; what the result means; every `cap_launch` returns unless a program that never ends is waited for after an interrupted read; a tuple has one owner and does not change under it |
| `launch_chroot` | one launcher, one setting, memory may run out | **violation**, see below |
| `objects` | 2 threads, 2 calls each out of 25, 2 objects of each type, 2 words | mutexes have one holder, operations are atomic and right, A stays within I, calls return |
| `su_session` | 4 target users (one root, one TEMP_UID, one unknown), 9 credentials su starts with, 3 states of the configuration, 4 sets of arguments, one edit, any kill, hang-ups and alarms, waits that fail | who gets a shell and with what, what the monitor keeps, what is cleaned up, who can kill su where, that su ends unless its shell runs for ever |
| `file_caps` | 2 words of 2 one-bit bytes, 3 names; kernels with 0, 2, 4 and 5 capabilities; 2 files, a link, a directory; 2 operations, 1 rename | bisection, round trips, what files hold, what setcap's exit status means, no other file changed |

**Why the bounds are enough.**  Three threads are a caller, one that is already
interrupted and one that starts or ends meanwhile; two callers and two calls
let a handler of the first call meet the second.  The counting arguments do not
depend on the number: the safety properties of `psx_hostile` are also proved
for any number.  Two capabilities are CAP_SETPCAP, which the code treats
specially, and one that is not; the operations treat bits independently.  The
other special capabilities share a bit, so a thread can have all or none of
them; no operation needs two.  Three settings of a launcher cover each pair of
operations with a third between them.  Two launches at a time are enough for
one pipe to be inherited by the other child.  In `objects` a torn copy, a
two-object deadlock and a leaked mutex each need two threads, two objects and
two words.  Two words of two bytes have a partly used byte row and both sides of
the word boundary; the kernels of `file_caps` have no capabilities, fewer than
names, as many as a `cap_t` has bits, and more.  One edit of the configuration is enough
to fall between the two readings.  A line of three commands is one that
prepares, one that acts and one that finds out.  `MaxCalls`, `MaxForks`,
`MaxForeign`, `MaxSweeps`, `MaxEdits`, `MaxFiles`, `MaxOps`, `MaxRenames`, the
length of a line and the `sets` and `launches` of a plan are the only bounds on
behaviours.

**Symmetry** is used over the two threads of `cap_races`, which no action tells
apart and of which no liveness property is checked.

**Fairness.**  `Psx`: the kernel schedules each thread that can run and delivers
signals that are not blocked (weak fairness); `_psx_mu_lock` is an exchange in
a loop with `sched_yield`, with no queue, so that strong fairness is needed of
a thread that keeps trying.  Nothing is assumed of the program's own code: it
may never call, start or end anything.  `CapLaunch`: parent and child run, and
callbacks return; a launched program need not end, and no signal need arrive
(`ReadInterrupted` and `WaitInterrupted` are not fair).  `CapObjects`: a thread inside
a call runs; weak fairness is enough, since with a bounded number of calls a
mutex that is released stays free for the one that waits.  `SuCap`: su and its child up to its exec are
scheduled; the shell may run for ever, and nothing is assumed of who kills, hangs
up or edits.

**Mutants.**  Each property of each passing run is shown to be refuted by a
change of the model that a plausible error in the code would make; the changed
definitions stand beside the ones they change.  A property with several parts
has a mutant for each part that an error of its own could break.

## 4. What the code does not do

`psx_two_callers`: two threads call `psx_syscall` at the same time.  The second
is interrupted inside a `psx_lock` section (waiting for the state in
`psx_new_state`), the handler asks for the lock its own thread holds and spins,
and so does everyone.  Signal 33 is blocked only in `psx_confirm_sigaction`.

`cap_mode_race`: another thread's `cap_setuid` clears the Effective flag of the
process while `cap_set_mode(CAP_MODE_NOPRIV)` drops bounding bits; the results
of the drops are ignored, and 0 is returned with the bounding set intact.  What
NOPRIV leaves in P, I and A is nevertheless right (`NoprivForever`).

`launch_chroot`: `cap_launcher_set_chroot` stores what strdup returned without
looking (`cap_proc.c:966`) and returns 0; without memory the program is launched
outside the directory, where `doc/cap_launch.3:152-154` has the launch fail.

Met while modelling, and recorded as hazards; the runs exclude them by a bound
or an exception named in the property:

* glibc's setxid signal that reaches a thread before the sweep lists it:
  caller and thread then wait for each other (`psx.c:415`);
* a child forked after `_psx_cleanup` leaves the EXITING state and uses freed
  memory (`psx.c:149`, comment at 179); a foreign signal 33 does too;
* a zombie leader, or an id reused within a call, keeps the sweeps going;
* `fork` between the two assignments of `psx_set_map` (`psx.c:86`);
* `cap_setuid` with keep-caps locked off loses the permitted set and returns 0
  (`cap_proc.c:612`);
* two `cap_setuid` in one process share the keep-caps bit;
* `cap_launch`: a handler of the caller without SA_RESTART interrupts its `read`,
  and EINTR is not EAGAIN (1132), so that it waits for the program it launched,
  however long that runs, and returns -1 (the exceptions in `ResultIsTrue` and
  `LaunchReturns`); a function launcher gives the pid of the child (1144), where
  `doc/cap_launch.3:57-60` has 0 for a launch without a program; a child killed
  before its exec looks launched; the child's errno is replaced by ECHILD (1137,
  against the comment at 860-862).

Of the forms and file capabilities:

* `cap_set_file` takes an Effective flag larger than P and I and stores the union
  of the two (`FileHolds`); setcap refuses this on its own (`SetcapDid`);
* a library built without gperf does not understand names of capabilities the
  kernel lacks, and prints them by name when a file has them; with the first ABI
  a text loses the upper word; `cap_iab_to_text` leaves out what the kernel lacks
  (all three are the exceptions in `ConversionsPreserve`);
* `doc/cap_from_text.3` has a flag that is both set and cleared in one clause as
  an error, which `cap_from_text` accepts; "all" after names forgets them, those
  of bits beyond the kernel's included (`cap_text.c:191-193`);
* `setcap -v` takes a missing set, an unreadable one and a missing file for an
  empty set (`setcap.c:214-228`): `setcap -v = file` says OK for a file without
  capabilities, where `doc/setcap.8:38-41` calls the two "not the same" (named in
  `SetcapDid`).

Of capsh: a failed `fork` leaves `child` at -1, and `--killit` then signals every
process of the user (803, 810); `--has-a` and `--has-b` take the -1 of an unknown
bit for a yes.

Of pam_cap: with `autoauth` a user who is not in the password file passes; a
deferred tuple that cannot be applied is ignored (`iab_apply`); authentication
and credentials read the configuration separately, as the comment at 440-445
says.

Of su (`contrib/sucap/su.c`):

* 1155 compares a pointer with `PAM_SUCCESS`, so that `utmp_open_session` always
  fails and `su -` never starts a shell;
* 556 and 564 signal the shell as TEMP_UID and without CAP_KILL, although the
  comment at 449-452 counts on it: su then waits until the shell ends (the
  exception in `SuEnds`);
* between the exec of the shell and 1428 the target user can kill su, and so can
  processes of TEMP_UID later; and SIGHUP, which `disable_terminal_signals` (236-249)
  leaves out, kills su with the session open up to the wait for the shell (the
  exceptions in `CleanedUp`);
* who starts su with SIGCHLD ignored makes both its waits fail, and su exits with
  what an uninitialised variable holds (579), against "transparent exit" (1637; an
  exception in `CleanedUp` as well);
* a failed `make_process_unkillable` leaves without `pam_end` (1504), and a
  terminal that cannot be examined without `PAM_DELETE_CRED`; a failed `fchown`
  leaves CAP_CHOWN raised;
* the rule "all" passes nothing on, since su clears its Inheritable flag again.

## 5. Proofs

All theorems hold for every value of the constants that satisfies the named
assumptions of the modules; TLC evaluates those on the runs.

### The libpsx protocol: `PsxProofs`

From the assumptions that `Threads` is finite, with `Main` and `Callers` in it, and
that the bounds and switches have their types: `TypeCorrect`, `MutualExclusion`, `EveryThreadRan`,
`NoHandlerLeft`, `BarrierIsKept`, `HandlerStays`, `MismatchIsExact`,
`NoAnswerLost`, `ExecutedOnce`, `MemoryOutlivesUse` and `Refinement`.

None of the properties is inductive.  The invariant `Inductive` is the
conjunction of the first of them with:

* `LockInv`: who is inside the lock is live and at a point where one can be;
  `mu` and `tpid` never run ahead of `pid` (a fork only makes `pid` larger);
* `FrameInv`: a thread that is not live runs nothing;
* `GatherInv`: while a caller gathers, a thread whose entry is answered is alive
  and held at the barrier - so it cannot clone or end behind the sweep's back;
* `SweepInv`: within a sweep, as long as nothing pending was met, all threads
  accounted for are at the barrier; when the sweep ends so, all tasks were;
* `CountInv`: `inc` is the number of threads accounted for;
* `DoneInv`: with the barrier down every live thread has executed the command;
* `DrainInv`: `incomplete` is the number of threads still in the handler;
* `IdleInv`: with nobody gathering or draining no handler does library work.

The argument for `EveryThreadRan`: a sweep that met nothing pending has seen
every task, and every one of them at the barrier, where it can start no thread;
so no thread exists that it has not seen.  `CountInv` makes `incomplete` exact
when the barrier falls, `DrainInv` keeps it so, and zero means nobody is left.

`Strong` adds what the others need: `HandInv` (the library's handler is installed
from the caller's own system call to its last `tkill`), `RanInv` (a thread not
held at the barrier has the command still before it), `DivergenceInv` (`mismatch`
is set with cause only, and has taken in all threads accounted for when a sweep
met nobody pending), `SignalInv` (each signal of the library has one pending
entry behind it and is used up before that entry is answered) and `ForeignInv`.

Three of the theorems have a hypothesis, which names a defect that §4 lists and
that `psx_hostile` excludes by its constants as well:

* `NoAnswerLost` and `ExecutedOnce`: `"tkill" \notin ForeignKinds`.  A signal 33
  that libc sends with `tkill` is taken for the library's own, and the thread
  executes the command before it is listed (`psx.c:415`).
* `MemoryOutlivesUse`: `MaxForks = 0`.  A child forked by a process that is
  exiting resets the state to IDLE although `_psx_cleanup` has freed the memory
  (`psx.c:149`).

`Refinement` is `Spec => ImplementsAllThreads`, the specification of `AllThreads`
under the mapping `Phase`: gathering begins with the caller's own system call and
ends at the release, so the step at which the barrier falls is the one at which
`AllThreads` demands that all have executed the command; that is `DoneInv`.

### The thread map: `MapIsExact` of `PsxProofs`

For any thread ids, results and number of sweeps, any chain of sizes of which
each divides the next (`SizeAssumption`), and any hash that some size separates
(`MixAssumption`).  `MapExact` speaks of the threads that live; the invariant
`MapInv` has to speak of the slots.  `WellPlaced`: an entry is in the slot of its
thread, and that thread was sent the signal.  `ThreadsInv`: a thread still to be
visited lives, and one that was not signalled has no result.  `KnownInv`: a live
thread that was signalled has its entry, right and marked with this sweep or, if
it is still to be visited, with the last.  That is why the entries that are
copied when the table grows are enough.  They stay apart because a larger size
is a multiple of the smaller: two threads with different slots in the old table
have different ones in the new.

### The operations of cap_proc.c: `CapProcProofs`

For any number of threads, processes and capabilities, any calls and any starting
credentials.  `CallsAssumption` gives the arguments of the calls the types of the
C interface; `CapProcAssumption` says that a process starts with credentials the
kernel can give it (E within P, A within P and I).

What holds whatever interleaves is `TypeCorrect`,
`NoprivIsForever`, `PureIsPermanent`.  The invariant is `CapInv`.
`NoprivForever` needs two additions (`NoprivInv` and
`Clearing`): the Effective flag of such a process is empty too, without which
the Inheritable flag could be refilled by a thread with CAP_SETPCAP raised; and
a thread on its way through `cap_set_mode(NOPRIV)` has an empty Inheritable and,
after the bounding bits, an empty Permitted flag in its working copy.  Each
system call is first shown to undo neither an empty nor a sealed process
(`Legal`); each step of an operation is then one such call and one move of its
frame.  `PureIsForever` follows from the same lemmas, since what `cap_get_mode`
answers depends on the seal alone.

What one call has done when it returns and nobody else has
changed the credentials since it began is `ModeIsReached`, `CallsAreContained`,
`IabIsExact`.  The invariant `Tracking` says, for each program point of each
operation, how the credentials of now relate to those of the start (`Follows`).
Two things made it necessary to say more than the properties do.  The loops of
`cap_set_mode` and `cap_iab_set_proc` work through a sequence, so that it must be
known that every bit not yet done is still in it (`Among`).  And the last step,
which lowers the Effective flag, has its result ignored: it is shown to succeed
because the working copy never exceeds what the process has, or, where
`cap_setuid` lost the Permitted set, because there is nothing left to lower
(`Keeps`).  `Kin` (what a call of each kind leaves alone at every one of its
steps, successful or not) and `Shape` (the fields of a call that its steps do
not change) are for the programs that make several calls in a row.

### The launcher: `CapLaunchProofs`

From the assumptions above and `CapLaunchAssumption` (each child is a process of
its own, the plans are well formed, a child can make the five calls of a launch):
`LaunchTypeCorrect`, `ProgramsAsConfigured`, `ResultsAreTrue`, `IabIsStable`.

* `ParentInv`: a launcher's mutex is set exactly while some thread is between its
  lock and unlock (`MutexInv`), and an IAB's mutex exactly while a launcher owns
  it, except between the two steps of `cap_launcher_set_iab` (`OwnerInv`).
  `IabIsStable` follows.
* `KidsInv`: a thread between fork and wait has a child no other thread has; the
  data in the child's pipe is the child's errno or nothing; the write end is held
  by the child itself until it execs, fails or dies.  End of file before any data
  then means exec or death, and `ResultsAreTrue` says so of the value returned.
* `HeardInv`: a thread that waits, or has returned -1, has read an errno or was
  interrupted in `read`; one that has returned -1 has outlived its child or was
  interrupted in `waitpid`.  The exceptions of `ResultIsTrue` are thereby those
  that the code really has, each tied to the signal that makes it.
* `RootsInv`: a launcher holds the directory it was given or, where memory may run
  out, none; a child has the same of both.
* `StageInv`: while a child is in its n-th operation, the n-1 before had done what
  was asked (`Did`) when it began, and `Tracking` carries that to its end.
  `ProgramsAsConfigured` needs that `cap_set_mode` and `cap_iab_set_proc` undo none
  of the earlier ones, which is `Kin`.

### Objects: `CapObjectsProofs`

For any number of threads, objects, words and any calls: `TypeCorrect`,
`Atomicity`, `AmbientIsInheritable`.  The invariant is `Inductive`: `HolderInv`, a
mutex is set exactly while one thread is inside its critical section or, for an
IAB, a launcher owns it; `CopyInv`, the words copied so far are those the other
object has now; and `WorkInv`, the words done are the new ones and those not done
the old ones.  The last two are stable because of the first.  The Ambient set
stays inside the Inheritable one at each word, and not only between the
operations.

### Conversions: `CapFormsProofs`, and `NothingLost` of `FileCapsProofs`

For any number of words, bytes and bits, any number of names, any kernel.

* `Bisection`: `_binary_search` ends with the highest capability there is, since
  its lower bound always answers and its upper one never does.
* `TextRoundTrip`: `cap_from_text` of `cap_to_text` is the same object, if its
  bits can be spoken of (`Speakable`, the exceptions of §4).  `cap_to_text` begins
  with the combination of flags most capabilities have and goes on with one clause
  for each other combination; `Written` says that of its text, and `Turns` that a
  clause makes of the flags it finds those the object has, for the bits it names,
  and leaves the other bits alone.  Reading is then followed clause by clause
  (`FromTextThrough`): what is read is right on the bits named so far.
* `ExtRoundTrip`: what `cap_copy_int` reads from the bytes `cap_copy_ext` wrote is
  the same object, bit by bit through division and remainder.
* `IabRoundTrip`: the text of a tuple gives back the tuple as far as the kernel has
  the capabilities.  `PidExact`: what is read from `/proc` is what the process has.

`NothingLost` carries these through a program that converts as often and in
whatever order it likes (`ConvInv`).

The functions are recursive, and the induction theorems of the library take an
operator as a parameter, which the provers cannot instantiate.  `UpTo` therefore
states induction with a set, and `Recursion` what it gives for a function
defined by recursion.  `Least` of `CapProcProofs`, which says the same by the
least counterexample, is what `Flattened` rests on.

### Files: `FileCapsProofs`

For any number of words, bytes and bits, kernels, files, command lines and
renames: `TypeCorrect`, `HighestCapabilityFound`, `NoOtherFileChanged`,
`FileHoldsWhatWasSet`, `SetcapDidIt`.
`LogInv` says of each entry of setcap's history, if no later one set the same file,
that the file is as it was left (`Kept`): it has exactly the set of that entry, or
no attribute after a removal; a file that was verified still equals what it was
compared with.  `SetcapDidIt` is that at the exit.  The other files are untouched because the
inode is the one `open` returned, whatever the path names since.

### capsh: `CapshProofs`

`CommandsContained`, for any lines of commands, users, programs with file
capabilities and credentials capsh starts with.  `CapshAssumption` says that
capsh is one process of one thread, that its arguments are what the commands
take, and that its kernel has no more capabilities than a `cap_t` has bits.  The
invariant `ShInv` is `CapInv` and `Tracking` of `CapProcProofs` and:

* `CallOK`: between commands no call is under way, and `--user` is inside
  `cap_setgroups` begun with the credentials before the command, or inside
  `cap_setuid` begun with what the former left (`UserCalls`): the user's groups,
  and the Permitted flag and securebits of before;
* `BoundsOK`: a process in which `cap_set_mode(NOPRIV)` returned 0 has an empty
  bounding set.  Without it `CapInv` does not survive `execve(2)`, which gives
  root all of B.  That it holds is the difference between one thread and two
  (`cap_mode_race`).

For the commands of one step, `DuringIs` says that raising CAP_SETPCAP, or trying
to, changes the Effective flag alone; the capset which restores must succeed for
`--drop` and `--chroot` to go on, and it gives back the flags of before.  `--inh` rests on `TextRoundTrip` and on what one more clause does
(`PlusIs`): nothing of P and E is lost on the way through text.

### su with pam_cap: `SuCapProofs`

For any password file, groups, configuration files, arguments of the module and
credentials su may be started with: `ShellIsEntitled`, `ShellIsAsConfigured`,
`MonitorIsShed`, `SuCleansUp`.  `SuAssumption` says that su and its shell are
processes of one thread each and that ids are ids; `PamCapAssumption` that a
rule with a tuple has a well formed one.  The invariant `SuInv` is that of
`CapProc`, `Tracking`, and:

* `ControlInv`: what the PAM stacks have granted at each point of `main`
  (`Progress`); which points are possible while a shell lives (`Following`);
  whose the terminal is (`Terminal`).  The first half of `CleanedUp` follows;
* `Signals`: whose the status is, from where on hang-ups do no harm, and which
  signal has killed su where; for SIGKILL this needs the uid su has there;
* `CallIs`: which call of libcap each process is in and with which argument, so
  that what `Tracking` says about the call can be used when it returns;
* `Identity`: whose uid, gid and groups su has, and the shell once it is forked;
* `Holdings`: the Permitted set is still that of the start until the fork, so
  that the capset calls of `main`, made from the `cap_t` of the start, keep it;
  and from the shedding on the Inheritable flag is empty, in the process and in
  the working copy of `cap_setuid`;
* `Tuples`: the rule read by `pam_sm_setcred` is applied in su, or kept with the
  PAM handle, or lost, and never two of these; until then the Inheritable and
  Ambient sets are empty.

`ShellAsConfigured` is the delicate one.  A capset call writes all three flags,
so a tuple that was applied in su survives up to the fork only because those
calls read the flags first; and a tuple that is applied in the child starts from
empty sets only because su emptied its own before `pam_setcred`.  The line of
`capability.conf` a rule comes from is the first that covers the user, which is
a `CHOOSE` of the least index; `Least` of `CapProcProofs` says there is one.

### Model-checked only

Liveness (`CallReturns`, `LaunchReturns`, `CallsReturn`, `SuEnds`), which TLAPS does
not reach; that `psx_mix` is one-to-one, which the proof about the map assumes of
its hash.  Every safety property of a passing run is a theorem.

## 6. Not modelled, and the plan

Worth adding, in this order:

1. The Go package `cap`: `scwMu`, `scwState` and `scwTIDs`, which choose between
   single-thread and all-threads system calls while a launcher has a thread of
   its own, and `pollForThreadExit`, which may meet an id that has been reused.
   The rest of the package is the C library once more, and the Go runtime under
   it is outside this repository.
2. `psx_set_map` as two assignments with a `fork` between them (`psx.c:86`).

Not to be modelled: the build-time generator of names; the entry points that make
the libraries executable; macros and linker aliases of libpsx; what the tools
only print (`capsh --print`, `--decode`, `--explain`, getpcaps, the recursion of
`getcap -r`); `capso` and the bug reproducers in contrib; tests, `kdebug` and
`goapps`, which are sequential code around the calls above; job control, signal
masks and terminal modes of su beyond what their failure does to its control.
