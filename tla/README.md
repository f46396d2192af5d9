# Mule 1.1 in TLA+

Mule 1.1 is the multilingual Emacs that grew out of GNU Emacs 18.59. This
directory holds TLA+ modules of its C core, the configurations that check them
with TLC, and proofs checked by TLAPS. Everything is translated from the files
under `src/` (the C code is in `src/src/`, the Lisp in `src/lisp/`), as built
for a BSD system with `INTERRUPT_INPUT`, `subprocesses` and `CLASH_DETECTION`.
Line numbers below are those of the repository.

## 1. Inventory

| part | state | operations | what makes it correct |
|---|---|---|---|
| buffer text: `insdel.c`, `buffer.h`, `marker.c`, parts of `editfns.c` | one block of memory with a gap; PT, BEGV, ZV, Z, GPT, GAP_SIZE; markers as memory positions; MODIFF | insert, insert_before_markers, del_range, gap_left/right, make_gap, set-marker, narrow, subst-char-in-region, insert-buffer-substring | positions in order; no marker in the gap; what is seen never depends on where the gap is; arguments computed before a question still hold after it |
| process output: `process.c` `read_process_output` | process mark, decoding state | insert output at the mark, keep point | output in order before the mark; point keeps its place |
| process status: `process.c` | `Vprocess_alist`, status, tick, update_tick, descriptors | start, SIGCHLD, status_notify, sentinels, delete, wait | every change of status reported once; no descriptor of a dead process read |
| file locks: `filelock.c`, `userlock.el` | lock files and the superlock in a shared directory | lock_file, unlock_file, theft, questions | a modified buffer has its file locked or a user who knows; no lock left behind; calls end |
| files: `fileio.c`, `files.el` | modtime, save_modified, the file | insert-file-contents, write-region, auto-save | nothing overwritten unseen; unmodified means saved |
| undo: `undo.c`, `simple.el`, `subr.el` | undo list, pending-undo-list, last_undo_buffer | record_*, boundary, primitive-undo, truncation | the list leads back through the old texts; an undo command ends at a boundary |
| redisplay: `xdisp.c`, `dispnew.c`, `scroll.c`, `indent.c` | glyph matrices, beg_unchanged, end_unchanged, window start and end | try_window, direct output, cursor motion | the hints never claim unchanged what changed |
| windows: `window.c` | tree of windows with sizes, buffers, points | split, delete, resize, select | sizes add up; no dead window reachable |
| command loop and input: `keyboard.c`, `macros.c` | kbd_buffer ring, quit_flag, immediate_quit, last_command | store and fetch events (signal handler and main program), quit, macros | no event lost unnoticed or read twice; a quit is not forgotten |
| evaluator: `eval.c` | specpdl stack, catch and handler lists | specbind, unbind_to, throw, signal | every binding undone once, in order |
| variables: `data.c` | symbol values, buffer-local caches | set, symbol-value, make-local-variable | a value read is the current buffer's |
| storage: `alloc.c` | heap, free lists, mark bits | cons, gc, undo truncation | nothing reachable is freed |
| minibuffer: `minibuf.c` | saved state per level | read_minibuf, unwinding | every level restores what it saved |
| code conversion: `codeconv.c`, `mule.c` | `coding_type`: designations of ISO 2022, shifts, direction, pending bytes | decode (text to file), encode (file to text), in pieces | where the pieces are cut does not show; each line can be read by itself |

Interaction: commands (keyboard.c) edit text (insdel.c), which records undo
(undo.c) and, on the first change of an unmodified buffer, locks the file
(filelock.c), which may ask the user. Whenever Emacs waits, for a key or for an
answer, process.c reads output into buffers. Everything runs in one thread,
but signal handlers (input, SIGCHLD, SIGPIPE), the quit flag and Lisp called in
the middle of C functions interleave with it, and other Emacs processes share
the lock directory and the files. The hard behaviours are listed one by one
under `hazards` in `PROJECT.json`.

Not modelled, and not planned: layout of the screen, display drivers, input method
clients, dumping, other operating systems, printing, reading and arithmetic
(sequential, or I/O), regular expressions (sequential; perhaps later), the Lisp
packages.

## 2. Plan

Done: buffer text with its abstract specification and proofs (`GapBuffer`,
`TextSpec`), process output and copying within a buffer (`ProcessOutput`,
`CopyRegion`), file locking with its proofs (`FileLock`), undo (`Undo`), the hints
to redisplay (`RedisplayHints`), subprocesses and their status (`ProcessStatus`),
interrupt input (`KeyboardInput`, `KeyQueue`), buffer-local variables
(`BufferLocals`, `LocalValues`), non-local exits and minibuffers (`Unwinding`), the
window tree (`WindowTree`), code conversion (`CodeConversion`).

Left to model, in this order: auto-saving together with saving and locking;
`insert-file-contents` that fails in the middle of its reads, joined with
`CodeConversion`; a `read_process_output` that fails; the detection of coding
systems; Big5 and CCL; the window markers `start` and `pointm`.

Proved: see section 6. Of the safety invariants of the runs, those of `WindowTree` are
the only ones without a theorem.

## 3. Modules

### GapBuffer, TextSpec

`GapBuffer` has the buffer_text structure as it is in memory: `mem` (with the
anchor byte `Nul` and, in fresh memory, `Junk`), `gpt`, `gap`, `pt`, `begv`, `zv`,
`z`, and the bufpos of each marker, the gap included in the count as in
`adjust_markers2`. An insertion or a deletion is two actions (`StartInsert`,
`FinishInsert`; `StartDelete`, `FinishDelete`), because
`prepare_to_modify_buffer` runs Lisp between: what was computed before is in the
variable `call`. A quit inside a gap motion (`QuitInsert`, `QuitDelete`,
`QuitRecordDelete`) leaves the gap after a whole number of chunks. `AbortCall` is
the error out of that Lisp. In `GapBuffer` itself the buffer is not edited in the
middle of a call; `ProcessOutput` with `Asks` shows what happens when it is.

`TextSpec` is what users of a buffer see: a sequence of characters, point, the
accessible range and markers, with no gap. `Insert`, `Delete`, `InsertFile`,
`Subst`, `Goto`, `Narrow`, `SetMarker`, `SetMarkerType` are atomic. The refinement
maps a half-done call to the text as it still is, and every gap motion, finished
or quit, to a stutter.

### ProcessOutput

`GapBuffer` with `read_process_output` without a filter, which inserts at the
process mark, inside or outside the accessible range, before, at or after point.

### RedisplayHints, CopyRegion

`RedisplayHints` keeps, beside the text, what insdel.c tells redisplay:
`beg_unchanged`, `end_unchanged` and whether `unchanged_modified` is MODIFF. Each of
its actions is a step of `GapBuffer` together with what that step does to the
hints: gap motions and deletions lower them, the first motion after a redisplay
sets them, insertion leaves them to the motion before it. The ghost `untouched` is
how much no change has touched; `misled` says that the hints were set apart from
the gap, which happens when the first motion since a redisplay is quit on its way
or the first change is one in place beyond the gap.

`CopyRegion` adds `insert-buffer-substring` within one buffer. It keeps the
addresses of the code apart from the text they pointed to: when `insert2`
reallocates, the bytes read may be old text or junk. `SpecWithCopy` has only the
copies that are free of that (a region on one side of point, a gap with a byte to
spare); `SpecWithEveryCopy` has all.

### FileLock

Several editors, one file. The variables are the lock directory (`dir`, the
inode under the lock's name; `content`, the pid in each inode; `super`), and for
each process its place in the code (`pc`), the descriptor it has open and what
it read. One action is one system call, so between `open` and `write`, `read` and
`unlink`, `stat` and the next change any other process may run. A process may
die anywhere; its files stay. The file's contents are two ghosts per editor:
`fresh` (its modtime is the file's) and `based` (its text takes the contents into
account). Modtimes are whole seconds, and verify-visited-file-modtime accepts one
second more or less (fileio.c 2443-2447): `near` are the editors whose modtime is not
the file's but that close, so that `Superseded` does not see them, and with
`SameSecond` a write may come within a second of those before it. `warned` and `told` remember
what the user was asked and chose.

Simplifications: the check of the modtime by `basic-save-buffer` and the one by
`lock_file` are one question; the lock directory exists and is writable; the
two system calls of the owner check in `unlock_file` are one action; pids are
not reused. An orderly exit, which unlocks first, is `SetUnmodified` followed by `Die`.

### Undo

One buffer's text, narrowing, modified flag and undo list, the modtime in
seconds, and the pending list of a chain of undo commands. Each record carries
two ghosts, the text before the change and the text at the last boundary, from
which the properties are stated. The primitives differ in whether MODIFF is
counted before or after recording, as in their C code: that decides which of
them record a first change. `chain.shared` says whether the pending list is
still a tail of the undo list, whose truncation then cuts it too.

Left out: point and markers, several buffers (`last_undo_buffer`), `DisableUndo`,
undo switched off by argument, marking a buffer unmodified by command.

### ProcessStatus

The kernel's view of each process (`life`, its unread `output`, whether it has
closed its standard output) and Emacs's: descriptors, `input_wait_mask`,
`Vprocess_alist`, raw and converted status. C functions that call Lisp are frames
of `stack`: the wait loop, `status_notify` with its walk, the filter, the sentinel,
`delete-process`. `Sigchld` is an action of its own that may come between any two
of the others. A process's tick and `process_tick` are compared only for equality,
so the model has `changed` (the process's tick is not its update tick) and `news`
(the same of the global two). Lisp in a filter, a sentinel or a command may delete
or continue a process, wait for output, start one, or throw. Broken pipes longjmp
out of `send_process`. A filter that deletes its own process while `status_notify`
drains it leaves descriptor 0 in its place, and the loop goes on with what the user
types (`DrainTerminal`; process.c 3294). The ghost `lost` has the processes whose
mark the walk had taken when such a filter threw out of it: their status is told
only when another event marks them.

Left out: ptys, process groups, signals sent by name, `list-processes`.

### KeyboardInput, KeyQueue

`pc` stands before each statement of `kbd_buffer_read_command_char`, of the wait
and of `read_command_char` that touches what the signal handler also touches:
`kbd_ptr`, `kbd_count`, `input_pending`, `waiting_for_input`, `quit_flag`. `Sigio`, the
handler, runs between any two; it stores characters, compacts the ring and drops
what does not fit, and for a C-g sets `quit_flag` or throws back to the reader. The
three statements that take a character out of the ring count as one unless
`Torn`. `KeyQueue` is the abstract queue: what was typed comes out in order,
until a quit or a full ring drops it.

### BufferLocals, LocalValues

One variable, of Lisp or forwarded to a C variable, in two or more buffers. Its
value cell (`REALVALUE`, the buffer and alist element it is cached for, the
default) is as in data.c; `own` and `elem` are the alists; `specpdl` has the bindings of
`let`, which remember no buffer. `LocalValues` is the promise: a default and one
value for each buffer that has its own. The ghosts in a binding say in which
buffer it was made and what every buffer saw.

### Unwinding

`cstack` is the C stack; `catchlist` and `handlerlist` are positions in it, and
each catch saves the length of `specpdl` and the levels it must restore, as
`struct catchtag` does. Evaluation is an action `Lisp` may take in any frame: bind,
unwind-protect, catch, condition-case, throw, signal, a C-g, a recursive edit, a
minibuffer. A throw is several steps: one unwind form at a time is run by
`unbind_to`, and it may do all of that again. A minibuffer is read in several
steps, any of which can be left. When the buffer that a recursive edit is to go back to
was killed during it, `recursive_edit_unwind` fails before it takes `command_loop_level`
back (`UnbindEditKilled`; keyboard.c 485, buffer.c 775): the level stays too high for good,
and the ghost `lost` counts by how much.

### WindowTree

The tree with sizes on both axes, the selected window, saved configurations, and
`minibuf_level`. Operations are functions from tree to tree, since one call of
`enlarge-window` may delete windows, replace their parent and resize all the rest;
they are recursive, and for that reason the module has no theorems. `stranded` says
that the selected window has gone from the screen, in one of the two ways in which it
does: inside a combination that `delete_window` deletes (window.c 1219), and in a
configuration put back on a smaller screen (window.c 1726).

The windows given to commands are on the screen, and the properties hold for such
arguments. The code looks no further than `CHECK_WINDOW` (and for a buffer): Lisp that
has kept a deleted window may select it; `split-window` of it writes into `prev` of a
living sibling (window.c 1114-1118), and enlarging it resizes what its old links lead
to; `delete-window` of it makes `unshow_buffer` abort. With `OffScreen` = TRUE commands
take such windows while something still leads to them.

Left out: `start` and `pointm` markers, killed buffers, `display-buffer`, the Lisp of
select-window-hook, which `delete-window` runs too, changes of window-min-height while
Emacs runs.

### CodeConversion

A text is written in pieces (`WritePiece`; the gap and the buffer of `e_write` cut
it anywhere, also within a character) and the file is read in pieces
(`ReadPiece`). `w` and `r` are the `coding_type` of the writer and of the reader: what
`CODE_COMPOSE` keeps between two calls, with the coding system and the line end they
belong to. The converters `g2i`, `i2g`, `g2s`, `s2g`, `g2a` and `a2g` are functions of
that record and one byte (`Put`, `Get`), with all of their control: designation, locking
and single shifts, composite characters, direction, ascii-eol, escape sequences that
turn out invalid. Bytes are named; a charset has two or three characters.

Left out: private charsets, `rev_lc_table`, Big5, CCL, selective display, and the
detection of the coding system. That of line ends is there (`eol_detect`).

## 4. Runs

Bounds and sizes of the runs, all of which pass:

| run | instance | why it is enough |
|---|---|---|
| `text_and_output` | texts up to 3 characters of 2, one marker that is the process mark, strings up to 2, gap of 1, growth by 1, quits after 2; 310,196 states | every relation of a position to both ends of the gap occurs; reallocation happens on most insertions; a motion of 3 can be stopped after 2; the mark is before, in and after the narrowing and before, at and after point |
| `gap_and_hints` | texts up to 2 characters (steps to longer ones are checked, but not continued: `TwoCharacters`), insertions of 1, copies of up to 2, no marker, gap of 2, quits after each character; 114,212 states | every operation against `TextSpec` with the gap anywhere, and redisplay before and after any of them; a region of 2 with the gap in its middle, and with a gap that is long enough or grows; that markers fit is proved for any number |
| `lock_serial` | 3 editors that yield, 1 attempt at the superlock, an old lock or none, writes within a second of each other; 27,062 states | owner, challenger and a third party that dies or unlocks meanwhile |
| `lock_any_order` | 2 editors, all answers, failures, every interleaving; 1,044,984 states | every pair of system calls in both orders; `NoLockLeftBehind` is proved for any number |
| `lock_calls_end` | 2 editors, every interleaving, fairness; about 305,000 states | a dead holder and a living contender |
| `undo_and_saves` | texts up to 2 of a letter and its capital, lists of 5 records, 2 seconds, output; 547,536 states | a command of several records, undo, redo, undo of a part, truncation on each boundary, changes before and after saves |
| `process_status` | a process and a connection, both with a filter, the process maybe with a sentinel; 1 read of output each, 1 operation of Lisp, 7 frames; 333,521 states | a walk with a second process behind or before the one told, the process drained deleted by its filter, a wait within a sentinel within a walk, every signal anywhere in it |
| `keyboard` | ring of 3, 5 characters typed of 2 and C-g; 187,277 states | the ring wraps, moves and overflows; two quits |
| `buffer_locals` | 2 buffers, 3 values, 2 bindings; 123,334 states | a cache for the other buffer, for no buffer, and for one whose local value goes; nested bindings |
| `unwinding` | 12 frames, 5 entries of specpdl, 2 special forms, 2 minibuffers, 1 recursive edit whose saved buffer is killed; 3,555,820 states | a throw out of an unwind form run by a throw, across a minibuffer within a minibuffer |
| `window_tree` | 5 windows, combinations among them, and the minibuffer, screens of 5 by 3 and 4 by 2, windows of at least 2 by 1, steps of up to 2, 1 saved configuration; 39,012 states | combinations in both directions within each other, three children of which several go at once, both ways of being stranded; configurations saved within each other do not occur |
| `code_conversion` | texts up to 3 characters, pieces up to 2 bytes, 10 coding systems, 12 characters; 1,651,607 states | a designation, a line end and a return to the first charset; every cut of a character of three bytes and of each escape sequence |

`Patience` is the number of attempts at the superlock, twenty in the code: one
failed attempt and an exhausted count already differ. The undo thresholds, 15000
and 20000 in the code, are scaled to 20 and 60 so that both ways of cutting
occur. `CHECK_DEADLOCK FALSE` is given for `Undo` only: its text and list are
bounded, so a state may have no step left within the bounds.

### What the runs show

* Text: positions stay in order and markers out of the gap, the text never shows
  anchor or junk bytes, and users cannot tell where the gap is, also when a quit stops
  it. A copy of a region on one side of point, given a gap with a byte to spare, is an
  insertion of that region.
* Output goes in at the mark in order and moves no point, provided it does not come in
  the middle of a deletion.
* Redisplay takes no changed text for unchanged, unless it was misled as above.
* Locks: when calls do not overlap, users yield and saves succeed, a modified buffer
  is locked or its user chose to do without, over crashes and obsolete locks, and
  nobody overwrites contents they have not seen, unless these were written within a
  second of the modtime of the buffer. Whatever overlaps, no lock of a living process
  is left behind, and the calls end.
* Undo: an undo command that meets no obsolete save ends at the beginning of some
  command; without output between repeated undos the lists always lead back; with
  saves a second apart, unmodified means saved.
* Processes: select never sees a closed descriptor (Emacs would abort); no stored
  status is lost by the ticks, except by a throw out of a filter that the walk has
  called; output is read before its channel is closed; and where news is left when a
  walk ends, the process is told of in the end. That is the status it has by then: a
  later one may overtake an earlier. Section 5 has the exceptions.
* Keyboard: Emacs never sleeps over a character or a quit, no C-g makes it abort, the
  ring is a queue, and what is typed is read if its user stops typing.
* Variables: nobody can tell where a value is cached, C code sees the value of the
  buffer just switched to (unless `kill-local-variable` left a cell without a buffer
  and the variable is local in neither of the two buffers), a `let` undone where it
  was made restores all buffers.
* Unwinding: in the middle of any throw the lists fit what is left of the C stack, and
  after it so do the levels, but for the recursive edits whose saved buffer was
  killed; the prompt and the input of an outer minibuffer survive whatever ends the
  inner one; no step takes a pending quit but those that handle it, and a throw that
  leaves the unwind form for which `unbind_to` had put it aside, which loses it.
* Windows: they always tile the screen, the selected one is among them but for the two
  ways in which it is stranded, and a configuration put back shows what it showed.
* Conversion: what was written comes back, wherever writing and reading were cut, and
  each line also comes back by itself.

The type invariants `TypeOK` of `GapBuffer` (also under `ProcessOutput`), `FileLock`,
`ProcessStatus`, `BufferLocals`, `KeyboardInput` and `Undo` are proved; those of the other
modules hold in the same instances and are stated to say what the variables are,
without a run of their own.

### Further instances

These configurations vary the constants to the cases the runs leave out, or check
a statement of a comment or doc string that does not hold everywhere. They are kept
to reproduce what TLC finds, and are not among the runs. Where no configuration of its
own is named, take that of the run and change what the first column says.

| configuration | statement | what happens |
|---|---|---|
| `MCProcessOutputAsks.cfg` | the gap is next to the deletion (insdel.c:408) | output during the question about a lock moves it |
| `MCProcessOutputNarrow.cfg` | text outside the narrowing is invisible (editfns.c:1002) | `insert` moves ZV but not BEGV: output before the narrowing shifts what is accessible |
| `MCCopyRegionAround.cfg` (module `MCRedisplayHints`) | it matters not if BUF is the current buffer (editfns.c:902) | a region around point is copied wrongly |
| the same with `InsertionMovesNoGap` | no gap motion in the insertion (editfns.c:901) | the block is reallocated, because insert2 wants a byte more than line 893 makes |
| `MCRedisplayHintsMisled.cfg` | the smallest number of characters before and after the gap at any time (xdisp.c:187-195) | after a quit in the first motion it is not, and changed lines count as unchanged |
| `MCFileLockRace.cfg` | locked, or the user was asked (filelock.c:89) | an empty lock file counts as obsolete |
| `MCFileLock.cfg` with `NoBlindOverwriteEver` | the file has not been changed since it was visited or saved (fileio.c:2422) | it has, within a second, and is overwritten |
| `MCFileLock.cfg` with two editors, `Answers <- StealOrYield` and `LockedOrTold` | the same | a theft of a lock that has gone meanwhile makes no lock (filelock.c:153) |
| `MCFileLockFail.cfg` | a modified buffer is locked (filelock.c:85) | a failed save unlocks (fileio.c:2182, 2301) |
| `MCUndoStopped.cfg` | undo stops at a boundary (undo.c:126) | it stops at an obsolete record with the region deleted |
| `MCUndo.cfg` with `SameSecond = TRUE`, `MaxUndo = 6`, `MaxTime = 1` and `UnmodifiedIsSaved` | obsolete saves are told apart (undo.c:112) | not within a second |
| `MCUndoAsync.cfg` | repeat undo to undo more (simple.el:441) | the pending list does not fit the text after output in between |
| `MCProcessStatusTicks.cfg` | update_tick counts the events told (process.c:325) | the walk's last statement also forgets the news that came during it; the next event brings it up |
| `MCProcessStatusDeleted.cfg` | delete-process forgets the process at once (process.c:708) | the walk goes on to a process that another's sentinel has deleted, and tells of it |
| `MCKeyboardInputTorn.cfg` | taking a character has no timing error (keyboard.c:1263) | a signal that compacts the ring between two of the statements does have one |
| `MCBufferLocals.cfg` with `KilledIsGone` | from now on the default applies in this buffer (data.c:851) | C code goes on with the old value; `set_buffer_internal` refers only to variables local in the buffer left or the next one, so it may outlast switches (`Adrift`) |
| `MCBufferLocals.cfg` with `LetRestoresAnywhere` | a binding undone restores what was | in another buffer it sets that buffer's value |
| `MCUnwinding.cfg` with `DepthIsTold` | the current depth in recursive edits (doc string of recursion-depth) | too high after an edit whose saved buffer was killed (keyboard.c:485) |
| `MCUnwinding.cfg` with `NoQuitIsLost` | a pending quit is not lost | a throw out of an unwind form loses the one put aside for it |
| `MCWindowTreeStrand.cfg` (`SelectedIsAlwaysShown`) | the selected window is on the screen | a combination that shrinks too far is deleted with it inside (window.c:1219) |
| `MCWindowTree.cfg` with `OffScreen = TRUE` and `TreeTiles` alone | windows tile the screen | the selected window, stranded, is enlarged, and its old links lead to living ones |
| `MCWindowTree.cfg` with `MinWidth = 0` | a configuration put back shows what it showed | TLC stops at the division by the width of a combination, zero (window.c:792); with that skipped, a combination whose first child has no width comes back split the other way (window.c:1656) |
| `MCWindowTreeGrow.cfg` | the window gets the desired size (window.c:1280) | shares of the siblings are rounded, and it gets a line more or less |

More instances of `MCProcessStatus.cfg` and `MCCodeConversion.cfg` differ in constants:

* `Watched = {p, q}`, sentinels for both: all holds (684,817 states), and also with no
  forks that fail and `delete_exited_processes = FALSE`, with both filters and with
  `Filtered = {p}` (698,181 and 660,067 states).
* `LastCR = TRUE`: `ReadsBack` is violated. A carriage return at the end of a file
  with lines in CRLF is kept back for the next byte and dropped at the end of the
  file: `i2g` does not put it out, `a2g` neither, and the loop of
  insert-file-contents ends before it counts what `s2g` puts out (fileio.c:1960).
* `CutLineEnd = TRUE`: `ReadsBack` is violated. A piece that ends in the carriage
  return of the first line end is taken for one with lines in CR (codeconv.c:390).
* `Systems = {"ss3_7"}`, a system that make-coding-system accepts: `ReadsBack` is
  violated, because `Single_Shift_3` puts out the sequence of single shift 2
  (codeconv.c:1013).

## 5. Fairness

`FileLock`: `FairSpec` assumes weak fairness of `Run(e)`: a process that is in the
middle of C code and not waiting for its user goes on, as the operating system
lets it. Nothing is assumed of users (questions may stay unanswered, no new call
need start), of death, or of the order of processes. The superlock is never
assumed to become free: `SuperlockCallsEnd` rests on the count of attempts. The
sleep of one second between attempts is left out.

`ProcessStatus`: weak fairness of `Emacs` (its own code goes on, and Lisp that it
calls returns), weak fairness of `Sigchld(p)` (a pending signal is delivered), strong
fairness of `Woken` (the user does not forever type just when there is output to read)
and of `Drain` (when descriptor 0 is read in place of a process deleted by its filter,
that read ends: the user does not type into it for ever). `ChangesAreTold` leaves out
what the code makes no promise of: a living process that has closed its output keeps
its channel readable for good, and Lisp that waits in `accept-process-output` without
looking at statuses may wait for ever; and a filter called by the walk that throws out
of it (`lost`) leaves its process to the next event. It begins where no walk is going
on and `process_tick` says there is news: what comes during a walk is marked, but the
walk's last statement may forget that (`MCProcessStatusTicks.cfg`).

`KeyboardInput`: weak fairness of the reader and of the handler (signals are
delivered), strong fairness of `EndCommand` (commands end), weak fairness of the
end of `immediate_quit`, of unblocked input and of `inhibit-quit` within a command.
Nothing is assumed of timeouts that wake the wait up (`WakeUp`) nor of the user, who
may type or stop at any time.

## 6. Proofs

Every theorem is about all values of the constants that the named assumptions of
its module allow. Where one needs more than that, it says so as a hypothesis, and the
instances of section 4 show what happens without it.

`GapBufferProofs`:

* `TypeCorrect`, `PositionsStayOrdered`, `MarkersStayOutsideGap`,
  `TextStaysCharacters`, `CallsStayValid`: invariants of the run
  `text_and_output` (the first of `GapBuffer`'s type), here for `GapBuffer` by itself.
  The inductive invariant `Inv` is their conjunction with the shape of the call in
  progress. The order of positions is needed for the text to be characters (an
  insertion writes the anchor at the byte after it, which must be in the gap),
  and the validity of the call for the order after a deletion. The lemmas say
  what each helper on memory does to a `Good` buffer; the steps cite them.
* `GapBufferImplementsText`: the refinement, step by step. A gap motion leaves
  `Contents` and `MarksOf` alone, an insertion or deletion maps to one of `TextSpec`.

The same module, for `ProcessOutput`: the same invariants with output at the process
mark between any two commands (`OutputKeepsBuffer`), and `PointKept` and
`OutputInOrder`. The hypothesis is `Asks = FALSE`: no question to the user, hence no
output, between the two halves of a change. It is not for convenience: with it
`CallStillValid` fails (`MCProcessOutputAsks.cfg`), as it does in the code.
`read_process_output` sets point to the mark, be it outside the accessible range
(`WithPoint`), so its step is proved from what insertion does to any `Sound` buffer
with point in the text, and the order of positions only after the narrowing has been
put back.

The same module, for `CopyRegion`: `SpecWithCopy`, with redisplay and with copies.

* `HintsHideNothing`. `UnchangedUnlessMisled` is not inductive: it compares two sums
  in which the gap does not occur, and an insertion lowers `untouched` but not the
  hints. `HintInv` says why that is right: unless misled, `beg_unchanged` is never
  beyond the gap (`NotBeyondGap`; an insertion happens at the gap, so it cannot be
  before it), `beg_unchanged` and either `end_unchanged` or the text after the gap are
  no larger than `untouched` (`ChangesSeen`), and before the first motion since a
  redisplay everything is untouched (`NothingYet`).
* `RegionsAreCopied`: after the gap has been moved to point, the region is on one side
  of it (`OnePiece`), where the addresses of its characters stay those of the text.
  `CopiesImplementText`: the copy is the insertion of that text.

`FileLockProofs`: for any set of editors and of inodes, in every interleaving and
with every answer:

* `TypesAreKept`. The assumption that there are more inodes than descriptors and
  the lock itself can hold makes the `CHOOSE` of a new inode well defined.
* `UnlockingLeavesNoLock`. `NoLockLeftBehind` alone is not inductive. `Inductive` adds,
  for each process, that what it locks or unlocks for fits its place in the code
  (`GoalFits`, `AtRest`), that it has a file open where it reads or writes
  (`FileIsOpen`), and, `NamedInUse`, that wherever the lock file names it its
  buffer is modified or its change was quit, or it is about to change or to
  unlock; after it has unlocked, the file does not name it. The last part is
  kept by the others' steps because only a process itself writes its pid, and by
  its own because it returns only after it removed the file or read another pid.

For processes whose calls do not overlap and users who do not steal (`SerialCalls`;
the two instances in section 4 are why), still any number of them, with crashes
and leftovers of the dead:

* `LockFileLocks` (`LockedOrTold`). `Serial` says what a process in a call has read of
  the lock file and that it is still so (`LooksAtLock`), since the only one in a call
  is the only one that changes it; death is the exception, and makes locks only more
  obsolete.
* `ModifiedFilesAreLocked` (`ModifiedIsLocked`), if also no write fails: `Covered`,
  that a modified buffer's lock is its own or its user chose to do without, is kept by
  the other processes because they take no lock of a living one.
* `SavingIsNotBlind` (`NoBlindOverwrite`), if also users only yield: then nobody goes
  on without the lock, the file changes only under its holder, and a text whose
  modtime is the file's takes its contents into account (`KnowsFile`). The statement
  names the editors that are `near` as an exception, as the code cannot tell.

`KeyboardInputProofs`: for any size of the ring, any characters typed, signals
between any two statements.

* `NeverAsleepOverInput`, `SignalsAreAllowed`, from `Waking`: `waiting_for_input` and
  the word to clear are set exactly in the places of `Armed`; once `quit_flag` and
  `kbd_count` have been tested there, what was tested still holds or `select` will
  not sleep. The type invariant of the ring is not needed, so that they also hold
  with `Torn`.
* `TypesAreKept` and `KeyboardImplementsQueue` for `~Torn` only: with a signal inside
  the three statements that take a character they fail (`MCKeyboardInputTorn.cfg`).
  `InBuffer` says that what is in use, with the character being taken, ends inside
  `kbd_buffer`.

`BufferLocalsProofs`: for any buffers, values and depth of bindings. `CacheFits` is
the invariant: the element the cell caches is the one of the buffer it is cached for,
unless the cell has to look again. From it the values of every buffer (`Own`, `Rest`)
can be read off, and `CacheDoesNotShow` is proved one operation at a time;
`CSeesItsBuffer` from the same, for every switch that is not `Adrift`: where
`set_buffer_internal` does not refer to the variable it is local in neither buffer,
and a cell that names a buffer then caches the default. `LetPutsBack` also needs
`Stack`, an invariant of the ghosts in the bindings: between two bindings with nothing
assigned, the values seen differ only where the outer one binds, and its old value is
the one seen before.

`ProcessStatusProofs`: for any processes, connections and filters, any number of reads
and operations. `Inv` has eight parts: types (`Data`), the list of processes without
repetitions (`Listed`), the shape of the C stack (`Stacked`: below the running frame
are only places that call Lisp), who is responsible for a stored status (`Marked`: the
process is marked, or its frame in the walk runs, or a throw has left that frame,
which `lost` remembers), what `Drain` has found empty stays so until the channel is
closed (`Drained`), and that a process whose end is known sends no more (`Dead`,
`Unborn`, `SetsBorn`).

* `TypesAreKept`: in particular no step pushes a frame for which its caller left no
  room, so that `MaxDepth` bounds Lisp and not C.
* `NoStatusIsForgotten`, `OutputIsReadFirst`, `MaskStaysOpen`: the safety properties of
  the run, from `Inv`.

`UnwindingProofs`: for any depth of the C stack, of `specpdl`, of special forms and of
minibuffers, and with throws, errors and quits that overtake one another. None of the
properties is inductive, since each speaks of the running frame and the next step may
return to any other. The invariant `Sane` speaks of every place on the stack (the
registers are the place above the last frame): what holds there will hold when
everything above is gone, however it goes.

* `Control`, for the lists: what a place saved of `catchlist` leads to catches below
  it and to what these saved (`Lists`), to all of them if no throw is going on below
  (`Whole`); `specpdl` never was shorter above a catch than when it began (`Floor`);
  and each place hands on to the next what `Chain` says, a throw the lists of a catch.
* `Back`, for the bindings: let `unbind_to` go down to the length of `specpdl` with
  which a place began; the levels, the value, the prompt and the minibuffer it then
  restores fit the frames below it (`Restores`, `Right`), and the prompt is in a frame
  that is still there at every length in between (`Held`). `Restores` is a relation
  read off the entries, and takes no recursion.
* `Reading`, for a minibuffer: it has its two entries on `specpdl`, and the text of
  its buffer is what was typed.

A step changes the stack above some place and leaves what is below alone; `StepKept`
says what must be shown of the places above, and each action is an instance of it.
`RegistersAlwaysFit`, `ScopeAlwaysFits`, `PromptAlwaysAlive` and `InputAlwaysKept`
follow from `Sane`. The level that `Sane` counts with is `command_loop_level` less
`lost` (both are integers, `AlwaysCounts`). `QuitAlwaysKept`, with its exception
(`LeavesPutAside`), is proved action by action, with `Sane` only for the shape of the
stack. The bounds are guards of pushes, so they are arbitrary; that they are kept
(`TypeOK`) stays with TLC.

`UndoProofs`: for any characters, thresholds of truncation, and bounds of text, list and
time. The properties are not inductive, because they look at the changes of the list
only, while a step also joins insertions, makes and cuts at boundaries, and marks the
buffer unmodified. The invariant `Inv` says that there are texts, one for each place of the
list (`path`), such that the list `Fits`:

* `Path`: it begins with the text of the buffer; undoing a change leads from the text above
  to the one below it, which is the ghost `was`; other records lead to the same text.
* `Starts`: the text reached at the boundary below a change is the change's ghost
  `start`; for what was recorded since the last boundary it is `buf.start` (`Holds`).
* `Meets`, when saves are told apart: where a first change is not obsolete, the text is that
  of the file. There is one exception (`Twice`): `record_change` makes its records
  before it changes anything, so that for a buffer that is still unmodified it records
  the first change again between the deletion and the insertion, where the text is without
  the region. An undo then passes through a buffer marked unmodified that differs from the file
  (`Midway`), but never ends there, for the deletion's record is next.

`Clean` says that an unmodified buffer has the text of the file; `On`, that while
`chain.shared` the pending list is a proper tail of the undo list, so that truncation cuts
both alike; and while undo is repeated the pending list `Fits` the text by itself.

`AlwaysLeadsBack` and `Typed` need no hypothesis. `PendingAlwaysLeadsBack` and
`UndoAlwaysReaches` have `BetweenUndos = FALSE`, no output between repeated undos;
`UnmodifiedAlwaysSaved` also has `SameSecond = FALSE`. `MCUndoAsync.cfg` and the instance with
`SameSecond` show that they are needed. The loops of primitive-undo, truncate_undo_list and
subst-char-in-region are functions defined by recursion; that such a function exists and
what each turn keeps (`InRun`) is proved by induction in the form of a set of
numbers without a least one missing (`Least`, `AllReached`).

`CodeConversionProofs`: for texts of any number of characters, written and read in
pieces of any size, in any of the coding systems of `System` but `ss3_7`. The argument has
three layers:

* Pieces do not matter. Neither converter looks at what it has put out, so that two
  records that differ only there stay so (`LockPutAll` for writers, `TwinGetAll` for
  readers); and what the pieces give, joined, is what one piece would give.
* One character. `Boundary` says what holds of a writer between two characters, together
  with the reader that has read all it wrote (`Seen`): in ISO 2022 they have the same
  charset in each of G0 to G3 where it matters, the same shift, direction and composite
  character (`InStep`). `CharacterAdds`: after one more character of the text they are so
  again, and the reader has that character more (`Adds`), with a carriage return that it
  may still keep back counted as read. One lemma for each operation of the writer says
  what the reader makes of the bytes.
* The text. `Told` says that the reader of what was written has the text; that the file
  has as many line ends as the text has line feeds (`Counted`); that after each line end a
  reader is in the state a new one begins in (`Lined`), which is why lines stand alone; and
  that the file of a text without carriage returns has line ends of its own kind only
  (`Clean`), so that `eol_detect` is right in whatever piece it finds the first one.

`Converting` joins them into the inductive invariant of `Spec`: the writer is where it
would be had it been given the text in one piece, and so is the reader, except that it
may not know the line end while it has met none. The hypotheses, `"ss3_7" \notin
Systems`, `~CutLineEnd` and `~LastCR`, are those of the run; section 4 has the
counterexamples without them.

Only model-checked: everything about `WindowTree`, and four liveness
properties, `SuperlockCallsEnd`, `DeadLocksYield`, `ChangesAreTold` and `InputIsRead`. Out of
the prover's reach: liveness and `ENABLED`; the recursive operators of `WindowTree`.

## 7. Not modelled

Redisplay beyond its hints (layout and cursor motion are computation over screen
cells); searching, regular expressions and syntax; reading, printing, arithmetic;
the collector's mark and sweep (one uninterrupted pass, whose hazard, a root that
is not protected, lies in every other function); keyboard macros and key lookup;
display drivers, input method clients, dumping, other operating systems;
`call-process`; the Lisp packages on top. `components` in `PROJECT.json` says the
same part by part.

## 8. Running

    tlc -config MCRedisplayHints.cfg MCRedisplayHints
    tlapm GapBufferProofs.tla
    tlapm --stretch 1.3 UnwindingProofs.tla

`PROJECT.json` lists every run with its module and configuration, a mutant of the
code for every property that must make it fail, and the source lines of every
definition. A definition called a mutant in its comment is used for nothing else.
