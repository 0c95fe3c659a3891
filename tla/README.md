# ztransfer in TLA+

`ztransfer` is one C program that runs on two machines of a local network.  On
one the user chooses *Broadcast* and a file or folder, on the other *Listen* and
a folder to put it in; the listener sees who broadcasts, chooses one, the
broadcasting user accepts or rejects, and the tree is copied over one TCP
connection.  This directory holds specifications of the program, the TLC models
that check them and TLAPS proofs.  Line numbers below are those of `src/`.

## 1. Inventory of the system

| component | source | state it keeps | operations |
|---|---|---|---|
| main | `ztransfer.c` 495-551 | chosen role, typed path, `isfolder` | menu, path prompt, `is_folder`, one of the two roles, stop byte and shutdown |
| choice of the user | `ztransfer.c` 120-160 | highlighted option, key queue of the terminal | `draw_select`, `make_choice` |
| discovery, broadcasting side | `ztransfer.c` 161-247, `broadcast-addrs.c` | list of broadcast addresses, listening socket and its backlog, accepted connection, global `buf` | broadcast, `select`, `accept`, reading length and name, prompt, answer, *Cancel* |
| discovery, listening side | `ztransfer.c` 248-354 | list of peers, cursor, screen, socket queue | `recvfrom` and `add`, `clean`, draw, keys, `connect`, sending length and name, reading the answer |
| list of peers | `broadcastlist.c` | up to 8 entries: pointer to address, pointer to name, time | `add`, `clean`, `is_old`, `list_free` |
| sender | `ztransfer.c` 355-382, `ztransfer-linux.c` 22-61, `ztransfer-windows.c` 30-83 | stack of `send_folder` calls, current file, its size and offset, descriptors, `abs_len` | `send_metadata`, `send_file`, `send_folder` |
| receiver | `ztransfer.c` 383-491 | global `buf`, count of bytes of header, path or file, open file | `receive_metadata`, `receive_file`, `receive_folder`, `create_folder` |
| keyboard of the console (Windows) | `pdckbd.c` | last record read, counts of records and of repeats, last modifier down, last mouse state | `PDC_check_key`, `PDC_get_key`, `_process_key_event`, `_process_mouse_event`, `PDC_flushinp` |
| window size (Windows) | `pdcscrn.c` 477-560, `pdcgetsc.c` | size of the window and of the screen, `resized` | `PDC_resize_screen`, `_fit_console_window` |
| console as a whole (Windows) | `pdcscrn.c` 313-474, 562-605, `pdcsetsc.c` 43-75 | active buffer, input mode, cursor, saved mode | `PDC_scr_open`, `PDC_scr_close`, modes, `curs_set`, the handlers of crashes and of Ctrl+Break |
| display (Windows) | `pdcdisp.c`, `pdcsetsc.c` 92-128, `pdcutil.c` | cells on the screen, colours of the last escape sequence, phase of the blinking | packets of equal cells, `_set_ansi_color`, blinking |
| the rest of PDCurses | `PDCurses-master/` | | clipboard, titles, colour tables: never used; portable core: object files only |

The four rows before the last are `PDCurses-master/wincon/`, the part of the vendored
terminal library that the Windows build links and whose source is in the repository.

The components interact through three channels: UDP datagrams with the host name
(broadcaster to every listener), one TCP connection (length and name one way, the
answer the other way, then the stream of the transfer), and the terminal.  The
program starts no thread; concurrency is that of the processes, the network, the
users, the file system, the clock, the console and, on Windows, the thread in which
the system runs the handler of Ctrl+Break.

What is hard in it: `recv` returns any piece of what was sent, 0 at the end of
the connection and -1 after a reset, and the code looks at these results in four
different ways; the stream has no marks, so one wrong count turns content into
headers; buffers are reused without being cleared; a size is read twice with time
between; a list shrinks under a cursor; keys are typed before the question they
answer; processes end at any point.  On the Windows console the records of keys,
mouse and window share one buffer, which the library looks at, reads, peeks into and
flushes while it fills.  `PROJECT.json` lists each hazard at its line
with the properties that cover it.

What makes each component correct:

* transfer: the receiver's tree is built from the root down and is a prefix of the
  sender's at every moment, complete when the receiver reports the end; both
  processes end;
* list of peers: each entry owns its heap blocks, which are freed once; a peer is
  listed once, leaves for its silence only, and then surely;
* listening side: the cursor is in the list, and the connection goes to the peer
  that was shown in colour;
* handshake: the prompt names who connects, a listener believes the answer it was
  given, one listener at most receives, and every request comes to an outcome;
* keyboard and menu: every key typed reaches the program, in order, once for each
  repeat, under its own code; no button is thought down for ever; the size the program
  works with ends up that of the window; the row chosen is the one the keys lead to;
* console and display: every cell shows what it was asked to, by whichever way it was
  written; the shell finds its console as it left it.

## 2. Modules

| module | what it models |
|---|---|
| `Stream` | the tree to send and the bytes of the connection; shared by both ends |
| `Sender` | `send_folder`, `send_file`, `send_metadata`, stop byte; faults of the sender, the connection and the file system |
| `Receiver` | `receive_folder`, `receive_metadata`, `receive_file`, every result of `recv` |
| `FileDelivery` | abstract specification: what a transfer promises |
| `Transfer` | Sender and Receiver joined by the connection; properties and the refinement mapping to `FileDelivery` |
| `BroadcastList` | `broadcastlist.c` on heap blocks |
| `PeerTable` | abstract specification: what a list of peers promises |
| `ListenLoop` | the loop of `listen_to_discovery` around the list, with peers, socket, clock and keyboard; properties and the refinement mapping to `PeerTable` |
| `Consent` | abstract specification: what asking before a transfer promises |
| `Handshake` | `discovery` from `accept` to the answer, `make_choice`, and the end of `listen_to_discovery` in several listeners; properties and the refinement mapping to `Consent` |
| `KeyTable` | the tables of `pdckbd.c`: virtual key, modifier and "enhanced" to key code |
| `Keyboard` | `pdckbd.c`: records of keys, mouse, focus and size, the user who makes them, and the program that reads them |
| `Resize` | `resize_term(0, 0)`: `PDC_resize_screen` step by step while the window goes on changing |
| `Session` | the menu and the path of `main` over `Keyboard` and `Resize`; their properties |
| `Screen` | how the console is taken and given back, by the program and by the handlers |
| `Display` | `pdcdisp.c`: cells to packets to escape sequences or attributes; extends `Screen` and is shown to implement it |
| `BroadcastListProofs`, `ListenLoopProofs` | theorems about the list of peers and the loop around it, and that they implement `PeerTable` |
| `TransferProofs`, `FramingProofs` | theorems about a transfer: its types; what arrives, and that it implements `FileDelivery` |
| `HandshakeProofs` | theorems about names, answers and outcomes, and that the handshake implements `Consent` |
| `SessionProofs` | theorems about keyboard, mouse, window size and menu |
| `ScreenProofs` | theorems about the console, the cursor and the cells |
| `SequenceFacts` | lemmas the others use: induction, recursive functions, flattened sequences |
| `MCTransfer`, `MCListenLoop`, `MCHandshake`, `MCSession`, `MCDisplay` | constants for TLC |

Correspondence, where it is not one to one:

* A **byte** of the transfer is a cell `<<field, node, index, ...>>`: two bytes are
  equal when they are the same byte of the same field.  What the code does with a
  byte's value is kept: `IsFileOf` is the first byte of a header, `EqualsTwo` the
  comparison of `buf[0]` with 2, which content bytes of the files in `Twos` also
  satisfy; content of the other files may be read as a 1 (`MayBeOne`) or as another
  value.  A path is its node.  Formatting, the progress line and the separator
  conversion are left out.
* **`wire`** is everything the sender handed to TCP, `rd` how much of it the
  receiver got, `conn` how the sender's side ended.  `send` of a header and path is
  one action: a blocking `send` returns when all of it is in the socket, and a
  process that dies within it is the action followed by `Kill`, which may cut
  `wire` anywhere behind `rd`.
* **`recv`** returns every `k` from 1 to the smaller of what was asked and what is
  there; `...Eof` actions are a result of 0 and `...Error` actions one of -1.
  `PathEof` changes nothing: the loop calls `recv` again, for ever.
* **`dirs`** is the stack of the recursive `send_folder`; `readdir` returns entries
  in any order.
* After a broken `recv` the code parses what the buffer still holds.  `HeadersIn`
  gives the header when the bytes are one, and otherwise any size and any length up
  to `BufSize`: what a longer one, read from stale bytes, overwrites is left out.
* A **pointer** of the list is a block; the `memmove` of line 33 of
  `broadcastlist.c`, which moves `size - i - 1` bytes instead of entries, leaves in
  the gap a pointer of which some low bytes are the next entry's: the old pointer,
  the next one, or one to no block (`Wild`).  The history variable `shifted` records
  that a gap was closed this way.  What the program does afterwards is modelled too
  (dangling comparisons, double free, crash); the invariants of the list are stated
  for the time before, and `listen_memmove` shows the first thing that goes wrong.
* **A name per datagram** is allocated by `listen_to_discovery` (`ztransfer.c` 289) and
  freed by nobody unless `add` stores it: for a peer that is listed
  (`broadcastlist.c` 13-17) and at a full list (26) it leaks.  In both cases the model
  does `DropName`: the history variable `lost` becomes true, and if `malloc` returned a
  block that a damaged entry still points to, that block now holds the name.  A block to
  which nothing leads is not kept in the heap of the model, which would only fill up.
  `NoMemory` is a `malloc` that finds no block for a new peer.
* **`recvfrom`** may fail at any time, with or without a datagram in the queue
  (`RecvFails`): the loop begins again without `clean`, drawing or keyboard (285-287).
* **Time** in the list is the age of an entry, and at most one second passes per
  iteration of the loop, whose waits are 10 and 100 ms.
* A **connection of the handshake** is two byte queues, an `int` is `INT` bytes of
  which only the last is not 0 (network order); on the listener's side `name_len`
  holds its length in host order (little endian) when the answer arrives in it.
* `accept` returning -1 changes nothing and is left out; so are failures of
  `gethostname`, socket options and `bind`, which end the process before anything
  modelled happens.
* **`sys`** in `Sender` is the operating system, chosen at the start.  On Windows
  `CreateFile` opens a file that no other program may then change, `TransmitFile` is
  given no size, and a file that is refused is skipped although its header is sent
  (`ztransfer-windows.c` 39): the stream has lost its place then, `raced` says so, and
  of the transfer only `RecvInBuffer` is still claimed.
* **`cond`** in `Handshake` is the circumstances of a behaviour: who takes part,
  whether `recv` returns pieces, whose process may be killed.  The properties that
  hold in calm circumstances only say so (`CalmAnswerBelieved`, `ConsentSpec`,
  `CalmRequestsSettle`).
* A **record** of the console is a key (down or up, virtual key, character, modifiers,
  repeats), a state of the mouse, a new size or anything else (`focus`).  The objects
  in the repository are those of the narrow build, so a character is a signed byte:
  255 is the -1 that means "no key" (`pdckbd.c` 368).  `wgetch` and `resize_term` are
  object files: what they do around the calls of `pdckbd.c` and `pdcscrn.c` is in the
  definitions marked external, and each of their calls is a step of its own.
* A **click** is a press with a record behind it in which the button is up.  The record
  is looked at as a mouse record whatever it is (`pdckbd.c` 532-547): in the bytes of
  a key lies its repeat count, in those of a size or focus record nothing known.  The
  history variable `cut` says when that or a flush took something away.  Another one,
  `wheeled`, holds the buttons that were down while the wheel turned and were not pressed
  since: the handler of the wheel clears `old_mouse_status` (493), so it has forgotten
  them and their release is no change.
* **`late`** in `Screen` is what the program was changing when the handler of
  Ctrl+Break began, or changed afterwards: the handler and the program write the same
  console without a lock, and whoever is last decides.
* **Colours** are the numbers of curses; a terminal has red and blue the other way
  round, and both tables are translated (`ansitocurs`, `curstoansi`).
* Operators marked *Mutant* are wrong variants of the definition below them, used
  to see that the properties are able to fail.  They are no part of the model.

## 3. What the runs check

| run | question | bounds |
|---|---|---|
| `transfer_copy` | does a fault-free transfer do what `FileDelivery` promises, and do both ends finish | two folders, two files of 0-2 bytes each, header of 2 bytes, paths of 1-2 |
| `transfer_faults` | what is left behind when the sender is killed or reset anywhere, cannot open a file, has a path without separator, or sizes change under it, on both systems | the same, one file unreadable, every change at every moment |
| `transfer_descriptors` (violated) | is a tree transferred when it has more entries than the process may open descriptors | 3 descriptors, 4 entries |
| `transfer_sender_dies` (violated) | does the receiver leave its loops when the sender dies | |
| `listen_loop` | all safety properties of list and loop, the refinement of `PeerTable` among them | 2 peers, capacity 2, timeout 1, one datagram queued, 3 blocks of each kind |
| `listen_stops` | does a stopped peer leave the list for good | 2 peers of which one may stop, capacity 2, timeout 0, one datagram queued, 3 blocks of each kind; a user who only looks (`IdleSpec`) |
| `listen_memmove` (violated) | does a live peer stay in the list | timeout 0 |
| `handshake` | names, answers and outcomes, and the refinement of `Consent`; refusals and the one receiver also with pieces and killed processes | backlog 2, two keys typed ahead, names of 2 and 3 bytes; calm: three listeners, whole messages; rough: two listeners, messages in pieces, everybody may be killed |
| `handshake_killed` (violated) | is "receive" believed only after an acceptance when the broadcaster is killed | |
| `handshake_gone` (violated) | do other requests settle when one listener is killed | |
| `console_keys` | what becomes of keys, clicks and resizes on their way to the menu and the path | 4 records, seven chords repeated up to twice, two buttons, three window sizes of at most 3 by 3, with the mouse or with modifiers as keys |
| `console_screen` | what the cells show, and what the shell gets back | 2 by 2 cells, five styles, three terminals; two updates, or one and a Ctrl+Break at any step |

Why the bounds are enough.  A header of two bytes, read in one or two pieces, has
what the real one of 13 has: a first byte that is looked at early, and a rest.
Files of 0, 1 and 2 bytes are empty, read in one call, and read in several (a
buffer of 2).  The tree has a file beside a folder and a file in it, in every
order.  Capacity 2 of the list has a removal of the last and of another entry, a
full list and a skipped entry; that larger instances add nothing is what the proofs
say.  (In `listen_stops` a timeout of 0 lets an entry expire in the first second; a timeout of 1
gives the same answer.)  Three listeners and a backlog of two fill the backlog while one is answered.  Four
records are a press, its release, something between them and something before, or a
resize, another during it, and two keys; the chords hold one of each kind the code
tells apart (a letter, Enter, an enhanced arrow, a dead key, a modifier down and up,
Alt and digits), and `CodeNamesKey` compares each code with the whole table of 256
keys and four columns.  A screen of 2 by 2 has a line that is not the last, runs of
one and two cells, and a last cell that is alone in its packet or ends a longer one;
of the styles two are those ztransfer draws, and the others have all attributes at
once, a colour from 16 on, and a character that cannot go into a sequence.

What each run shows beyond its name:

* `EndMeansCopied` is checked with a file whose bytes all equal 2, and says so where it
  makes its one exception: a `recv` that returns -1 leaves such a byte in `buf[0]`, or
  the stale buffer is parsed as a header whose `is_file` is 2, and the receiver ends as
  if the stop byte had come (`ztransfer.c` 388).
* `Framing`, `CopiesArePrefixes`, `ParentsComeFirst`, `EndMeansCopied` and
  `NeverOverwritten` are about streams in which each file was sent in the size that was
  announced (`~raced`): its two sizes agree, and on Windows it was not skipped. When `stat` in `send_file` (line 27) gives another size than the
  one announced (line 23), the receiver takes content for headers or headers for
  content; the run goes on to explore what it does then, and nothing is claimed of it.
* `NameShown` and `CalmAnswerBelieved` are about circumstances where each `recv`
  returns what one `send` sent.  With pieces, the second piece of a length
  or name overwrites the first (`ztransfer.c` 204, 211), and a piece of an answer
  is read as a rejection (343).  `RefusalBelieved` and `OneReceiver` hold even then.
* `ConsentSpec` is about the same circumstances: with pieces an accepted listener
  may conclude that it was rejected, and a broadcaster killed at its prompt makes a
  listener receive without a verdict (`handshake_killed`), which `Consent` forbids.
* `TableSpec` is about the steps before a gap was closed (`~shifted'`).  In `listen_loop`
  both peers fit, so a datagram that is ignored for want of room is not among its
  steps; the proof covers it, for any number of peers and any capacity.
* `StoppedPeersLeave` holds although `clean` passes over the entry that takes the place
  of one it removed, and although the `memmove` may leave in that place a pointer to the
  address of a peer that stopped: the time there is still the one that expired, so the
  next pass removes it.  The run has such states: two peers are listed, the first one's
  entry is removed, and the gap leads to the second.  It asks about a user who only looks
  at the list and about one peer that may stop, which loses nothing: keys change what is
  drawn and end the loop, a peer that is never heard is as good as stopped, and datagrams
  are put in the queue just before `select` looks.  The gaps of longer lists are of the
  same kind, an old pointer, the next one or none.
* `WellFormed` is about the blocks that entries took over.  The names of `DropName` leak
  and it claims nothing of them; nothing in the repository promises that they are freed.
* `KeysInOrder`, `NoStuckButton`, `SizeKnown` and `ChoiceAsTyped` leave out what the
  library loses by its own design.  A record thrown out as the release of a click
  (`"thrown"` in `cut`) may have been a key or a size: all four leave that out.  Input
  discarded by the flush of a resize (`"flushed"`) concerns buttons and the choice.  A
  KEY_RESIZE that `getnstr` ignores or that is refused (`unanswered`) concerns
  `SizeKnown`.  The wheel is no exception: `NoStuckButton` says which buttons stay down
  after it, those in `wheeled`, and that no other does.  Nothing in the repository
  promises more.
* `ShellRestored` leaves out what `late` names.  A program that is between two steps of
  `curs_set` when Ctrl+Break comes can leave the shell without a cursor.
* `CellsAsAsked` is about the moments between two updates, and not about text whose
  blinking was turned on and has not blinked yet (`blinkSet`).
* A key is taken by whatever reads next: an Enter meant for "Cancel" is, if a
  connection is accepted first, the answer "accept" (line 219).  The handshake runs
  contain it (`keys`), and no property forbids it.

**Fairness.**  `Transfer`: weak fairness of both processes, plain loops that block
in nothing but a call whose completion enables the next action.  `ListenLoop`: weak
fairness of the loop (its waits time out) and of the clock, none of the chosen
peer's answer; and weak fairness of `Recv \/ SelectTimeout`, which says that `recvfrom`
does not fail every time for ever, as no socket does.  `Handshake`: weak fairness of broadcaster and listeners, and strong
fairness of the user's Enter at the prompt, since arrows may come in between; a user
who never answers keeps everybody waiting, which the program intends.  The console
models state no fairness: their properties are safety, the user need not type.

## 4. Proofs

Every invariant and action property that a passing run checks is also a theorem of its
specification, for all values of the constants the assumptions admit (and the
refinements, see below); the three liveness properties are not.  `PROJECT.json` lists
the theorems with the properties they state.

**List of peers and the loop.**  `ListenLoopProofs` proves every safety property of
`listen_loop` for any set of peers, any capacity from 1 to 8, any timeout and any finite
set of blocks larger than the capacity.  `WellFormed /\ NoDoubleFree` is inductive with
the type invariant alone, one lemma per list operation in `BroadcastListProofs`: a new
entry takes two blocks that are free, so nobody pointed to them; `clean` frees the two
blocks of the entry it drops; nobody else frees.  A name that is dropped comes from no
block an entry owns (`DropNameSound`), and with more blocks than rows `malloc` never
fails before a gap was closed (`HeapHasRoom`).  The other properties need three facts
more, the invariant `IInv`: `clean` runs in its own phase only (`Phase`); the entries
`clean` has passed are at most `TIMEOUT` old, plus the one second that may have passed
since (`Fresh`, which is where the skipped entry would show, were it ever not the last);
and from drawing to choosing the screen is a picture of the list (`Screen`).
`OnlyTheSilentLeave` compares the list before and after each action and finds one that
removes an entry, `Expire`.

**The list as a table.**  `ListIsATable` proves that, until a gap is closed, the list
implements `PeerTable` step by step.  The age a peer has in the table is that of its
entry; `AgesTabled` shows that this is well defined, since a list that is `WellFormed`
has no two entries of one peer, and that whoever has no entry is unheard.  Each action
is then compared with one of the table by reading both tables off both lists: `Refresh`
and `Insert` are `Hear`, `Full` is `Ignore`, `Expire` is `Drop`, and a datagram that
`recvfrom` did not deliver is `Lose`.  That the program's
room (`size < MAX_PEERS`) is the table's (fewer than `MAX_PEERS` peers known) needs a
bijection between rows and peers, `KnownCount`.  `PeerTable` changes only while nobody
was picked, so one fact joins `IInv`: before `connect` there is no target (`Picking`).

**A transfer: types and counts.**  `TransferProofs` proves the type invariant of
`Transfer` and `RecvInBuffer` for every tree, buffer and set of faults.  They are not
inductive: a `recv` of -1 is added to the counts of the path loop and the file loop, so
a count can be -1, and another -1 would leave every range.  The invariant `IInv` adds
why that does not happen: a connection that ended has a sender that ended
(`conn # "open" => ~Sending`), a reset leaves nothing to read, and the counts are in
range or the connection is exhausted for good (`Counts \/ Exhausted`).  Two lemmas carry
the symmetric parts, `SenderSide` and `ReceiverSide`, and one lemma per action the rest.

**A transfer: what arrives.**  `FramingProofs` proves `Framing`, `CopiesArePrefixes`,
`ParentsComeFirst`, `EndMeansCopied` and `NeverOverwritten`.  The stream has no marks, so
the invariant `FInv` says where its parts are.  `Walk`: a node is announced at most once
and behind its folder, and nothing follows the stop byte.  `Pending`: the directories the
sender still is to read hold the nodes whose folder is announced and they are not, each
once.  As long as no size changed (`~raced`), three more: `Items`, that behind every first
byte of a header come, by counting, its rest, its path, the content announced, and then a
boundary, which is another first byte of a header, the stop byte or the end of what was
sent; `Copies`, that the receiver's files are prefixes; and `Aligned \/ Lost`: the
receiver's loop and counts are those of `rd` in the item it is reading and its buffer holds
what came before, or the sender died, nothing is left to read, and what the receiver
still does is done to the empty path.  One lemma per action of the sender shows that
appending keeps every earlier item, one per action of the receiver that it moves from one
place of an item to the next.

**The refinement.**  `TransferDelivers` proves that `Transfer` implements `FileDelivery`
step by step.  Beyond `FInv` it needs `Told`, that every header announces the size the
file has, and `Total`, that a receiver which reports the end has made every node, and
every file in full length.  Its hypotheses are the circumstances `FileDelivery` speaks of: no change of a
file during the transfer (`"touch" \notin Faults`), nothing withheld on Windows
(`[](~raced)`), and a sender that dies has sent no content that passes for the stop byte
(`[](spc = "dead" => Twos = {})`).  `transfer_copy` has none of these faults, and there
TLC checks the refinement as it stands; `transfer_faults` checks what remains with them.

**Handshake.**  `HandshakeProofs` follows a request from the backlog to its end.
`Requests`: a listener is in the backlog once, and nobody there or before has an answer
or a closed connection.  `Answers`: what is on its way to a listener that has not read is
exactly what was answered to it, and the one with a yes is the one being sent to.
`Outcomes`: what a listener did agrees with what it was told, which gives
`RefusalBelieved`, `OneReceiver` and `CalmAnswerBelieved`.  `WholeNames` says, for the
circumstances in which `recv` returns whole messages, that the queues of a connection
hold the rest of length and name behind the broadcaster's place in them; it gives
`NameShown`, although `buf` keeps the bytes of longer names before.  The steps that
only move one side are one lemma (`Quiet`); where the broadcaster is matters in the steps
of `Serving`.

`ConsentIsKept` proves that in calm circumstances `Handshake` implements `Consent`: what
the user sees (`Asked`), what was answered and what each listener did (`Outcome`) change
as that module allows.  The hard step is a listener that fails, which `Consent` allows
only to those who were not answered.  A connection that is closed with unread bytes is
reset, and a reset overtakes the answer; so the proof needs that the broadcaster has read
all that a listener sent before it asks, and that no listener with an answer was reset.
This is `Heard`, which is inductive beside `IInv`.

**Keyboard, window and menu.**  In `SessionProofs` the console's buffer is a sequence of
typed records, and each property comes from an invariant about what is still in it, kept
when the user appends a record and when the program takes one, or two, from the front.
The kernel `IInv` is the types, `EventCountSound` and what `save_ip` holds while a key
repeats or a click is awaited (`Waiting`).  On top of it:

* `AloneInv`: `save_press` is the last key down, or 0, for `ModifierAlone`;
* `SizeInv`: the last size in the buffer is the window's, or `LINES` and `COLS` are, in
  each step of `resize_term`, for `SizeKnown`;
* `ButtonInv`, for `NoStuckButton`: of the buttons the program was told are down,
  `old_mouse_status` counts some as down (`Counted`) and has forgotten the others
  (`Forgotten`).  The states of the buttons in the records to come go on from each other,
  from the ones counted and to what the user holds (`Track` over `Coming`); what is
  forgotten, and what a wheel record to come will make forgotten, is in `wheeled` or
  pressed in a record behind it (`Owes`).  A record that a click throws out presses
  nothing that its press does not, so nobody relies on it;
* `FitIsMost`: the two loops of `_fit_console_window` find the largest size, by cases
  on whether it lies above half of what was asked; `FitIsLargest`, which tries sizes up to
  three times the largest so that both cases occur, needs no invariant;
* `OwedInv`: the keys owed are the repeats left and those of the records in the buffer
  (`KeysInOrder`), and there are as many repeats as the record has (`RepeatsFit`);
* `ChoiceInv`: where the keys typed lead is where the ones still owed lead from the row
  the program is at (`Leads`, `Now`), for `ChoiceAsTyped`;
* `CodeInv`: a key code came from the tables.  `CodesNameKeys` then needs that the tables
  give no code twice, which would be a comparison of all pairs; instead `KeyOf` and
  `ColumnOf` are the tables the other way round, and each row is checked against them
  (`TranslateNames`).  So two chords with one code are one key in one column.

**Console and display.**  First `DisplayImplementsScreen`: every step of `Display` is a
step of `Screen` or leaves its variables alone, so an invariant of `ScreenSpec` is one of
the program that draws.  The invariant of `Screen` is the types and two facts more.
`Interrupted`: nothing is late while the handler waits, and a handler that runs while the
program is between two steps of `curs_set` or of the blinking makes the cursor late.
`GivenBack`: a thread that has passed a step of `PDC_scr_close` has given back that thing
unless `late` names it, because the other thread, closing too, gives back the same; and
until the cursor is late, where the program is tells the cursor from `SP->visibility`
(`CursorKnown`), which `PDC_scr_close` relies on.

What the cells show is the last part of `ScreenProofs`.  A step of drawing is a function
from one picture to another.  `Good` are the pictures whose cache of the last escape
sequence is sound; `Painted(d, e, S, W, on, off)` says that e is good, shows what W asks
for on the cells of S, and elsewhere what d showed.  Lemmas carry it up through the calls:
`_set_ansi_color`, one packet, the packets of a run (a recursive function of the place),
a line, the blinking of a line, of the screen.  The invariant `DisplayInv` is then
`DisplayTypes`, `CellsAsAsked`, and two facts it needs: the last cell of the screen never
has a colour from 16 on (`LastPlain`), and a cell that does not blink shows what it is to
show at every moment, also between two steps of the blinking (`Steady`).

**Facts about data.**  The library's induction theorems take an operator for the claim.
`SequenceFacts` proves them again with a set for it, the numbers of which the claim holds,
from the well-foundedness of `<`; then, that a function defined by recursion on
`0..n` exists and satisfies its equation, what an invariant of its steps gives, and
the facts about `FlattenSeq` of the community modules that `SessionProofs` uses.  So the
recursive definitions of these models (`Leads`, the packets of a line) are proved about
as well; those of a module with a `RECURSIVE` operator could not be.

**Assumptions** are those named in the modules; TLC evaluates each in the runs:

* `TreeAssumption`: a tree whose nodes are all reached from the root, which is said with
  sets of nodes, so that no induction over paths is needed; paths are not empty;
* `SenderAssumption`, `ReceiverAssumption`: the kinds of faults and systems there are;
  header and path fit in the buffer;
* `ListAssumption`, `LoopAssumption`: the array of the list has at most the 8 entries of
  the code, and there are more blocks than entries;
* `HandshakeAssumption`: an `int` has more than one byte, names are shorter than the
  buffer (`gethostname` sees to it) and not empty, and an `int` is shorter too;
* `KeyboardAssumption`, `SessionAssumption`: buttons, flags and keys are those of the
  console, a window is between one cell and the largest;
* `ScreenAssumption`, `DisplayAssumption`: styles are cells with colours of one byte, and
  a line-drawing character below the space (`"low"`) never comes with a colour from 16 on:
  Windows Terminal is not given such a character in a sequence, and without one such a
  colour cannot be had.  For the same reason `Draw` leaves a colour from 16 on out of the
  last cell of the screen, which is written without sequences lest the screen scroll.
  ztransfer draws neither.

**What stays model-checked**: liveness, `BothEnd`, `StoppedPeersLeave` and
`CalmRequestsSettle`, which need `ENABLED` and so are out of this prover's reach; and the
five violations, which are counterexamples.

The proofs changed one statement.  `Due` counted on a key that repeats and whose code is
-1 (a character 255), while `PDC_get_key` returns -1 for it, which is "no key": with such
a key `KeysInOrder` was not inductive, and now nothing is due of it.

## 5. Not modelled

* The addresses to broadcast to (`add_all_addrs`): computed once, from what the system
  says of its adapters.
* The set-up of sockets: each call that fails ends the process before anything happens.
* The progress line and the prompts: output that no later step reads.
* The conversion of separators and `abs_len` of a path: a path is its node, so two
  names that a conversion makes equal are not told apart.
* Memory that is never freed, but for what `add` does with the blocks it is given: those
  it stores are owned and freed, the names it does not store are lost.
* A crash of the program in the middle of `curs_set` or of the blinking: it comes between
  two calls of the library (Ctrl+Break comes at any step).
* Of PDCurses: the clipboard, titles, redefined colours and the registry code for them,
  which ztransfer never calls; italics, grid lines and the size of the cursor; a size
  the program itself asks for; the portable core, of which the repository has object
  files only.
* The three phases of `main` as one behaviour: `Session` ends where discovery and
  listening begin, `Sender` and `Receiver` begin with the connection.

## 6. What is left

1. `BroadcastAddrs` (`ip | ~mask` on both systems) and `Paths` (`abs_len`, separators),
   each against a reference definition.
2. Liveness stays with TLC (`BothEnd`, `StoppedPeersLeave`, `CalmRequestsSettle`).
