# A TLA+ verification of sigen

sigen is a C++ library that builds MPEG-2 / DVB service information: an
application fills table objects (PAT, CAT, NIT, ...) with entries and
descriptors, calls `buildSections(TStream&)`, and gets a list of binary sections
that can be written to a file or cut into transport packets. This directory
models all of it that keeps state, and in most detail the part that is easiest to
get wrong, the *sectionizer*: state machines whose context outlives the call,
nested in one another, interrupted whenever a section fills up, with lengths,
numbers and CRCs patched in afterwards.

## Inventory

| component | state it keeps | operations | talks to |
|---|---|---|---|
| `Section`, `TStream` (`tstream.h/.cc`) | buffer, write position, `data_length`, fixed `size`; list of sections | sequential writes (each asserts that it fits), patches at an index or at a saved pointer, `calcCrc`; `getNewSection` | every table writes through it |
| `STable`, `PSITable` (`table.h/.cc`) | `length`, `max_section_length`, version, current/next | setters, `incLength` before every add, the driver `buildSections` (allocate, `writeSection`, patch the length; at the end patch numbers, CRC) | calls the virtual `writeSection` of the table |
| `CAT`, `PAT` | list of descriptors / programs; a mutable `run` context | `addDesc`, `addProgram`; `writeSection` as a `switch` over `run.op_state` | driver, section |
| `ExtPSITable::ListItem` (`table.h/.cc`) | per item: id, descriptors, its own `run` | `find`, duplicate refusal, `addItemDesc`; nested `write_section` | the table's `writeSection` calls it |
| `NIT_BAT`, `PMT`, `SDT` | one or two loops over the above, a `run` context | adds; `writeSection` | driver, items |
| `PF_EIT` | two event lists, one `run` context | adds; a `buildSections` of its own | items, section |
| `TDT`, `TOT`, `RST`, `Stuffing` | small lists | adds; one section, never split | section |
| `Descriptor` and some 60 subclasses | tag, `total_length`, data | constructors and adds through `incLength`; `buildSections` writes | tables read `length()`, then write |
| `LanguageCode`, `UTC`, `BCDTime` | 3-letter code; date and time | truncation; MJD and BCD conversion, comparison | descriptors, EIT, TDT, TOT |
| `MpgPacketizer` | continuity counter, flags | `packetize` cuts a section into packets | sections |
| dump, enumerations, version | - | text output | not modelled: no state a table depends on |

The program is single threaded, and nothing is persisted or received: there are
no concurrent actors, messages, crashes to recover from or timeouts, and the
project does not pretend there are. What is hard is sequential:

* **contexts that outlive a call**: `run` is a mutable member. It carries the
  pending entry from one section to the next *and* into the next build if it is
  not reset;
* **nested machines**: the table's `run.ts` and the item's `run.d` are pending
  at the same time; locals of `writeSection` start again in each section while
  the contexts go on;
* **writes with no check**: a pending entry is written into the next section
  unchecked, and only the asserts of `Section` stand behind it;
* **late patches**: loop lengths, `section_length` (with the 4 bytes of a CRC
  that does not exist yet), `last_section_number`, CRC, in this order;
* **narrow arithmetic**: 16-bit room and lengths, a 12-bit `section_length`, an
  8-bit section number, 5-bit versions, all settable by the application.

What makes each component correct:

* driver: every finished section states its own length, is numbered within its
  table, and its CRC covers its final bytes; earlier sections are never touched;
* every table: each entry appears once and in order, a section ends only because
  the next entry does not fit, a build ends, and dies only if an entry cannot fit
  in any section;
* tables with loops: each section parses by the lengths written in it;
* single-section tables and descriptors: what was accepted can be written, and
  what is counted is what is written;
* packetizer: packets reassemble into the section, the counter runs on per pid;
* dates: conversions invert each other on valid dates.

## Modules

| module | models | correspondence |
|---|---|---|
| `Section` | `Section` | operators on a record. A header field that is patched is a field of the record; what follows the header is `payload`, a sequence of what was written; `data_length` counts bytes. The CRC is the image of the bytes it was computed over |
| `PsiTable` | `STable`, `PSITable` | one action per setter; `buildSections`, `MallocSec`, `WriteSecReturn`, `EndTable` are the start and the three cases of the driver. `state = "IDLE"` is "no build running", `"ABORTED"` a failed assert |
| `Cat`, `Pat` | `CAT`, `PAT` | one action per case and exit of the `switch`; INIT falls through into WRITE_HEAD and is one action with it |
| `ExtPsiTable` | `ExtPSITable`, `ListItem::write_section` | the nested machine, one action per case and exit; which state the caller goes to, and its own counters, are conjoined by the caller |
| `NitBat` | `NIT_BAT`, `UtilityDesc` in it | as `Cat`; `loops` holds the locals of `writeSection` |
| `Sdt`, `Pmt` | `SDT`, `PMT` | as `NitBat`, with one loop and two; the flags, status bits and pids are numbers of their width, since several fields share a byte |
| `Eit` | `EIT`, `PF_EIT` | as `Sdt`, with two lists of events and one context; `PF_EIT` has its own driver (`buildPfSections`, `Return`), which does not look at what `writeSection` returns |
| `SectionedTable`, `Packing` | nothing: the promise | abstract specification: a build is one step that appends the greedy packing of the entries. `Packing` says what that is, for it and for the proofs |
| `SingleSection` | `TDT`, `TOT`, `RST`, `Stuffing` | adds and builds of the four on top of `STable`; a build is one step, it has no state of its own |
| `Packetizer` | `MpgPacketizer` | `packetize` cuts one section; a packet is its header fields and which bytes of which section it carries |
| `Broadcast` | the application | composes the two: it packetizes any section of the stream, on any pid, in any order |
| `DescLayout` | `Descriptor`'s three base classes, `ClonedDataDesc` | the vocabulary of the next row |
| `MpegDesc`, `PmtDesc`, `DvbDesc`, `NitDesc`, `EitDesc`, `LinkageDescs` | the descriptor classes | two constants for each class: what its declaration and its constructor count, and the parts its `buildSections` writes, a word being an or of shifted fields. `PmtDesc` includes `sdt_desc`, `LinkageDescs` includes `ssu_desc`, `EitDesc` the EACEM classes |
| `Descriptor` | `Descriptor` and what its subclasses do with it | one object, from its constructor to the last add: one action for each way to add (string cut to the room left, string with a limit, entry of a loop, text with a language, vector, optional part), for every class of the rows above |
| `Utc` | `UTC`, `BCDTime` | conversions and comparisons as operators, run against a calendar that counts days one by one |
| `MC...` | - | constants of the runs; the refinement mappings of `cat` and `pat`, and a preloaded table |
| `PsiTableProofs`, `ExtProofs` | - | lemmas: the driver, how it packs a list and the machine of the tables with one list; the machine of an item and the payload it writes |
| `CatProofs`, `PatProofs`, `SdtProofs`, `PmtProofs`, `NitBatProofs`, `DescriptorProofs` | - | theorems about the CAT, the PAT, the SDT, the PMT, the NIT and the BAT, and about descriptors |

Data is abstracted to what the properties tell apart. A descriptor is its
`length()` (2 to 257), a program its position, an item its id. The bytes of an
entry are one element of `payload`, that is a partial write before a failed
assert is not recorded: the process is gone. In `Cat` and `Pat` the payload holds
positions in the list; in `ExtPsiTable` an entry also says of which kind it is
and which item it belongs to, and loop lengths are entries that get overwritten.
A refused add (`incLength` false, or the exception for a duplicate) changes
nothing and is a disabled action.
In `Descriptor` strings and vectors are their lengths, and `proper` records whether
every size given was the one that was checked and counted.
`Context::d_done` of the CAT is never read and is left out. `private_bit` and the
fixed bytes of a header that nobody patches are counted only. After `NewTStream`
the application goes on with a fresh stream; the sections of the old one stay as
they are.

## Runs

| run | module | what it shows |
|---|---|---|
| `cat` | `MCCat` | with sections that hold no descriptor, one, or several (`max_section_length` 11, 20, 24, and 1024 before it is set), descriptors of 2, 5 and 9 bytes, up to 4 of them, edits and resizes between up to 2 builds into one stream: sections state their length (`SectionLengthCoversSection`), CRCs stay current (`CrcCurrent`), numbering is complete (`SectionsNumbered`), nothing is lost or moved (`InOrder`), a build dies exactly when it must (`BuildFailsIffTooSmall`) and ends (`BuildEnds`), and the whole implements `SectionedTable` (`KeepsPromise`) |
| `pat` | `MCPat` | the same promise for fixed entries: room for 0, 1 or 2 programs, a `max_section_length` that went below zero (65530), versions at the end of their 5 bits |
| `nit` | `NitBat` | up to 2 network descriptors or marks and 2 transport streams with up to 2 descriptors each, sections with room for 6, 10 and 17 bytes: every section parses by its own lengths (`SectionsParse`), the whole content comes out once and in order (`InOrder`), marks separate (`MarksBreak`), sections are otherwise full (`SectionsFull`), and the conditions on failure and end |
| `sdt` | `MCSdt` | up to 2 services with up to 2 descriptors, sections with room for a header of a service or less, or for several: `SectionsParse`, the content once, in order and with no section ended early (`PackedInOrder`) |
| `pmt` | `Pmt` | the same with program descriptors before the streams; pids 1, 4097 and 8193, of which the first and the last share 13 bits (`PidsUnique`) |
| `eit` | `MCEit` | up to 3 events over both lists, with up to 2 descriptors, builds that follow an overflow: sections parse whatever is pending, no build writes anything twice (`NeverRepeats`), and present and following events are where they belong exactly when both lists fit (`RightIffFits`) |
| `desc` | `MCDescriptor` | all descriptor classes, one at a time, filled to capacity: `length()` is what `buildSections` writes (`CountedIsWritten`), inner length bytes lead a reader through (`InnerLengthsRead`), fields fill their words without overlap (`WordsFilled`) |
| `packets` | `MCBroadcast` | the four single-section tables built and packetized: failure exactly when too small, packets that reassemble (`Reassembled`), a counter without gaps (`CountersRun`) |
| `utc` | `MCUtc` | every day from March 1900 to the end of the 16-bit MJD (22 April 2038): formulas against calendar, year with and without century (`DatesConvert`), comparison (`ClockAdvances`) |
| `pat_wrap` | `MCPat` | violation: 257 programs are accepted for sections of one program each, and the 257th section is numbered 0 |
| `eit_length` | `MCEit` | violation: the present/following sections state a length without their CRC |
| `sdt_flags` | `MCSdt` | violation: a service with EIT schedule only and one with present/following only are sent with the same flags (`FlagsApart`) |

Bounds. A section boundary is decided by comparing a sum with the room, so a few
entry sizes on both sides of it reach every branch: exactly full, one byte too
many, an entry of its own, an entry that fits nowhere, and in the NIT a header
that fits without its first descriptor. Two items with two descriptors reach
every combination of pending contexts; a third repeats one. `MaxBuilds` counts the
builds into one stream; contexts left over from a build are caught by the next,
into the same or a new stream. `MaxSections` is above what any build of the
instance needs, and a build that would need more hangs, which `BuildEnds`
reports. The real limits (65536 bytes of table, 256 sections) are out of reach of
these instances; the first is covered by `TypeCorrect` of all five sectioned tables, the
second by `NumbersCorrect` on one side of the limit and `pat_wrap` on the other.

`desc` gives strings of 0, 40, 120 and 255 bytes: several together end below, on and
above the 257 bytes of a descriptor, and every loop of fixed entries is filled to
the capacity (`EntriesBound`); where entries hold texts 3 of them exceed it. 65636 is
the same as 36 in 8 bits and as 100 in 16. `packets` has sections that end below, on
and above the end of their first and second packet, a pid of 14 bits that is another
in 13, counters before and at the end of the `ui8`, Stuffing longer than it keeps.
`utc` is exhaustive in days.

Fairness. `FairSpec` assumes only that a build in progress goes on
(`WF_vars(BuildStep)`): `buildSections` is an ordinary function in a single
thread, and its loop runs until it returns or an assert fails. Nothing is assumed
of the application. The other modules state no liveness: in them a build is one
step, or the machine is that of `ExtPsiTable`, whose `BuildEnds` is checked in
`nit`. Deadlock is not checked because a failed assert ends the
process.

## What the code does that its documentation does not say

Met while modelling; the properties state what does hold, and name the exceptions.

* The table length limit allows more sections than a section number can count
  (run `pat_wrap`), a mark counts 2 bytes in the table's length and
  writes none (`netDescLength`), the PF EIT leaves the CRC out of its length (run
  `eit_length`), and so does the TOT (`stated` in `Broadcast`).
* `SDT::Service::write_header` or-s `eit_schedule` in without a shift, on the bit of
  `eit_present_following` (run `sdt_flags`).
* `PMT::addElemStream` looks for duplicates with 16 bits of the pid, of which a stream
  keeps 13. `PidsUnique` says what is left: only a pid of more than 13 bits comes to
  be another's.
* A present event list that does not fit is continued in the section of the
  following events, or in the next build (`RightIffFits`).
* `Miscounted`: `SSUScanLinkageDesc` and `PDCDesc` write a byte more than they count,
  `MobileHandoverLinkageDesc` two fewer, and each language code shorter than 3
  letters one fewer for each letter that lacks.
* `Overlaid` and `Gaps`: `SystemClockDesc` ors reserved bits over the accuracy;
  `MultiplexBufferUtilizationDesc`, `STDDesc`, `CellListDesc` and `PDCDesc` leave bits
  of a word that no field sets.
* `proper`: sizes over 255 in `incLength(ui8)` (vectors, and entries with two
  texts, although `eit_desc.cc:139` means to refuse them), or over 65535 in
  `incLength(string)`, are counted truncated and kept whole; a vector set twice is
  counted twice; `_AC3Desc` keeps what it was refused. `CountedIsWritten` and
  `InnerLengthsRead` hold for all other calls.
* One continuity counter serves all pids of a packetizer: a receiver of one of
  several pids sees gaps. `CountersRun` is about the file.
* The year 1900 given with its century is read as one without; the calendar of
  `utc` gives that year without (`YearArgs`).

## Proofs

All theorems are for every value of the constants: any section length an
application can set, any descriptor lengths, any number of entries and of builds
into one stream. The assumptions are those on the constants (`PsiTableArgs`,
`CatArgs`, `ExtPsiTableArgs`, ...): arguments have the widths of their C++ parameter
types. None of the properties is inductive; each table has one inductive invariant
(`IInv`, theorem `Invariance`; the PMT and the NIT have two, `BaseInv` and on top of it
`LoadInv`, `BaseInvariance` and `LoadInvariance`; the SDT and the PMT have `OrderInv`
on top of these) from which its theorems follow, and TLC found
each part of it true on the table's run.

| theorem | CAT | PAT | SDT | PMT | NIT and BAT |
|---|---|---|---|---|---|
| `[]TypeOK`: no byte count, length field or section number leaves its width | `TypeCorrect` | `TypeCorrect` | `TypeCorrect` | `TypeCorrect` | `TypeCorrect` |
| `[]CrcCurrent` | `CrcStaysCurrent` | `CrcStaysCurrent` | `CrcStaysCurrent` | `CrcStaysCurrent` | `CrcStaysCurrent` |
| `[]SectionLengthCoversSection` | `SectionLengthCorrect` | `SectionLengthCorrect` | `SectionLengthCorrect` | `SectionLengthCorrect` | `SectionLengthCorrect` |
| `[]SectionsNumbered`, up to 256 sections | `NumbersCorrect` | `NumbersCorrect` | `NumbersCorrect` | `NumbersCorrect` | `NumbersCorrect` |
| `[]InOrder`: no entry lost, repeated or moved | `DescriptorsInOrder` | `ProgramsInOrder` | | | |
| `BuildFailsIffTooSmall` | `BuildFails` | | | | |
| `KeepsPromise`: it implements `SectionedTable`, up to 256 sections | `RefinesPromise` | `RefinesPromise` | | | |
| `[]PackedInOrder`: the same of two nested loops, and no section is left early | | | `ServicesInOrder` | `StreamsInOrder` | |
| `[]SectionsParse` | | | `SectionsAreRead` | `SectionsAreRead` | `SectionsAreRead` |
| `[]PidsUnique` | | | | `PidsAreUnique` | |

`MaxSections <= 256` in `NumbersCorrect` and `RefinesPromise` is the number of
values of `section_number`, and not a convenience: `pat_wrap` shows a table that the
code accepts and that violates both with 257. `SectionsParse` and
`SectionLengthCoversSection` are about sections of at most 4096 bytes, which is what
a 12-bit length describes; the code lets an application set more.

**The driver** (`PsiTableProofs`, used by all five). `DriverInv` is:

* `CurInv`: in the section being written, bytes in the buffer and bytes counted
  differ by exactly what the header leaves out. This makes the driver's length right;
* `ClosedInv`: a section that was left states the length it will have with a CRC;
* `StreamInv`: sections of finished builds are stamped, those of the present one
  are not, so stamping at the end touches every section exactly once;
* `NumberInv`: the number of a section of the present build is its place in it.

Each operator of `Section` and each step of the driver has a lemma that says what
it does to a section and to the stream, and no other proof looks inside them. The
NIT takes the last three conjuncts (`DriverRest`) and states the first anew, since
it counts bytes that it has not written yet (`Owed`).

**Tables with one list** (`PsiTableProofs`). The `writeSection` of the CAT and that of the
PAT differ in what an entry is and in nothing else, so the machine is stated once,
with the context as a record (`Contexts`), and each action of the two modules is
shown to be a step of it. Its invariant `ListInv` says that

* `RunInv`: the context is fresh outside of a build, and a pending entry is the
  one before the iterator: otherwise a stale context could write anything;
* `HeadInv`: a section has its header exactly when the machine is past it;
* `At`: when entries 1 to m are in the sections, the one that will be written
  next (`Due`: the one pending, or else the one at the iterator) is m + 1;
* `PackInv`, `HoldInv`: the sections of the build are the greedy
  packing of the first m entries, and a section was left only because the entry
  that is due had no room. The bytes of a payload are carried along as a sum
  (`Sums`) that grows by one entry in each write, so no proof unfolds the recursion;
* `RoomInv`: an entry about to be written has room for itself and the CRC, if every
  entry has it in a section of its own (`Adequate`). This is why the unchecked write
  of a pending entry is safe in a table that is not too small, and `BuildFails` the
  exact condition.

The refinement maps the stream to what the application is shown (`Shown`): the
sections of finished builds. Every step of a build is a stutter but the last,
`EndTable`, which is the abstract `Build`, and the failed assert, which is `Die`.

**The SDT** (`ExtProofs`, `SdtProofs`) has two nested machines and patches lengths
into bytes already written. Its invariant is, beside `DriverInv`:

* `ExtInv`: the items' contexts are within their lists;
* `Control`: a section is begun by its header, and written in the states after it;
* `OpenInv`: at most one item has its header in the section and its loop not
  closed, it is the one the table writes, and `desc_loop` is of this loop. Two
  contexts that outlive `writeSection` and a local that does not agree on this in
  every state, also when the section fills up in the middle of an item;
* `PayloadInv`: the payload is a sequence of loops (`Loops`). The length in front
  of a closed loop is that of the descriptors that follow it, up to the next item;
  the open loop, if there is one, has `desc_loop.len` bytes so far; and the bytes of
  the payload are those the section counts. Sections that were left have no open
  loop (`Complete`). Reading a section by its lengths then leads through it, which
  is `SectionsParse` (`LoopsParse`).

**The PMT** (`ExtProofs`, `PmtProofs`) has two loops, of program descriptors and of
streams, whose items use the machine of the SDT's. `BaseInv` is `DriverInv`, `ExtInv`
and the following:

* `PmtTypes`: the iterators and pending entries of the context are within both lists;
* `Control`: the section has bytes exactly when the machine is past the header, which
  a context that outlives `writeSection` has to agree on with the driver; and a state
  that writes a pending entry has one. Otherwise `WRITE_PROG_DESC` would read
  `prog_desc[0]`, a null pointer of the code;
* `PidInv`: a pid in the list is 13 bits of the one asked for, and no stream was
  added whose 16 bits are the 13 of an earlier one. `PidsUnique` follows: two
  streams that share a pid differ in bits the stream did not keep.

`LoadInv`, which is kept by steps from states of `BaseInv`, is `OpenInv` as in the
SDT, and:

* `PayloadInv`: the payload is the PCR pid, the length of the program's loop, program
  descriptors, then streams as `Loops` (`PmtPayload`). While program descriptors are
  written, `info` has their bytes and the section does not say them yet (`Progs`);
  every way out of `GET_PROG_DESC` stores them, so that afterwards, and in every
  section that was left, the section itself does (`Streams`). A section begun in the
  middle of a stream has none, and says so, because a pass through `GET_PROG_DESC`
  with nothing to fetch still stores the length.

**The NIT and the BAT** (`ExtProofs`, `NitBatProofs`) have network descriptors
and streams, and a network descriptor may be a mark that ends the section. `BaseInv`
is, beside the types and `ExtInv`:

* `Control`: a section is begun by its header, and a state that writes a pending
  entry has one;
* `Counted`: in `CurInv`'s place. With the header of a section the table counts the
  2 bytes of the second loop's length, and writes them only when it leaves the first
  loop: until then the section owes 2 bytes, and afterwards none (`Owed`). Both ways
  to leave the first loop, one of which ends the section, have to agree on it.

`LoadInv`: `OpenInv` as above, and `PayloadInv`: a payload is the length of the
first loop and network descriptors (`Nets`), the length of the second loop, and
streams as `Loops` (`Streams`). While network descriptors are written `net_desc_len`
is their bytes and the section need not say so; every way out of `GET_NET_DESC` makes
it (`NetsSaid`). A section that is left, be it because it is full, at a mark, or in
the middle of a stream, says the length of both loops (`Complete`).

**How sections are filled** (`ExtProofs`, for `PackedInOrder` of the SDT and the PMT).
What the sections carry is stated apart from how a table finds out: `SheetInv(E, K, B, Q,
ph, held, t, n)` relates a table E (its own loop, its items' descriptors, the bytes of
headers, the bytes a section may have), the sections Q of the build as pairs of payload and
counted bytes, and where the machine is: what is due is at place <<t, n>> (entry n of the
table's own loop when t is 0, of item t otherwise), between sections (`OUT`), in one
(`TOP`), or in one behind the item's header (`IN`), and whether it was fetched (`held`).

* `Ordered`: the sections have everything before that place, once and in order;
* `Owned`: nothing of a later item, and of the item due only once it was begun;
* `Heavy`: a section that has an item's first descriptor also counts its header;
* and, as long as every item fits in a section of its own as far as its first
  descriptor (`Roomy`): what was fetched has room (`HeadFits`), a header is followed by
  a descriptor (`Followed`), and a section begins with what had no room in the one
  before (`FullBefore`). A table that is not `Roomy` cannot finish: the item that is
  too long dies in an assert, and a table that is finished had room (`EndRoomy`, from
  `Heavy`). It is needed since the code looks at a header and one descriptor before it
  begins an item, but only at the descriptor when it goes on.

Each thing a table does is a lemma about `SheetInv` with no variable of a table in it
(`FetchOwnPack`, `FullItemPack`, `PutDescPack`, `HeadPack`, `PatchPack`, ...), and
`BuiltPack` turns the sheets of a finished build into `CarriedInOrder` and
`StartsFull`. The invariant of a table (`OrderInv` of `SdtProofs` and of `PmtProofs`) says
which sheets its stream has (`IsSheets`) and which place its two nested contexts stand
for (`SdtDue`, `PmtDue`): an item's context that is stale, an iterator one ahead of the
entry it left pending, or a context that is not reset at the end of a build would break
this relation. TLC found it true on the runs of the two tables.

Sums over the lists are natural numbers by induction over sets (`NatSetInduction`
in `PsiTableProofs`), for which a first-order form of the library's induction
theorem is enough.

**Descriptors** (`DescriptorProofs`): `TypeCorrect` of `Descriptor`, for every set of
classes that satisfies `DescriptorArgs` and all sizes: `total_length` stays within
2 .. 257 however sizes are truncated on their way into `incLength`, and no string
is cut to less than nothing. What makes it inductive is `ClassInv`: a descriptor is
of the class it was constructed as and has not taken more strings than the class
has, without which a limit could be read from beyond the end of the list. The two
`incLength` have a lemma each (`Checked`, `Cut`), which the actions cite.

Only model-checked:

* `BuildEnds`: liveness is out of the prover's reach;
* `InOrder`, `MarksBreak` and `SectionsFull` of the NIT. They are stated section by section
  (`CarriedInOrder`, `StartsFull`), with no operator that a proof could not unfold, and the
  lemmas about `SheetInv` allow for sections that end at a mark (`B`, `MarkPack`);
* `NeverRepeats` and `CountedIsWritten`, which are folds: what these compute for
  lists of any length takes induction with an operator for a parameter;
* `CountersRun`, `Reassembled`: `cutSection` is recursive;
* `WordsFilled`, `InnerLengthsRead`, about the fixed set of classes of
  `MCDescriptor`, and `DatesConvert`, about a fixed range of days: TLC's check is
  already complete;
* `BuildFailsIffTooSmall` of `NitBat` and `SingleSection`, and everything about the
  EIT: future proofs, on the lemmas of `ExtProofs`.

## Not modelled

Reading and writing files, text dumps (`dump.h`, `dump.cc` and every `dump`), the
enumerations, memory (ownership of descriptors, allocation failure), the values of
fixed fields of headers. `MosaicDesc` is declared without an implementation. The
constructor of `UTC` that reads the system clock (it uses the local time, not UTC) is
I/O. Arguments for which the code reads outside of a table or subtracts below zero
(`HEX2BCD` of a number over 60, a modified Julian date before 1 March 1900) are
outside of `UtcArgs`. A descriptor changed after it was added to a table, which
`descriptor.h:47` forbids, is not: tables take a descriptor's length as a constant.
The composition of sectioned tables with the packetizer adds nothing to `Broadcast`: a
section is packetized by its bytes, whichever table they are of.

## Plan

In this order; done: 1 to 13.

1. `Section`, `PsiTable`: the buffer and the driver.
2. `Cat`, `Pat`, with `SectionedTable` as their abstract specification.
3. `PsiTableProofs`, `CatProofs`: type correctness, CRC, section length, order.
4. `ExtPsiTable`, `NitBat`: nested machine, patched lengths, forced breaks.
5. `Sdt`, `Pmt` over `ExtPsiTable`: flags in the loop length and in one byte,
   13-bit pids and duplicates.
6. `Eit`: a driver that ignores what `writeSection` returns, one context for two
   lists.
7. `SingleSection`, `Packetizer`, composed in `Broadcast`: what is accepted against what
   fits, reassembly and counters.
8. `DescLayout` and the descriptor families, `Descriptor`, `DescriptorProofs`: counted
   length against bytes written, truncation, repeated setters.
9. `Utc`: conversions over the whole range.
10. `PsiTableProofs`: the conditions on failure and the refinement to
    `SectionedTable` for CAT and PAT; `ExtProofs`, `SdtProofs`: sections that parse.
11. `PmtProofs`: types, `PidsUnique`, lengths, numbers and CRC of the PMT, and its
    `SectionsParse`.
12. `NitBatProofs`: the same for the NIT and the BAT; `PackedInOrder` and `InOrder`
    stated section by section, as `Packing` does, so that they can be proved.
13. `ExtProofs`, `SdtProofs`, `PmtProofs`: how sections are filled, and with it
    `PackedInOrder` of the SDT and the PMT.
14. The same for the NIT and the BAT, and the EIT's proofs.
