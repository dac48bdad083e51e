# TLA+ models of the Quark SPI flash image tools

The repository's image pipeline is a chain of batch tools. Each one reads
files, writes files and exits:

1. **QuarkSpiFixup.py** (`src/Quark_EDKII/QuarkPlatformPkg/Tools/QuarkSpiFixup/`)
   runs after the EDKII build. Its first loop walks the sorted listing of the
   FV directory and patches each boot-stage1 and recovery-stage1 firmware
   volume in place. It writes:
   - the file offset just after the `"SPI Entry Point "` marker;
   - the module index: 0.. for boot-stage1 volumes and 16.. for recovery
     volumes;
   - the recomputed 16-bit header checksum.

   It also patches two callback addresses into the bootrom override. Its
   later loops package the volumes into the recovery image, the FlashModules
   copies and EDKII_NVRAM.bin.
2. **generator.py** (`src/spi-flash-tools/generator/`) turns a `layout.conf`
   into a flash image. main() runs these steps in order:
   - parse_layout;
   - find_diplicate_sections_and_options;
   - then, in the normal mode: read_data, which calls generate_mfh and writes
     mfh.bin; gen_image_info; validate_layout; gen_capsule_comp_ini;
     gen_flash_binary;
   - or, with `-m`, only gen_layout_mk.
3. **platform-data-patch.py** (`src/spi-flash-tools/platform-data/`) works on
   the finished image. It:
   - encodes a platform-data INI into a PDAT block (header with a CRC-32,
     then the records);
   - writes the block standalone to `basename(splitext(ini)[0]).bin`;
   - copies the original image to the output name;
   - splices the block into the copy 0xF0000 bytes below its end.

The tools share no memory. They interact only through files: the FV files
the fixup patches become items of a layout, and the image the generator
writes is the one platform-data-patch copies. Each tool is a single
sequential process. The hard parts are therefore not thread interleavings but:
- the order of the steps in each main();
- what a failure half-way leaves on disk;
- byte-level encodings: offsets, widths, padding, checksums;
- boundaries: address ranges, counters, integer division.

## Modules

| Module | Models | State |
|---|---|---|
| `Generator.tla` | generator.py main(), every step it calls | `manifest`, `i`, `pc`, `layout` (Section records), `mfh`, `written` (output files), `flash` (extents) |
| `SpiFixup.tla` | QuarkSpiFixup.py, first loop (lines 80-369) | `files` (bytes), `k`, `stage1_index`, `recovery_index`, `assigned`, `pc` |
| `PlatformData.tla` | platform-data-patch.py main() | `block`, `fs` (path → file), `pc` |
| `GitSetup.tla` | meta-clanton/setup/gitsetup.py main(), invoked again after each failure | `cfg`, `patches`, `newdirs` (patch → run that made its directory), `work` (the run that made workdir, its HEAD), `run`, `faults`, `k`, `pc` |
| `SvnSetup.tla` | Quark_EDKII/svn_setup.py mainf(), invoked again after each failure | `opts`, `lines` (svn_externals.txt), `dirs` (name → absent, unversioned, external), `dotSvn`, `repo`, `adhoc` (the repository each working copy belongs to), `gitignore`, `run`, `faults`, `pc` |
| `DupScan.tla` | generator.py find_diplicate_sections_and_options (lines 258-288) | `text`, `i`, `sections`, `current_section_options`, `dup`, `pc` |
| `FVPackaging.tla` | QuarkSpiFixup.py as a whole: checks, RMU copies, first loop as one step, packaging and NVRAM loops | `listing`, `k`, `index1`, `index2`, `out` (file → sources), `exitCode`, `pc` |
| `MC_*.tla` | input sets for TLC | — |

Every action is one step of the program, with the guard and error path of
that step. A `pc` value names the point main() has reached. `"died"` is an
exception or `die()`, and `"done"` is a normal exit. `PROJECT.json` `map`
names the source lines each definition translates.

**Generator.**
- The input is nondeterministic. The groups ConfigParser returns are a
  manifest chosen from `Manifests`. The duplicate-scan verdict is an input,
  `DupVerdicts`. The mode is an input, `Modes`.
- Parsing is one action per kind of group: ParseGlobal, ParseMfh,
  ParseVersion, ParseSection. ParseNoBootZero is the fatal missing
  boot_index 0. `BootIndexZeroDir` is search_boot_index_zero_dir: it
  returns a path or an error string, never None, exactly when boot_index
  is 0. ParseBadSection is the death of a section group: a NoOptionError
  for a missing address or type, or for the missing item_file of the
  first boot_index 0 group (`MissingOption`), and die() on a boolean
  option (sign, fvwrap, in_capsule) whose lower-cased value is not
  yes/no/true/false (`BoolsValid`). A group's `missing` field is the set
  of its absent options; a boolean value is its lower-case word and
  whether it had capitals. ParseEnd is the address sort and the
  allocation of spans.
- read_data is one step per section (`ReadSection`). A section whose file
  is missing (`fileSize = NONE`) raises IOError there (`ReadMissing`),
  before anything is written.
- generate_mfh is translated operation for operation into `BuildMfh`: item
  selection, boot list, directory entries, range check, counts and padding.
- Payloads are abstracted to their length. The flash file is the sequence
  of extents written into it (the 0xC0 pad first, then each section in
  address order), each tagged with its owner. What a byte finally holds is
  therefore the owner of the last extent covering it.
- Addresses live in a 1 MiB address space instead of 4 GiB. All the code's
  arithmetic is relative to the top, so only the constant changes.

**SpiFixup.**
- Stage1 and recovery volumes are byte sequences:
  - the 56-byte FV header prefix, with HeaderLength at 48 and Checksum at 50;
  - then bytes with or without the marker.
- The marker search is the code's nested byte-by-byte loop (`ScanFrom`,
  `MatchFrom`), not a substring search.
- struct packing is `WriteLE`, which masks with `% 256`.
- The bootrom override (over 123 KB) is abstract: its length, where each of
  its two marker scans stops, and the set of byte offsets the two patches
  wrote.
- `LongSizes` is `struct.calcsize('L')` of the running Python: 4 or 8.

**DupScan.**
- A line of layout.conf is a record saying what the two regular
  expressions and ConfigParser see in it. Examples: a section name; an
  option's key; whether blanks precede the separator; whether the value
  holds another `=`; whether the line is indented; a `;` or `#` comment.
- `OptionGroup` is `option_re.match(...).group(1)`. It is greedy, so it runs
  to the last separator and keeps the blanks. A line with no separator gives
  `"none"`, which is the AttributeError the code raises.
- `BlockOf` gives the group a line belongs to.

**FVPackaging.**
- A file name is a record `[cls, num, ext]`. `Sorted` orders the listing the
  way `sorted()` orders the strings. It compares characters, so `IMAGE10`
  comes between `IMAGE1` and `IMAGE2`.
- `Matches` is the code's `re.search` of `"...IMAGE" + str(index)`. Because
  it is a prefix match on the number, `IMAGE1` also matches `IMAGE10`.
- `out` maps each written file to the sequence of sources copied into it.
- The error branches of the build-type and directory checks end in
  `Stop(0)`: they print and fall through to exit status 0.

**GitSetup.** GitSetup and SvnSetup are the two modules with a fault model.
- Every external command is a step that may fail:
  - the patch command fails on a patch in `cfg.bad`;
  - `git fetch --depth=0` fails when the installed git rejects it
    (`cfg.depth0ok`);
  - `checkout` fails when gitref is None;
  - the SHA check fails on a mismatch.
- The network commands, fetch and clone, may also fail transiently, up to
  `MaxFaults` times. A failed clone removes its directory, as git does.
- A failed process ends in `"failed"`. `Rerun`, bounded by `MaxRuns`,
  invokes the script again. It keeps what is on disk: the new-files
  directories and the workdir. It resets the process state.
- upstream.cfg and the options are a configuration record chosen in `Init`.
  It stays the same across reruns.

**SvnSetup.**
- Each step of setup_externals() and mainf() is an action: the svn check,
  the make-room step, `svnadmin create`, the checkout into ADHOC, the move of
  ADHOC/.svn into the clone, `rmdir`, propset, commit, svn:ignore, the
  `--gitignore` append, `--delete` and `--download`.
- A repository is named by the run that created it. svnadmin gives each new
  repository a new UUID, so a working copy belongs to exactly one repository.
- `Crash`, at most `MaxFaults` times, ends the process at any step. It
  stands for a kill, or for a command that writes to stderr, which
  `my_system` turns into `die`. `Rerun` invokes the script again on what is
  left on disk, as in GitSetup.
- An externals line is a record `[fmt, dir, url]`. `GetDir` is get_dir: the
  last token, so the directory in the svn 1.5 `URL dir` format, and the URL's
  basename in the old `dir URL` format. A blank line raises IndexError.
- Two outcomes come from svn, not from the script:
  - a checkout into a working copy of a recreated repository fails, because
    the repository UUID does not match;
  - `svn update` fails when an unversioned directory sits where an external
    goes (`Obstructed`). The `--delete` help text exists for this case.

**PlatformData.**
- The block is built byte by byte, by these definitions:
  - `GetData`: every data.type, with `UintWidth` dividing the way Python 2 or
    Python 3 does;
  - `EncodeText`: `str.encode('UTF-8')`, which under Python 2 first decodes
    ConfigParser's byte string as ASCII and so raises on any non-ASCII
    utf8.string value or desc;
  - `RecordBytes`: `'<H H 10s H Ns'`;
  - `EncodeBlock`: `'<4sII'`;
  - `Crc32`: a table-driven CRC-32, checked in `MC_PlatformData` against the
    standard check value of "123456789".
- Integers in the block are split into 16-bit halves, because TLC's
  integers are 32-bit signed.
- A file is its size, its origin (the original image, or empty) and the
  writes made into it, so overwrites and splices are exact.
- Paths are records `[dir, stem, ext]`, so `basename` and `splitext` are
  modelled by what they do.

Each module also holds *reference definitions*. These are written from
`spec.md`, independently of the code, and the properties compare the code's
result against them:
- `FirstMarkerEnd` and `Occurs` (SpiFixup);
- `DecodeRecords`, `SpecValid` and `SpecTuple`, which decode a PDAT block
  and give the expected record tuples (PlatformData).

## Refinement

The project has no refinement check. An abstract ImageComposer of spec
§4.4 was written, and gen_flash_binary does not implement it: the abstract
copy is fatal outside the buffer, while an MFH in the top 512 bytes of the
flash makes the code write its 536 bytes past FLASH_SIZE and grow the file
(generator.py:610). The root cause, an MFH size without its header (line
518), is the finding of generator_mfh_overwrite. The runs allowed were
spent on findings with distinct causes, so this second symptom is listed
under "Behaviour found while modelling" below.

## Runs

Runs marked *pass* must finish without error. Runs marked *violation* check
one property that the spec or the code states and TLC refutes; each is a
finding in `PROJECT.json`.

| Run | Result | What it shows |
|---|---|---|
| generator_core | pass | See the list below. |
| generator_mfh_overwrite | violation | generate_mfh records the MFH's size without its header. An item placed right after the body passes validate_layout and overwrites the MFH directory in the image. |
| spifixup_core | pass | See the list below. |
| spifixup_marker_scan | violation | After a stray `S` the nested scan misses the marker and stamps the file length as the SPI entry, with no error. |
| spifixup_override_width | violation | With an 8-byte `'L'`, each callback patch writes 8 bytes over a 4-byte field. |
| platformdata_core | pass | See the list below. |
| platformdata_clobber | violation | An INI whose stem is the image's name overwrites the original image with the standalone block. |
| dupscan_core | pass | See the list below. |
| fvpackaging_core | pass | See the list below. |
| gitsetup_core | pass | See the list below. |
| gitsetup_rerun | violation | On the clone path, one failed `git clone` makes every later run fail. The new-files directory the failed run left behind makes `os.mkdir` raise. |
| svnsetup_core | pass | See the list below. |

**generator_core** checks main() on each arrangement of up to three of
seventeen groups, in both modes and with both duplicate verdicts:
- every validated item other than the MFH survives whole in the image
  (`SectionsIntact`), across parse_layout's spans, validate_layout and
  the address-ordered writes;
- every boot-list entry of the MFH points at a directory entry whose
  address and size are where the bytes of its item lie
  (`BootListLeadsToItems`).

**spifixup_core** checks listings of one to three volumes of both classes
and overrides, with `'L'` of 4 and 8 bytes:
- every fixed header checksums to zero, after the stamps and the zeroing
  of the checksum field (`HeaderChecksumValid`).

Module indexes are not checked: listings of three files never reach the
17th boot-stage1 volume, where the index runs into the recovery range.

**platformdata_core** checks valid and invalid INIs under Python 2 and 3,
with clashing and distinct paths and images of 64 KiB and 1 MiB:
- a PDAT block is produced only for records the format admits, and it
  decodes to exactly those records; every admitted INI gets one, except
  under Python 2 one with non-ASCII text, where the code raises;
- a normal exit leaves the original intact, the standalone block, and the
  copy patched at size − 0xF0000.

**dupscan_core** checks every text of a group header followed by up to
three lines from an alphabet of eleven:
- a reported duplicate option has its first occurrence in the same group;
- a repeated group name never passes.

**fvpackaging_core** checks every subset of numbered images 1-3 of each
class, with and without the RMU files and with valid and invalid build
type and directory. It reaches every step of the script and checks only
the type invariant. The pairing of images by number is exact below 10,
and with `IMAGE10` it goes wrong (see below), so no property states it.

**gitsetup_core** checks listings of zero or two patches and every kind
of configuration, over three invocations with one transient network
failure:
- a successful run extracted every new-files directory itself;
- a successful run checked out a workdir it created, at the commit gitref
  names.

Two mutants break these: tolerating an existing directory
(`ExtractExistOk`), and reusing an existing workdir (`CheckWorkReuse`).
The code's refusals are what keep a run from building on a failed run's
leftovers. gitsetup_rerun shows the price: with one patch and a
configuration on the clone path that can succeed, no rerun ever does. A
failed clone removes its directory, so the only leftover is the new-files
directory. (On the tag path the failed fetch also leaves the workdir,
which the code refuses on purpose.)

**svnsetup_core** checks every option and environment, with externals
files of one or two lines in the svn 1.5 or the old format, or one line
and a blank one, and directories absent or unversioned. It runs three
invocations with one kill or failing command at any step:
- the clone's .svn is always a working copy of the repository at
  ADHOC_PATH, whatever step an earlier run died at (`StaleFree`);
- once the last fault has happened, an invocation whose options and disk
  allow it (`Feasible`) runs to its end, whatever an earlier one left
  behind: a .svn, ADHOC_PATH, or an ADHOC emptied by the move
  (`RecoversAfterLastFault`, a leads-to property).

`Feasible` counts an obstruction `--delete` leaves: for an old-format line
get_dir names the URL's basename, not the external's directory.

The mutants are a make-room step that keeps .svn (`MakeRoomKeepsSvn`) and a
checkout that refuses
the emptied ADHOC too (`CheckoutIntoNoneOnly`). A working copy left in ADHOC
is excluded from `RecoversAfterLastFault`. A run killed between the checkout
and the move leaves one there, and every later run dies at the checkout.
The run reaches that branch. No property claims a rerun recovers from it,
because it does not.

Every property of a passing run has a mutant in `PROJECT.json`: a plausible
bug in the mapped code under which TLC finds the property violated.
Examples:
- an off-by-one span;
- a missing checksum reset;
- a checkout that refuses an emptied directory;
- a patch offset counted from the start of the file.

## Bounds

- **Generator.** The manifests cover every branch of parse_layout,
  generate_mfh and validate_layout:
  - a second MFH group;
  - the version and layout meta items;
  - a repeated file;
  - an unknown type and an empty type;
  - items below the flash, and one too big for its span;
  - a manifest without an MFH group, and one without a global group.
  - an MFH item one byte below the flash, which passes mfh_entry()'s range
    check.

  Three extra groups is the first size at which an allocation conflict, a
  boot list and a validation failure occur together.
- **SpiFixup.** Listings of up to three files let both classes interleave,
  and let an override come before and after the volumes. The index
  overflow needs 17 boot-stage1 files and is not checked.
- **PlatformData.** The records cover:
  - every data type, with a non-ASCII utf8.string under both Pythons;
  - the widths 8, 16 and 12;
  - each error of get_data and parse_ini: a bad digit, odd-length hex, a
    desc over 10 bytes, 16-bit overflow, a bad prefix, an unsupported width.

  The image sizes lie on both sides of 0xF0000, so the negative seek
  happens.
- **DupScan.** Lines cover each branch of the loop: comments, blank lines,
  repeated headers, the same key with and without spacing, keys differing
  in case, `;` comments with and without a separator, and indented
  continuations. Four lines are enough for a repeat in the second group.
- **FVPackaging.** Numbers 1-3 give matches, gaps and an unmatched stage2.
  A listing with `IMAGE10`, the first number at which the prefix match goes
  wrong, is not checked (see below).
- **GitSetup.** Three runs and one fault are enough:
  - the first run fails on the network;
  - a second run meets its leftovers;
  - a third shows the failure is permanent.

  With an empty listing, the workdir check is reached on a rerun.
- **SvnSetup.** Three runs and one fault: a run killed at any step, a rerun
  that meets what it left, and a third run. The names `a` and `b` are the
  externals' directories and `trunk` the basename of their URLs, so the
  `--delete` of an old-format line removes a directory that exists.
  Nested directories are left out.

## Fairness and deadlock

Each tool is one process that runs its steps to the end. `Spec` therefore
has weak fairness on `Next`. In GitSetup and SvnSetup this fairness also
covers `Rerun`. gitsetup_rerun asks whether someone who keeps re-invoking
the script after a failure eventually gets a checkout, so the retries are
the assumption the question is about. `RecoversAfterLastFault` needs only
the steps of one invocation: its precondition is a process at its first
step.

The programs exit, so the final states `"done"`, `"died"`, `"ok"` and
`"failed"` have no successor, and the cfgs say `CHECK_DEADLOCK FALSE`.

## Not modelled

- **scan-padding.py** changes no state: for each file and pad byte it
  prints `str.count` of a 16-byte run, rounded to kilobytes.
- **FlashModules before the run.** FVPackaging starts from an empty output
  directory. Images left there by an earlier build are listed as a hazard.
- **Generator and DupScan together.** In Generator the scan's verdict
  remains an input. DupScan checks the scan on its own.
- **Report contents.** The text of image_info.txt, layout.mk and
  CapsuleComponents.ini is not modelled, only which files are written.
  `GenLayoutMk` therefore always succeeds, though line 559 raises TypeError
  for a signed section without svn_index: sign is not part of a section.

## Behaviour found while modelling, without a run

Each of these is a hazard in `PROJECT.json`, with a note:
- mfh.bin is 536 bytes, not 512: the padding ignores the 24-byte header
  (generator.py:491).
- An MFH in the top 512 bytes of the flash writes past the buffer, and the
  file grows, where spec §4.4 makes it fatal (generator.py:610).
- Under Python 2 a non-ASCII utf8.string value or desc raises
  UnicodeDecodeError, though spec §4.5 admits UTF-8 literals
  (platform-data-patch.py:128, 159).
- The 17th boot-stage1 volume gets index 16, a recovery index
  (QuarkSpiFixup.py:169).
- Under Python 2, `hex.uint12` is accepted and encoded as 1 byte
  (platform-data-patch.py:133).
- An indented continuation line is reported as a duplicate key
  (generator.py:271).
- `address = 1` and `address=2` in one group pass the duplicate scan:
  option_re keeps the blanks before `=`, and the comparison is
  case-sensitive. ConfigParser merges the two, and the second value wins.
  Spec section 8 says a duplicate key is rejected (generator.py:264).
- svn_setup.py's `--delete` removes the URL's basename for an old-format
  `dir URL` line, and the last path component for a nested directory, so
  `--download` still meets the obstruction (svn_setup.py:154). After a kill
  between the checkout and the move, no rerun gets past the checkout
  (svn_setup.py:137).
- A bad build type or a missing build directory exits with status 0
  (QuarkSpiFixup.py:425).
- The header's boot count includes non-MFH items with a boot_index. The
  boot list does not (generator.py:486). Shipped layouts give boot indexes
  to MFH items only.
- With ten recovery images, `IMAGE1`'s pattern also matches `IMAGE10`,
  which sorts later. The recovery image then gets IMAGE10's stage 2
  (QuarkSpiFixup.py:380).
- gitsetup.py compares SHA with the checkout only for a tag at depth 0
  (gitsetup.py:126).

## Later work

- Feed DupScan's verdict into Generator, so the two are checked as one
  pipeline step.
- SvnSetup with nested directories.
