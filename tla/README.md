# A verification development of apple-re

TLA+ models of apple-re (Rust), TLC runs over small instances of them, and
TLAPS proofs about them. Source paths below are relative to `src/crates/`.

- `tlc -workers 2 -config X.cfg M` runs a model; every run is in the table below.
- `tlapm M.tla` checks the proofs of a `...Proofs` module.

## The system

apple-re opens an IPA (a ZIP of an iOS application) or a Mach-O file, decodes
it and prints what is in it; four commands also edit an IPA. It is sequential:
there are no threads, and one process shares with another only the files on
disk. What is hard in it is not concurrency but (a) the edits, which read a
file, decide, and overwrite a file that may be the same one, (b) loops over
tables that a file supplies, whose end and whose result depend on the file,
(c) choices that two parts of the program make separately and must make alike,
and (d) damage: at each level some errors skip an entry, some lose a list, and
some fail the file, and which is which is decided by a `?` or an `if let`.

| Component | State | Operations | What is hard | What makes it correct |
|---|---|---|---|---|
| `ipa_vfs` VFS (`bundle.rs`) | `files`, `app_prefix` | `open`, `insert`, `remove`, `to_bytes`, `bundle`, `main_executable_path` | the prefix is cached; directory names; names that occur twice | what is written opens as what was in memory; one prefix throughout |
| `ipa_vfs` ZIP (`zip.rs`, `zip_write.rs`) | offsets written so far | `open`, `read`, `write_stored_zip` | offsets past 4 GiB, entry limits, damaged entries, the search for the end | an archive that opens has the contents that were put into it |
| `ipa_vfs` plist (`plist.rs`) | none | `parse_info_plist` | two formats | the executable is found in both |
| `apple_re_cli` edits (`main.rs`) | the files on disk, the open VFS | `add`, `rm`, `replace-bin`, `pack` | kill or failure between truncation and write; input = output | each command is an atomic edit of the files' contents, or loses the output |
| `apple_re_cli` inspection (`main.rs`) | files that `extract` writes | `info`, `list`, `extract`, `cat`, `disasm`, `decompile`, `objc`, `symbols`, `entitlements` | which slice; paths written by `extract` | they look at the slice the others look at |
| `macho_core` files (`file.rs`, `names.rs`) | none | `parse`, `parse_arch`, `fat_arches`, load commands, sections, address mapping | which slice a name stands for; where a loop over bad commands stops | all commands look at the same slice |
| `macho_core` dyld info (`dyld.rs`) | the registers of the bind machine, the recursion over the trie | `binds`, `exports` | registers that persist, wrapping offsets, three tables, a trie that leads back to itself | the list is what the opcodes and the trie say; both end |
| `macho_core` chained fixups (`chained.rs`) | `by_file_offset` | `chained_fixups`, `resolve_vaddr`, `bind_name_at_vaddr` | chains through the file, overflow lists | the fixups are those of the chains; the walk ends |
| `macho_core` archives (`archive.rs`) | members, the table of long names | `open`, `find`, `member_data` | padding, two long-name conventions | what was written is found, with its content |
| `macho_core` signatures (`codesign.rs`) | the blobs found so far | `parse_code_signature`, `parse_code_directory` | fields at a running offset; bad slots | each field is where the format has it; one bad slot loses only itself |
| `apple_metadata` ObjC (`objc.rs`) | the lists so far | `ObjcMetadata::parse` | pointers through fixups; unreadable entries | one fault loses only what it is in |
| `apple_metadata` refs (`refs.rs`) | the lists so far | `ObjcRefs::parse`, `apply_selector_map` | it finds class names in a way of its own | refs and metadata tell one name, of classes whose data leads to a `class_ro_t` |
| `apple_metadata` symbols (`symbols.rs`) | `by_addr` | `from_macho`, lookups | three sources name one address | the best name wins, whatever the order |
| `apple_metadata` diff (`diff.rs`) | none | `diff_objc` | namesakes; members of one name | it leads from the old image to the new one |
| `apple_metadata` encodings (`encode.rs`) | the rest of the encoding | `format_method_decl`, `format_ivar_decl`, `format_property_decl` | nesting, encodings that are cut short, a panic on one of them | types are declared as encoded, in their places |
| `apple_metadata` dump (`dump.rs`) | none | `dump_all`, `sort_by_inheritance` | removal during iteration, inheritance cycles | a permutation, parents first; it ends |
| `otool` (`otool.rs`) | what was printed | `run`, `dump_file`, `dump_archive_maybe_fat` | names for slices; an error half way | what is dumped is what was asked for |
| `class-dump` (`class_dump.rs`) | header files | `run`, filters, `write_headers` | combinations of filters; file names that coincide; an error half way | what is printed is what was asked for; every class in its own file |

The commands call `ipa_vfs` for an executable (`resolve_macho`,
`load_object_bytes`), `macho_core` for a slice of it, and `apple_metadata` for
what it says; `apple_metadata` reads every pointer through the chained fixups.
`apple_re` is a facade of two functions. The decoder and the decompiler are
sibling repositories and are not modelled.

## The modules

| Module | Models |
|---|---|
| `IpaVfs` | `bundle.rs`, and `plist.rs` as far as the VFS sees it: pure operators |
| `IpaEdits` | the command lines of the four editing commands and what each makes of an archive |
| `BundleStore` | the promise of the editing commands: the abstract specification |
| `IpaCli` | the editing commands step by step over the files on disk |
| `ZipFile` | `write_stored_zip`, `ZipArchive::open` and `read`, the loop of `IpaVfs::open` |
| `FatMacho` | `parse`, `parse_arch`, `parse_fat_select`, `fat_arches`, `arch_name`, `arch_matches`: pure operators |
| `MachoImage` | load commands, sections, `vaddr_to_offset`, reads at an address, `resolve_vaddr`: pure operators |
| `DyldBinds` | `MachoFile::binds` and `parse_bind_ops` |
| `ExportTrie` | `parse_exports_trie` and `parse_export_node` |
| `ChainedFixups` | `parse_chained_fixups` and its helpers |
| `ArArchive` | `ArArchive::open`, `resolve_name`, `find`; what `ar` writes (external) |
| `CodeSignature` | `parse_code_signature`, `parse_code_directory` |
| `ObjcMetadata` | `ObjcMetadata::parse`, on `MachoImage` |
| `ObjcRefs` | `ObjcRefs::parse`, on `ObjcMetadata` |
| `ObjcDiff` | `diff_objc`: pure operators |
| `SymbolTable` | `SymbolTable::from_macho` |
| `TypeEncodings` | the declarations of `encode.rs` |
| `InheritanceSort` | `sort_by_inheritance` |
| `ClassDump` | the class-dump command, composing `ObjcMetadata`, `ObjcRefs`, `ObjcDiff` and `dump_all` |
| `ObjcLayout` | images as compilers and linkers lay them out, damaged in one place, and what they should say (external; the reference for `ObjcMetadata`) |
| `OtoolFiles` | the otool command over its files and their slices |
| `...Proofs` | theorems about the module of that name; `FileTablesProofs` about `ExportTrie`, `SymbolTable`, `ArArchive` and `CodeSignature` |
| `MC...` | the constants of the runs; `MCFileTables` puts six readers that share nothing side by side |

**Editing an IPA.** A name is the `Payload/x.app/` it starts with and the rest,
both as ranks in byte order, which is all that `find_app_prefix`, the map and
the paths of the bundle look at. A content is what the code can tell from it: the
executable it names as a plist, if it is one. A framework is a key and the place
of its binary; which keys `bundle()` can list (`FlatFws`, those without a `/`), and which
places are directory names (that of an empty name), is part of the constants, as
`--framework` takes any name. `IpaCli` has one action for each
step of a command: `OpenIpa` (`open_ipa`), the edit (`EditAdd`, `EditRm`,
`EditReplaceBin`, `EditPack`), `CreateOut` and `WriteOut` (the two halves of
`fs::write`, which truncates and then writes), and `WriteFails`; `Crash` kills
the process at any point. `fs::read` of the input is one step. A file cut short
is taken not to open, as its central directory is its end. The history variables
`seen` and `old` (what opening the input gave; what the output held before) serve
the properties and the refinement mapping `contents`: a file holds what
opening it gives, and the output keeps counting as its old self until the write
is over.

**ZIP files.** A file is its length and what begins at which offset of it; the
writer adds one header or content per step, the reader follows what it finds.
Numbers of four bytes are kept modulo `Width`, as the `as u32` casts do. Foreign
files (other header lengths, comments, methods, damage) go through the reader.

**Bind tables.** `DyldBinds` reveals the tables opcode by opcode: `ReadOpcode`
is one turn of the loop of `parse_bind_ops`, with the registers in `reg`. An
operand that cannot be read is an absent argument. The reference,
`TableBinds`, has no machine: it looks up each bind's registers in the opcodes
before it and sums the gaps.

**Export tries.** `walk` is the stack of open calls of `parse_export_node`:
`Visit`, `Descend`, `Return` are its parts before, in and after the loop over the
children, and `CutOff` its `?`s. The reference enumerates the ways down the trie.

**Chained fixups.** `ChainedFixups` walks pages and chains as the code does and
reveals a word of the file when it is first read, so a run covers every file. Words
keep the bits that overlap between formats (bit 62 is part of `next` in one
format and the bind flag in the other). The errors before the walk (a header that
is cut short, another version) leave no fixups; they are in `MachoImage!FixupsFail`
as far as the load commands decide them.

**Archives, signatures, symbols.** One action per turn of each loop and one per
way out of it. An archive is what stands at each offset, so that a wrong step
reads something else; a code directory's field is the offset it was read from.

**Objective-C metadata.** An image is its load commands and what is stored at each
offset; `Memory` has what each read of the code gives there. One action per slot of
the three lists, one for the end and one for the loss of a list. Within a slot the code
has no effect but its result, so a class is read by operators, in which `Failed`
(an `Err`) and `Nothing` (a `None`) are told apart as the code tells them apart.
`ObjcLayout` lays a source out as the runtime has it, in three forms of method lists,
with or without chained pointers, the Swift tag and a `class_rw_t`. The properties of
`--refs` say what the source of the image is, and are in `MCClassDump`.

**Class-dump.** `Start` checks the options and prints the references; `Read`,
`WasRead` and `CouldNotBeRead` read the images in turn (a framework that fails is
left out); then `PrintDiff`, or `Emit` for each image, whose header files
`WriteHeader` and `WriteFails` write one by one. A pattern is the set of names
that it matches. Sorts and `retain` are functions of positions (`InOrder`, `EntriesAt`);
`ByInheritance` says in one recursive function what `InheritanceSort` does in steps.

**Type encodings.** An encoding is a sequence of characters, in which a name counts
as one where the code does not look into it. A printed type is a sequence of words.
`PrintTypes` is the formatting of all types of a declaration: it prints the declaration or,
if one of them is a `{` that is left alone, ends the program (`aborted`).

**Sorting by inheritance.** One action per branch of the loops. Lists that are
in name order stand for the stable sort of every list.

**Otool.** A slice is its architecture and what it holds; a printed line is a
record. `DumpNext` is one turn of the `--arch all` loop, which looks its slice up
again by name. What is printed of a slice is left out, and that dumping it can
fail half way is a choice.

Definitions that a comment calls *a faulty variant* are plausible mistakes in the
code (a dropped guard, a missing reset). No specification uses them: put in the place of
the definition that follows them they make a property fail, which shows that the
property depends on that line of the code.

## The runs

| Run | Instance | Shows |
|---|---|---|
| `ipa_cli` | two IPA files, two `.app`s, two commands, archives of at most three entries, three frameworks: an ordinary one, one without a name, one with a `/` in it | the commands implement `BundleStore`; edits are of what was read; which of the names that `replace-bin` takes resolve afterwards to what it wrote, and which to nothing |
| `dyld_binds` | every sequence of up to four opcodes in three tables, width 32 | the list is what the opcodes say; failure means cut short, and nothing remains |
| `chained_fixups` | up to two of five segments, a file of seven units, five words | the fixups are those of the chains; the walk ends |
| `inheritance_sort` | all lists of up to four classes over four names | nothing lost, parents first, the exact order, the end |
| `otool_files` | all files of up to two slices, files of three, pairs of files | dumps are of what was asked; `--arch all` dumps each slice once where names are clear; `parse` and `parse_arch` agree |
| `class_dump` | five sources of up to four classes, three categories and two protocols; three of them (one of realised classes) with every string unreadable, every command cut, every list section moved and every word set to 0, one also to an address outside; and whole ones with combinations of filters, of orders and frameworks, of header files, and of diffs | one fault loses only what it is in (`OneFaultLosesOnlyItsOwn`); references and metadata agree on names, except of realised classes, which references never name (`RefsAgree`); what is printed is what the patterns ask for (`PrintsWhatIsAsked`); header files are whole and their own (`HeadersAreOwn`); a diff leads from the old image to the new (`DiffTellsTheDifference`) |
| `file_tables` | *tries*: all of two nodes with up to two children; *archives*: up to three members in both styles, ended at any of eight places or with a bad size; *symbols*: up to three, with stubs and literals at their addresses; *signatures*: up to three slots (and four, one too many), directories of five versions with lengths around each field; *ZIP*: written ones with sizes around `Width`, foreign ones with each fault; *encodings*: types nested three deep, cut short | what is read is what was written, for each; the trie's walk is bounded and ends |
| `ipa_cli_add_directory` | as `ipa_cli` | *violated*: a file added under a name ending in `/` is gone when the archive is opened |
| `otool_all_slices` | as `otool_files` | *violated*: with x86_64 and x86_64h slices one is dumped twice, one never |
| `fat_default_slice` | as `otool_files` | *violated*: the default slice is the first of any width |
| `inheritance_sort_nsobject` | as `inheritance_sort` | *violated*: subclasses of NSObject precede NSObject |
| `ar_long_names` | the archives of `file_tables` | *violated*: the table of long names is looked for by a name that has lost its slashes, so no long System V name is resolved |

**Bounds.** `MaxCommands` = 2: the second command meets every state the first can
leave (edited, lost, untouched), and since each command starts from the files
alone a third meets nothing new; `MaxEntries` = 3 lets an edit both fit and exceed
the limit of `write_stored_zip`. `MaxOpcodes` = 4: a register set, reset, and two
binds, or two tables with a bind each; `Width` = 32 makes offsets wrap within
that. `MaxSegments` = 2: chains that meet. `MaxClasses` = 4: two waiting chains, a
cycle with a class below it, namesakes of both kinds. Three slices: an ambiguous
pair in both orders, with another before, between or after.

The limits of the code are scaled so that both of their sides occur.
In `file_tables`: `MaxDepth` = 2 (64 in the code), deep enough for a node to be met
again below itself on two ways; `Width` = 256 (2^32), `MaxEntries` = 3 and `MaxName` = 9
(65535) for ZIP files, `MaxComment` = 40 (65535), with comments of 40 and 41;
`MaxSlots` = 3 (256). `HeaderLen` = 60 and `Magic` = 8 are the code's. Long names
have two bytes. In `class_dump`: `MaxMethods` = 3, `MaxIvars`, `MaxProperties`,
`MaxProtocols` = 2 (8192, 4096, 4096, 512), the lengths of the longest lists, so that
a damaged count cannot make a list longer than the model's; a u32 has 16 bits, which
keeps the two flag bits of a method list apart from its entry size; `MaxName` is the
greatest rank of a name.

**Deadlock** is not checked in any run, as every model ends: commands run out,
tables, chains and lists are finite.

**Fairness.** `ChainedFixups`, `InheritanceSort` and `ExportTrie`: weak fairness of the
loop, which nothing interrupts. The other modules state no liveness: a command of
`IpaCli` is straight-line code, the other loops count an index up to the length of a list,
and that they end needs no argument.

**Stated with conditions.** `AllDumpsEachSlice` is for files whose architecture
names are clear, `ListedByPassThenName` for images where a name is one class,
`ReplaceBinResolves` for plists that do not name themselves; it says of the frameworks
that `bundle()` does not list, and `RefsAgree` of realised classes, what happens to them
instead. `ParentsFirst` leaves out NSObject. The violated runs show what the conditions
on slices and NSObject hide. `ReadsWhatWasWritten` leaves the names in a System V table of long
names to `ar_long_names`. `DiffTellsTheDifference` is about classes without a namesake
in their image: of namesakes `diff_objc` compares the last ones. `HeadersAreOwn` is about entries
whose file names differ once made safe. `DeclaresWhatWasEncoded` leaves out what follows an
array with an array in it, which `parse_one_type` takes to end at the first `]`, so that
the arguments after it are shifted, and properties of types with a comma in them,
which `parse_property_attrs` splits; of an encoding cut off right behind an opening brace
it says that the program ends in a panic. `WrittenCanBeOpened` says what the writer does not:
it succeeds with a central directory past 4 GiB, and what it wrote does not open;
`NeverAnotherContent` says that it is then refused and never read as something else.

**Also seen while modelling**, in no run of its own:
an encoding that is cut off behind an opening brace panics in `humanize` (`encode.rs:148`,
in the models as `aborted`; `ClassDump` takes images whose encodings can be formatted); a
pattern that is not anchored panics on a name that is not ASCII, which it
slices at every byte (`class_dump.rs:410`); `exports` walks a shared node once for each way to it (`dyld.rs:137`
bounds the depth, not the number of ways); a lazy bind table is read up to the first
DONE, though linkers put one after every entry; `replace-bin` takes an empty framework
name, or one with a `/`, says that it replaced a Mach-O, and no command finds it under
that name (`main.rs:856`, `bundle.rs:100`; `ReplaceBinResolves` says for which names);
`--refs` prints a placeholder for a class that has been realised, because the words of a
`class_rw_t` resolve too and the lookup behind the comment `class_rw_t → ro at +8` is never
reached (`refs.rs:233`; `RefsAgree` says for which classes), while the list of classes has
its name; `otool -f --arch all` opens slices
that `-f` alone does not; two classes that differ only in characters that
`sanitize_filename` replaces share one header file.

## The proofs

All theorems are for every value of the constants, from the assumptions that the
modules state on them:

- limits and widths are numbers, above zero where the code's are (`MaxAssumption`,
  `WidthAssumption`, `LengthsAssumption` and their like);
- the images, archives, files and jobs that a run chooses from are of the type the module gives
  them (`SymbolFilesAssumption`, `JobsAssumption`, `OldFilesAssumption`); a trie is a sequence of nodes with
  sequences of children, whose labels are sequences of numbers, and an edge leads to a node, out of the data
  or to what cannot be read (`TriesAssumption`; which node is open, so a trie may lead back to itself); of the images of a
  command line (`ArgumentsAssumption`) this is only that what is stored in them, and what rebased pointers
  lead to, are numbers (`IsImage`);
- `LayoutsAssumption` says that the archives of `MCFileTables` are laid out as `ar`
  lays them out (`IsWritten`): the run checks it, the theorem has `IsWritten` as part of the
  property.

None of the invariants is inductive as it stands; the strengthening is named with each.

*`IpaCliProofs`* (names, archives, limits, commands and behaviours of any number and
length):

- `TypeCorrect`: `Spec => []TypeOK`. It rests on `DecodeType` and
  `FindAppPrefixType` (that the last entry of a name and the least app exist).
- `EditCorrect`: `Spec => []EditIsOfWhatWasRead`. The property speaks of the command
  after its edit. `IInv` adds what holds before it: that the
  VFS is what was opened, that the cached app is the one of the files that were
  opened, that these have no directory names, and that the input is still what was
  opened until the output, if it is the same file, is truncated.
- `CommandsAreAtomicEdits`: `Spec => ImplementsStore`. Every step leaves `contents`
  as it was, except `WriteOut`, which maps to `Edit`, and `WriteFails` and `Crash`
  while writing, which map to `Lose`. The case of `WriteOut` needs `RoundTrip`: the
  archive that `to_bytes` writes decodes to the files of the VFS that are not
  directories, which needs `KeySeqPlaces`: the keys in order are each key once.
- `ReplacedAlwaysResolves`: `Spec => ReplaceBinResolves`, an action property, from
  `TypeOK`, `IInv` and `RoundTrip`, for every framework name: `ReplacedIsResolved` has
  the names that `bundle()` lists and those with a `/`, `DirectoryIsNotResolved` the
  empty one, whose binary no archive that was read has.

*`ZipFileProofs`* (entries of any number and size, any `Width`). `ZipInv` has a part for each
stage of writing and reading: the local headers written so far stand where the
offsets say, modulo `Width` (`LocalsInv`), the central directory repeats them
(`DirectoryInv`), what is written has no other signature (`Written`), the reader has the
first of the entries (`CentralsInv`, `ContentsInv`), and it gives up only where an offset has
lost its upper bits (`Refused`).

- `WrittenFilesReadBack`: `ZipSpec => [](~job.foreign => NeverAnotherContent)`;
- `WrittenAlwaysOpens`: `ZipSpec => [](~job.foreign => WrittenCanBeOpened)`.

Both are about files that `write_stored_zip` wrote; what the reader makes of foreign
ones is model-checked. In the model a stored content holds no signature of its own.

*`InheritanceSortProofs`* (lists of classes of any length, with any names). `SortInv`
adds to the properties that no class has been placed too early (`Placed`), that what is
listed and what remains are the image's classes, and that in a pass which has taken
nothing so far no class it has passed is ready (`NoneReady`).

- `NothingEverLost`: `Spec => [](TypeOK /\ NothingLost)`, and `TypeAlwaysOK` from it. The heart is
  `Split` and the lemmas on occurrences after it: removing the class at the index and
  appending it elsewhere leaves every class as often as it was.
- `ParentsAlwaysFirst`: `Spec => []ParentsFirst`. When a pass takes nothing, what
  remains are classes each of which waits for one that remains, which is
  what `Stuck` says; until then a class was taken only after its superclass.
- `AlwaysByPassThenName`: `Spec => []ListedByPassThenName`. `PassInv` adds the number of the pass and
  what it means: what is listed has that number or a lower one, what the pass has taken comes in
  name before what it has yet to see, what it has left is due in a later pass, and the
  k-th class that is listed has less than k classes above it. From the last the lines of superclasses end
  within `MaxClasses` steps, and `PassOfSuper` counts the steps; `LinesAreThere` says
  that the recursive function that `Ancestors` defines exists. The lines of what remains have no end (`StuckHasNoEnd`).

*`DyldBindsProofs`* (tables of any length). `BindInv` adds that opcodes which
end a table have not been read while it runs, and that later tables have not been
read at all.

- `BindsAreTyped`: `Spec => []TypeOK`: registers and listed binds stay in range, and
  offsets within `Width`.
- `FailsExactlyWhenCutShort`: `Spec => []FailsOnlyWhenCutShort`.
- `ListsAlwaysWhatOpcodesSay`: `Spec => []ListsWhatOpcodesSay`. `ListInv` adds that the
  registers are what the part of the table that has been read says of them (`Held`), and that what is
  listed are the binds of that part after those of the tables before. Three
  things carry it: wrapping at each step and once at the end is the same
  (`WrapsOnce`); a table with one more opcode has the binds it had and those of the last
  (`TableBindsOneMore`), for registers as `HeldAfter` has them; and the recursive functions that sum gaps and join lists
  exist, agree with each other and go on by one step (`Sums`, `Joins`, `Same`), from
  induction over sets of numbers (`AllNumbers`).

*`ChainedFixupsProofs`* (images of any segments, pages and chains):

- `WalkStaysInTheFile`: `Spec => []TypeOK`: only words that lie
  whole in the file are read, and what is recorded is of them. `FixupInv` adds that the
  chains still to be walked start at numbers, and that there are some only in a page; for that,
  `StartsAreOffsets` says what `ChainStarts` returns for overflow lists.
- `FixupsAreOfTheChains`: `Spec => []FixupsAreTheChains`. The property takes the chains of a
  segment as the least set that has their starts and, with a pointer, its next.
  `ChainsInv` adds, for each segment, which pointers have been walked: all of its chains
  (`Walked`), those up to the place of the walk (`Walking`), or none; and the fixups are those of the
  pointers walked, a later segment's over an earlier one's (`Fixed`). When a segment is done what
  was walked is closed, so it contains the least closed set, and it was reached from the starts, so it
  is in each of them (`ChainsAreThere`).

*`FileTablesProofs`*:

- `DepthAlwaysBounded`: `ExportSpec => []DepthIsBounded`, for any trie and limit;
  `StackInv` adds that the walk is a sequence.
- `EveryWayIsListed`: `ExportSpec => []ListsEveryWay`. `TrieInv` says that the calls that are open are
  at the ends of a path from the root; how far each has come tells which ways have been seen
  (`SeenIn`): those before the path in the order of the walk. The exports are in bijection with the
  ways seen that lead to an export (`Lists`), and none of the nodes seen is cut off (`NoneCut`). A step adds
  one way at most: `Visit` the path itself (`VisitSees`), `Descend` none, and `Return` only ways that lead
  nowhere or past the limit (`NothingIsMissed`). At the end all ways have been seen. Sorting is by rank,
  which is a permutation because `Before` is a total order of names (`SortPlacesAll`).
- `SourcesAlwaysInTurn`: `SymSpec => SourcesAreInTurn`, an action property of every
  step.
- `BestNameAlwaysWins`: `SymSpec => []BestNameWins`. `SymInv` says at every step that each address has the
  best of what has been said of it so far, by the entries of a source up to the index.
- `ContentsAlwaysApart`: `ArSpec => [](ArTypeOK /\ ContentsAreApart)`, for any
  archive, whether `ar` wrote it or not; `ArInv` adds that all contents end before the
  next header. `ArTypeAlwaysOK` follows.
- `WrittenMembersAreRead`: `ArSpec => []ReadsWhatWasWritten`. `PartsInv` adds that the members
  read are the first of those written, and that the next header is the next one's, until the reader has
  ended or the place of the damage is reached.
- `FieldsAlwaysInPlace`: `CsSpec => [](CsTypeOK /\ FieldsAreInPlace)`; `CsInv` adds that every
  directory that is kept is the one read from a blob of a slot (`ReadFrom`). `CsTypeAlwaysOK` follows.
- `OneBadSlotAlwaysLosesOnlyItself`: `CsSpec => []OneBadSlotLosesOnlyItself`. `SlotInv` says at every
  step that what is kept is what the slots taken so far have (`FoundUpTo`).

*`OtoolFilesProofs`* (command lines of any files, files of any number of slices):

- `DefaultsAlwaysAgree`: `Spec => []DefaultsAgree`: `parse` and `parse_arch` without an
  architecture open the same slice, and every listed architecture selects one.
- `TypeAlwaysOK`: `Spec => []TypeOK`. `TypeInv` adds that the slice the loop is at is one of
  the file's.
- `DumpsOnlyWhatIsAsked`: `Spec => []DumpsWhatIsAsked`. `AllAsked` says it of every list of
  lines, so that what is printed can grow at its end.
- `AllAlwaysDumpsEachSlice`: `Spec => []AllDumpsEachSlice`. `TurnInv` adds that what has been printed of
  the file are its slices before the one the loop is at.

*`ClassDumpProofs`* (any images, filters and options):

- `TypeAlwaysOK`: `Spec => []TypeOK`, with `TypeInv`: what is printed counts the images read.
- `DiffAlwaysTellsTheDifference`: `Spec => []DiffTellsTheDifference`. `DiffInv` says that what was
  printed is the diff of the first two images read. What it says of a class is then
  a matter of `diff_objc` alone: the maps by name that it builds have for a name without a
  namesake that class.
- `HeadersAreAlwaysOwn`: `Spec => []HeadersAreOwn`. `HeadInv` adds that the files of the entries
  before the index are there, whole, unless another entry of the same name came after.
- `PrintsAlwaysWhatIsAsked`: `Spec => []PrintsWhatIsAsked`. `PrintInv` adds to `HeadInv` that every class
  and category that was read has its methods in sequences, whatever its header and its counts say
  (`ReadInv`), and that the dumps printed so far are those of the first `emitted` images of which the
  filters leave something, in turn (`Dumped`). What remains is about one image: the filters leave the
  entries that are asked for (`FilterMetaIs`), and the three sorts lose nothing and add nothing (`InOrderShape`,
  `ByInheritanceShape`), whatever the order. The theorem does not say what the order is; `InheritanceSortProofs` does,
  for inheritance. The recursive functions by which sorts are defined exist because every definition by steps
  has a function (`StepsAreThere`).

Only model-checked:

- liveness (`WalkEnds` twice, `SortEnds`), out of the prover's reach;
- `DeclaresWhatWasEncoded`, whose reference is recursive over types (`Encoding`, `Declared`);
- `OneFaultLosesOnlyItsOwn` and `RefsAgree`: they are true of the images that compilers and linkers
  lay out, which `ObjcLayout` builds by folds, and not of every memory;
- `NeverAnotherContent` and `WrittenCanBeOpened` for archives that others wrote.

## What is not modelled

- Two commands at once on one file: they share nothing but the file and take no
  lock, and the last write wins.
- `extract`, `list`, `cat`, `info`, `disasm`, `decompile`: they read once and print;
  `extract` writes files one by one as `write_headers` does, and leaves those that were written
  when one fails.
- What otool prints of a slice, the accessors of single load commands, and
  formatting of every kind: straight decoding, with no state and no choice that another
  part makes too.
- `types.rs`: layouts and constants. The facade `apple_re`. Argument parsing.
- Decompression, checksums (the CRC of a ZIP entry is written and never compared, nor is
  the size that an entry states for its inflated content; compressed content that is broken is
  read as some other content or not at all), XML and binary plists: a content is read or is not.
- LEB128 decoding (a value is read or is absent), names of imports (a list).
- Images in which `segment_offset` is not the segment's file offset, and where a pointer
  leads that is in no chain (among them the authenticated ones, which the parser leaves out
  and `resolve_vaddr` then reads undecoded): the code's behaviour is modelled, but
  nothing says what would be right.
- `apply_selector_map`, and the lookups on a finished symbol table.
- How many binds a repeat count may make: the code has no bound but memory.

Of what is left, the accessors of load commands and the dumps of otool are many lines of
decoding without control; modelling them would copy them.
