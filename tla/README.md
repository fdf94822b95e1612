# wrasm in TLA+

wrasm is a small RISC-V assembler in C: one source file in, one relocatable
ELF64 object out, one thread, two passes. This directory holds its
specification. The interesting part of such a program is not concurrency but
distance. A size is counted when a line is parsed and the bytes it stands for
are produced by other code much later; a pointer into a hash bucket is taken
when a name is first seen and followed once all names are known; three loops in
three functions have to visit the symbol table in one order and agree on every
offset. The models are about those distances.

`PROJECT.json` lists components, runs, mutants, findings, hazards and theorems,
and maps every definition that models code to the lines it models.

## The system

| Component | State | Operations | Talks to |
| --- | --- | --- | --- |
| Line reader, `getl` (`generation.c`) | the line buffer, its size, the write pointer | read one line, growing the buffer | called by `parse_file` |
| Source reading (`generation.c`, `directives.c`) | the position of the current line, the line number | `parse_line`, labels, `.section`, `.globl`, `.ascii`, `.asciz` | symbol table, sections, item lists |
| Instruction parsing (`parse.c`, `registers.c`) | `strtok`'s hidden pointer | `parse_asm`, one argument handler per syntax | symbol table, instruction list, sections |
| Symbol table (`symbols.c`) | 256 buckets, each an array grown by `realloc` | find, find or create; loops over all | returns pointers into its arrays |
| Item lists (`bytecode.c`) | instructions and data items with their positions | append; write all | encoders, sections, symbol table |
| Encoding (`form/*.c`) | none; constant tables | mnemonic to form, form to bytes | symbol table and section offsets, for operands |
| Sections (`elf/output.c`) | size, file offset, contents, name offset of five sections; the section selected | grow, lay out, write at a position, flush | temporary file |
| Logging and allocation (`debug.c`, `xmalloc.c`) | diagnostics per level | log, and exit from `ERROR` up | everything |
| Driver (`main.c`, `args.c`) | the files | open, assemble into a temporary file, copy, exit status | argtable3, `parse_file` |
| Command line (argtable3's `arg_parse` and its own `getopt_long`) | a permuted copy of `argv`, the cursor in a cluster of letters, the values stored so far, a list of errors | one word or letter per step | called by `parse_cmdargs` |

Two pieces of state are shared by nearly everything: the sizes of the sections,
which are also the current addresses, and the symbol table. They are linked by
values taken at one time and used at another.

What is hard here, and what makes each part correct:

* **Symbol table.** One entry per name whatever the hash does, entries that keep
  their index, bindings and definitions that survive each other in any order;
  and pointers into a bucket that are still good when they are followed.
* **Positions.** Instructions take the position read before their line was
  parsed, strings one read afterwards; still the items of a section have to tile
  it exactly.
* **Two passes.** Counted and emitted bytes agree, so that no write overruns its
  section and no byte of uninitialised memory reaches the file.
* **Tables.** Symbol entries and section headers point to their own names.
* **Layout.** Sections are aligned and disjoint, empty ones included.
* **Errors.** What is reported, what is silent, and what is undefined; the
  process ends in every case.
* **Line reader.** No write outside the buffer, no character lost.
* **A line's text.** What a line is taken for is decided by tests in a fixed
  order over a text whose comment and blanks are still partly there; scans stop
  at white space, commas, quotes and NULs that need not come.
* **Words.** Hundreds of rows of tables typed by hand, handlers that
  take operands in different orders, and immediates scattered over a word. The
  word has to *do* what the line says, and a malformed line must not pass.
* **Command line and files.** Options anywhere among the operands, clusters,
  abbreviations and `--`; an output that is truncated before there is anything
  to put into it; stream errors nobody looks at.

## Modules

| Module | Models | State |
| --- | --- | --- |
| `Process` | `debug.c`, `xmalloc.c`, the exit status | `status`, `logged` |
| `Elf` | the constants of `h/elf/*.h` and the tables of `elf/output.c` | – |
| `Output` | the functions of `elf/output.c` | `outputsection`, `size`, `offset`, `contents`, `nameoffset`, `info` |
| `Symbols` | `symbols.c` | `symbols`, `block` |
| `Bytecode` | `bytecode.c` | `instructions`, `dataitems` |
| `Assembler` | `main`, `parse_file`, the parse functions, all loops | `pc`, loop variables, the files, the history `source` |
| `SymbolTable` | `symbols.c` alone, under any sequence of calls | as `Symbols` |
| `LineReader` | `getl` | its local variables and the buffer |
| `Registers` | `registers.c`: register names, CSRs, immediates, and the `strtol` under them | – |
| `Encoding` | the handlers of `form/generic.c` and `form/base.c`, bit by bit | – |
| `Instructions` | the seven tables of mnemonics | – |
| `Arguments` | `stringutil.c` and the argument handlers of `parse.c`, `strtok` included | – |
| `Line` | `parse_line`, `parse_line_trimmed`, labels, directives, strings and escapes, `parse_asm`, `write_instruction`, for one line | `written`, `text`, `point`, `made`, `room`, `overread` |
| `CommandLine` | `args.c`, and of argtable3 what it calls | `nargv`, `optind` and the rest of getopt's, `given`, `errors` |
| `Driver` | `main.c` | `files`, `tempfile`, `output`, `disk`, `before` |
| `Words`, `Lexemes` | machine words as sets of bits; what a lexeme of the source stands for | – |
| `Isa` | reference: what a machine word does, what an instruction means | – |
| `Lines` | reference: a line as its author means it, its text, and what is expected of an assembler that reads it | – |
| `Usage` | reference: the command line read from left to right; what a run promises | – |
| `SymbolMap` | abstract: a map from names to records | `map` |
| `Source` | abstract: what a source text means and which object translates it | – |
| `ObjectFile` | abstract: read a source, deliver its translation or fail | `source`, `outfile`, `status` |
| `MCAssembler`, `MCSymbolTable`, `MCLine`, `MCDriver` | constants for TLC | – |
| `SymbolsProofs`, `SymbolTableProofs`, `AssemblerProofs`, `AssemblerContentProofs`, `AssemblerObjectProofs`, `LineReaderProofs`, `LineProofs`, `DriverProofs` | proofs | – |

`Process`, `Output`, `Symbols` and `Bytecode` are modules of operators, one per
C function, over the variables of that file. `Assembler` extends them all and
makes actions of them. `SymbolTable` composes `Symbols` alone. `Line` composes
`Arguments`, `Registers`, `Instructions` and `Encoding` in the same way, and
`Driver` extends `CommandLine`.

The program is modelled at three grains that share `Process`. `Driver` sees the
whole run and takes `parse_file` as one step that ends in one of the ways
`Outcomes` lists for the source: with an object, a silent return that writes
nothing, a diagnostic or a fault; `Assembler` is that step for whole sources whose lines are sequences of
units; `Line` is what becomes of one unit, from its characters to its bytes. The
products of the three would be far larger than any of them and would ask no
question that none of them asks alone: a line depends on the others only through
the symbol table and its position, and the driver on the assembly only through
its result.

### From code to actions

A step of the reading half of `Assembler` is one parse function with every call
it makes: `ParseAsmSymbol` interns the name, appends the instruction and grows
the section, as `parse_asm` and its argument handler do. A step of the writing
half is one iteration of a loop. `pc` names the loop or call the program is in
and stays where the process ends. The two loops `calc_symtab_str_buf_size` and
`calc_symtab` visit the same entries and are one loop (`CalcSymbol`).

The source is chosen as it is read: `Unread(unit)` picks the next unit of the
line, and the history variable `source` keeps them. Nothing in the program reads
it; `Source` and the properties do. A line is any sequence of labels followed by
nothing, a directive or an instruction.

**Pointers.** A `struct symbol *` is a bucket, an index and the block of memory
the bucket's array was in. `realloc` may move the array to a new block. A
pointer with an old block dangles, and reading section and value through it, or
reading those of a symbol no label was parsed for, gives what the build may
give: the `Symbol not found` diagnostic, a wrong type, a garbage operand, or a
fault.

**Section contents** are the writes made, as extents (place, length, meaning).
What a byte of the object is, is then a question about extents, and the
translation of a source can be stated without encodings.

**Diagnostics** are a level and an id. `exitloglevel` is `ERROR` and nothing in
the program changes it, so everything from `ERROR` up ends the process in the
call. `minloglevel` is only ever lowered, by `-v` or `--verbose`.

**Abstractions.** Names and string literals are model values with a length.
Instructions come in four forms that layout and references tell apart: `word`
(4 bytes, no symbol), `li` (8 bytes, no symbol), `branch` (4 bytes, a symbol)
and `la` (8 bytes, a symbol). In `Assembler` the text of a line, arguments and
bit fields are left out, and every diagnostic of argument parsing is
`ParseError`; `Line` has them.

**Text.** A line is a sequence of lexemes: a name, a number or a single
character, blanks and punctuation always one each. The tests of the code look
for characters that are lexemes of their own, so its scans become scans over
lexemes. Where the code looks *into* a name or a number the constants say what
is there: `Literal` the sign, prefix and digits of a number, `XValue` what
`strtol` makes of the rest of a word that begins with an x, `HexDigit` and
`Ascii` the characters of strings. Memory behind the end of a line is any of
`Leftover`, or unreadable.

**What a line means** is stated independently: `Written` holds lines as their
author means them (labels, a body, what stands around it), `Rendered` gives the
text, and the handlers see that alone. `Isa` decodes the words that come out,
from the formats of the instruction set and from none of wrasm's tables.

**Words** are sets of bit positions, so shifting is renaming, cutting is
intersection and or is union, and no arithmetic exceeds TLC's 32 bits.
Literals stay below 2^31.

**getopt.** A word is a sequence of characters; a step is one turn of
`getopt_internal`, that is one word or one letter of a cluster. `permute_args`
is the code's cycle-leader algorithm with its `gcd` (`FollowCycle` is the inner
loop, one swap for each place of a cycle). The search for a partial
match over the table of options is a set of matches (`Abbreviations`); an exact
match wins in both.

**Files** are sequences of characters by name; the standard output is one more
name. The constant `Outcomes` gives for each source the ways in which
`parse_file` may end, more than one where it depends on indeterminate memory: an
object, the return at `generation.c:78` after which `main` copies an empty
temporary file, a diagnostic that ends the program, or a fault. A file that
exists may still not open. From some step on the disk may be full, and then a
write stores any shorter part of what it is given.

## Runs

| Run | Question | Bounds |
| --- | --- | --- |
| `symbols` | Is the bucketed array a map, with entries that stay? | 3 names, 2 in one bucket; any number of calls |
| `assembler` | Is what is delivered a translation of the source? | 2 names, 2 strings (lengths 0 and 3), 4 units, 3 lines, one name per bucket |
| `collide` | Which of that survives two names in one bucket, which pointers may dangle, and does the process always end? | 3 units, one bucket, allocations may fail |
| `getl` | Which lines are read whole while the buffer grows, and which make an undefined write? | increment 4, lines up to 14 characters, `realloc` may move, the last line may lack its newline |
| `line` | What is a line taken for, and do its bytes do what it says? | every mnemonic with every operand of `MCLine`, every register in every place, every CSR; 22 mnemonics with each way of being malformed; all strings of up to 2 of 13 characters; 11 things behind and 2 before every kind of line, with up to 2 labels |
| `driver` | Does the command line mean what it says, and what is in the files afterwards? | 20 kinds of words in lines of up to 3, 5 of them in lines of up to 5; two file systems, of sources that assemble to objects of 2 and ½ blocks or are refused, and of one that stops the parser silently and one whose jump to an undefined name may end in three ways; an empty source, 1½ blocks; a list of 3 errors |
| `dangling`, `silent`, `undefined`, `getl_eof`, `getl_move`, `load` | Does the code do what its documentation, diagnostics or tests say? | the smallest that show it does not |

Why the bounds are enough. A section, a label or an operand goes wrong through
the relation of two items, or of an item and a label, possibly with a section
change between them: three units hold every such pair with a switch, four every
such pair with two switches or a second label. Two names collide or they do not.
The empty string gives an empty item and, without its NUL, one of no bytes; three
is no multiple of the alignment of `.text`. In `getl` nothing depends on the
line but its length: 14 characters grow a buffer of 4 three times and stop at,
before and behind each boundary. The buffer also grows *within* a run: it is kept
between lines, so all combinations of a buffer size and a line length occur.

In `line` an instruction goes wrong by its row, its handler, an operand or a
field. All rows are there, each with numbers and distances at both ends of every
field, one beyond, and with alternating bits, which a field in the wrong place
does not survive; the registers of an instruction differ from each other. The
line's other dangers lie between neighbouring lexemes, of which the strings of
two characters and the trails hold every kind of pair. In `driver` three words
hold an option, its value and an operand in every order; five words of the kinds
that move hold two blocks to be exchanged, of unequal lengths and more than once.
argtable3 keeps 20 errors where the run keeps 3, so that the list is full within
short lines; `BUFSIZ` is 2, so that an object ends at, before and behind a block.

`MaxUnits`, `MaxLines`, `MaxLine` and `MaxValue` are the only bounds in guards or
choices, and each is a conjunct of one guard or the range of one choice; `Line`
and `CommandLine` have none but the sets of inputs.

What the passing runs show:

* `TypeOK` – all variables in their domains; only `.text` and `.data` are ever
  selected, and operands come from symbols inside the table. In `Line`: every
  byte of a string is a byte. In `CommandLine`: no option is stored past the
  array of its entry and the list of errors never exceeds its length.
* `ItemsTile` – at every moment the items read so far tile their sections.
* `NoOverrun` – the check in `write_sectiondata` never fires.
* `ObjectComplete` – every byte of every section is written exactly once.
* `TablesNamed` – symbol table and section headers point to the right names.
* `LayoutDisjoint` – header, sections and header table are aligned and disjoint.
* `PointersTrack` – with names that share a bucket: each reference of the source
  has its instruction, at its address, whose pointer still has the bucket and the
  index of its name while the table grows; and it dangles only if a later name
  has been put behind its symbol.
* `ImplementsObjectFile` – with one name per bucket the assembler refines
  `ObjectFile`: a status of success comes with an image whose every address,
  operand, symbol entry and section name is what `Source` computes from the text
  by counting units, with no table, no positions and no passes. Two escape
  clauses are part of `ObjectFile` because the code has them: undefined names,
  and directives that stop the assembler silently.
* `ImplementsMap` – `symbols.c` refines `SymbolMap`.
* `Termination` – see below.
* `StaleBeyondRoom`, `PastEndAtEof` – which lines make `getl` write through a
  pointer into a freed block (one that outgrows the first buffer and is longer
  than every line before it) or behind the buffer (a last line without a newline
  that fills it): for every line, whether `realloc` moves the block or not.
* `LineWhole` – what a finished call returns is the whole line.
* `FillsItsSize` – an instruction becomes as many bytes as its row announced when
  its section was made longer for it.
* `ReadAsWritten` – a proper line does exactly what it says, with nothing behind
  it or a comment after a semicolon that touches it.
* `MisreadBehindNames` – anything else behind it either does no harm, ends the
  program, or is one of two exactly described things that change its meaning.
* `EncodesMeaning` – the word does what the line says *if and only if* the
  immediate or distance fits, the number is not one `get_immediate` misreads,
  and the instruction is not one of five.
* `LoadsUnlessBitEleven` – the value `li` and `la` leave, in every case.
* `MalformedDiagnosed` – a malformed instruction is refused, unless it is in the
  list of those that may be tolerated. That those are accepted is not claimed.
* `CsrAddressed` – each CSR's word addresses it and no other, with the privilege
  of its part of the table.
* `OverreadExactly` – the two kinds of line that are read past their end, and no
  other.
* `StringFits` – a string's block holds what its escapes become.
* `ReadAsGiven` – what getopt makes of a line, permutations, clusters and
  abbreviations included, is what a reading from left to right makes of it; and
  which lines are answered, refused or run.
* `OperandsKept` – permuting neither loses, doubles nor reorders an operand.
* `OrderKept` – whatever the words mean: when getopt returns -1, the words in
  front of `optind` and those behind it are each in the order of the line.
* `Delivered` – what is in the files after success: the object, with three
  exceptions, a source at which `parse_file` returns silently, an output that is
  the input, and a full disk.
* `FailureCost` – what a failure or a crash has cost.
* `AnsweredUnlessStuck` – see below.

Each property of a passing run has a mutant: a changed form of one mapped
definition (kept beside it and marked `Mutant`), under which the run fails.

### Findings

The six runs that are expected to fail are disagreements between the code and
what its own documentation, diagnostics or tests say:

1. `dangling` – pointers into a bucket outlive the `realloc` of its array.
2. `undefined` – an instruction that refers to a name without a label is detected
   by a field that nothing has initialised, so the diagnostic depends on what the
   allocator left there.
3. `silent` – an unknown section or an unquoted `.asciz` ends with status 0 and
   an empty output file.
4. `getl_eof` – a last line without a newline, as long as the buffer, has its NUL
   written one past the end.
5. `getl_move` – `getl` keeps writing through a pointer into the block that
   `realloc` has freed.
6. `load` – `li` and `la` of a value with bit 11 set load 0x1000 too little.

Two diagnostics of the parser are weaker than they read. The handler of
instructions without arguments looks for a comma only, so `nop a0` is assembled
although `parse.c:204` says "Expected zero arguments, but got at least one". That
of `jalr` for missing arguments has level `DEBUG` and does not end the program,
unlike that of `jal`, so `jalr` alone becomes `jalr x0, x0, 0`. No property says
that either is accepted: `MalformedDiagnosed` holds whether they are or not.

Of other departures the repository makes no claim; the passing properties
describe them, and a change of the code may have to change them:

* Instructions (`EncodesMeaning`): `slliw` has the row of `addiw`
  (`form/base.c:121`); `amoxor` has `.rl` and `.aq` exchanged
  (`form/atomic.c:29`); immediates and distances that do not fit are cut without
  a word; `-0b101` and `-0o17` read as 0.
* Arguments (`Tolerated` in `MalformedDiagnosed`, `ReadAsWritten`): empty operands
  are skipped; what follows the digits of a number is ignored; any word of an x
  and letters is `x0`; any operand passes for a label, which nothing can refuse.
  `lwu` and `ld` are given the
  address as two operands, a register and an offset. In an address or for a CSR
  a number may not be binary or octal with a prefix, unlike elsewhere.
* Text (`MisreadBehindNames`, `OverreadExactly`): a colon in a comment makes the
  line a label; a blank or a `//` comment behind a label operand becomes part of
  the name, as blanks are trimmed where the line begins only; a semicolon in a
  string cuts the line; a `\x` escape takes all hexadecimal digits that follow
  it; a directive without white space behind its name, and an open string that
  ends in a backslash, are read past their end.
* Strings (`StringFits`, `ReadAsWritten`): an unquoted `.asciz` ends the
  assembly without a word, an unquoted `.ascii` asks `xmalloc` for 2^64 - 2
  bytes, since -1 is told from a size only after the NUL has been taken off; so
  does either for its copy, strlen - 1 bytes, when there is no argument.
* Duplicate labels (`ImplementsObjectFile`): the last one wins; the diagnostic
  in `create_symbol` (`symbols.c:52`) is never reached.
* Allocation (`Termination`): two calls of `malloc`, in `symbols.c:86` and
  `form/base.c:220`, bypass `xmalloc` and fault where the others give a
  diagnostic.
* Command line (`AnsweredUnlessStuck`, `ReadAsGiven`): wrasm never answers
  `-v-`, or any cluster that a dash ends: `getopt_internal` returns in
  the middle of the word (`argtable3.c:1832`) and reads it again.
  `-o ''` is the standard output, `--output=` an error.
* Files (`Delivered`, `FailureCost`): an output file that is also the input is
  emptied before it is read, and an empty source assembles; a full disk goes
  unnoticed; a failed or crashed assembly leaves an empty output file, for it is
  opened first.

### Fairness

The program is one thread that never waits for anything but its input, and the
input is a file. So the only fairness is `WF_vars(Next)`: the program takes
steps as long as it can. `Termination` then says that no loop can go on
forever. It has no fairness on single actions; which unit comes next is the
source's choice.

`Driver` has the same fairness, and so has each turn of getopt's loop, which is
plain code. `AnsweredUnlessStuck` says that every command line leads to the end
of the process, except one kind, which never does: both halves are checked, and
the second is why no stronger fairness could help. The disk filling up is a
step of the environment and is never required.

## Proofs

TLAPS checks what follows for every value of the constants that satisfies the
named assumptions. They say no more than that the constants have their types
(`BytecodeAssumption`, `AssemblerAssumption`, `ProcessAssumption`,
`LineReaderAssumption`, `LexemesAssumption`), and besides:
`SymbolsAssumption`, that names hash into the buckets, that indeterminate memory
is told apart from a number, and "no symbol" from a symbol and a name;
`CommandLineAssumption`, that a command line is a sequence of words and a word a
sequence of tokens; `VocabularyAssumption`, that the vocabulary by which the
reference reads a line has its option words and says of each what its letters
make of the table of options; `LineAssumption`, that neither a quote nor a
backslash is a digit and that blanks, `:`, `;` and `//` begin with no dot;
`WrittenAssumption`, that in front of the statement of a line stand blanks and
labels (whose names begin with no dot), that a line which is no directive has a
dot at most inside its operands, and that there is no newline in it, which `getl`
sees to; `StringAssumption`, that the characters of a string, and those that may
lie behind a line, have codes below 256; `DriverAssumption`, that a file system
is a function, that nothing has been written to the standard output when the
program starts, and that `Outcomes` has at least one way to end for every file,
each of the four kinds, the silent return with nothing written.

The symbol table:

* `SymbolTableUnique`: `SymbolsSpec => [](SymbolsTypeOK /\ NamesUnique)`. The
  lemmas of `SymbolsProofs` say that the entry found is the first with its name
  (`IndexFound`), that interning a name keeps the table well formed and finds it
  afterwards (`InternedTable`), and that each caller's use of the table is one
  `Put` (`CallPuts`). `NamesUnique` is inductive together with the types.
* `SymbolTableStable`: `SymbolsSpec => EntriesNeverMove`, from the same invariant.
* `SymbolTableImplementsMap`: `SymbolsSpec => ImplementsMap`. `PutMap` shows that
  a `Put` changes the map at one name; uniqueness is what makes the entry found
  by the search the one just written.
* `SymbolTableTypes`: `SymbolsSpec => []SymbolsTypeOK`, a part of that invariant.

The assembler:

* `AssemblerTypes`: `Spec => []TypeOK` for the whole program. Types alone are not
  inductive: an operand is a number only because the entry its pointer refers to
  is inside its bucket (`PointersInTable`), which needs `NamesUnique` and entries
  that stay; and an item is a well-typed element only because the loops begin at
  the first one (`LoopsFromOne`). `TypeInv` is the conjunction. The proof has a
  lemma for each group of actions.
* `ItemsSafe`: `Spec => []ItemsTile`. An instruction takes the position read
  before its line, so the invariant (`ItemsInv`) adds that this position is still
  the end of the section in use while the line is parsed, and that the bytes keep
  their owners until the lists are freed. An item that starts at the end of its
  section and by whose length the section grows owns the new bytes alone
  (`ItemAdded`).
* `LayoutSafe`: `Spec => []LayoutDisjoint`. The loop invariant of `alloc_output`
  (`LayoutInv`) says that the sections passed so far are aligned, in order and
  end below the running offset, which starts behind the header; `AlignUp` is the
  fact about its rounding. Behind the loop no step changes an offset or a size.
* `PointersTracked`: `Spec => []PointersTrack`, for every hash function, however
  names collide. `UnitsInv`, below, finds for each reference its instruction and
  the entry its pointer is to. `PointersHeld` is about the block: a call moves an
  array only where it appends to it (`CallMoves`), so that a pointer whose block
  has gone has an entry behind its own. The run `dangling` shows that such a
  pointer does occur, so no more than this can be proved.
* `NoOverrunSafe`: `Spec => []NoOverrun`. Three loops visit the symbol table, and
  what the later ones write must fit into what the first has counted. One walk
  over the stops of the table explains them all: `addr` and `rank` give for each
  stop the length of the names and the number of the symbols before it
  (`Walked`). The first loop builds such a walk, slot by slot; `alloc_output`
  takes the sizes of the tables from its end (`Sized`); the later loops draw
  their offsets from the same walk (`Drawn`), so that each write begins where the
  one before ended and ends inside (`TableInv`). A walk is a function, and that
  there is one is the induction over the loop. For items it is `ItemsTile`.
* `CompleteSafe`: `Spec => []ObjectComplete`. To the same walk `StoredInv` adds
  that the items passed so far have been stored where they belong, no byte twice,
  and no item not yet passed has been. What is written twice or never would be a
  byte in two items or in none, against `ItemsTile`.
* `NamedSafe`: `Spec => []TablesNamed`. `NamesInv`: the table knows exactly the
  names the text has used so far. The walk gives each entry the place where its
  name was copied.
* `AssemblerImplements`: `Spec => ImplementsObjectFile` if no two names share a
  bucket and allocations succeed. This is the theorem the others serve: what is
  delivered is the translation of the source, as `Source` defines it. Five more
  invariants say that the program keeps up with the text read so far. `PlaceInv`:
  the section in use is the one in force, and each size is the sum over the units
  of that section. `EntryInv`: each symbol has the place of the last label of its
  name, or is indeterminate when there is none, and is global if the text says
  so. `UnitsInv`: each instruction and each string of the text has an item, at its
  address and, through the pointer, with its name. `BytesInv`: each item passed
  has been written, with the operand the symbol and the layout give. `EndInv`:
  what is in the two files. At the flush they give the object byte for byte
  (`ImageAtFlush`; that no other write reaches a byte is `StoredInv`), and a fault
  is possible only through a name without a label (`FaultUnresolved`).
  Addresses are sums over sets of units, which the library defines by a
  recursion: `SumsExist` shows that there is such a function, by well-founded
  induction over finite sets, `SumAdd` that one more unit adds its size, and the
  lemmas ending in `On` what one more unit changes in the meaning of a text.
  Steps of the program map to steps of `ObjectFile` by `StepSimulates`. With
  memory short the assembler may also fault in `create_symtab_str_buf` and
  `form_load_pseudo`, and with two names in one bucket it may write a garbage
  operand; both assumptions are needed (`dangling`). Under them every pointer
  stays live (`PointersNext`).

`getl`, for every increment and every line:

* `GetlTypes`, `GetlWhole`: `Spec => []TypeOK` and `Spec => []LineWhole`, with no
  further assumption: what a call returns is the line, on every input.
* `GetlStaleBeyondRoom`: `Spec => []StaleBeyondRoom`. The pointer is in the block
  of the buffer as long as the line has not reached its end, and the buffer is
  longer than every line returned so far, for it is kept from call to call.
  `GetlPastEndAtEof`: `Spec => []PastEndAtEof`. Every character, and the newline,
  is preceded by the check that makes room for it; the NUL behind a line that ends
  with the input is not. `getl_move` and `getl_eof` show that both cases occur.

A line:

* `StringsFit`: `Spec => []StringFits`, for every line and all that may lie in
  memory behind it. The invariant (`FitsInv`) counts both ways: the characters a
  string has become and those it may still become are together no more than the
  room measured for it, since an escape is never shorter than what it stands for.
* `OverreadsExactly`: `Spec => []OverreadExactly`, for lines of every length. The
  reference, `RunsOver`, looks at the statement as a whole; the code trims, takes
  off labels, looks for the end of a name, and copies a string a character at a
  time. `OverInv` says where in the line each of them stands (`LineAt`,
  `TrimmedAt`, `StringAt`): parse_line at its start or behind a colon, with the
  statement still in front of it, the directives at the start of the statement,
  and the copying at a character before which there is an even number of
  backslashes, while each quote it has passed stands behind an odd number
  (`Copied`). `LineTrimmed`, `LabelPassed` and `StringRead` are the steps up to
  the string, `CopiedFirst`, `CopiedPlain` and `CopiedEscape` those inside it;
  an escape, however many digits it takes, never takes a quote or a backslash
  besides its own (`EscapeDigits`). `CopiedClosed` and `CopiedOpen` are the two
  ends.
* `LineTypesKept`: `Spec => []TypeOK`, and `FillsItsSizeAlways`:
  `Spec => []FillsItsSize`, from `TypeInv`, which keeps besides that every
  instruction was made from a sound row and that a string copied from behind the
  line holds characters that have codes. A row is sound (`SoundRow`) if its
  handlers exist and its size is four bytes for each word its form makes.
  `FormationsSound` goes through the seven tables and the order of their search,
  `EmitFills` through the forms, `HandlersReport` through the handlers of
  arguments, for any number of any operands. The value of an escape is a natural
  number however many digits it has (`DigitsValueNatural`): `AddsExist` builds the
  function that adds them up. A pseudo instruction that made one word more, or
  a row with the size of another form, would break one of these lemmas.

The command line and the files:

* `FailureCostSafe`: `Spec => []FailureCost`. `CostInv` says phase by phase what
  has happened to the files, and that nothing can fail any more once the copy has
  begun. It holds whatever way `parse_file` ends, by a crash too.
* `SuccessDelivers`: `Spec => []Delivered`, for every `Outcomes`. `DeliverInv`:
  the source has an outcome, an object or the silent return, of whose bytes the
  temporary file is the beginning, and of that the output file the beginning, as
  far as the copy has come or the disk had room. `BytesTaken` and `BlockOfObject`
  are the facts about blocks, whatever their size.
* `PermuteExchanges`: `permute_args` is what its comment says, an exchange of two
  blocks, for blocks of every size. The code goes around `gcd(m, p)` cycles of
  `(m + p) / gcd(m, p)` places each, with one swap for each place. So the proof
  has Euclid's algorithm (`GcdGives`: it ends in a divisor of both that is a sum
  of multiples of them), then that a cycle returns to its first place after
  exactly so many steps (`PlacesApart`) and consists of all places a multiple of
  the divisor away (`PlacesCover`), what its swaps have done after each step
  (`CycleMoves`), and that the cycles are apart and cover the blocks
  (`CyclesApart`, `CyclesCover`).
* `DriverTypes`: `Spec => []TypeOK`. `LineInv` adds to the types that the blocks
  handed to `permute_args` are never empty: the first option behind the operands
  lies in front of `optind`, or is the very word that is being read, and then an
  operand cannot be (`BlocksInv`).
* `GetoptKeepsOrder`: `Spec => OrderKept`. `OrderInv` keeps a rearrangement `q`
  that says which word of `argv` each word of `nargv` is: it moves only words in
  front of `optind`, it is increasing on the operands skipped, and it is
  increasing on the other words. `ExchangeSorts` is the step where
  `permute_args` is called.

* `OperandsReachParser`: `Spec => []OperandsKept`, and `LineReadAsGiven`:
  `Spec => []ReadAsGiven`, for lines of every length and words of every length.
  The reference folds over the words of the line in their order. getopt reads
  the same words in an order that it makes as it goes, letter by letter. The
  inductive invariant (`ReadingInv`, beside `LineInv` and `OrderInv`) relates the
  two at every step and has a part for each phase. While getopt reads
  (`TaggedInv`), there is a reading that is ahead of the line's end: its operands
  are the words skipped (`Operands`), its flags and files are what has been
  scanned, and an error has been counted if and only if it has a fault (`Seen`).
  Between two words it is the fold over the words in front of `optind`; inside a
  word it has come as far as the letter that is next (`Amid`). Or getopt is at
  the lone dash at which it stays for ever (`Stuck`). While the operands are
  scanned (`UntaggedInv`), the line's operands are those taken and those still
  behind `optind` (`Remaining`). `ParsedInv` and `GoneInv` are the verdict:
  status and files are what the reading asks for (`Decided`, `Obeys`;
  `DecidedGives`). `VocabularyFaithful` turns the assumption on the vocabulary
  into the form the steps need, one letter at a time. That a value is the next
  word of `argv`, not only of `nargv`, is `OrderInv`: getopt has moved only words
  in front of `optind`.

Induction over what a recursive function computes needs a predicate as a
parameter, which the provers cannot instantiate. Where such an induction was
needed (Euclid's algorithm, the loops of `permute_args`), it is done over sets:
a set of numbers that is not empty has a least element (`HasLeast`), and one that
holds 0 and the successor of each member holds them all (`Inductive`).

Only model-checked:

* Of `Line` the properties about what a proper line means (`ReadAsWritten`,
  `MisreadBehindNames`, `EncodesMeaning`, `LoadsUnlessBitEleven`,
  `MalformedDiagnosed`, `CsrAddressed`): they range over tables of names, rows and
  fields, a finite question that the run answers whole, and over values computed
  by recursion on numbers and on texts.
* `Termination` and `AnsweredUnlessStuck`: liveness is out of the prover's reach.

## Not modelled

* Free functions and `free_args`, which run when nothing is used any more, and
  the fixed fields of the ELF headers, on which nothing in the program depends.
* The order of the symbols in the object (hash order) and `sh_info`, which the
  ELF format constrains and no document of the repository mentions.
* The text of diagnostics and of the help; `set_exit_loglevel` and
  `get_float_register_id`, which have no caller.
* Of argtable3: its other types of options, printing, regular expressions, the
  hash table and the panic handler, none of which wrasm reaches; `POSIXLY_CORRECT`
  in the environment is a choice made once.
* Errors of `fread` and `getc` other than the end of the file.
* Numbers of 2^31 and beyond, and a sign or blanks between `\x` and its digits,
  which `strtol` would skip.
* The tests and the build: not the program.

## Plan

Order of work; what is there is marked.

1. Core: `Process`, `Elf`, `Output`, `Symbols`, `Bytecode`, `Assembler`; the
   abstract `SymbolMap`, `Source`, `ObjectFile`; `LineReader`. *Done.*
2. Proofs of the symbol table, of the types, of `getl`, of `ItemsTile`,
   `LayoutDisjoint` and `PointersTrack`. *Done.*
3. `Words`, `Encoding`, `Instructions`, `Isa`: the bits of every instruction,
   `li` and `la` against their value, ranges. *Done.*
4. `Lexemes`, `Registers`, `Arguments`, `Lines`, `Line`: what a line is, its
   operands, its strings, the bounds of every read. *Done.*
5. `CommandLine`, `Driver`, `Usage`: getopt, files, failing streams. *Done.*
6. Proofs about the command line and the driver: types, `permute_args`, the order
   of the words, what the program makes of a line, what is in the files. *Done.*
7. Proofs of `NoOverrun`, `ObjectComplete`, `TablesNamed`, `StringFits`,
   `OverreadExactly`, `FillsItsSize` and the types of `Line`. *Done.*
8. Proofs about `Encoding`: the fields of a word do not overlap and each handler
   can be read back.
9. The refinement of `ObjectFile`. *Done.*
