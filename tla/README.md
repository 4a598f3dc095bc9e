# Verification of the my-programming-language toolchain

TLA+ models of the compiler and of its virtual machine, the TLC configurations
that check them on small instances, and TLAPS proofs about the parts that can be
proved for all instances.

    tlc -workers 2 -config MCCompiler.cfg MCCompiler.tla    checks a run
    tlapm StackProofs.tla                                   checks proofs

## 1. The system

The repository compiles a small language and runs it. Each executable reads the
file of the one before it:

    frontend     lexer -> parser -> semantic analysis  -> output/ast_output_frontend.txt
    middleend    loads the tree and saves it again     -> output/ast_output_middleend.txt
    backend      tree -> output/asm_output.txt -> output/byte_code.txt -> SPU
    backend_x64  tree -> NASM text

`make run` runs frontend, middleend and backend_x64 one behind the other; each
executable can also be started by hand. Inside an executable nothing is concurrent.
What is hard is, first, **agreement between parts that were written apart**: the two passes of the
assembler, the commands the translator writes and those the SPU decodes, the
shape of the tree the parser builds and the shape the savers, loaders and
translators walk, the slots of the semantic analysis and the cells of the SPU,
the stack a call leaves and the stack the code behind it expects. Second, **files
that outlive the process that wrote them**: nobody looks at the results of most writes,
files are truncated before they are written, and what a stage finds may be of an
earlier program, or half of one.

| component | state | operations | talks to | what makes it correct |
|---|---|---|---|---|
| lexer | position in the text, growing token list | one token at a time | parser: `TokenList` | reads the longest lexemes, stays in the text and in its list, releases everything once, ends |
| parser | position in the token list | one function per nonterminal, recursive | tree constructors | accepts the grammar's texts, builds their only derivation |
| semantic analysis | two symbol tables | collect, check; tables grow and are cut back | writes `id_index` into the tree | accepts exactly the well-scoped programs; a slot is one variable |
| tree files | position in the buffer | `save_tree`, `optimizer_ctor` | between every two executables | a tree comes back as it was |
| optimizer | the tree | folds constants | nobody calls it | - |
| translator | text written so far, `string_top`, four static label counters | one function per node | assembler: lines of text | all labels differ and exist, strings share no cell, the stack is balanced |
| assembler | text position, address, label table, code buffer | two passes, write | SPU: byte code file | the passes count alike, jumps lead to their labels, no overrun unnoticed |
| SPU | pointer, operand and return stacks, registers, RAM, errors | one command at a time | the user | executes commands only, returns behind calls, loses an error bit to nothing but the stack error that ends the run |
| SPU stack | block, size, capacity | init, push, pop, destroy | SPU | stays in its block, last in first out, survives a failing realloc |
| native backend | variable table with offsets, label counter, text | collect variables, assign offsets, one function per node | nasm, the linker, libc | slots lie apart in the frame, the text links and prints what the program means, returns find their address |
| ELF writer | growing section of bytes | emit, grow, destroy | no executable | a write stays in the section, instructions decode to what was asked for |
| executables, `make run` | the files under `output`, exit codes | run a stage, run all, clean | the user, each other | what make calls made is of the program it read; the SPU runs the tree its backend has loaded |

Events from outside are modelled where the code can meet them: failing reallocations
(`Stack`, `Section`, `Lexer`), malformed lines, raw byte code and input that is no number
(`Assembler`, `Spu`), files that cannot be opened, full disks, edits and kills between any
two steps (`Stages`).

## 2. The modules

| module | models | lines of code it stands for |
|---|---|---|
| `AbstractStack` | what a stack promises: a list, last in first out | - |
| `Stack` | the array behind it, with capacity and failing realloc | `source/processor/stack.cpp` |
| `AbstractSection` | what the section promises: bytes are only appended | - |
| `Emitters`, `Section` | the bytes of every instruction, and the growing array they are written into | `source/elf/emiters.cpp`, `emiters.h` |
| `Encoding` | reference for `Emitters`: a decoder of the instruction format | - |
| `Lexer` | the loop over the characters, the token list, the ways out | `source/frontend/lexer.cpp`, `lexer.h`, `exe/frontend.cpp` |
| `Lexemes` | reference for `Lexer`: the longest lexeme, again and again | - |
| `Isa` | commands, operation codes, width of a command, laid-out code | `read_file.cpp`, `spu.cpp:378` |
| `Assembler` | both passes, one action per kind of line | `source/processor/assember.cpp` |
| `Spu` | `run_spu`, one action per group of commands | `source/processor/spu.cpp` |
| `Tree` | nodes as values and their constructors; the trees of a height | `common/tree_operations.cpp`, `node_values.cpp` |
| `Parser` | the recursive descent, one operator per function | `frontend/syntax_analysis.cpp` |
| `Source` | a token list that grows, word by word: the texts of the runs `parser` and `compiler` | `lexer.cpp` (`token_list_push`) |
| `Grammar` | reference for `Parser`: the trees a text derives | the grammar comment, as amended at the functions; expressions for statements apart |
| `Semantics` | the two passes and the two symbol tables | `frontend/semantic_analysis.cpp` |
| `Scoping` | reference for `Semantics`: scope without tables, slots as they are used | - |
| `TreeFile` | `savenode`, `read_node` and the tokens between them | `frontend/load_expression.cpp` |
| `Handover` | what the parser hands to the analysis, and its tree on the way to the middleend | `exe/middleend.cpp` |
| `Translator` | every node's text, labels, strings | `backend/translate_to_asm.cpp` |
| `Codegen` | the backend up to the assembler; what the text owes to `Assembler` and to the program | `exe/backend.cpp` |
| `Compilation` | a text of `Source` taken through frontend, middleend and translator | `exe/frontend.cpp`, `Makefile` |
| `Meaning` | reference for all of it: what a program computes and prints | - |
| `Toolchain` | the stages one after the other; `Assembler` and `Spu` by INSTANCE | `exe/*.cpp`, `Makefile` |
| `NativeVariables` | the table of variables: which ones a tree puts into it, indices, offsets and frames | `backend_x86_64/backend_variables.cpp` |
| `NasmTranslator` | every node's instructions | `backend_x86_64/translate_to_nasm.cpp` |
| `Subset` | which programs the native backend promises to translate | - |
| `Native` | frontend, middleend and backend_x64 on a program, and the processor executing the text | `exe/backend-x64.cpp`, `mystdlib.asm`; nasm, libc and the processor as they are used |
| `Stages` | the executables and their files, by hand and under make | `exe/*.cpp`, `Makefile`, and the places where files are opened and written |
| `MC...` | instances for TLC (`Stages` needs none: its only constant is a number) | - |
| `Induction` | a least element for sets of naturals; induction over them, as a set | - |
| `StackProofs`, `SectionProofs`, `LexerProofs`, `AssemblerProofs`, `SpuProofs`, `StagesProofs` | theorems about one component each | - |
| `CompilerProofs` | theorems about `Semantics`, `TreeFile`, `Handover`, `Translator`'s strings and `NativeVariables` | - |

How state corresponds to code:

- `Stack`: `data`, `size`, `capacity` are the fields of `stack_t`; the cells of
  the block that were never written hold `Undef`.
- `Assembler`: `text` is the file in lines that are already split into words,
  `labels` is `g_labels`, `code` is `code_buffer`; `pass`, `line`, `ip` are the
  place in the two loops. `mark` is a history variable: the address the first
  pass gave to each line.
- `Spu`: `code`, `ip`, `stack`, `returns`, `regs`, `ram` are the fields of
  `spu_t`, `errors` the bits of `spu_errors`; `at` is a history variable, the
  place of the last command. A double is a member of the constant `Value`;
  arithmetic is a constant function, so that theorems hold for each arithmetic.
- `Parser`: a function returns the node with the position behind it; every
  error code is the same `No`, since the frontend gives up on all of them.
- `Semantics`: a symbol table is a sequence of names, an index a place in it. The
  pass over a function's body sees its parameters at the end of the table and
  cuts the table back behind it. Each pass is a recursive function over the trees of a
  height: what the C++ function returns for a tree with the tables it is given, worked out from
  what it returns for the children (`DefineNode`, `Parameter`, `CheckNode`).
- `TreeFile`: a file is a sequence of lexemes with widths. The reader skips
  over a token it does not know by counting characters, which is why widths
  matter; a string that the reader will cut in pieces is written character by
  character, every other word is one lexeme. `Save` is a recursive function over the trees of
  a height, `Reader` one over the positions of the file: what `read_node` returns from each.
- `Translator`: the text so far, the counters and `string_top` are passed along;
  `end` tells whether translation goes on, has returned an error, or has gone
  through a NULL pointer. What a C++ function writes for a tree depends on nothing but the tree and
  the static variables it finds, so each of the three that walk a tree is a recursive function of
  these over the trees of a height (`Translated`, `FunctionsTranslated`, `MainTranslated`), and `Visit` calls it
  behind what is already written.
- `Compilation`: after each word written, `Compile` takes the text through the stages;
  `parsed`, `analysed`, `loaded` and `translation` hold what each of them handed on.
- `Toolchain`: one action per stage up to the text, then the actions of
  `Assembler` line by line, `SpuInit`, and the actions of `Spu` command by
  command, all on the same variables. `meant` is a history variable: what
  `Meaning` says of the tree the frontend made.

- `Lexer`: `text` is the program, `p` the pointer into the buffer, `data`, `count` and
  `capacity` the token list (`token_list_t`); one turn of the loop is a step. `buffer` says whether
  the text's buffer is allocated, `strings` (history) counts the tokens' strings that are. An
  allocation that is not looked at and fails sends the process to `crashed`.
- `Section`: `data`, `size`, `capacity` are the fields of the section; `pending` holds
  the writes an emitter still has to make, so that growth and failure come between any two.
- `NativeVariables`, `NasmTranslator`: the table is a sequence of records, an index is a place in
  it; the text is a sequence of instructions. `Native` executes it one instruction a step: `pc`,
  `rsp`, `rbp`, `xmm`, `flags` and a memory of eight-byte cells that only the stack uses.
  A cell or register nobody has set, or a library function may have used, holds `Junk`.
- `Stages`: `files` is the directory `output`; of what a file holds there is its version, its
  kind and whether it is whole. `step` is how far the running stage has come; opening a file for
  writing tears it, closing makes it whole.

`Meaning` evaluates a tree without a stack, jumps or labels. Its conventions are
those of the language as the repository shows them: one static cell for each
slot (so a parameter keeps its value after a call, unless `local` is asked for),
a function without `out` returns 0, arguments are evaluated from left to right, a
base that is not positive has the powers 0 and, for exponent 0, 1. The user
types one value. Numbers lie between -20 and 60, arithmetic stops at the ends
in `Spu` and `Meaning` alike.

## 3. The runs

| run | instance | shows |
|---|---|---|
| `stack` | initial capacities 0, 1, 3, 8 and 16, at most 5 elements, every realloc may fail | the block is never left, no cell is read before it is written, a reallocation leaves room for a push, and the array implements `AbstractStack` |
| `section` | every two calls of emitters on four registers, with numbers on both sides of each border between encodings | the section stays in its block and implements `AbstractSection`; `Encoding` reads back what was asked for if all of it can be encoded, and never a single instruction that cannot |
| `lexer` | every text of at most 4 characters of three alphabets; longer ones around the sizes at which the list grows | the list holds the longest lexemes and lies in its array, the pointer stays in the text, everything is released, and the lexer ends |
| `assembler` | all texts of at most 4 lines out of 13, all well-formed ones of 5 out of 6; a table for 2 labels, a buffer for 7 words | the passes agree; a name becomes the address of its label's first definition, or the register or number it is misread as; finished code whose jumps name labels is laid out as the SPU needs it; an overrun means a text that is too long; every text is dealt with (`Terminates`) |
| `spu` | all linked programs of 3 instructions, a library of longer ones, raw byte code | no operand is executed, and the pointer ends on one only after a refused `PUSH`; return addresses lie behind calls; an error bit is lost only to the stack error that ends the run |
| `parser` | all texts of at most 5 words of three vocabularies (operators; calls; statements) | `Parser` accepts what the grammar derives, and beyond it just the texts with expressions for statements; its tree is the only derivation, unless an argument is overwritten |
| `compiler` | all programs of at most 5 words of two vocabularies (definitions; statements) | scopes and slots are right; trees survive files; the text links, and strings share no cell |
| `toolchain` | all programs of at most 4 words behind a prologue with a function of two parameters, and longer ones, among them powers of powers, of calls and in exponents | the machine prints what the program means, in order, and all of it if it ends; commands find their operands |
| `native` | all programs of at most 3 words behind two functions of four parameters, and longer ones | slots lie apart in the frame; what the backend takes links; it prints what the program means; without definitions inside of definitions, returns find their address and the stack is balanced when something is printed |
| `stages` | two versions of the program, the second of any kind; stages by hand and `make run` in any order, failing writes, kills | no file is newer than its source; what make calls made is the program it read, or a write has failed or the translator refused; the SPU runs the tree its backend holds |

Two more runs end in a violation of something the repository says of itself:

| run | the repository says | the code does |
|---|---|---|
| `nested_calls` | parameters are "local variables" | another function's parameter has the same cell (`semantic_analysis.cpp:239`) |
| `native_assertions` | `assert(condition && stmt)` | `read{x};` is taken for an if: `emit_statement` looks at the number of the operator (`translate_to_nasm.cpp:196`, `263`) |

### Disagreements the models contain

These were met while modelling; the models do what the code does, and the
properties leave the programs out that run into them.

| the repository says | the code does | in the model |
|---|---|---|
| strings start at cell 256, variables lie below (`translate_to_asm.cpp:16`) | `PUSHM` refuses cells from 16 on, `POPM` does not (`spu.cpp:128`) | `Spu!Load` |
| "Invalid number. Please try again" (`spu.cpp:281`) | `scanf` meets the same characters for ever | `Spu!Reject` |
| a string may hold any character but `"` (`syntax_analysis.cpp:76`) | one with a blank or a parenthesis is lost between two stages (`load_expression.cpp:268`) | `TreeFile`, `Readable` |
| `ParamList?` (`syntax_analysis.cpp:41`) | the body of a function without parameters is not translated for the SPU (`translate_to_asm.cpp:462`) | `Translator!translate_func_def`, `DefinitionsOutside` in `Codegen` |
| "evalute args for pushing in stack" (`translate_to_asm.cpp:488`) | `g{2+1}` gets 2 (`translate_to_asm.cpp:485`) | `Translator!Listed`, `simple` in `Meaning` |
| a statement is one of eight forms (`syntax_analysis.cpp:11-22`, `173`); a name that begins none of them is `UNEXPECTED_SYNTAX` (`203`) | any expression is a statement: line 203 sets the error and goes on to line 213, which clears it | `ExpressionStatement` in `Grammar`, the difference of `Derivations(TRUE)` and `Derivations(FALSE)` |
| `Program ::= Statement* '$'` (`syntax_analysis.cpp:12`) | a lone `$` has no tree and is refused | `Accepted`; `Grammatical` leaves it out |
| a label is looked up by its name (`assember.cpp:176`) | names `strtod` reads (`inf`, `nan`) are numbers, `r` with two more characters, the second of `a` to `p`, is a register, and no error is reported: `CALL rec` becomes `CALL 5` (`127-146`) | `Assembler!ReadAs`, `Misread` |
| errors are bits that add up (`spu.h:26-33`, set with or-assignment at `spu.cpp:176`) | a stack error replaces them (`spu.cpp:18`) | `Spu!StackError`, `LostToStackError` |
| `tests/test_programs/test8.txt` defines functions with no `;` between and returns `{a*b}` | it is refused: the grammar comment ends each statement with `;` and knows no braces around an expression | `Parser`, `Grammar` (neither has this form) |
| every statement ends with `;` (`syntax_analysis.cpp:22`) | the last one of a program or block may do without (`152`, so written in `kvadratka.txt`) | `Statements` in `Grammar` |

Also in the models: the operand lost at `syntax_analysis.cpp:368` (`Linked` in
`Parser`), the branch
for a redefined label that cannot be reached at `assember.cpp:234` (`FirstPassLabel`),
variables called `func_call` that come back as calls (`Classify`), functions called
`run` that no call can reach (`RegisterLike`), the pointer that a `PUSH` refused by the stack leaves on its operand
(`Reached`, `EndedOnPush` in `Spu`), a function defined inside of another one, which the native text runs into and whose `ret`
takes a cell of the outer frame (`FlatDefinitions` in `Subset`), the pointer that leaves a text ending in a
blank (`TrailingBlanks` in `Lexer`), the list freed a second time through NULL after a
missing quote or a lone `!` (`Discard`, `Release`), the frame of every native function
taken from the first one's (`Frame` in `NasmTranslator`), and the exit code 0 of a
backend_x64 that has written nothing (`RefuseVariables`, `OpenFails` in `Stages`).

### Bounds

- Texts of five words hold two operators of each pair of levels, a call with two arguments, or a statement in
  each kind of block; `x-x` is one word, so that there are arguments with something to overwrite.
- Four and five lines of assembly are enough for a label before, between and
  after its uses, for a redefinition, for a full table and a full buffer.
- Four characters hold every pair of neighbouring lexemes with a sign of two characters
  among them; texts of 7 to 10 and 16 to 18 characters take the list past both its first sizes.
- Two calls of emitters are one that grows the section and one that finds it grown,
  from each capacity; the longest instruction has nine bytes, so a section of 1 grows by
  what is missing and one of 16 doubles.
- A word of a vocabulary is a run of tokens - `if{v<99999950}{{` or `}}else{{`
  - so five words hold two nested statements with an else, or a definition in a
  definition with a use. Longer programs are in the libraries of `MCToolchain` and `MCNative`:
  recursion ten deep, loops with strings, all functions, functions with more variables than the
  first.
- Data are small sets: names, numbers (with two that have more
  than six digits, one of them a tie for `%g`) and strings. `SixDigits` knows numbers of at most ten digits.
- `MaxDepth`, `MaxOut` and `MaxCalls` cap the stack, the output and the rounds of
  loops and recursion in `Spu`, `Native` and `Meaning`. They are bounds of the model, each
  in the guard of what would pass it; `Native` has 1208 bytes of stack, and a program
  that needs more goes to `overflow`. `PrintsTheMeaning` and `NativePrintsTheMeaning` demand a
  common prefix of the outputs when the bound on the meaning was met first.
- The RAM has 8 cells for variables and 8 for strings in `Toolchain`, so that the
  programs of the library use a good part of it.
- `MaxHeight` bounds the trees that `Semantics`, `TreeFile`, `Translator` and `NativeVariables` speak of, since a function needs a domain. It is 30 in the
  runs, more than any of their trees has, and any natural number in `CompilerProofs`.
- Two versions of a program are one that is newer than a file and one that is not;
  `StagesProofs` has the properties for every number of them.

Deadlock is not checked where programs and texts come to an end; `Stages` is checked for it.

### Fairness

`Terminates` of `assembler` and `Terminates` of `lexer` hold under weak fairness of the next
step: a loop over the lines of a file, or over the characters of a buffer, in a single
thread that nothing else can stop. A lexer whose pointer has left the text counts as ended: what is
there to read behind it is not known.

### Preconditions

`FileKeepsTree`, `Links` and `StringCellsApart` are stated for
programs without the strings and names the tree files cannot carry (`Readable`);
`Links` also leaves out definitions in branches and loops,
which are translated twice, and inside of functions without parameters, which
are dropped (`DefinitionsOutside`). `StringCellsApart` holds for these, too: a literal that is translated
twice gets cells twice. It needs the variables to lie below the strings (`BelowStrings`), since with more than
256 of them an assignment stores into the cells of the first literals. `PrintsTheMeaning` is stated for calls whose
arguments are numbers or variables, and until a division by zero.

`NativePrintsTheMeaning` and `PlainProgramsLink` are stated for the part of the
language that backend_x64 translates (`Subset`): four parameters and four plain arguments
(with fewer the arguments are not passed, line 407), no strings, `read` only as
one of several statements of a block (`ReadsAlone`), no other operator as a statement of its own, definitions at the
top, functions that use variables of their
own. `NativePrintsTheMeaning` also needs every frame to hold its slots (`FramesHold`, see
`SlotsInFrame` for when it does) and leaves out programs in which the two machines are known to
differ by choice: roots and powers whose meaning `Meaning` takes from the SPU
(`differs`). `StackDiscipline` is stated for every program, in this part of the language or not,
that has no definition inside of another one (`FlatDefinitions`): there the outer function falls into the inner one's
prologue.

`AssembledIsLaidOut` is stated for texts in which the operand of each jump and call is a name, and none that is read as a
register or a number (`JumpsNamed`); with `CALL rec` it is false. `TreeIsTheDerivation` leaves out the texts in which the link to the
next argument takes the place of an operand (`Overwritten`). `DecodesToWhatWasAsked` asks that all calls can be encoded
(`Encodable`), or is about one that cannot.

`MakeRunDelivers` excludes a failed write and a program the translator to NASM refuses:
in both cases make is told nothing and the old text stays (hazards at `frontend.cpp:52` and
`translate_to_nasm.cpp:50`).

Every property has a mutant: a plausible fault of the code (the `Fault...`
operators) under which its run finds it violated.

## 4. The proofs

| theorem | says, for all constants |
|---|---|
| `StackProofs!TypesHold`, `SizeAlwaysFits`, `NoIndeterminateRead`, `RoomAfterReallocation` | the properties of run `stack` |
| `StackProofs!StackIsLifo` | `Stack` implements `AbstractStack` |
| `SectionProofs!TypesHold`, `SectionStaysInBlock` | every emitter hands over bytes, for all registers and operands, and no write leaves the section |
| `SectionProofs!SectionAppends` | `Section` implements `AbstractSection` |
| `SectionProofs!SectionDecodes` | `DecodesToWhatWasAsked` of run `section`: any number of calls that can all be encoded (`Encodable`), from any capacity, decode to what was asked for; one that cannot (a `mov` between different registers, the conversions, extended bases, xmm8 and above) decodes to something else |
| `LexerProofs!TypesHold`, `ListHoldsItsTokens`, `PointerStaysInText`, `EverythingReleased` | the list, the pointer and the releases of run `lexer`, for every text over any alphabet |
| `LexerProofs!LexerReadsLongestLexemes` | `LongestLexemes` of run `lexer`, for every text over any alphabet and any set of keywords `KeywordAssumption` allows |
| `CompilerProofs!FileKeepsTrees` | a readable tree of any height comes back from its file, in its place and to the last parenthesis |
| `CompilerProofs!MiddleendGetsTheTree` | `FileKeepsTree` of run `compiler`, for every tree the frontend can hand on |
| `CompilerProofs!ScopesAreDecided` | `AcceptsWellScoped` of run `compiler`, for every tree of the shape the parser builds |
| `CompilerProofs!SlotsIdentify` | `SlotsIdentifyVariables` of run `compiler`, for the same trees |
| `CompilerProofs!MiddleendGetsTheProgram` | `FileKeepsTree` of run `compiler`, from the parser's tree through the analysis to the middleend |
| `CompilerProofs!StringsApart` | `StringCellsApart` of run `compiler`, for every such program whose variables lie below the strings |
| `CompilerProofs!SlotsLieApart`, `SlotsLieWithin` | the two parts of `SlotsInFrame`, for every list of variables |
| `CompilerProofs!AddingKeepsIndices` | what `add_variable` keeps: the table, and every index the tree already holds |
| `CompilerProofs!IdentifiersHaveTheirVariables` | `collect_variables` gives every identifier of every tree the index of its variable in its function, and makes a table in which no function has a name twice |
| `CompilerProofs!SlotsStayInFrame` | `SlotsInFrame` of run `native`, for the table of every tree |
| `AssemblerProofs!TypesHold`, `PassesCountAlike`, `LabelsResolve`, `BufferSuffices`, `OutputIsLaidOut` | the properties of run `assembler` for every text, of any length: `OutputIsLaidOut` for those whose jumps name labels and no registers or numbers |
| `SpuProofs!TypesHold`, `ControlFlowIntegrity`, `ReturnAddresses`, `ErrorsAreKept` | the properties of run `spu` for every laid-out code, every arithmetic and every input; `TypesHold` and `ErrorsAreKept` for any code |
| `StagesProofs!TypesHold`, `DownstreamIsOlder`, `RunDelivers`, `SpuRunsItsOwn` | the properties of run `stages` for every number of edits |

*Stack.* The three invariants of the run are inductive together and none is alone:
that a push stays inside the block needs that a live block has `capacity` cells
and that `capacity` is at least one (so that doubling makes room), that a pop reads
a written cell needs that every cell below `size` was written, and both need what
`stack_resize` keeps (`ResizeKeepsElements`). The refinement maps the list to the first
`size` cells; a push maps to a push, a reallocation alone changes none of them.

*Section.* The argument is that of `Stack`, with two additions. That `check_capacity` leaves
room for a write of any length needs its two cases, doubling and growing by what is
missing; and that the cells are bytes needs that every emitter hands over bytes, which
is a lemma for each field of an instruction (`Fields`, `Prefixes`).

`DecodesToWhatWasAsked` says something only between two calls, and in the middle of one the
section ends in half an instruction. `Prepared` closes the gap: there are bytes `rest`, namely those
the pending writes will yield, such that what is in the section and `rest` together spell the
instructions asked for (`SpelledAll`). A call adds an instruction to both sides, a write moves bytes
from `rest` into the section. That the bytes of one call spell its instruction is a lemma for
each kind of emitter and each length of operand; it rests on the arithmetic of the fields
(`Low`, `SameHalf`: which halves of the register file an emitter without REX prefix can name) and of two's complement. That
an unambiguous decoder reads a concatenation piece by piece (`ReadsBack`), and that a single
instruction outside of `Encodable` is read as something else (`MisreadsOne`), is the reverse direction.
`Encodable` asks that immediates and offsets are 32 bits wide with their sign: the emitters take
an `int32_t` or cut what they get to four bytes.

*Lexer.* `PastIsThere` is the base: the `CHOOSE` that stands for a scanning loop has
something to choose, because the set of ends is not empty and has a least element
(the strict subsets of an interval are well-founded). From it every turn leaves the pointer at most
at the zero, except over trailing blanks. `PushKeepsList` says what a push does to the
list, with and without memory; `PushKeepsInvariant` and `ListAloneKeepsInvariant` reduce the nine
branches of the loop to pushes and steps that leave the list alone. `Released` is not inductive: it
needs `StringsCounted` (as many strings as tokens until an allocation fails; none once the
lexer has freed the list itself) and `ErrorsHere` (which error can be met where).

`LongestLexemes` compares the finished list with `Reading`, which cuts off the longest lexeme
again and again and knows nothing of how the lexer tries its alternatives one after the other. The invariant is `AsRead`: what is
in the list, followed by the reading of the text from the pointer on, is the reading of the whole text.
Each branch of the loop then has to be shown to take exactly the longest lexeme: that nothing
longer begins here (for a sign of one character that the next one does not complete it, for a word that its scan stops
at the first character that cannot go on), and that the kind is the one of the longest, keywords before
identifiers.

*Semantic analysis.* `WellScoped` and `SlotsTellApart` know no tables: they speak of the paths in a tree,
of the functions around a path and the parameters these have. `Semantics` knows no paths. The two
meet in one statement for each pass, proved by induction over the height for every pair of tables.
`Collecting`: the first pass succeeds just when the names defined in the tree differ from each other and from
those in the tables; it appends these, and changes nothing of the tree but indices (`Same`), so that paths,
names and scopes are still those of the parser's tree. `Checking`: the second pass succeeds just when
`UsesDefined` holds with the tables in place of the definitions, hands the tables back as it got
them, and has slotted the tree. `Entering` is the same for the chain of a function's parameters, which have
the places behind the table in their order.

Two things had to be strengthened. That the tables come back needs more than the length
`Leave` cuts to: what lies below it must not have been changed, which is `Extends` (`LeavingRestores`).
And that slots tell identifiers apart cannot be said with the table of the whole tree, which has
lost the parameters again: `Slotted` says that for each identifier there was a table, which the present one is
the beginning of, with a slot for every identifier visible from there (`Sees`, `SeenBehind`). Both passes rest on the shape `IsProgram` describes:
parameters are a chain of identifiers, a definition and a `read` have theirs. The theorems assume it of the
parser's tree. It is the first conjunct of `AcceptsWellScoped`; that `Parser` builds only such trees
is what run `compiler` checks of it.

*Tree files.* `Save`, `AllReadable`, `LeftFirst` and `Reader` are recursive functions, chosen by
`CHOOSE`: first it has to be shown that there are functions as their definitions say. For trees this is
induction over the height. For `Reader` it is induction from the end of the file backwards: `read_node` calls
itself at a position further on, and the second time at the position the first call has returned, so that
the equation only makes sense because no call goes back (`ReadAgrees`: the result at `p` depends on those
behind `p` only). `TreeInduction` then reduces the theorem to `ReadsNode`: if the children are read
back wherever in a file their text stands, so is the node. `Holds(f, p, s)` places the text, `SavedParts` cuts it into
parenthesis, word, children and parenthesis. The three shapes of children are three cases: none (two `nil`s,
of which an unary node reads one and the blank before the other is skipped, not taken for its
parenthesis), one (written alone, so it comes back on the left), two.
`Readable` is exactly what the proof needs: a unary node has one child, no string has a character
at which a token ends, no identifier is called as a statement is.

*Strings.* `string_top` is read and advanced wherever in the recursion a literal stands, and a text is put together
from what the calls have written. `Cells(s, v)` says what a call may have done: begun with the static variables `v`, its
stores at or above `StringTop` go to cells from `v.string_top` up to the `string_top` it leaves,
each cell at most once. Behind each other two such texts are one again (`VisitCells`, `EmitCells`), and
`translate_string` takes as many cells as it has stores. By induction over the height `Cells` holds of what each of
the three walks writes for every tree whose variables lie below the strings, from every value of the
static variables (`Writes`): the last quantifier is the strengthening, since each call starts from what the one before has left.
Every other line has to be seen not to store there: parameters and variables by `BelowStrings`, generated labels and
registers by their kind. The literals that one walk translates and the other one translates again need no case of their own.
That the tree the backend loads still has its slots below the strings, after two files, is
`LeftFirstKeeps`, used twice.

*Variables of the native backend.* A parameter's slot is eight bytes for each parameter of the function up to it, another
variable's lies below all parameters of its function. Distinct slots follow from `Before`, a
cardinality, being strictly growing from one variable of a function and kind to the next (`BeforeGrows`).
`SlotsLieWithin` says for which functions the frame suffices although it is always that of the
first one (`current_func_id` stays 1): those with at most four variables more. `AddingKeepsIndices` is what makes it sound that
`collect_variables` writes an index into the tree while the table is still growing.

What it makes of a whole tree is induction over the height: `Kept` says that the table has grown (`Grows`: what it held is where it was),
that it still is one, and that the tree is `Numbered` in every table grown from the result. The last quantifier is the
strengthening the induction needs, since a subtree is done while its neighbours will add to
the table. `Numbered` itself is an independent walk: it counts definitions from left to right, in the order in which
their numbers are given, and asks of each identifier that its index leads to the variable of that name and that
number. The walk over parameters starts at the full height from inside of the tree, so that its lemma (`ParamsKeep`)
speaks of trees of every lower height. `SlotsStayInFrame` assumes of a translation that its table is the one
`collect_variables` has returned, or empty before; no other function of the translator writes to it.

*Assembler.* `IInv` has five parts behind the types. `Marks`: `mark` holds the sums
of the widths of the lines before, up to the current line. `Covered`: a mark is the
current end or the place of a command. `Table`: an entry of the label table is the
first definition of its name with the mark of that line, and only a full table misses
one. `StandsFor` says what a name becomes: the word it is misread as, or the mark of its label. `NoUnknown`: no unknown command reaches the second pass. `Words`: in a
well-formed text the second pass has as many words as the mark of its line says, and each
line done stands at its mark, operand included. `PassesAgree` and
`OverrunOnlyWhenTooLong` follow from `Words`, `LabelOperandsTarget` from `Words` with
`Table`, `AssembledIsLaidOut` from `Words` with `Covered`. The statements are
about well-formed texts; that the translator's are is `Links`, which is
model-checked.

*Spu.* `ControlStaysOnCommands` is not inductive: `RET` goes wherever the return
stack says. `Control` adds that every return address lies behind a `CALL`. Lemma
`Moves` first reduces each of the commands to what it does to the pointer and the
return addresses - it follows, jumps, calls, returns, fetches behind the end, or
stops with its operand fetched, ends - so that data play no part in the rest. `Notes` keeps `at`, the place of the
last command, in step; from it follows that a pointer which has come to rest on an operand is that of a
refused `PUSH` (`EndedOnPush`). What code is laid out is assumed here
(`WellLaidOut`) and is what `AssembledIsLaidOut` says of the assembler's output:
the two chains meet in `Isa!LaidOut`.

*Stages.* None of the properties is inductive: they speak of files, and the steps
between are in the running stage. `IInv` adds what a stage holds at each step:
`TreeIsOfSource` (a stage about to write holds a tree that is not newer than what it was read
from and not older than what depends on its file), `CodeIsOfTree` (from assembling on the
backend's files are of its own tree), `RunOnItsWay` (how far make has come, and which
files are of the program read), `WholeInput` and `StepsOfStages`.

Assumptions are the named ones of the modules: `ElemAssumption` and
`CapacityAssumption` (zero is an element and not the undefined value, capacities are
naturals), `UndefAssumption`, `RegisterAssumption`, `NumberAssumption` (sixteen registers; what the emitters take
as `int32_t` or `int8_t` lies in these types), `TextAssumption`, `CharAssumption`, `KeywordAssumption` of `Lexer` (a text does not contain the zero that
ends it; letters, digits, blanks and signs are apart; keywords are words),
`NameAssumption`, `TextAssumption`, `FileAssumption`,
`BoundAssumption` of `Assembler` (texts are sequences of lines, bounds are naturals),
`ValueAssumption`, `ProgramAssumption`, `SizeAssumption` (arithmetic stays within
the values, each word of a program has one, there are as many cells as registers),
`HeightAssumption` (the height of trees is bounded by a natural number), `StringTopAssumption` (strings do not
start in the first cell).
TLC evaluates them in the runs.

Only model-checked:

- Liveness (`Terminates` of both runs) and `ENABLED`, which the provers do not handle.
- What is stated in modules with recursive operators: `Parser`, `Grammar`, `NasmTranslator`, `Meaning` and
  all that extend them. These are `AcceptsTheLanguage` and `TreeIsTheDerivation` (run
  `parser`), `PrintsTheMeaning` and `OperandsThere` (`toolchain`), `PlainProgramsLink`,
  `NativePrintsTheMeaning` and `StackDiscipline` (`native`). Their code recurses mutually, with results that
  the next call starts from; the SMT backend is not available for them.
- `Links`. `Translator` has no recursive operator, but its labels are strings put together from a name
  and a number, and no prover here knows that two such strings differ when the numbers do.
- `AcceptsWellScoped`, `SlotsIdentifyVariables`, `FileKeepsTree`, `StringCellsApart` and `SlotsInFrame` are proved of every
  tree. What their theorems assume of the modules around is left to the runs, since these are recursive: that an
  accepted tree is a program (`IsProgram`), that `Compilation` hands each stage's result to the next, and that
  the translator to NASM leaves the table alone.

## 5. Not modelled

- The optimizer: linked into the middleend and never called (`middleend.cpp:22-32`).
- `my_elf.cpp`, `buffer_.cpp` and `compiler_main.cpp`: in no target of the Makefile and called by
  nothing the emitters need.
- The goals of the Makefile that build, and `make nasm`, whose rule depends on the translator only and not
  on the tree, so that it takes whatever text there is.
- The alignment of `rsp` where an operand waits while a C library function is called: what libc does with
  it is outside of the repository.
- `mystdlib.asm` beyond `_my_read`; `.data` text; dumps, graphs and messages; memory that
  cannot be allocated outside of the stack, the section and the lexer; the links to parents in the
  tree and its destruction.

`PROJECT.json` has a line for each component, and lists the hazards with the
properties that cover them.

## 6. Plan

1. Proofs: that `Toolchain`'s machine never leaves commands, by composing `OutputIsLaidOut`
   and `ControlFlowIntegrity`; the stack of `Spu` as an instance of `AbstractStack`; `IsProgram` of every tree of the
   parser, once it is written without recursive operators as `Semantics` and `Translator` are; `Links`, with labels as pairs
   of a name and a number and a lemma about what writing them out keeps apart.
2. Programs beyond the bounds: more than 16 variables, more than 256 characters of strings.
3. `make nasm` and the executables it leaves, behind `Stages`.
