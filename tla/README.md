# cbpf-rs: a TLA+ model

cbpf-rs compiles pcap-filter expressions to classic BPF and runs the result on
packets.  This directory models the crate from the text of a filter to the verdict
on a packet and to the socket the program is attached to, checks it with TLC, and
proves its lexer, its parser, the label discipline of its code generator, its
assembler, its interpreter, its listing and `attach` correct with TLAPS.

## The system

`compile(src, link_type, snaplen)` (lib.rs) is a pipeline of pure stages, each
consuming what the one before produced, every stage stopping at its first error:

| Component | State | Operations | Hard part |
|---|---|---|---|
| lexer (lexer.rs) | position in the text, tokens | `lex` | byte offsets of multi-byte text |
| parser (parser.rs, ast.rs) | position in the tokens, call stack, tree | `parse`, one reader per kind of primitive | precedence, nesting, which error comes first and where |
| default expansion (desugar.rs) | none | `expand` | order of the leaves, which `or`s become src/dst pairs |
| code generator (codegen.rs, irep.rs) | IR stream, label counter, recursion stack | `generate`, one function per kind of primitive | a label taken in one function and placed in another; shared prologues |
| backpatcher (backpatch.rs) | label offsets, output | `assemble`: two passes | 8-bit displacements, backward jumps, missing labels |
| Program (program.rs) | instructions | `from_validated`, `run`, `matches` | `from_validated` validates nothing |
| interpreter (vm.rs, insn.rs) | a, x, pc | `run`, one arm per opcode | loads and jumps out of range, arithmetic on `usize` |
| listing (insn.rs) | none | `fmt_insn`, `describe` | relative displacements printed as line numbers |
| link types (linktype.rs) | none | `l3_offset_info`, `from_dlt`, `to_dlt` | Raw has no ethertype field |
| attach (attach/mod.rs) | none of its own; errno, the sockets' filters | `attach` | a u16 length; errno outlives the call; a socket keeps the filter of an earlier call |

Compiling and running happen on one thread without I/O, so nothing interleaves
there; only `attach` talks to the kernel, and may do so from several threads at once.
The difficulty is in long chains of small steps that must agree: labels, offsets and
displacements from four functions deep, loads that reject the packet in the middle
of a `not`, and numbers at the limits of u8, u32 and usize.  What makes each part
correct: the lexer loses nothing and its ranges can be sliced; the parser returns the
one tree the grammar gives, or the first error; the interpreter always returns, and returns 0 for anything out of range;
the code generator places every label once, behind its jumps; the backpatcher's
jumps land on those places or it says that they cannot; all together, the program
decides a packet as the filter says, and a socket carries a whole program or is left
alone.

## Modules

| Module | Models | Notes |
|---|---|---|
| `Words` | u8, u16, u32 | a word is the set of its one bits: full width, `&` is `\cap` |
| `Insn` | insn.rs | constructors and decoder by bit pattern; `Valid` is the kernel's check of the instructions (external); its limit on their number is in `Attach` |
| `Token`, `Lexer` | lexer.rs | one action per arm of the loop, one step per character of a word; `WellLexed` is what `lex` hands over |
| `Literal` | parser.rs, the functions that read one word | a word is a record of what the standard library's parsers say of it |
| `Parser` | parser.rs, the recursive descent | the Rust call stack is `stack`; one action per call, early return and loop turn |
| `Grammar` | - | reference grammar of filters, independent of the recursive descent: all trees of all pieces of a text, the short pieces before the long ones (`Chart`) |
| `Render` | - | the text of an expression tree, so that `Compile` starts from words |
| `Listing` | insn.rs `fmt_insn`, `describe` | what the printed line of an instruction tells a reader |
| `Vm` | vm.rs `run` | one action per opcode; `RanOff` is `insns.get(pc)` = None; `ret` is `{}` until `run` returns |
| `VmPair` | two runs of `Vm` | the same program on a packet and on a prefix of it |
| `LinkType`, `Irep`, `Ast` | linktype.rs, irep.rs, ast.rs | data; `Refs`, `Places` and the well-formedness of streams |
| `Emit` | codegen.rs, the code of one primitive | a function that emits is an operator from the label counter to a block `[code, n]` |
| `Codegen` | `generate`, `compile_expr`, IrBuilder | the call stack is `todo`; one action per arm of `compile_expr` |
| `Backpatch` | backpatch.rs | one action per stream entry (pass A) and per instruction (pass B); both builds (`debug`) |
| `Desugar` | desugar.rs | pure |
| `Filter` | - | reference semantics of filters over packets, independent of the code |
| `Contract` | - | what the crate promises: refuse, or decide every packet |
| `Attach` | attach/mod.rs | threads, descriptors and sockets; `Setsockopt` is the kernel's side (external) |
| `Compile` | lib.rs, program.rs | `Parser`, `Codegen`, `Backpatch` and `Vm` as instances, one stage after the other |
| `LexerProofs`, `ParserProofs`, `CodegenProofs`, `BackpatchProofs`, `VmProofs`, `VmPairProofs`, `ListingProofs`, `AttachProofs` | - | proofs |
| `MC*` | - | the instances for TLC |

Rust's `Option` is a set of at most one element.  An offset is a range of bytes
`Span(start, end)`; the parser joins ranges, the stages behind it only carry them.  `Port(p)`
and `PortRange(p, p)` stay distinct types, as `differs_only_in_dir` compares them.
A panic of the code generator is an entry `Panic` in the stream; a panic of the
backpatcher is its status.

The lexer sees characters (signs, spaces and word characters of known width); the
parser sees words, each a record of what `u16::from_str`, `Ipv4Addr::from_str` and
the like answer for it.  The two meet in `WellLexed`, which the lexer is proved to
establish and every input of the parser's instance satisfies.  `Grammar` takes the value
of a literal from the functions that the parser calls, so that it can be compared on every text;
`LiteralsRead` is what compares those functions with an independent table.

A packet too short for a load settles the verdict at once (vm.rs rejects), so
`Filter` has three answers, yes, no and short, and fixes the order in which fields
are looked at: left to right, an outer header before an inner one, `src` before
`dst`, IPv4 before IPv6.  That order is part of what `KeepsPromise` checks.
`Filter` takes nothing from the code generator, the place of the network header included.
`Contract` lets a filter of more than two primitives be refused as too large, since which ones
are depends on the layout of the code; that a refusal is true is `OverflowIsTrue` of `Backpatch`.

## Runs

| Run | Instance | Shows |
|---|---|---|
| `lexer` | every text of up to 5 characters from the 6 signs, 2 word characters, a 1-byte and a 3-byte space and a 2-byte letter | ranges lie on character boundaries, each character is whitespace or in exactly one token, the error is about the first character of no token, `lex` returns |
| `parser` | all sequences of up to 5 of `port 80`, `or`, `and`, `not`, `(`, `)`; chains of three operands, with groups and `not`, whole and damaged; each kind of primitive with each qualifier and literal, cut short at each word, with trailing words | exactly the tree of the grammar, or an error at the first wrong token; each literal has the value that a table gives it, or is refused; a waiting call for each open `(` and each `not` whose operand is being read, and none for those that a flat text has left behind; every leaf is one the code generator takes; `parse` returns |
| `parens_reported` | `( port 80 port 80 )` and `( )` | finding 3 |
| `attach` | two threads, two sockets, a descriptor that is no socket and one that is closed, programs of 1, 2, 3 and 5 instructions with u16::MAX = 3 and BPF_MAXINSNS = 2 | a call's result is an outcome of its own arguments; a socket's filter changes only to a whole program |
| `vm` | every program of up to 3 instructions from 20 (all opcodes, an unknown one, boundary operands), 5 packets, usize::MAX = 300 | always forward, always returns, a valid program returns for a reason; the printed listing says where each step goes |
| `vm_truncated` | the same kind of programs, each packet with each of its prefixes | truncation only rejects |
| `codegen` | all ordered pairs of 13 primitives and deeper trees, 3 link types | label discipline, no `unreachable!()` |
| `backpatch` | every stream of up to 5 entries over 2 labels (ill-formed ones too), every operation in streams of 3, both builds, displacement limit 1 | nothing is lost and the decoder reads back what was written, jumps land, a well-formed stream closed by a `ret` becomes a valid program, overflow is true, panics only for ill-formed streams |
| `compile` | 281 filters and 11 texts that are no filter, 3 link types, 85 to 102 packets each (all transports, ihl 5, 6 and 15, fragments, ARP, RARP, IPv6, cuts in every field) | the crate implements `Contract`; its output is valid |
| `overflow_small` | `port 1 or port 2 or port 3 or port 4` | finding 1 |
| `jmp_emitted` | the instance of `codegen` | finding 2 |

Bounds.  Three instructions let a program load, branch and return or run off the
end, and contain every pair of adjacent opcodes; usize::MAX = 300 makes the wrap of
`ja` and of `x + k` reachable with small operands (VmProofs has no such bound).
Five entries hold a jump whose two labels are placed behind it in either order with
an instruction between, which with a limit of 1 is out of reach.  In `compile` the
limit is the true 255, met by three port ranges.  Snaplen is 0xFFFF_FFFF, the widest
value; it is only ever copied to the accepting `ret`.  Five characters hold a doubled
sign, a word, a space and a multi-byte character side by side in every order, and a
stray sign in front of, between and behind them; five units hold a group with an
operator inside, and the chains cover precedence and associativity with groups and
`not` in each place.  With u16::MAX = 3 a length of 5 would wrap to 1, which is a
program the kernel takes: that is what `attach`'s length check prevents.

Fairness.  `run` is a loop on one thread, so `Vm` and `VmPair` assume weak fairness
of the next step; `Terminates` and `BothReturn` rest on it.  `Codegen`, `Backpatch`
and `Compile` state no fairness: their calls return because deadlock is checked and
each step shortens what is left (`todo`, the stream); `Returned`, `BpReturned` and
`Refused` mark the states in which the call is over.  `Vm` itself simply stops when
it has returned, hence CHECK_DEADLOCK FALSE in its two runs; likewise `Lexer` and
`Parser`, each one call on one thread, with weak fairness of the next step for
`LexTerminates` and `ParseTerminates`.  `Attach` states no fairness, as threads may
call it or not, and never stops.

## Findings

1. error.rs says that "roughly 85+ primitives" overflow a jump.  `or_reduce` joins
   the six leaves of a bare `port` in a left-leaning chain, so only its first
   src/dst pair is the shape `compile_dir_pair` recognises; one bare `port` is 79
   instructions and four of them overflow.  Three bare port ranges do as well.
2. irep.rs says that the code generator never emits `Jmp`; `emit_addr6_terminal`
   does, for an IPv6 net of prefix 0.
3. error.rs says that `UnbalancedParens` means "A `(` was never closed, or a `)` had no
   matching `(`."; `parse_primary` returns it for any token other than `)` behind the
   expression of a group, and for an empty group, whose parentheses match.

Two things met on the way contradict no document: the offset of `UnexpectedChar` is one byte
long also for a character of several bytes, so its end need not be a character boundary
(`OnBoundaries` is about tokens); and a group's node keeps the offset of what
is inside the parentheses.

## Proofs

`VmProofs` proves, for all sets of programs and packets and any usize::MAX that
satisfy `VmAssumption` (programs are sequences of instructions short enough for
`pc + 1 + 255` to fit, which a slice of 8-byte values always is):

- `TypeCorrect`: `TypeOK`, which is inductive as it stands.
- `RunsForward`: every step increases `pc` or returns.
- `ValidStaysInside`: a valid program never leaves its instructions.  Inductive given
  `TypeOK`: each action's next `pc` is one of the `Targets` of its instruction.
- `ReturnsWithCause`: a valid program returns only at `ret` or at a failed load.
  Needs `ValidStaysInside`, because running off the end is the third way to return.

`VmPairProofs` proves `CutAgrees` (the two runs agree on every register until the
shorter rejects), by showing that each read on the prefix either fails or gives what
the same read gives on the whole packet, and from it `TruncationSafe`.

`ListingProofs` proves `ListingTellsRun` for the same programs and packets: whoever
follows the printed lines, taking the jump displayed or the next line, is at the line
the interpreter is at.  Each action of `Vm` is matched with the form its opcode is
printed in, and the arithmetic of the printed target with that of `run`.

`LexerProofs` proves, for all texts and widths that satisfy `LexerAssumption` (signs and word
characters are ASCII; a text's characters start where the one before ends):

- `LexTypeCorrect` (every range is in the text, and a word being read is not empty),
  `LexOnBoundaries`, `LexHandsOver`.  `OnBoundaries` is not
  inductive: `LexInv` adds that the finished tokens are in order and end before the
  text not yet read, and that the word being read ends exactly where that text starts.
  `LexHandsOver` is then the order of the tokens in the final state.
- `LexLosesNothing`.  `CoverInv` turns the count of `NothingLost` into "exactly one
  range holds the character" and adds that a run that ends where the lexer stands is not
  followed by a word character; each arm adds one range behind all others (`RangeAdded`),
  and a character of a word makes the last one longer (`RangeGrown`).
- `LexFirstBadChar`.  `GoodInv`: no bad character has been passed, and whenever the lexer
  is about to read a token, the `&`s or `|`s just passed are even in number (`Paired`).  That makes a
  single one odd, and bad, exactly when it is not followed by its twin.

That the starts of characters grow with their number is an induction over the text.
`LeastNatural`, the least element of a set of numbers, is how it is done: the library
proves it from the well-foundedness of `<` without an operator as a parameter.

`ParserProofs` proves, for all token sequences that satisfy `ParserAssumption`, whatever
their length and nesting, all that the `parser` run checks but the place of an error, the
tables of literals and liveness.
The assumption is what `LexHandsOver` and `LexTypeCorrect` establish (a sequence of tokens, in
order, closed by its only Eof, with ranges of natural numbers), and for a word that the standard library's answers have
their types (`IsText`: at most one number, one address of 128 bits, no `:` in `host`; an operator has none either, no `.`, no digits, and is its own lower case).

- `ParseTypeCorrect`.  Readers of primitives come first: whatever
  words they look at, they fail or stop behind words and dashes (`Outcome`), so a
  primitive changes neither count of parentheses.  `ParseInv` adds that every open `(` is a
  waiting parse_primary, which function may wait for which (`Shape`), how many calls of each level
  wait, by the innermost one (`InBalance`), and that the function being called is one that
  its caller calls.  One lemma per action shows that pushing or dropping a frame keeps
  these.
- `DepthFollowsNesting`: `DepthIsNesting`, which reads the `not`s around the current token off
  the text (`NotsAround`) and so cannot be met by a parser that leaves calls behind in a flat
  chain.  `NestInv` gives every waiting call the position where it began to wait.  Only a group
  is deeper in parentheses than its caller, and between a `not` and a level inside of it there
  is a group (`Nested`); so when a level goes round behind `and` or `or`, or a group ends,
  every `not` still waiting is less deep and its operand is still open (`Reached`).
  The other way round, an open operand is waited for, or it has just been read (`Covered`); that is why the
  two numbers are equal while an operand is to be read, and `<=` holds while one is returned.
  A primitive contains no operator (`LeafPlain`), which is what `IsText` says of operators.
- `ParseReadsGrammar`: `ReadsGrammar`, in four parts.
  (1) The chart as rules.  `Grammar` defines it by recursion over the length of a piece; `ChartLayers`
  shows that the recursion has a solution, and `UnaryRule` and `LevelRule` that a piece is derived
  exactly if it is a primitive, a `not`, a group, an operand, or an operator behind a piece of
  its level.
  (2) Primitives.  `WritesLeaf` says which words write a primitive, without a parser;
  `HereSpelled` shows that what the readers return is written there, and `HereReads` that what
  is written is returned: the keyword tables are disjoint, so the optional words are never
  taken for something else.
  (3) Soundness.  `SoundInv`: there is a position at which each waiting call began, and what
  lies between is what its frame says (`Began`, `FrameAt`); what is being returned is derived
  from the tokens since its call began.
  (4) Completeness.  `CompleteInv`: for each tree `e` that the grammar gives the whole text, the
  call being made can return something with which the waiting calls end with `e` at the
  end of the text (`Completes`), and behind what it returns stands no operator that it
  would take (`Follows`).  So no error is reached, every choice the parser makes by its next
  token is the one that leads to `e`, and as this holds for each `e`, there is only one.
- `ParseFitsCodegen`: `FitsCodegen`.  Each tree that is returned is derived (`SoundInv`), what is below a derived
  tree is derived (`PartSound`, by the length of the piece), and a derived leaf is in range.

The inductions over lengths and depths are least-number arguments (`LeastNumber`).

`CodegenProofs` proves the four properties of the `codegen` run for every set of
expressions that satisfies `CodegenAssumption` (each expression is a leaf of the form
the parser and `expand` make, with a prefix, port and offset in range, or an operator over
other expressions of the set) and each link type and snaplen:

- `Sound(code, P, X)` says that a piece of IR places the labels of `P`, once each, and
  jumps forward to one of them or away to one of `X`; `SoundCat` puts two pieces together.
  `Fine` says of a block that it places exactly the labels it took.  There is one lemma per
  `emit_*` and `compile_*` function that its block is `Fine`, for every label
  counter and branch; they are where an IPv6 address of one to four words, a shared
  prologue, and ARP on a link type without ethertypes are gone through.
- `CgInv` is inductive: the stream is `Sound` with all labels taken except those still open,
  and `TodoOK` says that a pending call branches only to the return blocks or to
  labels that `todo` is going to place after it, none of them twice.
- From it `CgTypeCorrect`, `PlacesOnce`, `JumpsOnlyForward`, `PanicFree`; `EndsInRet`
  adds that a finished stream ends in a `ret`.
- `ReadyForBackpatch` puts these in the words of `BackpatchAssumption`, `WellFormed` and
  `ClosedByRet`: whatever `generate` returns is a stream on which the assembler does not
  panic (`NoPanicIfWellFormed`) and from which it makes only valid programs
  (`AssembledIsValid`).  Left to the assumption is the length (fewer than 2^31 entries).

`AttachProofs` proves, for any threads, sockets, programs and limits,
`AttachTypeCorrect`, `ResultFitsCall` and `AttachesWhole`.  errno outlives a call, so
that a result is the call's own needs `Owed`: a thread back from the kernel holds a
return value and, if that is not 0, an errno that are outcomes of its present arguments.

`BackpatchProofs` proves all six properties of the `backpatch` run for every set of
streams that satisfies `BackpatchAssumption`: a stream is a sequence of IR entries,
names only labels that were handed out, and has fewer than 2^31 entries;
the displacement limit is a u8.  Streams may be ill-formed; the theorems that need
placed and forward labels say so (`WellFormed`).

- `BpInvariant`: `BpInv` is inductive.  None of the six is: that a jump lands, say,
  needs to know that `offsets[l]` is the number of instructions before a mark of `l`,
  which needs `Len(real)` to be the number of instructions among the entries taken so
  far.  `RealOK` and `OffsetsOK` say that about pass A, `OutOK` relates each lowered
  instruction to its entry and to `offsets`, and `PanicOK` and `ErrorOK` keep what was
  true when pass B stopped.  The counting lemmas (`RealsStep`, `RealsMono`,
  `RealsPassed`) rest on the library's facts about cardinality, and `DecodeCodes` on
  the bit patterns of insn.rs.
- `LabelsAhead` is where well-formedness enters: the offset of a label that a jump
  names exists, lies behind the jump and is the only place the label stands for.
- From these: `BpTypeCorrect`, `NoPanicIfWellFormed`, `NothingLost`,
  `JumpsLandAtLabels`, `OverflowIsTrue`, `AssembledIsValid` (a jump leads to a mark, and
  a mark stands before the closing `ret`; whatever falls through does as well).

Only model-checked:

- liveness (`Terminates`, `BothReturn`, `LexTerminates`, `ParseTerminates`), which is out of
  the prover's reach;
- `FirstWrongToken` of the parser, which is about texts that were not typed (what stands before
  the error, continued by some `Continuations`), and `LiteralsRead`, whose tables are those of
  the instance;
- `KeepsPromise` and `OutputValid` of the composition: `Desugar`, `Filter` and `Render`
  are RECURSIVE over expression trees, and modules that use them stay with TLC.  The only link
  of `OutputValid` that is not proved is `expand`, between `ParseFitsCodegen` (the leaves
  it is given are in range) and `CodegenAssumption` (the leaves it makes are); from there
  on it is `ReadyForBackpatch` and `AssembledIsValid`.

## Not modelled

Error texts and `Display`, which are wording (the tags and offsets of errors are
modelled where they are made).  `from_dlt` and `to_dlt`, a table of three numbers.  How
the standard library reads a number or an address: `Literal` takes its answers as
given.  `examples/`, which drive the crate against a kernel and libpcap.
`Program::matches` is `run != 0` and follows from `KeepsPromise`.

## Plan

1. Done: all stages from the text to the verdict, the composition from the parser on with its
   contract, the listing, `attach`; the proofs above.
2. Open: that `expand` makes, of leaves in range, leaves in range.  Its fold over one to six leaves
   and its recursion over the tree would have to be written as functions on the numbers first.
3. Open: the place of a syntax error for every text.  `SoundInv` says that what stands before the
   current token is the beginning of a filter as far as the waiting calls have read it; missing is
   that each of them can be completed.
