------------------------------- MODULE Blocks -------------------------------
(***************************************************************************)
(* Content-hashed blocks of a source file, packages/core/src/blocks.ts.    *)
(*                                                                         *)
(* A file's content is what each of its parts says: the statements that    *)
(* run when it loads, the rest of its top-level skeleton, every function,  *)
(* and two parts that are only white space: inside the literals of         *)
(* top-level statements, and the line ends the language reads (after a     *)
(* line comment, or where a semicolon is inserted).  Other white space is  *)
(* no part of the content.  A hash is its block's name and its text.       *)
(***************************************************************************)
CONSTANTS
  Fn,       \* functions, under their qualified and indexed names
  Inline    \* those written inside a top-level statement, as const f = () => ..

LOAD_BLOCK == "<load>"
MODULE_BLOCK == "<module>"
Block == Fn \cup {LOAD_BLOCK, MODULE_BLOCK}
Part == Fn \cup {"load", "literal", "lines", "decl"}

ASSUME BlocksAssumption ==
  /\ Inline \subseteq Fn
  /\ Fn \cap {LOAD_BLOCK, MODULE_BLOCK, "load", "literal", "lines", "decl"} = {}

\* The parts a block's text keeps apart.  A module's skeleton has the function
\* bodies blanked; the load fingerprint is whole statements, canonicalised with
\* no literal preserved; no canonical text keeps its line ends.
Spans == [b \in Block |->
  CASE b = MODULE_BLOCK -> {"load", "literal", "decl"}
    [] b = LOAD_BLOCK   -> {"load"} \cup Inline
    [] OTHER            -> {b}]

\* hashString over a block's canonical text.
Hash(b, content) == <<b, [p \in Spans[b] |-> content[p]]>>

\* blockHashesOf: every block of a file is hashed, whatever ran.
BlockHashesOf(content) == {Hash(b, content) : b \in Block}

\* Mutant: an import that calls nothing is credited with nothing, and a call
\* with nothing but its functions.
SelectCalledBlocks(content, ran) == {Hash(b, content) : b \in ran}

\* selectExecutedBlocks: the functions that ran, and one block for the load:
\* the whole skeleton when anything ran, the load fingerprint when nothing did.
SelectExecutedBlocks(content, ran) ==
  {Hash(b, content) : b \in ran \cup {IF ran = {} THEN LOAD_BLOCK ELSE MODULE_BLOCK}}

\* What a run of the functions ran of a file that loaded depends on.
Executed(ran) == {"load", "literal", "lines"} \cup ran
=============================================================================
