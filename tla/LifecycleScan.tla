--------------------------- MODULE LifecycleScan ---------------------------
(***************************************************************************)
(* A text as SqlLifecycleScanner and MySQL read it, symbol by symbol and   *)
(* side by side: the part of a restore that decides whether a dump is let  *)
(* through.  The text is never held; MysqlRestore builds on this module.   *)
(***************************************************************************)
EXTENDS SqlLifecycleScanner

CONSTANT Alphabet     \* the symbols that dumps are made of

ASSUME AlphabetAssumption == Alphabet \subseteq Symbols

VARIABLES
  scanner, lexer,
  alike       \* no Difference so far

scan == <<scanner, lexer, alike>>

ScanInit == scanner = ScannerStart /\ lexer = LexerStart /\ alike = TRUE

(* feed, and what MySQL makes of the same symbol: from the first           *)
(* Difference on nothing is said of it any more.                           *)
ScanSymbol(b) ==
  /\ scanner' = Feed(scanner, b)
  /\ alike' = (alike /\ Difference(lexer, b) = "none")
  /\ lexer' = IF alike' THEN Lex(lexer, b) ELSE LexerStart

(* finish: the readers are dropped; what they found is kept.               *)
FinishScan ==
  /\ scanner' = [ScannerStart EXCEPT !.found = FlushToken(scanner).found]
  /\ lexer' = [LexerStart EXCEPT !.lifecycle = EndOfWord(lexer).lifecycle]
  /\ alike' = alike

ScanTypeOK == scanner \in ScannerStates /\ lexer \in LexerStates /\ alike \in BOOLEAN

(* Up to the first place of a text that Difference names, the scanner has  *)
(* found CREATE or DROP DATABASE exactly if MySQL has: none in running     *)
(* text or in an executable comment is missed, and none in a string, a     *)
(* quoted name or a comment is counted.                                    *)
LifecycleStatementsAreFound == alike => (scanner.found <=> lexer.lifecycle)

(* Why: the two are at the same point of the text.                         *)
ScanInvariant == ScanTypeOK /\ (alike => ReadAlike(scanner, lexer))
=============================================================================
