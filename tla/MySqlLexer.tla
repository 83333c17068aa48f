---------------------------- MODULE MySqlLexer ----------------------------
(***************************************************************************)
(* How MySQL reads the text of a dump, one symbol at a time: the           *)
(* reference for the scanner of dbtalk/mysql/restore.py.  MySQL is not     *)
(* part of the repository.                                                 *)
(*                                                                         *)
(* A symbol is what both readers tell apart.  A word is a run of           *)
(* identifier bytes (two words without a symbol between them are one other *)
(* word); "version" and "later" are the digits of a version, this server's *)
(* or older and a later one.  "open" is /*, "bang" is !, "close" is the    *)
(* end of a comment, "dashes" is -- and a blank, "return" is a carriage    *)
(* return without a newline, "foreign" is a letter beyond ASCII, and       *)
(* "other" is any other byte.                                              *)
(***************************************************************************)

Words == {"create", "drop", "database", "schema", "use", "version", "later", "word"}
Quotes == {"single_quote", "double_quote", "backtick"}
Symbols ==
  Words \cup Quotes \cup
  {"blank", "newline", "return", "semicolon", "backslash", "dashes", "hash",
   "open", "bang", "close", "foreign", "other"}

(* A word that goes on.                                                    *)
Joined(token, word) == IF token = "none" THEN word ELSE "word"

Verbs == {"create", "drop"}

(***************************************************************************)
(* The lexer's state: what it is in ("marked" is right behind /*!, and     *)
(* "versioned" behind a version there), whether that is inside an          *)
(* executable comment, whether the last symbol was a backslash in a        *)
(* string, the word being read, the word before it in the statement, and   *)
(* whether CREATE or DROP was followed by DATABASE or SCHEMA in text that  *)
(* MySQL runs.                                                             *)
(***************************************************************************)
LexerStart ==
  [mode |-> "text", executable |-> FALSE, escaped |-> FALSE,
   token |-> "none", last |-> "none", lifecycle |-> FALSE]

LexerStates ==
  [mode : {"text", "line", "opened", "comment", "marked", "versioned"} \cup Quotes,
   executable : BOOLEAN, escaped : BOOLEAN,
   token : {"none"} \cup Words, last : {"none"} \cup Words, lifecycle : BOOLEAN]

EndOfWord(l) ==
  IF l.token = "none" THEN l
  ELSE [l EXCEPT !.token = "none", !.last = l.token,
                 !.lifecycle = @ \/ (l.last \in Verbs /\ l.token \in {"database", "schema"})]

LexText(l, b) ==
  LET ended == EndOfWord(l)
  IN  IF b \in Words THEN [l EXCEPT !.token = Joined(@, b)]
      ELSE IF b = "foreign" THEN [l EXCEPT !.token = "word"]
      ELSE IF b \in Quotes THEN [ended EXCEPT !.mode = b]
      ELSE IF b \in {"dashes", "hash"} THEN [ended EXCEPT !.mode = "line"]
      ELSE IF b = "open" THEN [ended EXCEPT !.mode = "opened"]
      ELSE IF b = "close" THEN [ended EXCEPT !.executable = FALSE]
      ELSE IF b = "semicolon" THEN [ended EXCEPT !.last = "none"]
      ELSE ended

(* The digits of a version are no word; what follows them is run unless    *)
(* the version is a later one.                                             *)
LexMarked(l, b) ==
  IF l.mode = "marked" /\ b = "version" THEN [l EXCEPT !.mode = "versioned"]
  ELSE IF l.mode = "marked" /\ b = "later" THEN [l EXCEPT !.mode = "comment", !.executable = FALSE]
  ELSE LexText([l EXCEPT !.mode = "text"], b)

(* A backslash escapes in a string and not in a quoted identifier.         *)
LexQuoted(l, b) ==
  IF l.escaped THEN [l EXCEPT !.escaped = FALSE]
  ELSE IF b = "backslash" /\ l.mode # "backtick" THEN [l EXCEPT !.escaped = TRUE]
  ELSE IF b = l.mode THEN [l EXCEPT !.mode = "text"]
  ELSE l

LexComment(l, b) ==
  IF l.mode = "line" THEN [l EXCEPT !.mode = IF b = "newline" THEN "text" ELSE "line"]
  ELSE IF b = "close" THEN [l EXCEPT !.mode = "text"]
  ELSE IF l.mode = "opened" /\ b = "bang" THEN [l EXCEPT !.mode = "marked", !.executable = TRUE]
  ELSE [l EXCEPT !.mode = "comment"]

Lex(l, b) ==
  IF l.mode = "text" THEN LexText(l, b)
  ELSE IF l.mode \in {"marked", "versioned"} THEN LexMarked(l, b)
  ELSE IF l.mode \in Quotes THEN LexQuoted(l, b)
  ELSE LexComment(l, b)
=============================================================================
