------------------------ MODULE SqlLifecycleScanner ------------------------
(***************************************************************************)
(* SqlLifecycleScanner of dbtalk/mysql/restore.py over the symbols of      *)
(* MySqlLexer: an object fed line by line that reports whether CREATE or   *)
(* DROP DATABASE occurs outside quoted text.                               *)
(*                                                                         *)
(* A comment's end never spans two calls, because feed gets whole lines:   *)
(* _block_star_pending, which is for that case, is left out.               *)
(***************************************************************************)
EXTENDS MySqlLexer

ScannerStart ==
  [state |-> "normal", return |-> "normal", escaped |-> FALSE,
   executable |-> FALSE, marker |-> FALSE,
   token |-> "none", previous |-> "none", found |-> FALSE]

ScannerStates ==
  [state : {"normal", "line_comment", "block_comment"} \cup Quotes,
   return : {"normal", "block_comment"}, escaped : BOOLEAN,
   executable : BOOLEAN, marker : BOOLEAN,
   token : {"none"} \cup Words, previous : {"none"} \cup Words, found : BOOLEAN]

(* _flush_token.                                                           *)
FlushToken(s) ==
  IF s.token = "none" THEN s
  ELSE [s EXCEPT !.token = "none", !.previous = s.token,
                 !.found = @ \/ (s.token = "database" /\ s.previous \in Verbs)]

(* _consume_normal_byte, and what both its callers do after a semicolon.   *)
Consume(s, b, from) ==
  LET flushed == FlushToken(s)
  IN  IF b \in Words THEN [s EXCEPT !.token = Joined(@, b)]
      ELSE IF b \in Quotes THEN [flushed EXCEPT !.state = b, !.return = from]
      ELSE IF b = "semicolon" THEN [flushed EXCEPT !.previous = "none"]
      ELSE flushed

FeedLineComment(s, b) ==
  IF b \in {"newline", "return"} THEN [s EXCEPT !.state = "normal"] ELSE s

(* Mutant: text inside an executable comment is skipped.                   *)
FeedBlockCommentSkipping(s, b) ==
  IF b = "close" /\ ~s.marker THEN [s EXCEPT !.state = "normal"]
  ELSE [s EXCEPT !.marker = FALSE]

(* The byte after the opening only tells whether the comment is an         *)
(* executable one: it is never looked at for the end of the comment.       *)
FeedBlockComment(s, b) ==
  LET marked == [s EXCEPT !.marker = FALSE,
                          !.executable = IF s.marker THEN b = "bang" ELSE @]
  IN  IF s.marker /\ b # "bang" THEN marked
      ELSE IF b = "close" THEN [marked EXCEPT !.state = "normal", !.executable = FALSE]
      ELSE IF marked.executable THEN Consume(marked, b, "block_comment")
      ELSE marked

(* A doubled backtick leaves the identifier and enters it again.           *)
FeedQuoted(s, b) ==
  IF s.escaped THEN [s EXCEPT !.escaped = FALSE]
  ELSE IF b = "backslash" THEN [s EXCEPT !.escaped = TRUE]
  ELSE IF b = s.state THEN [s EXCEPT !.state = s.return]
  ELSE s

FeedNormal(s, b) ==
  IF b = "open"
  THEN [FlushToken(s) EXCEPT !.state = "block_comment", !.executable = FALSE, !.marker = TRUE]
  ELSE IF b \in {"dashes", "hash"} THEN [FlushToken(s) EXCEPT !.state = "line_comment"]
  ELSE Consume(s, b, "normal")

Feed(s, b) ==
  IF s.state = "line_comment" THEN FeedLineComment(s, b)
  ELSE IF s.state = "block_comment" THEN FeedBlockComment(s, b)
  ELSE IF s.state \in Quotes THEN FeedQuoted(s, b)
  ELSE FeedNormal(s, b)

-----------------------------------------------------------------------------
(***************************************************************************)
(* Where the scanner reads on differently from MySQL:                      *)
(*   - a comment that ends right where it opened,                          *)
(*   - a line comment with a carriage return that does not end its line,   *)
(*   - a backslash in a quoted identifier,                                 *)
(*   - a letter beyond ASCII outside quotes, where a word ends for the     *)
(*     scanner only,                                                       *)
(*   - a comment inside an executable comment,                             *)
(*   - a word that goes on across the end of an executable comment,        *)
(*   - the version of an executable comment, where a word follows at once, *)
(*     where it stands between the two words of a statement, or where it   *)
(*     is later than the server's: for the scanner it is a word,           *)
(*   - SCHEMA, MySQL's other name for DATABASE.                            *)
(* The last one is a difference in the words looked for, the others are    *)
(* differences of the two automata.                                        *)
(***************************************************************************)
Difference(l, b) ==
  IF l.mode = "opened" /\ b = "close" THEN "empty_comment"
  ELSE IF l.mode = "line" /\ b = "return" THEN "lone_return"
  ELSE IF l.mode = "backtick" /\ b = "backslash" THEN "quoted_backslash"
  ELSE IF l.mode \notin {"text", "marked", "versioned"} THEN "none"
  ELSE IF b = "foreign" THEN "foreign_letter"
  ELSE IF l.executable /\ b \in {"open", "dashes", "hash"} THEN "nested_comment"
  ELSE IF l.executable /\ b = "close" /\ (l.token # "none" \/ l.mode = "versioned") THEN "joined_word"
  ELSE IF l.mode = "versioned" /\ b \in Words THEN "joined_version"
  ELSE IF l.mode = "marked" /\ b = "version" /\ l.last \in Verbs THEN "version_between"
  ELSE IF l.mode = "marked" /\ b = "later" THEN "later_version"
  ELSE IF l.last \in Verbs /\ b = "schema" THEN "schema"
  ELSE "none"

-----------------------------------------------------------------------------
(* The scanner and MySQL at the same point of a text they read alike: both *)
(* are in the same kind of text, with the same words behind them.  An      *)
(* executable comment is running text to MySQL and a comment to the        *)
(* scanner, its version no word to MySQL and one to the scanner.           *)
ReadAlike(s, l) ==
  /\ s.found = l.lifecycle
  /\ s.token = IF l.mode = "versioned" THEN "version" ELSE l.token
  /\ s.previous = l.last \/ (s.previous \notin Verbs /\ l.last \notin Verbs)
  /\ l.mode = "versioned" => l.last \notin Verbs
  /\ l.mode # "text" => l.token = "none"
  /\ l.token = "schema" => l.last \notin Verbs
  /\ l.mode \in {"line", "opened", "comment"} => ~l.executable
  /\ l.mode \in {"marked", "versioned"} => l.executable
  /\ s.escaped = l.escaped /\ (l.escaped => l.mode \in Quotes)
  /\ s.state = IF l.mode \in Quotes THEN l.mode
               ELSE IF l.mode = "line" THEN "line_comment"
               ELSE IF l.mode = "text" /\ ~l.executable THEN "normal"
               ELSE "block_comment"
  /\ l.mode \in Quotes => s.return = IF l.executable THEN "block_comment" ELSE "normal"
  /\ l.executable => s.executable /\ ~s.marker
  /\ l.mode = "opened" => s.marker
  /\ l.mode = "comment" => ~s.executable /\ ~s.marker
=============================================================================
