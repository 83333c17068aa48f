------------------------ MODULE MysqlRestore_proofs ------------------------
(***************************************************************************)
(* Proofs about a restore, for texts of any length, pipes of any size and  *)
(* any number of replacements of the input file.                           *)
(***************************************************************************)
EXTENDS MysqlRestore, TLAPS

-----------------------------------------------------------------------------
(* The scanner and MySQL, symbol by symbol.                                *)

LEMMA FeedTyped ==
  ASSUME NEW s \in ScannerStates, NEW b \in Symbols
  PROVE  Feed(s, b) \in ScannerStates
<1> DEFINE flushed == FlushToken(s)
<1>1. ASSUME NEW r \in ScannerStates
      PROVE  /\ FlushToken(r) \in ScannerStates
             /\ \A from \in {"normal", "block_comment"} : Consume(r, b, from) \in ScannerStates
  <2>1. FlushToken(r) \in ScannerStates
    BY DEF FlushToken, ScannerStates
  <2>2. ASSUME NEW from \in {"normal", "block_comment"} PROVE Consume(r, b, from) \in ScannerStates
    <3>1. CASE b \in Words
      <4>1. Joined(r.token, b) \in {"none"} \cup Words
        BY <3>1 DEF Joined, Words
      <4>2. QED
        BY <3>1, <4>1 DEF Consume, ScannerStates
    <3>2. CASE b \notin Words
      <4>1. Consume(r, b, from)
              \in {FlushToken(r), [FlushToken(r) EXCEPT !.previous = "none"]}
                   \cup {[FlushToken(r) EXCEPT !.state = q, !.return = from] : q \in Quotes}
        BY <3>2 DEF Consume
      <4>2. /\ [FlushToken(r) EXCEPT !.previous = "none"] \in ScannerStates
            /\ \A q \in Quotes :
                 [FlushToken(r) EXCEPT !.state = q, !.return = from] \in ScannerStates
        BY <2>1 DEF ScannerStates
      <4>3. QED
        BY <2>1, <4>1, <4>2
    <3>3. QED
      BY <3>1, <3>2
  <2>3. QED
    BY <2>1, <2>2
<1>2. FeedLineComment(s, b) \in ScannerStates /\ FeedQuoted(s, b) \in ScannerStates
  BY DEF FeedLineComment, FeedQuoted, ScannerStates
<1>3. FeedNormal(s, b) \in ScannerStates
  <2>1. flushed \in ScannerStates /\ Consume(s, b, "normal") \in ScannerStates
    BY <1>1
  <2>2. /\ [flushed EXCEPT !.state = "block_comment", !.executable = FALSE, !.marker = TRUE]
            \in ScannerStates
        /\ [flushed EXCEPT !.state = "line_comment"] \in ScannerStates
    BY <2>1 DEF ScannerStates
  <2>3. QED
    BY <2>1, <2>2 DEF FeedNormal
<1>4. FeedBlockComment(s, b) \in ScannerStates
  <2> DEFINE marked == [s EXCEPT !.marker = FALSE, !.executable = IF s.marker THEN b = "bang" ELSE @]
  <2>1. marked \in ScannerStates /\ [marked EXCEPT !.state = "normal", !.executable = FALSE] \in ScannerStates
    BY DEF ScannerStates
  <2>2. Consume(marked, b, "block_comment") \in ScannerStates
    BY <1>1, <2>1
  <2>3. QED
    BY <2>1, <2>2 DEF FeedBlockComment
<1>5. QED
  BY <1>2, <1>3, <1>4 DEF Feed

LEMMA WordEnds ==
  ASSUME NEW l \in LexerStates
  PROVE  EndOfWord(l) \in LexerStates
  BY DEF EndOfWord, LexerStates

LEMMA LexTyped ==
  ASSUME NEW l \in LexerStates, NEW b \in Symbols
  PROVE  Lex(l, b) \in LexerStates
<1>1. ASSUME NEW k \in LexerStates PROVE LexText(k, b) \in LexerStates
  <2> DEFINE ended == EndOfWord(k)
  <2>1. ended \in LexerStates
    BY WordEnds
  <2>2. CASE b \in Words \cup {"foreign"}
    <3> DEFINE word == IF b = "foreign" THEN "word" ELSE Joined(k.token, b)
    <3>1. word \in Words
      BY <2>2 DEF Joined, Words
    <3>2. LexText(k, b) = [k EXCEPT !.token = word]
      BY <2>2 DEF LexText, Words, LexerStates
    <3> HIDE DEF word
    <3>3. QED
      BY <3>1, <3>2 DEF LexerStates
  <2>3. CASE b \notin Words \cup {"foreign"}
    <3>1. LexText(k, b)
            \in {ended, [ended EXCEPT !.mode = "line"], [ended EXCEPT !.mode = "opened"],
                 [ended EXCEPT !.executable = FALSE], [ended EXCEPT !.last = "none"]}
                  \cup {[ended EXCEPT !.mode = q] : q \in Quotes}
      BY <2>1, <2>3 DEF LexText, LexerStates
    <3> HIDE DEF ended
    <3>2. QED
      BY <2>1, <3>1 DEF LexerStates
  <2>4. QED
    BY <2>2, <2>3
<1>2. LexMarked(l, b) \in LexerStates
  <2>1. [l EXCEPT !.mode = "text"] \in LexerStates /\ [l EXCEPT !.mode = "versioned"] \in LexerStates
        /\ [l EXCEPT !.mode = "comment", !.executable = FALSE] \in LexerStates
    BY DEF LexerStates
  <2>2. QED
    BY <1>1, <2>1 DEF LexMarked
<1>3. LexQuoted(l, b) \in LexerStates /\ LexComment(l, b) \in LexerStates
  BY DEF LexQuoted, LexComment, LexerStates
<1>4. QED
  BY <1>1, <1>2, <1>3 DEF Lex

(* The end of a word, for both.                                            *)
LEMMA WordsEndAlike ==
  ASSUME NEW s \in ScannerStates, NEW l \in LexerStates, ReadAlike(s, l)
  PROVE  /\ FlushToken(s) \in ScannerStates /\ EndOfWord(l) \in LexerStates
         /\ FlushToken(s).found = EndOfWord(l).lifecycle
         /\ FlushToken(s).token = "none" /\ EndOfWord(l).token = "none"
         /\ \/ FlushToken(s).previous = EndOfWord(l).last
            \/ FlushToken(s).previous \notin Verbs /\ EndOfWord(l).last \notin Verbs
         /\ \A f \in {"state", "return", "escaped", "executable", "marker"} : FlushToken(s)[f] = s[f]
         /\ \A f \in {"mode", "executable", "escaped"} : EndOfWord(l)[f] = l[f]
<1> DEFINE flushed == FlushToken(s)
           ended == EndOfWord(l)
<1>1. flushed \in ScannerStates
  BY DEF FlushToken, ScannerStates
<1>2. ended \in LexerStates
  BY WordEnds
<1>3. flushed.token = "none" /\ flushed.state = s.state /\ flushed.return = s.return
      /\ flushed.escaped = s.escaped /\ flushed.executable = s.executable /\ flushed.marker = s.marker
  BY DEF FlushToken, ScannerStates
<1>4. ended.token = "none" /\ ended.mode = l.mode /\ ended.executable = l.executable
      /\ ended.escaped = l.escaped
  BY DEF EndOfWord, LexerStates
<1>5. /\ flushed.previous = IF s.token = "none" THEN s.previous ELSE s.token
      /\ flushed.found = (s.found \/ (s.token = "database" /\ s.previous \in Verbs))
  BY DEF FlushToken, ScannerStates
<1>6. /\ ended.last = IF l.token = "none" THEN l.last
                      ELSE l.token
      /\ ended.lifecycle = (l.lifecycle \/ (l.last \in Verbs /\ l.token \in {"database", "schema"}))
  BY DEF EndOfWord, LexerStates
<1> HIDE DEF flushed, ended
<1>7. flushed.found = ended.lifecycle
      /\ (flushed.previous = ended.last \/ (flushed.previous \notin Verbs /\ ended.last \notin Verbs))
  <2>1. CASE l.mode = "versioned"
    BY <1>5, <1>6, <2>1 DEF ReadAlike, ScannerStates, LexerStates, Verbs
  <2>2. CASE l.mode # "versioned"
    BY <1>5, <1>6, <2>2 DEF ReadAlike, ScannerStates, LexerStates, Verbs
  <2>3. QED
    BY <2>1, <2>2
<1>8. QED
  BY <1>1, <1>2, <1>3, <1>4, <1>7 DEF flushed, ended

(* Running text, in and out of executable comments.                        *)
LEMMA TextKeepsAlike ==
  ASSUME NEW s \in ScannerStates, NEW l \in LexerStates, NEW b \in Symbols,
         ReadAlike(s, l), l.mode = "text", Difference(l, b) = "none"
  PROVE  ReadAlike(Feed(s, b), LexText(l, b))
<1> DEFINE flushed == FlushToken(s)
           ended == EndOfWord(l)
           from == IF l.executable THEN "block_comment" ELSE "normal"
<1>1. /\ flushed \in ScannerStates /\ ended \in LexerStates
      /\ flushed.found = ended.lifecycle /\ flushed.token = "none" /\ ended.token = "none"
      /\ flushed.previous = ended.last \/ (flushed.previous \notin Verbs /\ ended.last \notin Verbs)
      /\ flushed.state = s.state /\ flushed.return = s.return /\ flushed.escaped = s.escaped
      /\ flushed.executable = s.executable /\ flushed.marker = s.marker
      /\ ended.mode = "text" /\ ended.executable = l.executable /\ ended.escaped = l.escaped
  BY WordsEndAlike
<1> HIDE DEF flushed, ended
<1>2. /\ ~l.escaped /\ ~s.escaped /\ s.token = l.token /\ s.found = l.lifecycle
      /\ s.previous = l.last \/ (s.previous \notin Verbs /\ l.last \notin Verbs)
      /\ s.state = from
      /\ l.executable => s.executable /\ ~s.marker
  BY DEF ReadAlike, Quotes
<1>3. /\ b # "foreign"
      /\ l.executable => b \notin {"open", "dashes", "hash"}
      /\ l.executable /\ b = "close" => l.token = "none"
      /\ ~(l.last \in Verbs /\ b = "schema")
  BY DEF Difference
<1>4. ASSUME b \notin {"open", "dashes", "hash"}, ~(l.executable /\ b = "close")
      PROVE  ReadAlike(Consume(s, b, from), LexText(l, b))
  <2> DEFINE c == Consume(s, b, from)
             t == LexText(l, b)
  <2>1. CASE b \in Words
    <3>1. /\ c = [s EXCEPT !.token = Joined(l.token, b)]
          /\ t = [l EXCEPT !.token = Joined(l.token, b)]
      BY <1>2, <2>1 DEF Consume, LexText, ScannerStates
    <3>2. Joined(l.token, b) = "schema" => b = "schema"
      BY DEF Joined
    <3> DEFINE joined == Joined(l.token, b)
    <3> HIDE DEF joined
    <3>3. QED
      BY <1>2, <1>3, <3>1, <3>2 DEF ReadAlike, ScannerStates, LexerStates, Quotes, joined
  <2>2. CASE b \in Quotes
    <3>1. /\ c = [flushed EXCEPT !.state = b, !.return = from]
          /\ t = [ended EXCEPT !.mode = b]
      BY <2>2 DEF Consume, LexText, flushed, ended, Words, Quotes
    <3> HIDE DEF c, t
    <3>2. /\ c.found = flushed.found /\ c.token = "none" /\ c.previous = flushed.previous
          /\ c.state = b /\ c.return = from /\ c.escaped = flushed.escaped
          /\ c.executable = flushed.executable /\ c.marker = flushed.marker
      BY <1>1, <3>1 DEF ScannerStates
    <3>3. /\ t.lifecycle = ended.lifecycle /\ t.token = "none" /\ t.last = ended.last
          /\ t.mode = b /\ t.executable = ended.executable /\ t.escaped = ended.escaped
      BY <1>1, <3>1 DEF LexerStates
    <3>4. b \notin {"text", "line", "opened", "comment", "marked", "versioned"}
      BY <2>2 DEF Quotes
    <3>5. ReadAlike(c, t)
      BY <1>1, <1>2, <2>2, <3>2, <3>3, <3>4 DEF ReadAlike
    <3>6. QED
      BY <3>5 DEF c, t
  <2>3. CASE b = "semicolon"
    <3>1. /\ c = [flushed EXCEPT !.previous = "none"]
          /\ t = [ended EXCEPT !.last = "none"]
      BY <2>3 DEF Consume, LexText, flushed, ended, Words, Quotes
    <3>2. QED
      BY <1>1, <1>2, <3>1 DEF ReadAlike, ScannerStates, LexerStates, Quotes
  <2>4. CASE b \notin Words \cup Quotes \cup {"semicolon"}
    <3>1. /\ c = flushed
          /\ t \in {ended, [ended EXCEPT !.executable = FALSE]}
          /\ l.executable => t = ended
      BY <1>3, <1>4, <2>4 DEF Consume, LexText, flushed, ended, LexerStates, Quotes
    <3> HIDE DEF c, t
    <3>2. /\ t.lifecycle = ended.lifecycle /\ t.token = "none" /\ t.last = ended.last
          /\ t.mode = "text" /\ t.executable = l.executable /\ t.escaped = ended.escaped
      BY <1>1, <1>2, <3>1 DEF LexerStates
    <3>3. ReadAlike(flushed, t)
      BY <1>1, <1>2, <3>2 DEF ReadAlike, Quotes
    <3>4. QED
      BY <3>1, <3>3 DEF c, t
  <2>5. QED
    BY <2>1, <2>2, <2>3, <2>4
<1>5. CASE ~l.executable /\ b \in {"open", "dashes", "hash"}
  <2>1. /\ Feed(s, b) =
             IF b = "open"
             THEN [flushed EXCEPT !.state = "block_comment", !.executable = FALSE, !.marker = TRUE]
             ELSE [flushed EXCEPT !.state = "line_comment"]
        /\ LexText(l, b) = [ended EXCEPT !.mode = IF b = "open" THEN "opened" ELSE "line"]
    BY <1>2, <1>5 DEF Feed, FeedNormal, LexText, flushed, ended, Words, Quotes
  <2>2. QED
    BY <1>1, <1>2, <1>5, <2>1 DEF ReadAlike, ScannerStates, LexerStates, Quotes
<1>6. CASE ~l.executable /\ b \notin {"open", "dashes", "hash"}
  <2>1. Feed(s, b) = Consume(s, b, from)
    BY <1>2, <1>6 DEF Feed, FeedNormal, Quotes
  <2>2. QED
    BY <1>4, <1>6, <2>1
<1>7. CASE l.executable
  <2>1. [s EXCEPT !.marker = FALSE, !.executable = IF s.marker THEN b = "bang" ELSE @] = s
    BY <1>2, <1>7 DEF ScannerStates
  <2>2. Feed(s, b) = FeedBlockComment(s, b)
    BY <1>2, <1>7 DEF Feed, Quotes
  <2>3. CASE b = "close"
    <3>1. /\ Feed(s, b) = [s EXCEPT !.state = "normal", !.executable = FALSE]
          /\ LexText(l, b) = [l EXCEPT !.executable = FALSE]
      BY <1>2, <1>3, <1>7, <2>1, <2>2, <2>3 DEF FeedBlockComment, LexText, EndOfWord, Words, Quotes
    <3>2. QED
      BY <1>2, <1>3, <1>7, <2>3, <3>1 DEF ReadAlike, ScannerStates, LexerStates, Quotes
  <2>4. CASE b # "close"
    <3>1. Feed(s, b) = Consume(s, b, from)
      BY <1>2, <1>7, <2>1, <2>2, <2>4 DEF FeedBlockComment
    <3>2. QED
      BY <1>3, <1>4, <1>7, <2>4, <3>1
  <2>5. QED
    BY <2>3, <2>4
<1>8. QED
  BY <1>5, <1>6, <1>7

(* Behind the mark of an executable comment, where its version may stand:  *)
(* a word for the scanner, and nothing for MySQL.                          *)
LEMMA VersionKeepsAlike ==
  ASSUME NEW s \in ScannerStates, NEW l \in LexerStates, NEW b \in Symbols,
         ReadAlike(s, l), l.mode \in {"marked", "versioned"}, Difference(l, b) = "none"
  PROVE  ReadAlike(Feed(s, b), LexMarked(l, b))
<1> DEFINE k == [l EXCEPT !.mode = "text"]
<1>1. /\ l.executable /\ s.executable /\ ~s.marker /\ s.state = "block_comment" /\ l.token = "none"
      /\ s.found = l.lifecycle /\ ~s.escaped /\ ~l.escaped
      /\ s.previous = l.last \/ (s.previous \notin Verbs /\ l.last \notin Verbs)
      /\ s.token = IF l.mode = "versioned" THEN "version" ELSE "none"
      /\ l.mode = "versioned" => l.last \notin Verbs
  BY DEF ReadAlike, Quotes
<1>2. /\ k \in LexerStates /\ k.mode = "text" /\ k.executable = l.executable /\ k.token = "none"
      /\ k.last = l.last /\ k.lifecycle = l.lifecycle /\ ~k.escaped
  BY <1>1 DEF LexerStates
<1> HIDE DEF k
<1>3. [s EXCEPT !.marker = FALSE, !.executable = IF s.marker THEN b = "bang" ELSE @] = s
  BY <1>1 DEF ScannerStates
<1>4. Feed(s, b) = FeedBlockComment(s, b)
  BY <1>1 DEF Feed, Quotes
<1>5. CASE l.mode = "marked" /\ b = "version"
  <2>1. l.last \notin Verbs
    BY <1>1, <1>5 DEF Difference, Words
  <2>2. Feed(s, b) = [s EXCEPT !.token = "version"] /\ LexMarked(l, b) = [l EXCEPT !.mode = "versioned"]
    BY <1>1, <1>3, <1>4, <1>5 DEF FeedBlockComment, Consume, Joined, LexMarked, Words
  <2>3. QED
    BY <1>1, <2>1, <2>2 DEF ReadAlike, ScannerStates, LexerStates, Quotes
<1>6. CASE l.mode = "marked" /\ b # "version"
  <2>1. b # "later" /\ LexMarked(l, b) = LexText(k, b)
    BY <1>1, <1>6 DEF Difference, LexMarked, k, Words
  <2>2. ReadAlike(s, k)
    BY <1>1, <1>2, <1>6 DEF ReadAlike, ScannerStates, LexerStates, Quotes
  <2>3. Difference(k, b) = "none"
    <3>1. b \notin {"foreign", "open", "dashes", "hash"} /\ ~(l.last \in Verbs /\ b = "schema")
      BY <1>1, <1>6, <2>1 DEF Difference
    <3>2. QED
      BY <1>1, <1>2, <3>1 DEF Difference
  <2>4. QED
    BY <1>2, <2>1, <2>2, <2>3, TextKeepsAlike
<1>7. CASE l.mode = "versioned"
  <2> DEFINE f == FlushToken(s)
  <2>1. /\ b \notin Words /\ b # "close" /\ b \notin {"foreign", "open", "dashes", "hash"}
        /\ LexMarked(l, b) = LexText(k, b)
    BY <1>1, <1>7 DEF Difference, LexMarked, k
  <2>2. /\ f \in ScannerStates /\ f.found = s.found /\ f.token = "none" /\ f.previous = "version"
        /\ f.state = s.state /\ f.return = s.return /\ f.escaped = s.escaped
        /\ f.executable = s.executable /\ f.marker = s.marker
    BY <1>1, <1>7 DEF FlushToken, ScannerStates, Words
  <2>3. FlushToken(f) = f
    BY <2>2 DEF FlushToken
  <2> HIDE DEF f
  <2>4. ReadAlike(f, k)
    BY <1>1, <1>2, <1>7, <2>2 DEF ReadAlike, ScannerStates, LexerStates, Quotes, Verbs
  <2>5. Difference(k, b) = "none"
    <3>1. b # "schema"
      BY <2>1 DEF Words
    <3>2. QED
      BY <1>2, <2>1, <3>1 DEF Difference
  <2>6. Feed(s, b) = Feed(f, b)
    <3>1. [f EXCEPT !.marker = FALSE, !.executable = IF f.marker THEN b = "bang" ELSE @] = f
      BY <1>1, <2>2 DEF ScannerStates
    <3>2. Feed(f, b) = FeedBlockComment(f, b)
      BY <1>1, <2>2 DEF Feed, Quotes
    <3>3. Consume(s, b, "block_comment") = Consume(f, b, "block_comment")
      BY <2>1, <2>3 DEF Consume, f
    <3>4. QED
      BY <1>1, <1>3, <1>4, <2>1, <2>2, <3>1, <3>2, <3>3 DEF FeedBlockComment
  <2>7. QED
    BY <1>2, <2>1, <2>2, <2>4, <2>5, <2>6, TextKeepsAlike
<1>8. QED
  BY <1>5, <1>6, <1>7

(* A symbol that both readers take alike keeps them together.              *)
LEMMA SymbolKeepsAlike ==
  ASSUME NEW s \in ScannerStates, NEW l \in LexerStates, NEW b \in Symbols,
         ReadAlike(s, l), Difference(l, b) = "none"
  PROVE  ReadAlike(Feed(s, b), Lex(l, b))
<1>2. CASE l.mode = "line"
  <2>1. b # "return"
    BY <1>2 DEF Difference
  <2>2. QED
    BY <1>2, <2>1 DEF ReadAlike, Feed, FeedLineComment, Lex, LexComment, ScannerStates, LexerStates, Quotes
<1>3. CASE l.mode \in Quotes
  <2>1. Feed(s, b) = FeedQuoted(s, b) /\ Lex(l, b) = LexQuoted(l, b)
    BY <1>3 DEF ReadAlike, Feed, Lex, Quotes
  <2>2. ~(l.mode = "backtick" /\ b = "backslash")
    BY <1>3 DEF Difference
  <2>3. CASE s.escaped
    BY <1>3, <2>1, <2>3 DEF ReadAlike, FeedQuoted, LexQuoted, ScannerStates, LexerStates, Quotes
  <2>4. CASE ~s.escaped /\ b = "backslash"
    BY <1>3, <2>1, <2>2, <2>4
       DEF ReadAlike, FeedQuoted, LexQuoted, ScannerStates, LexerStates, Quotes
  <2>5. CASE ~s.escaped /\ b # "backslash"
    BY <1>3, <2>1, <2>5 DEF ReadAlike, FeedQuoted, LexQuoted, ScannerStates, LexerStates, Quotes
  <2>6. QED
    BY <2>3, <2>4, <2>5
<1>4. CASE l.mode \in {"opened", "comment"}
  <2>1. /\ Feed(s, b) = FeedBlockComment(s, b) /\ Lex(l, b) = LexComment(l, b)
        /\ s.state = "block_comment" /\ ~l.executable /\ l.token = "none" /\ ~s.escaped
    BY <1>4 DEF ReadAlike, Feed, Lex, Quotes
  <2>2. CASE l.mode = "opened" /\ b # "bang"
    <3>1. b # "close"
      BY <2>2 DEF Difference
    <3>2. QED
      BY <2>1, <2>2, <3>1
         DEF ReadAlike, FeedBlockComment, LexComment, ScannerStates, LexerStates, Quotes
  <2>3. CASE l.mode = "opened" /\ b = "bang"
    <3> DEFINE marked == [s EXCEPT !.marker = FALSE, !.executable = TRUE]
    <3>1. FeedBlockComment(s, b) = FlushToken(marked)
      BY <2>1, <2>3 DEF ReadAlike, FeedBlockComment, Consume, ScannerStates, Words, Quotes
    <3>2. FlushToken(marked) = marked
      BY <2>1, <2>3 DEF ReadAlike, FlushToken, ScannerStates
    <3>3. /\ Feed(s, b) = [s EXCEPT !.marker = FALSE, !.executable = TRUE]
          /\ Lex(l, b) = [l EXCEPT !.mode = "marked", !.executable = TRUE]
      BY <2>1, <2>3, <3>1, <3>2 DEF LexComment
    <3>4. QED
      BY <2>1, <2>3, <3>3 DEF ReadAlike, ScannerStates, LexerStates, Quotes
  <2>4. CASE l.mode = "comment"
    BY <2>1, <2>4 DEF ReadAlike, FeedBlockComment, LexComment, ScannerStates, LexerStates, Quotes
  <2>5. QED
    BY <1>4, <2>2, <2>3, <2>4
<1>5. CASE l.mode = "text"
  BY <1>5, TextKeepsAlike DEF Lex
<1>6. CASE l.mode \in {"marked", "versioned"}
  BY <1>6, VersionKeepsAlike DEF Lex
<1>7. QED
  BY <1>2, <1>3, <1>4, <1>5, <1>6 DEF LexerStates

LEMMA ReadersStart ==
  /\ ScannerStart \in ScannerStates /\ LexerStart \in LexerStates
  /\ ReadAlike(ScannerStart, LexerStart)
  BY DEF ScannerStart, ScannerStates, LexerStart, LexerStates, ReadAlike, Quotes

LEMMA SymbolScanned ==
  ASSUME ScanInvariant, NEW b \in Symbols, ScanSymbol(b)
  PROVE  ScanInvariant'
<1>1. scanner' \in ScannerStates /\ lexer' \in LexerStates
  BY FeedTyped, LexTyped, ReadersStart DEF ScanInvariant, ScanTypeOK, ScanSymbol
<1>2. alike' \in BOOLEAN /\ (alike' => ReadAlike(scanner', lexer'))
  BY SymbolKeepsAlike DEF ScanInvariant, ScanTypeOK, ScanSymbol
<1>3. QED
  BY <1>1, <1>2 DEF ScanInvariant, ScanTypeOK

LEMMA ScanFinished ==
  ASSUME ScanInvariant, FinishScan
  PROVE  ScanInvariant'
<1>1. FlushToken(scanner).found \in BOOLEAN /\ EndOfWord(lexer).lifecycle \in BOOLEAN
  BY DEF FlushToken, EndOfWord, ScanInvariant, ScanTypeOK, ScannerStates, LexerStates
<1>2. alike => FlushToken(scanner).found = EndOfWord(lexer).lifecycle
  BY WordsEndAlike DEF ScanInvariant, ScanTypeOK
<1>3. scanner' \in ScannerStates /\ lexer' \in LexerStates
  BY <1>1, ReadersStart DEF FinishScan, ScannerStates, LexerStates
<1>4. alike' => ReadAlike(scanner', lexer')
  BY <1>2 DEF FinishScan, ReadAlike, ScannerStart, LexerStart, Quotes
<1>5. QED
  BY <1>3, <1>4 DEF ScanInvariant, ScanTypeOK, FinishScan

-----------------------------------------------------------------------------
(* The streaming threads.                                                  *)

LEMMA StreamInit == Stream!Init => Stream!StreamInvariant
<1> SUFFICES ASSUME Stream!Init PROVE Stream!StreamInvariant
  OBVIOUS
<1> USE DEF Stream!Init
<1>1. Stream!TypeOK
  <2>1. 0 \in 0 .. Chunks /\ 0 \in 0 .. Capacity /\ 0 \in 0 .. MaxOutput
    BY SizesAssumption
  <2>2. QED
    BY <2>1 DEF Stream!TypeOK
<1>2. QED
  BY <1>1 DEF Stream!StreamInvariant, Stream!Ended

LEMMA MainKeepsStream ==
  ASSUME Stream!StreamInvariant, Stream!MainThread
  PROVE  Stream!StreamInvariant'
<1> USE DEF Stream!StreamInvariant, Stream!TypeOK, Stream!Ended
<1>1. CASE Stream!Start
  BY <1>1 DEF Stream!Start
<1>2. CASE Stream!CannotStart
  BY <1>2 DEF Stream!CannotStart, Stream!process
<1>3. CASE Stream!Wait
  BY <1>3 DEF Stream!Wait, Stream!process
<1>4. CASE Stream!Return
  BY <1>4 DEF Stream!Return, Stream!process
<1>5. QED
  BY <1>1, <1>2, <1>3, <1>4 DEF Stream!MainThread

LEMMA FeederKeepsStream ==
  ASSUME Stream!StreamInvariant, Stream!FeederThread
  PROVE  Stream!StreamInvariant'
<1> USE SizesAssumption DEF Stream!StreamInvariant, Stream!TypeOK, Stream!Ended
<1>1. CASE Stream!ReadInput
  BY <1>1 DEF Stream!ReadInput, Stream!process
<1>2. CASE Stream!InputFails
  BY <1>2 DEF Stream!InputFails, Stream!process
<1>3. CASE Stream!WriteChunk
  BY <1>3 DEF Stream!WriteChunk, Stream!process
<1>4. CASE Stream!PipeBroken
  BY <1>4 DEF Stream!PipeBroken, Stream!process
<1>5. CASE Stream!CloseInput
  BY <1>5 DEF Stream!CloseInput, Stream!process
<1>6. QED
  BY <1>1, <1>2, <1>3, <1>4, <1>5 DEF Stream!FeederThread

LEMMA ReaderKeepsStream ==
  ASSUME Stream!StreamInvariant, NEW s \in Stream!Streams, Stream!Reader(s)
  PROVE  Stream!StreamInvariant'
<1> USE SizesAssumption DEF Stream!StreamInvariant, Stream!TypeOK, Stream!Ended
<1>1. CASE Stream!Collect(s)
  BY <1>1 DEF Stream!Collect, Stream!process, Stream!threads
<1>2. CASE Stream!EndOfStream(s)
  BY <1>2 DEF Stream!EndOfStream, Stream!process
<1>3. QED
  BY <1>1, <1>2 DEF Stream!Reader

LEMMA ClientKeepsStream ==
  ASSUME Stream!StreamInvariant, Stream!ClientStep \/ Stream!Quit
  PROVE  Stream!StreamInvariant'
<1> USE SizesAssumption DEF Stream!StreamInvariant, Stream!TypeOK, Stream!Ended
<1>1. CASE Stream!Consume
  BY <1>1 DEF Stream!Consume, Stream!threads
<1>2. CASE Stream!Answer
  BY <1>2 DEF Stream!Answer, Stream!threads
<1>3. CASE Stream!Complete \/ Stream!Quit
  BY <1>3 DEF Stream!Complete, Stream!Quit, Stream!threads
<1>4. QED
  BY <1>1, <1>2, <1>3 DEF Stream!ClientStep

LEMMA StreamNext ==
  ASSUME Stream!StreamInvariant, Stream!Next \/ UNCHANGED streamVars
  PROVE  Stream!StreamInvariant'
<1>1. CASE Stream!Next
  BY <1>1, MainKeepsStream, FeederKeepsStream, ReaderKeepsStream, ClientKeepsStream DEF Stream!Next
<1>2. CASE UNCHANGED streamVars
  BY <1>2 DEF streamVars, Stream!StreamInvariant, Stream!TypeOK, Stream!Ended
<1>3. QED
  BY <1>1, <1>2

-----------------------------------------------------------------------------
(* The restore, action by action.                                          *)

LEMMA InitInvariant == Init => RestoreInvariant
<1> SUFFICES ASSUME Init PROVE RestoreInvariant
  OBVIOUS
<1>1. Stream!StreamInvariant
  BY StreamInit DEF Init
<1>2. ScanInvariant
  BY ReadersStart DEF Init, ScanInit, ScanInvariant, ScanTypeOK
<1>3. TypeOK
  <2>1. 0 \in 0 .. MaxEdition /\ Stream!TypeOK
    BY <1>1, EditionAssumption DEF Stream!StreamInvariant
  <2>2. fed \in [file : {"none", "input"} \cup Temporaries, edition : 0 .. MaxEdition]
    BY <2>1 DEF Init
  <2>3. line \in Shapes
    BY DEF Init, Shapes
  <2>4. QED
    BY <1>2, <2>1, <2>2, <2>3 DEF Init, TypeOK, ScanInvariant
<1>4. ~scanner.found
  BY DEF Init, ScanInit, ScannerStart
<1>5. QED
  BY <1>1, <1>2, <1>3, <1>4 DEF Init, RestoreInvariant, GzipErrorsComeFirst, Stream!Init

(* The steps of the restore that leave the streaming threads alone keep    *)
(* what is known of those, and those that read nothing what is known of    *)
(* the readers.                                                            *)
LEMMA StreamKept ==
  ASSUME RestoreInvariant, UNCHANGED streamVars
  PROVE  Stream!StreamInvariant' /\ Stream!TypeOK'
<1>1. Stream!StreamInvariant'
  BY StreamNext DEF RestoreInvariant
<1>2. QED
  BY <1>1 DEF Stream!StreamInvariant

LEMMA ReadersKept ==
  ASSUME RestoreInvariant, UNCHANGED scan
  PROVE  ScanInvariant' /\ ScanTypeOK' /\ scanner' = scanner
  BY DEF RestoreInvariant, ScanInvariant, ScanTypeOK, scan

LEMMA PrepareInvariant ==
  ASSUME RestoreInvariant, Refuse \/ Unpack \/ OpenText
  PROVE  RestoreInvariant'
<1>1. Stream!StreamInvariant' /\ Stream!TypeOK'
  BY StreamKept DEF Refuse, Unpack, OpenText
<1>2. ScanInvariant' /\ ScanTypeOK' /\ scanner' = scanner
  BY ReadersKept DEF Refuse, Unpack, OpenText, work, text
<1> USE DEF RestoreInvariant, TypeOK, GzipErrorsComeFirst, Temporaries, work, text, streamVars,
            End, Rebased
<1>3. CASE Refuse
  BY <1>1, <1>2, <1>3 DEF Refuse
<1>4. CASE Unpack
  BY <1>1, <1>2, <1>4 DEF Unpack
<1>5. CASE OpenText
  BY <1>1, <1>2, <1>5 DEF OpenText, EndByOSError
<1>6. QED
  BY <1>3, <1>4, <1>5

LEMMA MatchedTyped ==
  ASSUME NEW shape \in Shapes, NEW b
  PROVE  Matched(shape, b) \in Shapes
  BY DEF Matched, Shapes

(* The end of a line.                                                      *)
LEMMA EndLineInvariant ==
  ASSUME RestoreInvariant, EndLine
  PROVE  RestoreInvariant'
<1>1. Stream!StreamInvariant' /\ Stream!TypeOK'
  BY StreamKept DEF EndLine
<1>2. ScanInvariant' /\ ScanTypeOK'
  <2>1. "newline" \in Symbols
    BY DEF Symbols
  <2>2. QED
    BY <2>1, SymbolScanned DEF EndLine, RestoreInvariant, ScanInvariant
<1>3. replaced' \in BOOLEAN /\ line' \in Shapes
  BY DEF EndLine, ReplaceLine, Shapes, RestoreInvariant, TypeOK
<1>4. /\ stage = "scan" /\ CheckLine
      /\ UNCHANGED <<gzip, via, edition, checked, fed, streamVars>>
  BY DEF EndLine
<1> USE DEF RestoreInvariant, TypeOK, GzipErrorsComeFirst, Temporaries, streamVars, End, Rebased
<1>5. CASE Reject
  BY <1>1, <1>2, <1>3, <1>4, <1>5 DEF Reject, Remove
<1>6. CASE ~scanner'.found /\ UNCHANGED <<stage, outcome, files, kept>>
  BY <1>1, <1>2, <1>3, <1>4, <1>6
<1>7. QED
  BY <1>4, <1>5, <1>6 DEF CheckLine

LEMMA ScanStepInvariant ==
  ASSUME RestoreInvariant, Scan
  PROVE  RestoreInvariant'
<1>1. ASSUME NEW b \in Alphabet, Read(b) PROVE RestoreInvariant'
  <2>1. ScanInvariant' /\ ScanTypeOK'
    BY <1>1, AlphabetAssumption, SymbolScanned DEF Read, RestoreInvariant, ScanInvariant
  <2>2. Stream!StreamInvariant' /\ Stream!TypeOK'
    BY <1>1, StreamKept DEF Read
  <2>3. line' \in Shapes
    BY <1>1, MatchedTyped DEF Read, RestoreInvariant, TypeOK
  <2>4. QED
    BY <1>1, <2>1, <2>2, <2>3
       DEF RestoreInvariant, TypeOK, GzipErrorsComeFirst, Temporaries, streamVars, Rebased, Read
<1>2. CASE ScanFails
  <2>1. Stream!StreamInvariant' /\ Stream!TypeOK'
    BY <1>2, StreamKept DEF ScanFails
  <2>2. ScanInvariant' /\ ScanTypeOK' /\ scanner' = scanner
    BY <1>2, ReadersKept DEF ScanFails, text
  <2>3. QED
    BY <1>2, <2>1, <2>2
       DEF RestoreInvariant, TypeOK, GzipErrorsComeFirst, Temporaries, text, streamVars, Rebased,
           ScanFails, Remove, End
<1>3. QED
  BY <1>1, <1>2, EndLineInvariant DEF Scan

LEMMA EndOfTextInvariant ==
  ASSUME RestoreInvariant, EndOfText
  PROVE  RestoreInvariant'
<1>1. Stream!StreamInvariant' /\ Stream!TypeOK'
  BY StreamKept DEF EndOfText
<1>2. ScanInvariant' /\ ScanTypeOK'
  BY ScanFinished DEF EndOfText, RestoreInvariant, ScanInvariant
<1>3. replaced' \in BOOLEAN /\ line' \in Shapes
  BY DEF EndOfText, ReplaceLine, Shapes, RestoreInvariant, TypeOK
<1>4. /\ stage = "scan"
      /\ UNCHANGED <<gzip, via, edition, checked, fed, streamVars>>
  BY DEF EndOfText
<1> USE DEF RestoreInvariant, TypeOK, GzipErrorsComeFirst, Temporaries, streamVars, End, Rebased
<1>5. CASE Reject
  BY <1>1, <1>2, <1>3, <1>4, <1>5 DEF Reject, Remove
<1>6. CASE ~scanner'.found /\ replaced' /\ stage' = "verify" /\ UNCHANGED <<outcome, files, kept>>
  BY <1>1, <1>2, <1>3, <1>4, <1>6
<1>7. CASE ~scanner'.found /\ ~replaced' /\ DropRebased
  BY <1>1, <1>2, <1>3, <1>4, <1>7 DEF DropRebased, EndByOSError
<1>8. QED
  BY <1>5, <1>6, <1>7 DEF EndOfText

LEMMA ClientsInvariant ==
  ASSUME RestoreInvariant, ChooseClient \/ VerifyTarget \/ FinishStream
  PROVE  RestoreInvariant'
<1>1. Stream!StreamInvariant' /\ Stream!TypeOK'
  BY StreamKept DEF ChooseClient, VerifyTarget, FinishStream
<1> ScanInvariant' /\ ScanTypeOK' /\ scanner' = scanner
  BY ReadersKept DEF ChooseClient, VerifyTarget, FinishStream, work, text
<1> USE DEF RestoreInvariant, TypeOK, GzipErrorsComeFirst, Temporaries, work, text, streamVars,
            End, Rebased
<1>2. CASE ChooseClient
  BY <1>1, <1>2 DEF ChooseClient
<1>3. CASE VerifyTarget
  BY <1>1, <1>3 DEF VerifyTarget
<1>4. CASE FinishStream
  <2>1. /\ stage' = "cleanup" /\ outcome' \in {"restored", "failed"}
        /\ outcome' = "restored" => main = "succeeded"
        /\ UNCHANGED <<gzip, via, scan, line, replaced, edition, checked, fed, streamVars>>
    BY <1>4 DEF FinishStream
  <2>2. /\ files' \subseteq Temporaries /\ kept' \subseteq Temporaries /\ kept \subseteq kept'
        /\ files' \ kept' = (files \ kept) \ {"container"}
    BY <1>4 DEF FinishStream, Remove
  <2>3. TypeOK'
    BY <1>1, <2>1, <2>2
  <2>4. QED
    BY <1>1, <1>4, <2>1, <2>2, <2>3 DEF FinishStream
<1>5. QED
  BY <1>2, <1>3, <1>4

LEMMA StreamingInvariant ==
  ASSUME RestoreInvariant, Streaming(Stream!Next)
  PROVE  RestoreInvariant'
<1>1. Stream!StreamInvariant' /\ Stream!TypeOK'
  <2>1. Stream!StreamInvariant'
    BY StreamNext DEF RestoreInvariant, Streaming
  <2>2. QED
    BY <2>1 DEF Stream!StreamInvariant
<1>2. /\ RestoreInput.file \in {"rebased", "extracted", "input"} /\ RestoreInput.edition \in 0 .. MaxEdition
      /\ (replaced => RestoreInput.file = "rebased")
      /\ RestoreInput.edition = checked \/ (RestoreInput.file = "input" /\ gzip = "no" /\ ~replaced)
  BY DEF RestoreInput, RestoreInvariant, TypeOK, Temporaries
<1>3. stage = "restore" /\ outcome = "none" /\ ~scanner.found
      /\ UNCHANGED <<stage, outcome, gzip, via, kept, text, edition, checked>>
  BY DEF Streaming, RestoreInvariant
<1> ScanInvariant' /\ ScanTypeOK' /\ scanner' = scanner
  BY <1>3, ReadersKept DEF text
<1> USE DEF RestoreInvariant, TypeOK, GzipErrorsComeFirst, Temporaries, text, Rebased
<1>4. CASE client = "none" /\ client' # "none"
  <2>1. fed' = RestoreInput
        /\ files' = IF via = "image" THEN files \cup {"container"} ELSE files
    BY <1>4 DEF Streaming
  <2>2. files' \subseteq Temporaries /\ files' \ {"container"} = files \ {"container"}
    BY <2>1
  <2>3. TypeOK'
    <3> HIDE DEF RestoreInvariant, GzipErrorsComeFirst, Rebased, text
    <3>1. TypeOK
      BY DEF RestoreInvariant
    <3>2. fed' \in [file : {"none", "input"} \cup Temporaries, edition : 0 .. MaxEdition]
      <4> DEFINE Texts == [file : {"none", "input"} \cup Temporaries, edition : 0 .. MaxEdition]
      <4>1. RestoreInput \in Texts
        BY <3>1 DEF RestoreInput
      <4> HIDE DEF Texts
      <4>2. fed' \in Texts
        BY <2>1, <4>1, Zenon
      <4>3. QED
        BY <4>2 DEF Texts
    <3>3. UNCHANGED <<scan, line, replaced>>
      BY <1>3 DEF text
    <3> HIDE DEF Temporaries
    <3>4. /\ stage' \in {"prepare", "preflight", "scan", "verify", "restore", "cleanup", "done"}
          /\ outcome' \in {"none", "refused", "bad_gzip", "unreadable", "rejected", "no_client",
                           "no_target", "failed", "restored"}
          /\ gzip' \in {"no", "good", "broken"} /\ via' \in {"unknown", "container", "local", "image"}
          /\ kept' \subseteq Temporaries /\ edition' \in 0 .. MaxEdition /\ checked' \in 0 .. MaxEdition
      BY <1>3, <3>1
    <3>5. /\ ScanTypeOK' /\ line' \in Shapes
          /\ replaced' \in BOOLEAN
      BY <3>1, <3>3 DEF Shapes
    <3>6. Temporaries' = Temporaries
      BY DEF Temporaries
    <3>7. QED
      BY <1>1, <2>2, <3>2, <3>4, <3>5, <3>6
  <2>4. /\ replaced' => fed'.file = "rebased"
        /\ fed'.edition = checked' \/ (fed'.file = "input" /\ gzip' = "no" /\ ~replaced')
    BY <1>2, <1>3, <2>1
  <2>5. files' \ kept' \subseteq (files \ kept) \cup {"container"}
    BY <1>3, <2>2
  <2> HIDE DEF TypeOK, Temporaries
  <2>6. QED
    BY <1>1, <1>3, <2>3, <2>4, <2>5
<1>5. CASE ~(client = "none" /\ client' # "none")
  <2>1. UNCHANGED <<fed, files>>
    BY <1>5 DEF Streaming
  <2>2. QED
    BY <1>1, <1>3, <1>5, <2>1
<1>6. QED
  BY <1>4, <1>5

LEMMA CleanUpInvariant ==
  ASSUME RestoreInvariant, CleanUp \/ ReplaceInput \/ UNCHANGED vars
  PROVE  RestoreInvariant'
<1>1. Stream!StreamInvariant' /\ Stream!TypeOK'
  BY StreamKept DEF CleanUp, ReplaceInput, vars
<1> ScanInvariant' /\ ScanTypeOK' /\ scanner' = scanner
  BY ReadersKept DEF CleanUp, ReplaceInput, vars, work, text
<1> USE DEF RestoreInvariant, TypeOK, GzipErrorsComeFirst, Temporaries, work, text, streamVars,
            Rebased
<1>2. CASE CleanUp
  <2>1. /\ stage = "cleanup" /\ stage' \in {"cleanup", "done"}
        /\ UNCHANGED <<outcome, gzip, via, scan, line, replaced, edition, checked, fed,
                       streamVars>>
    BY <1>2 DEF CleanUp
  <2>2. /\ files' \subseteq files /\ kept \subseteq kept' /\ kept' \subseteq kept \cup files
        /\ files' \ kept' \subseteq files \ kept
    BY <1>2 DEF CleanUp, Remove
  <2>3. stage' = "done" => files' = files /\ kept' = kept /\ "extracted" \notin files \ kept
                          /\ ~(Rebased /\ "rebased" \in files \ kept)
    BY <1>2 DEF CleanUp
  <2>4. TypeOK'
    BY <1>1, <2>1, <2>2
  <2>5. QED
    BY <1>1, <2>1, <2>2, <2>3, <2>4
<1>3. CASE ReplaceInput
  BY <1>1, <1>3, EditionAssumption DEF ReplaceInput
<1>4. CASE UNCHANGED vars
  BY <1>1, <1>4 DEF vars
<1>5. QED
  BY <1>2, <1>3, <1>4

LEMMA NextInvariant == RestoreInvariant /\ [Next]_vars => RestoreInvariant'
  BY PrepareInvariant, ScanStepInvariant, EndOfTextInvariant, ClientsInvariant, StreamingInvariant,
     CleanUpInvariant DEF Next, RestoreStep

(* What restore_database knows at each of its stages of the text, of its   *)
(* client and of the temporaries: inductive, for pipes of any size.        *)
THEOREM RestoreInvariantHolds == Spec => []RestoreInvariant
  BY InitInvariant, NextInvariant, PTL DEF Spec

(* In a text of any length, up to its first place of Difference,           *)
(* SqlLifecycleScanner has found CREATE or DROP DATABASE just if MySQL is  *)
(* going to run it.                                                        *)
THEOREM ScannerFindsLifecycle == Spec => []LifecycleStatementsAreFound
<1>1. RestoreInvariant => LifecycleStatementsAreFound
  BY DEF RestoreInvariant, ScanInvariant, ReadAlike, LifecycleStatementsAreFound
<1>2. QED
  BY <1>1, RestoreInvariantHolds, PTL

(* However a restore ends, what it unpacked, rewrote or started for itself *)
(* is gone, or could not be removed.                                       *)
THEOREM NothingIsLeft == Spec => []NoTemporariesLeft
<1>1. RestoreInvariant => NoTemporariesLeft
  BY DEF RestoreInvariant, NoTemporariesLeft
<1>2. QED
  BY <1>1, RestoreInvariantHolds, PTL

(* A success that is reported is one, no output of the client is lost, and *)
(* where gzip is blamed nothing was run: _run_with_streamed_input and      *)
(* restore_database, whatever the client and the input do.                 *)
THEOREM ReportTrue == Spec => []ReportIsTrue
<1>1. ASSUME RestoreInvariant PROVE ReportIsTrue
  <2>1. SuccessMeansRestored
    BY <1>1 DEF RestoreInvariant, SuccessMeansRestored, Stream!SuccessMeansAllFed,
                Stream!StreamInvariant
  <2>2. OutputIsComplete
    BY <1>1 DEF RestoreInvariant, OutputIsComplete, Stream!OutputIsComplete, Stream!StreamInvariant,
                Stream!TypeOK
  <2>3. QED
    BY <1>1, <2>1, <2>2 DEF RestoreInvariant, ReportIsTrue
<1>2. QED
  BY <1>1, RestoreInvariantHolds, PTL

(* No client is ever given a text that the scan did not see to its end, in *)
(* which it or, up to the first Difference, MySQL finds a lifecycle        *)
(* statement, what is left of a broken gzip file, or another text than the *)
(* rewritten one where a line was rewritten; and what is given is the      *)
(* edition that was scanned, a plain file without a USE line excepted.     *)
THEOREM OnlyCheckedTextIsRun == Spec => []ServerGetsCheckedText
<1>1. RestoreInvariant => ServerGetsCheckedText
  BY DEF RestoreInvariant, ScanInvariant, ReadAlike, ServerGetsCheckedText
<1>2. QED
  BY <1>1, RestoreInvariantHolds, PTL
=============================================================================
