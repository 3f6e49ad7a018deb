------------------------------- MODULE Intake -------------------------------
(***************************************************************************)
(* How code comes in: pasted, or from a GitHub link, whose branch is first *)
(* resolved to a commit and whose file is then streamed in chunks and cut  *)
(* off at a limit, while others push to the branch.  What came in is       *)
(* checked for its length, and its comments are stripped for the key it is *)
(* cached under.  What follows is Docket.                                  *)
(*                                                                         *)
(* A file is a sequence of characters, of which only those the limits and  *)
(* the comments look at are told apart.                                    *)
(***************************************************************************)
EXTENDS Naturals, Sequences, FiniteSets, FiniteSetsExt

CONSTANTS
  Files,               \* what may be pasted, or be at the link
  NewFile,             \* what the next push puts there
  MAX_LINES, MAX_CHARS,
  STREAM_CHUNK_BYTES,
  NoCode, NoCommit

\* Characters: any of one byte, one of three bytes, the ends of lines, and
\* what comments and strings are made of.
Chars == {"a", "wide", "LF", "CR", "'", "\"", "backquote", "\\", "#", "/", "*"}
Quotes == {"'", "\"", "backquote"}
Width(ch) == IF ch = "wide" THEN 3 ELSE 1

ASSUME FilesAssumption == Files \subseteq Seq(Chars) /\ NewFile \in Seq(Chars)

ASSUME LimitsAssumption ==
  /\ MAX_LINES \in Nat
  /\ MAX_CHARS \in Nat
  /\ STREAM_CHUNK_BYTES \in Nat \ {0}

ASSUME NamesAssumption == NoCode \notin Seq(Chars) /\ NoCommit \notin {1, 2}

VARIABLES
  origin,         \* "paste" or "link"
  language,
  contents,       \* the file at each commit of the branch
  head,           \* the commit the branch is at
  commit,         \* commit_sha
  received,       \* the bytes in the buffer
  code,           \* what was pasted or fetched
  step, reply

vars == <<origin, language, contents, head, commit, received, code, step, reply>>

Commits == {1, 2}
Languages == {"python", "javascript", "other"}
Replies == {"none", "accepted", "EMPTY_CODE", "CODE_TOO_LONG",
            "REPO_FILE_UNAVAILABLE", "GITHUB_UNAVAILABLE", "error"}

TypeOK ==
  /\ origin \in {"paste", "link"}
  /\ language \in Languages
  /\ contents \in [Commits -> Files \union {NewFile}]
  /\ head \in Commits
  /\ commit \in Commits \union {NoCommit}
  /\ received \in Nat
  /\ code \in Files \union {NewFile, NoCode}
  /\ step \in {"resolve", "stream", "submit", "answered"}
  /\ reply \in Replies
  /\ step = "answered" <=> reply # "none"

Init ==
  /\ \E f \in Files :
       /\ contents = [k \in Commits |-> IF k = 1 THEN f ELSE NewFile]
       /\ \/ origin = "paste" /\ code = f /\ step = "submit"
          \/ origin = "link" /\ code = NoCode /\ step = "resolve"
  /\ language \in Languages
  /\ head = 1
  /\ commit = NoCommit
  /\ received = 0
  /\ reply = "none"
-----------------------------------------------------------------------------
(* Lengths.                                                                *)

Newlines(f, k) == Cardinality({i \in 1 .. k : f[i] = "LF"})

\* CR LF is one end of a line, and so is a CR on its own.
Normalized(f) ==
  LET upTo[i \in 0 .. Len(f)] ==
        IF i = 0 THEN <<>>
        ELSE IF f[i] = "CR" THEN Append(upTo[i - 1], "LF")
        ELSE IF f[i] = "LF" /\ i > 1 /\ f[i - 1] = "CR" THEN upTo[i - 1]
        ELSE Append(upTo[i - 1], f[i])
  IN upTo
normalize_newlines(f) == Normalized(f)[Len(f)]

total_lines(f) == LET g == normalize_newlines(f) IN 1 + Newlines(g, Len(g))

\* The bytes of the first k characters.
BytesUpTo(f, k) == k + (Width("wide") - 1) * Cardinality({i \in 1 .. k : f[i] = "wide"})
Bytes(f) == BytesUpTo(f, Len(f))

Blank(f) == \A i \in DOMAIN f : f[i] \in {"LF", "CR"}

\* _validate_submission
Checked(f) ==
  IF Blank(f) THEN "EMPTY_CODE"
  ELSE IF total_lines(f) > MAX_LINES \/ Len(f) > MAX_CHARS THEN "CODE_TOO_LONG"
  ELSE "accepted"
-----------------------------------------------------------------------------
(* Comments.                                                               *)

QuotesOf(lang) == IF lang = "python" THEN Quotes \ {"backquote"} ELSE Quotes

Pair(f, i, x, y) == i < Len(f) /\ f[i] = x /\ f[i + 1] = y

\* Whether a comment begins with character i, and the character after it.
LineBegins(f, i, lang) == IF lang = "python" THEN f[i] = "#" ELSE Pair(f, i, "/", "/")
LineEnd(f, i) == Min({j \in i .. Len(f) + 1 : j = Len(f) + 1 \/ f[j] = "LF"})
BlockBegins(f, i, lang) == lang # "python" /\ Pair(f, i, "/", "*")
BlockEnd(f, i) == 2 + Min({j \in i + 2 .. Len(f) + 1 : j >= Len(f) \/ Pair(f, j, "*", "/")})

\* The string one is in after ch, with none or the one that q opened before.
Turn(ch, q, quotes) ==
  IF q = "none" /\ ch \in quotes THEN ch ELSE IF ch = q THEN "none" ELSE q

\* What is kept of f from character i on, in the string that q opened, in a
\* language with these quotes.
Kept(f, quotes, lang) ==
  LET kept[i \in 1 .. Len(f) + 3] ==
        [q \in Quotes \union {"none"} |->
           IF i > Len(f) THEN <<>>
           ELSE IF q # "none" /\ f[i] = "\\" /\ i < Len(f)
             THEN <<f[i], f[i + 1]>> \o kept[i + 2][q]
           ELSE IF q = "none" /\ LineBegins(f, i, lang) THEN kept[LineEnd(f, i)]["none"]
           ELSE IF q = "none" /\ BlockBegins(f, i, lang) THEN kept[BlockEnd(f, i)]["none"]
           ELSE <<f[i]>> \o kept[i + 1][Turn(f[i], q, quotes)]]
  IN kept

\* _strip_comments_with_quotes
Stripped(f, quotes, lang) == Kept(f, quotes, lang)[1]["none"]

\* Mutant: a comment may begin in a string.
strip_in_strings(f, lang) ==
  IF lang = "other" THEN f ELSE Stripped(f, {}, lang)

strip_comments(f, lang) ==
  IF lang = "other" THEN f ELSE Stripped(f, QuotesOf(lang), lang)
-----------------------------------------------------------------------------
(* GitHub, which is external, and the submission.                          *)

\* Somebody pushes to the branch.
Push ==
  /\ head = 1
  /\ head' = 2
  /\ UNCHANGED <<origin, language, contents, commit, received, code, step, reply>>

Answer(what) == step' = "answered" /\ reply' = what

\* _resolve_commit_sha
Resolve ==
  /\ step = "resolve"
  /\ commit' = head
  /\ step' = "stream"
  /\ UNCHANGED <<origin, language, contents, head, received, code, reply>>

\* Mutant: the file of the branch is fetched.
FileOfBranch == contents[head]

\* The file at raw.githubusercontent.com/.../{commit_sha}/...
FileAtCommit == contents[commit]

\* Mutant: the last line of the limit is one too many.
BeyondEarly(f, n) ==
  \/ n > MAX_CHARS
  \/ \E k \in DOMAIN f : BytesUpTo(f, k) <= n /\ Newlines(f, k) + 1 >= MAX_LINES

\* len(buffer) > MAX_CHARS or newline_count > MAX_LINES, after n bytes.
Beyond(f, n) ==
  \/ n > MAX_CHARS
  \/ \E k \in DOMAIN f : BytesUpTo(f, k) <= n /\ Newlines(f, k) > MAX_LINES

\* A chunk arrives: all are full but the last one.
Receive ==
  /\ step = "stream" /\ received < Bytes(FileAtCommit)
  /\ received' = Min({received + STREAM_CHUNK_BYTES, Bytes(FileAtCommit)})
  /\ IF Beyond(FileAtCommit, received') THEN Answer("CODE_TOO_LONG")
                                        ELSE UNCHANGED <<step, reply>>
  /\ UNCHANGED <<origin, language, contents, head, commit, code>>

\* The stream ends, and the buffer is decoded.
Decode ==
  /\ step = "stream" /\ received = Bytes(FileAtCommit)
  /\ code' = FileAtCommit
  /\ step' = "submit"
  /\ UNCHANGED <<origin, language, contents, head, commit, received, reply>>

\* 404, any other status, an error or a timeout of the connection; or the
\* commit is answered with something that is no JSON, which nobody catches.
Fail ==
  /\ step \in {"resolve", "stream"}
  /\ \/ received = 0 /\ Answer("REPO_FILE_UNAVAILABLE")
     \/ Answer("GITHUB_UNAVAILABLE")
     \/ step = "resolve" /\ Answer("error")
  /\ UNCHANGED <<origin, language, contents, head, commit, received, code>>

\* _submit_common up to its first statement.
Submit ==
  /\ step = "submit"
  /\ Answer(Checked(code))
  /\ UNCHANGED <<origin, language, contents, head, commit, received, code>>

Next == Push \/ Resolve \/ Receive \/ Decode \/ Fail \/ Submit

Spec == Init /\ [][Next]_vars
-----------------------------------------------------------------------------
(* Properties.                                                             *)

\* The code that is tried is that of the commit that is kept with it, whatever
\* was pushed to the branch meanwhile.
CodeIsOfCommit ==
  origin = "link" /\ step = "submit" => commit # NoCommit /\ code = contents[commit]

\* A link whose file is fetched is answered like the same code when pasted,
\* but for the bytes of wide characters, which the stream counts one by one,
\* and for blank files, which it finds too long before they are found empty.
LinkLikePaste ==
  origin = "link" /\ reply \in {"accepted", "EMPTY_CODE", "CODE_TOO_LONG"} =>
    LET f == contents[commit] IN
      \/ reply = Checked(f)
      \/ reply = "CODE_TOO_LONG" /\ (Blank(f) \/ (Len(f) <= MAX_CHARS /\ Bytes(f) > MAX_CHARS))

Line == IF language = "python" THEN <<"#">> ELSE <<"/", "/">>

\* What follows u is neither in a string nor in a comment.
Open(u) ==
  LET strip(f) == strip_comments(f, language) IN
    /\ strip(u \o <<"a">>) = strip(u) \o <<"a">>
    /\ strip(u \o Line) = strip(u)

\* The key of an accepted code does not change with a comment that is added,
\* even one with a quote in it, and a string is kept, even one that looks
\* like a comment.
CommentsChangeNothing ==
  reply = "accepted" /\ language # "other" =>
    LET u == normalize_newlines(code)
        strip(f) == strip_comments(f, language)
        quoted(q) == <<q>> \o Line \o <<q>>
    IN Open(u) => \A q \in QuotesOf(language) :
         /\ strip(u \o Line \o <<q, "LF", "a">>) = strip(u) \o <<"LF", "a">>
         /\ language = "javascript" =>
              strip(u \o <<"/", "*", q, "*", "/", "a">>) = strip(u) \o <<"a">>
         /\ strip(u \o quoted(q) \o <<"a">>) = strip(u) \o quoted(q) \o <<"a">>
=============================================================================
