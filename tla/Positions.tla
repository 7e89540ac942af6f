----------------------------- MODULE Positions -----------------------------
(***************************************************************************)
(* Lines and offsets: src/common.c, src/lsp.c, and their use in src/ls.c   *)
(* and src/analyze.c.                                                      *)
(*                                                                         *)
(* A content is a sequence of bytes, counted from 0, of which the code     *)
(* tells apart the two line terminators, blanks, and the parts of a UTF-8  *)
(* sequence: a lead byte of two or of four bytes and continuation bytes,   *)
(* in any order, for a file on disk may hold anything.                     *)
(***************************************************************************)
EXTENDS Integers, Sequences, FiniteSets

CONSTANTS Files, Bytes, NotRead,
          Wrap,      \* the number of values of size_t
          MaxLen,    \* the most bytes that the files hold together
          MaxRead    \* the same, for as long as analyses read them

ASSUME PositionsAssumption ==
    /\ IsFiniteSet(Files)
    /\ Bytes \subseteq {"x", "blank", "CR", "LF", "L2", "L4", "C"}
    /\ MaxLen \in Nat
    /\ MaxRead \in 0 .. MaxLen
    /\ Wrap \in Nat
    /\ Wrap > 2 * MaxLen + 2

VARIABLES
    content,   \* what a file holds now
    files,     \* analyzer->files: the content read, first_line_index, num_lines
    lines      \* analyzer->lines, shared by the files

vars == <<content, files, lines>>

-----------------------------------------------------------------------------
(***************************************************************************)
(* buxn_ls_split_file                                                      *)
(***************************************************************************)
ByteAt(t, i) == t[i + 1]

\* A line: where its bytes begin and how many they are, a size_t.
Push(acc, i, skip) ==
    [start |-> i + skip,
     lines |-> Append(acc.lines, [at |-> acc.start, len |-> (i - acc.start) % Wrap])]

IsCrLf(t, i) ==
    i < Len(t) - 1 /\ ByteAt(t, i) = "CR" /\ ByteAt(t, i + 1) = "LF"

\* Mutant of SplitStep: a lone CR does not end a line.
SplitStepUnix(t, acc, i) ==
    IF ByteAt(t, i) = "LF" THEN Push(acc, i, 1)
    ELSE IF IsCrLf(t, i) THEN Push(acc, i, 2)
    ELSE acc

\* One iteration.  At a CR LF the loop goes on with the LF, which ends a line too.
SplitStep(t, acc, i) ==
    IF ByteAt(t, i) = "LF" THEN Push(acc, i, 1)
    ELSE IF IsCrLf(t, i) THEN Push(acc, i, 2)
    ELSE IF ByteAt(t, i) = "CR" THEN Push(acc, i, 1)
    ELSE acc

SplitFile(t) ==
    LET loop[i \in 0 .. Len(t)] ==   \* after i iterations
          IF i = 0 THEN [start |-> 0, lines |-> <<>>] ELSE SplitStep(t, loop[i - 1], i - 1)
        all == loop[Len(t)]
    IN  IF all.start < Len(t) THEN Push(all, Len(t), 0).lines ELSE all.lines

-----------------------------------------------------------------------------
(***************************************************************************)
(* The two conversions of lsp.c                                            *)
(***************************************************************************)
\* Mutant of Signed: the length is not converted to a signed number.
Unsigned(n) == n

Signed(n) == IF 2 * n >= Wrap THEN n - Wrap ELSE n

\* utf8proc_iterate: of the first n bytes, those of the code point at i, or -1
Iterate(s, n, i) ==
    LET Continued(k) == i + k <= n /\ \A j \in 1 .. k - 1 : ByteAt(s, i + j) = "C"
    IN  CASE ByteAt(s, i) = "L2" -> IF Continued(2) THEN 2 ELSE -1
          [] ByteAt(s, i) = "L4" -> IF Continued(4) THEN 4 ELSE -1
          [] ByteAt(s, i) = "C" -> -1
          [] OTHER -> 1

\* Both loops step over a code point, or over a byte that begins none.
Advance(s, n, i) == IF Iterate(s, n, i) < 0 THEN i + 1 ELSE i + Iterate(s, n, i)

UnitsAt(s, n, i) ==
    IF Iterate(s, n, i) < 0 THEN 0 ELSE IF Iterate(s, n, i) = 4 THEN 2 ELSE 1

\* bio_lsp_utf16_offset_from_byte_offset, of the first n bytes of s
Utf16FromByte(s, n, b) ==
    LET walk[i \in 0 .. Len(s)] ==
          IF i >= b \/ i >= n THEN 0 ELSE UnitsAt(s, n, i) + walk[Advance(s, n, i)]
    IN  walk[0]

\* Mutant of ByteFromUtf16: one byte for one code unit
ByteFromUtf16Ascii(s, n, u) == IF u < n THEN u ELSE n

\* bio_lsp_byte_offset_from_utf16_offset; the code counts the units up to u, here
\* it is the units still to pass that go down, to -1 behind a pair that u divides.
ByteFromUtf16(s, n, u) ==
    LET walk[p \in (0 .. Len(s)) \X (-1 .. u)] ==
          LET i == p[1]
              left == p[2]
          IN  IF left <= 0 \/ i >= n THEN i
              ELSE walk[<<Advance(s, n, i), left - UnitsAt(s, n, i)>>]
    IN  walk[<<0, u>>]

\* What the pointer and the length of line l give: the bytes from there on, and
\* how many of them the loops look at
BytesFrom(t, l) == SubSeq(t, l.at + 1, Len(t))
Within(t, l) == SubSeq(t, l.at + 1, l.at + Signed(l.len))

-----------------------------------------------------------------------------
(***************************************************************************)
(* The prefix of a completion, ls.c                                        *)
(***************************************************************************)
\* Mutant of PrefixStart: the blank is part of the prefix.
PrefixStartBlank(s, end) ==
    LET blanks == {k \in 0 .. end - 1 : ByteAt(s, k) = "blank"}
    IN  IF blanks = {} THEN 0 ELSE CHOOSE k \in blanks : \A j \in blanks : j <= k

\* Back from the cursor to the last blank
PrefixStart(s, end) ==
    LET blanks == {k \in 0 .. end - 1 : ByteAt(s, k) = "blank"}
    IN  IF blanks = {} THEN 0
        ELSE (CHOOSE k \in blanks : \A j \in blanks : j <= k) + 1

\* The bytes of the prefix and the range of the edit, for a line and character:
\* a set of at most one
CompletionPrefix(t, line, character) ==
    IF line >= Len(SplitFile(t)) THEN {}
    ELSE LET l == SplitFile(t)[line + 1]
             s == BytesFrom(t, l)
             n == Signed(l.len)
             end == ByteFromUtf16(s, n, character)
             start == PrefixStart(s, end)
         IN  IF start = end THEN {}
             ELSE {[start |-> start, end |-> end,
                    from |-> Utf16FromByte(s, n, start), to |-> character]}

-----------------------------------------------------------------------------
(***************************************************************************)
(* The lines the analyzer keeps                                            *)
(***************************************************************************)
Contents == UNION {[1 .. n -> Bytes] : n \in 0 .. MaxLen}
Line == [at : 0 .. MaxLen + 1, len : 0 .. Wrap - 1]
FileStates == [text : Contents, first : Int, num : Nat]

\* Every variable has a value of its kind.
TypeOK ==
    /\ content \in [Files -> Contents]
    /\ files \in [Files -> FileStates \cup {NotRead}]
    /\ lines \in Seq(Line)

NothingRead == [f \in Files |-> NotRead]

Init ==
    /\ content = [f \in Files |-> <<>>]
    /\ files = NothingRead
    /\ lines = <<>>

\* How many bytes the files hold
Total == Cardinality({p \in Files \X (1 .. MaxLen) : p[2] <= Len(content[p[1]])})

\* The client, or another program, writes.
Write(f, b) ==
    /\ Total < (IF files = NothingRead THEN MaxLen ELSE MaxRead)
    /\ content' = [content EXCEPT ![f] = Append(@, b)]
    /\ UNCHANGED <<files, lines>>

\* Mutant of StartRun: only the lines are cleared.
StartRunKeepFiles ==
    /\ lines # <<>>
    /\ lines' = <<>>
    /\ UNCHANGED <<content, files>>

\* buxn_ls_analyze clears lines and files before it compiles.
StartRun ==
    /\ files # NothingRead
    /\ lines' = <<>>
    /\ files' = NothingRead
    /\ UNCHANGED content

\* buxn_asm_fopen of a file not yet read
OpenFile(f) ==
    /\ files[f] = NotRead
    /\ Total <= MaxRead
    /\ files' = [files EXCEPT ![f] = [text |-> content[f], first |-> -1, num |-> 0]]
    /\ UNCHANGED <<content, lines>>

\* The lines that buxn_ls_analyzer_split_file returns, cached or not
Slice(f) ==
    IF files[f] = NotRead THEN <<>>
    ELSE IF files[f].first >= 0
      THEN SubSeq(lines, files[f].first + 1, files[f].first + files[f].num)
      ELSE SplitFile(files[f].text)

\* Its effect: the first time, the lines go to the end of the shared array.
SplitLines(f) ==
    /\ files[f] # NotRead
    /\ files[f].first = -1
    /\ lines' = lines \o SplitFile(files[f].text)
    /\ files' = [files EXCEPT ![f].first = Len(lines),
                              ![f].num = Len(SplitFile(files[f].text))]
    /\ UNCHANGED content

\* Mutant of ConvertPosition: the column is not counted from 0.
ConvertPositionColumn(f, line, col) ==
    IF line - 1 >= Len(Slice(f)) THEN [line |-> 0, character |-> 0]
    ELSE LET l == Slice(f)[line]
         IN  [line |-> line - 1,
              character |-> Utf16FromByte(BytesFrom(files[f].text, l), Signed(l.len), col)]

\* buxn_ls_convert_position, of a line and column counted from 1
ConvertPosition(f, line, col) ==
    IF line - 1 >= Len(Slice(f)) THEN [line |-> 0, character |-> 0]
    ELSE LET l == Slice(f)[line]
         IN  [line |-> line - 1,
              character |-> Utf16FromByte(BytesFrom(files[f].text, l), Signed(l.len), col - 1)]

Next ==
    \/ \E f \in Files, b \in Bytes : Write(f, b)
    \/ StartRun
    \/ \E f \in Files : OpenFile(f)
    \/ \E f \in Files : SplitLines(f)

Spec == Init /\ [][Next]_vars

-----------------------------------------------------------------------------
(***************************************************************************)
(* Properties                                                              *)
(***************************************************************************)
\* Splitting and conversion depend on the content alone, and every content is met
\* before anything is read: the first four properties look at it then.
Fresh == files = NothingRead

CrLfs(t) == {i \in 0 .. Len(t) - 1 : IsCrLf(t, i)}

\* The lines of a content as a client counts them: LF, CR and CR LF end a line.
\* They are known by the byte at which they begin.
LastOfEol(t, i) ==
    ByteAt(t, i) = "LF" \/ (ByteAt(t, i) = "CR" /\ ~IsCrLf(t, i))
LineStarts(t) == {s \in 0 .. Len(t) - 1 : s = 0 \/ LastOfEol(t, s - 1)}
LineNumber(t, s) == Cardinality({r \in LineStarts(t) : r < s})
EndOfLine(t, s) ==
    CHOOSE e \in s .. Len(t) : /\ e < Len(t) => ByteAt(t, e) \in {"CR", "LF"}
                              /\ \A i \in s .. e - 1 : ByteAt(t, i) \notin {"CR", "LF"}
LineFrom(t, s) == [at |-> s, len |-> EndOfLine(t, s) - s]

\* Splitting loses nothing: the lines are those the client has, in their order, but
\* for one more after every line that a CR LF ends, whose length has wrapped around.
LinesKept ==
    Fresh => \A f \in Files :
      LET t == content[f]
          split == SplitFile(t)
          kept == {k \in DOMAIN split : split[k].len # Wrap - 1}
      IN  /\ {split[k] : k \in kept} = {LineFrom(t, s) : s \in LineStarts(t)}
          /\ \A j, k \in kept : j < k => split[j].at < split[k].at
          /\ DOMAIN split \ kept =
               {k + 1 : k \in {j \in kept : split[j].at + split[j].len \in CrLfs(t)}}

\* No conversion leaves the content, for any line, character and column: the
\* length that wrapped around is negative once it is signed.
InBounds ==
    Fresh => \A f \in Files :
      LET t == content[f] IN
      \A k \in DOMAIN SplitFile(t) :
        LET l == SplitFile(t)[k]
            s == BytesFrom(t, l)
        IN  /\ l.at + Signed(l.len) <= Len(t)
            /\ \A u \in 0 .. MaxLen + 1 :
                 /\ l.at + ByteFromUtf16(s, Signed(l.len), u) <= Len(t)
                 /\ Utf16FromByte(s, Signed(l.len), u) <= Len(s)

\* The places of s where the loops stop: no code point lies across them.
Boundaries(s) == {b \in 0 .. Len(s) : \A i \in 0 .. b - 1 : Advance(s, Len(s), i) <= b}

\* The two conversions belong together: a code unit offset leads to a byte not
\* beyond b exactly if it is not more than b's own, whatever the bytes are.
Adjoint ==
    Fresh => \A f \in Files :
      LET t == content[f] IN
      \A begin \in LineStarts(t) :
        LET s == Within(t, LineFrom(t, begin))
            n == Len(s)
        IN  \A b \in Boundaries(s), u \in 0 .. Utf16FromByte(s, n, n) :
              ByteFromUtf16(s, n, u) <= b <=> u <= Utf16FromByte(s, n, b)

\* The edit of a completion replaces the prefix it was computed from and no more:
\* its first character is that of the prefix, and between them are the code units
\* of the prefix, which has no blank.
EditIsPrefix ==
    Fresh => \A f \in Files :
      LET t == content[f] IN
      CrLfs(t) = {} =>
        \A begin \in LineStarts(t) :
          LET s == Within(t, LineFrom(t, begin))
          IN  \A b \in Boundaries(s) :
                \A c \in CompletionPrefix(t, LineNumber(t, begin), Utf16FromByte(s, Len(s), b)) :
                  LET p == SubSeq(s, c.start + 1, c.end)
                  IN  /\ \A k \in DOMAIN p : p[k] # "blank"
                      /\ c.start > 0 => ByteAt(s, c.start - 1) = "blank"
                      /\ c.to - c.from = Utf16FromByte(p, Len(p), Len(p))

\* The lines an analysis keeps for a file are those of the content it read,
\* though the files share one array and are written to meanwhile.
CachedLines ==
    \A f \in Files :
      files[f] # NotRead =>
        /\ files[f].first + files[f].num <= Len(lines)
        /\ Slice(f) = SplitFile(files[f].text)

Valid(s) == \A b \in Boundaries(s) : b < Len(s) => Iterate(s, Len(s), b) > 0

\* A report or symbol is shown where the assembler found it: the byte that the
\* client finds at the converted position, in a file of valid UTF-8 and without
\* CR LF, is the byte at the line and column.
ShownWhereFound ==
    \A f \in Files :
      files[f] # NotRead /\ CrLfs(files[f].text) = {} =>
        LET t == files[f].text IN
        \A begin \in LineStarts(t) :
          LET s == Within(t, LineFrom(t, begin))
          IN  Valid(s) =>
                \A b \in Boundaries(s) :
                  LET p == ConvertPosition(f, LineNumber(t, begin) + 1, b + 1)
                  IN  /\ p.line = LineNumber(t, begin)
                      /\ ByteFromUtf16(s, Len(s), p.character) = b

\* "Convert from LSP offset to byte offset": the line that the code looks at is
\* the line the client means.
ClientLine ==
    \A f \in Files :
      LET t == content[f] IN
      \A begin \in LineStarts(t) :
        SplitFile(t)[LineNumber(t, begin) + 1] = LineFrom(t, begin)
=============================================================================
