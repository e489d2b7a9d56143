----------------------------- MODULE TextChunker -----------------------------
(***************************************************************************)
(* text-chunker.ts: a section of a page too long for one chunk is cut into *)
(* atoms (tokenizeAtoms, one iteration of its loop a step), atoms into     *)
(* pieces, pieces into chunks.  Lengths are counted in units: a text line  *)
(* is one unit, a long line three and nothing to split it at, a line of a  *)
(* table or of code one.  A piece is [text, head]: the units it holds, in   *)
(* order, and how many of them are overlap.                                *)
(***************************************************************************)
EXTENDS Integers, SequencesExt, FiniteSetsExt

CONSTANTS
  Target, MaxChars, MinChars, Overlap, \* ChunkingOptions, in units: Overlap < Target <= MaxChars
  MaxLines,                  \* bound: lines of the section
  MaxPipes,                  \* bound: single lines that start with a bar (0 or 1)
  MaxWide                    \* bound: long lines

VARIABLES
  lines,  \* the section: kinds of lines
  at,     \* the loop's i
  atoms,  \* the atoms so far: [first, last, kind], line numbers
  done    \* the loop is over, and the result is Chunks

vars == <<lines, at, atoms, done>>

LineKinds == {"text", "wide", "blank", "bar", "fence", "tildes"}
Fences == {"fence", "tildes"}

IsBar(k) == k \in DOMAIN lines /\ lines[k] = "bar"

Init ==
  /\ lines \in UNION {[1..n -> LineKinds] : n \in 1..MaxLines}
  /\ Cardinality({k \in DOMAIN lines : IsBar(k) /\ ~IsBar(k - 1) /\ ~IsBar(k + 1)}) <= MaxPipes
  /\ Cardinality({k \in DOMAIN lines : lines[k] = "wide"}) <= MaxWide
  /\ at = 1 /\ atoms = <<>> /\ done = FALSE

-----------------------------------------------------------------------------
(***************************************************************************)
(* tokenizeAtoms                                                           *)
(***************************************************************************)
\* The last line of a run of lines of these kinds, from line k on.
RunEnd(k, kinds) ==
  LET stops == {j \in k..Len(lines) : lines[j] \notin kinds} IN IF stops = {} THEN Len(lines) ELSE Min(stops) - 1

Take(kind, last) ==
  /\ atoms' = Append(atoms, [first |-> at, last |-> last, kind |-> kind])
  /\ at' = last + 1
  /\ UNCHANGED <<lines, done>>

\* Up to the same marker, or to the end.
Fence ==
  /\ at <= Len(lines) /\ lines[at] \in Fences
  /\ LET closing == {j \in (at + 1)..Len(lines) : lines[j] = lines[at]}
     IN Take("code", IF closing = {} THEN Len(lines) ELSE Min(closing))

\* Two lines that start with a bar, at the least.
Table == at < Len(lines) /\ IsBar(at) /\ IsBar(at + 1) /\ Take("table", RunEnd(at, {"bar"}))

\* A mutant: the loop does not move past a blank line.
BlankHeld == at <= Len(lines) /\ lines[at] = "blank" /\ UNCHANGED vars
\* A blank line is no atom: it is filtered out at the end.
Blank ==
  /\ at <= Len(lines) /\ lines[at] = "blank"
  /\ at' = at + 1 /\ UNCHANGED <<lines, atoms, done>>

\* The lines up to a blank, a bar or a fence; a single line with a bar comes
\* here too, and is no line of a paragraph: an empty atom is pushed and the
\* loop stays where it is.  (That the atoms grow is left out.)
ParagraphTaken ==
  IF IsBar(at) THEN at' = at /\ UNCHANGED <<lines, atoms, done>>
  ELSE Take("paragraph", RunEnd(at, {"text", "wide"}))

Paragraph ==
  /\ at <= Len(lines)
  /\ lines[at] \in {"text", "wide"} \/ (IsBar(at) /\ ~IsBar(at + 1))
  /\ ParagraphTaken

-----------------------------------------------------------------------------
(***************************************************************************)
(* From atoms to chunks.                                                   *)
(***************************************************************************)
Width(k) == IF lines[k] = "blank" THEN 0 ELSE IF lines[k] = "wide" THEN 3 ELSE 1

\* The units of a line, of an atom, of the section.
Units(k) == [u \in 1..Width(k) |-> <<k, u>>]
Section(first, last) == FlattenSeq([j \in 1..(last - first + 1) |-> Units(first + j - 1)])
TextOf(a) == Section(a.first, a.last)
Whole == Section(1, Len(lines))
Piece(text) == [text |-> text, head |-> 0]

\* The last resort: slices of the target's length.
Slices(text) ==
  [n \in 1..((Len(text) + Target - 1) \div Target) |->
     Piece(SubSeq(text, (n - 1) * Target + 1, IF n * Target < Len(text) THEN n * Target ELSE Len(text)))]

\* recursiveSplit, of a paragraph: by lines when every line fits; its last
\* condition asks whether the last piece ends at the cursor, which holds
\* after a split that succeeded too, and the text is sliced once more.
SplitParagraph(a) ==
  LET byLines == a.first < a.last /\ \A k \in a.first..a.last : Width(k) <= Target
      pieces == [j \in 1..(a.last - a.first + 1) |-> Piece(Units(a.first + j - 1))]
  IN (IF byLines THEN pieces ELSE <<>>) \o Slices(TextOf(a))

\* A mutant: a table or a block of code is split like a paragraph.
PiecesOfAny(a) == IF Len(TextOf(a)) <= Target THEN <<Piece(TextOf(a))>> ELSE SplitParagraph(a)
\* splitAtomsToPieces
PiecesOf(a) ==
  IF a.kind # "paragraph" \/ Len(TextOf(a)) <= Target THEN <<Piece(TextOf(a))>>
  ELSE SplitParagraph(a)

Pieces == FlattenSeq([n \in DOMAIN atoms |-> PiecesOf(atoms[n])])

\* sizePieces: a piece over the target stands alone, the others are packed.
Pack(out, p) ==
  IF out # <<>> /\ Len(Last(out).text) + Len(p.text) <= Target
  THEN [out EXCEPT ![Len(out)].text = @ \o p.text]
  ELSE Append(out, p)
sizePieces(pieces) == FoldLeft(Pack, <<>>, pieces)

\* A mutant: the limit is not looked at.
JoinAny(out, p) ==
  IF out # <<>> /\ Len(Last(out).text) < MinChars
  THEN [out EXCEPT ![Len(out)].text = @ \o p.text]
  ELSE Append(out, p)

\* mergeSmall: a small chunk takes the next one in.
Join(out, p) ==
  IF out # <<>> /\ Len(Last(out).text) < MinChars /\ Len(Last(out).text) + Len(p.text) <= MaxChars
  THEN [out EXCEPT ![Len(out)].text = @ \o p.text]
  ELSE Append(out, p)

mergeSmall(pieces) == FoldLeft(Join, <<>>, pieces)

\* applyOverlap: the tail of the chunk before goes in front, head units of it.
HeadLength(text) == IF Len(text) > Overlap THEN Overlap ELSE Len(text)
applyOverlap(pieces) ==
  [n \in DOMAIN pieces |->
     IF n = 1 THEN pieces[n]
     ELSE LET before == pieces[n - 1].text
              head == HeadLength(before)
          IN [text |-> SubSeq(before, Len(before) - head + 1, Len(before)) \o pieces[n].text, head |-> head]]

\* chunkSection: a section within the target is one chunk, and not looked into.
Short == Len(Whole) <= Target

Chunks ==
  IF Whole = <<>> THEN <<>>
  ELSE IF Short THEN <<Piece(Whole)>>
  ELSE applyOverlap(mergeSmall(sizePieces(Pieces)))

Finish ==
  /\ ~done /\ (Short \/ at > Len(lines))
  /\ done' = TRUE
  /\ UNCHANGED <<lines, at, atoms>>

Next == (~Short /\ (Fence \/ Table \/ Blank \/ Paragraph)) \/ Finish

Spec == Init /\ [][Next]_vars /\ WF_vars(Next)

-----------------------------------------------------------------------------
\* A chunk without the overlap in front.
Own(c) == SubSeq(c.text, c.head + 1, Len(c.text))
Indivisible(a) == a.kind # "paragraph"

(***************************************************************************)
(* Whatever is cut, packed, merged and overlapped on the way, every unit   *)
(* of the section is in a chunk, and a table or a block of code is in one  *)
(* piece.                                                                  *)
(***************************************************************************)
NothingIsTorn ==
  done => LET chunks == Chunks IN
    /\ ToSet(Whole) \subseteq UNION {ToSet(Own(chunks[n])) : n \in DOMAIN chunks}
    /\ \A m \in DOMAIN atoms : Indivisible(atoms[m]) =>
         \E n \in DOMAIN chunks : \E i \in 0..(Len(Own(chunks[n])) - Len(TextOf(atoms[m]))) :
           TextOf(atoms[m]) = SubSeq(Own(chunks[n]), i + 1, i + Len(TextOf(atoms[m])))

(***************************************************************************)
(* A chunk longer than the limit, its overlap apart, is one table or one   *)
(* block of code.                                                          *)
(***************************************************************************)
ChunksFit ==
  done => LET chunks == Chunks IN \A n \in DOMAIN chunks :
    \/ Len(Own(chunks[n])) <= MaxChars
    \/ \E m \in DOMAIN atoms : Indivisible(atoms[m]) /\ Own(chunks[n]) = TextOf(atoms[m])

(***************************************************************************)
(* The loop comes to an end: every page that is written can be chunked.    *)
(***************************************************************************)
EveryPageIsChunked == <>done

(***************************************************************************)
(* With the overlap apart, no part of the text is in two chunks.           *)
(***************************************************************************)
NoTextTwice ==
  done => LET chunks == Chunks IN \A m, n \in DOMAIN chunks : m # n => ToSet(Own(chunks[m])) \cap ToSet(Own(chunks[n])) = {}
=============================================================================
