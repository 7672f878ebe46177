------------------------------- MODULE AstPatch -------------------------------
(***************************************************************************)
(* The edits that max_patch.py and fast_values_patch.py make to the files of  *)
(* MAX, and how astpatch.py finds the places for them.                        *)
(*                                                                         *)
(* A text is a sequence of lines, a line its indentation and what stands on    *)
(* it; a statement is its line and the deeper lines after it.  An edit names    *)
(* the function it is in, the statement it looks for, what it does there, and    *)
(* its lines with the indentation the literals in the scripts have.             *)
(***************************************************************************)
EXTENDS Integers, Sequences, FiniteSets, FiniteSetsExt, SequencesExt

CONSTANTS
    NotFound,    \* in place of a text: an edit, or compile(), raised
    Words,       \* what stands on a line
    Headers      \* what stands on the lines that open a block

Line(indent, is) == [indent |-> indent, is |-> is]
Lines == [indent : Nat, is : Words]

-----------------------------------------------------------------------------
\* astpatch.py.

\* ast.parse and compile(): the line after one that opens a block is one deeper, no other is.
Compiles(text) ==
    \A i \in DOMAIN text :
        IF text[i].is \in Headers
        THEN i < Len(text) /\ text[i + 1].indent = text[i].indent + 1
        ELSE i < Len(text) => text[i + 1].indent <= text[i].indent

\* lines_of: the last line of the statement at line i.
End(text, i) ==
    Max({j \in i .. Len(text) : \A k \in i + 1 .. j : text[k].indent > text[i].indent})

\* find_class and find_function take the first there is, find_stmt the only one; the
\* statements that are found by find_stmt.
Statements ==
    {"metrics = create", "with METRICS.transaction", "block_counts", "host_byte_counts",
     "disk_byte_counts", "if kv_cache is not None", "async with", "yield", "for m in ms",
     "return process_telemetry", "while True", "if NO_PROGRESS"}
Hits(text, scope, is) == {i \in scope : text[i].is = is}
IsFound(hits, is) == hits # {} /\ (is \in Statements => Cardinality(hits) = 1)
Inside(text, scope, is) ==
    LET hits == Hits(text, scope, is) IN
    IF IsFound(hits, is) THEN Min(hits) + 1 .. End(text, Min(hits)) ELSE {}
Scope(text, path) == FoldLeft(LAMBDA s, is : Inside(text, s, is), DOMAIN text, path)
Found(text, e) ==
    Compiles(text) /\ IsFound(Hits(text, Scope(text, e.path), e.find), e.find)
Place(text, e) == Min(Hits(text, Scope(text, e.path), e.find))

\* replace_lines; lines first .. last are replaced, none if last < first.
ReplaceLines(text, first, last, new) ==
    SubSeq(text, 1, first - 1) \o new \o SubSeq(text, last + 1, Len(text))

\* The lines of a template, from the indentation base: "original" stands for those it
\* replaces, reindented.
Reindent(lines, by) ==
    [i \in DOMAIN lines |-> Line(lines[i].indent + by, lines[i].is)]
Fill(new, original, base) ==
    FlattenSeq([i \in DOMAIN new |->
        IF new[i].is = "original" THEN Reindent(original, new[i].indent)
        ELSE Reindent(<<new[i]>>, base)])

-----------------------------------------------------------------------------
\* What an edit does where it finds its statement.

Before(path, find, new) == [how |-> "before", path |-> path, find |-> find, new |-> new]
Replace(path, find, new) == [how |-> "replace", path |-> path, find |-> find, new |-> new]
BodyStart(path, find, new) == [how |-> "start", path |-> path, find |-> find, new |-> new]
Body(path, find, new) == [how |-> "body", path |-> path, find |-> find, new |-> new]
HeaderOf(path, find, new) == [how |-> "header", path |-> path, find |-> find, new |-> new]
After(path, find, new) == [how |-> "after", path |-> path, find |-> find, new |-> new]
Counts(path, find, new) == [how |-> "counts", path |-> path, find |-> find, new |-> new]
\* The same in terms of the statement's own indentation (telemetry_worker).
ReplaceHere(path, find, new) == [how |-> "here", path |-> path, find |-> find, new |-> new]
\* Two edits from one parse.
Around(path, find, before, after) ==
    [how |-> "around", path |-> path, find |-> find, new |-> before, after |-> after]
AtEnd(new) == [how |-> "end", new |-> new]
AtTop(new) == [how |-> "top", new |-> new]

\* A tier's count and the sums and the assertion that follow it.
LastCount(text, i) ==
    Max({j \in i .. Len(text) : \A k \in i + 1 .. j : text[k].is \in {"sum", "assert"}})

\* The lines an edit replaces, from the first to the last.
Span(text, i, how) ==
    CASE how = "before" -> <<i, i - 1>>
      [] how \in {"replace", "here"} -> <<i, End(text, i)>>
      [] how = "header" -> <<i, i>>
      [] how = "start" -> <<i + 1, i>>
      [] how = "body" -> <<i + 1, End(text, i)>>
      [] how = "after" -> <<End(text, i) + 1, End(text, i)>>
      [] how = "counts" -> <<i, LastCount(text, i)>>

\* What an edit keeps of them: of a body, the last statement (metrics.body[-1]).
Kept(text, span, how) ==
    IF how # "body" THEN SubSeq(text, span[1], span[2])
    ELSE LET last == Max({j \in span[1] .. span[2] : text[j].indent = text[span[1]].indent})
         IN  SubSeq(text, last, span[2])

\* The line after is made first: what is before it keeps its place.
AroundAt(text, i, e) ==
    LET once == ReplaceLines(text, End(text, i) + 1, End(text, i), e.after)
    IN  ReplaceLines(once, i, i - 1, e.new)

Edit(text, e) ==
    IF text = NotFound THEN NotFound
    ELSE IF e.how = "end" THEN text \o e.new
    ELSE IF e.how = "top" THEN e.new \o text
    ELSE IF ~Found(text, e) THEN NotFound
    ELSE LET i == Place(text, e) IN
         IF e.how = "around" THEN AroundAt(text, i, e)
         ELSE LET span == Span(text, i, e.how)
                  base == IF e.how = "here" THEN text[i].indent ELSE 0
              IN  ReplaceLines(text, span[1], span[2],
                     Fill(e.new, Kept(text, span, e.how), base))
EditAll(text, edits) ==
    LET out == FoldLeft(Edit, text, edits) IN
    IF out = NotFound \/ ~Compiles(out) THEN NotFound ELSE out
=============================================================================
