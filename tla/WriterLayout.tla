---------------------------- MODULE WriterLayout ----------------------------
(* The layout of ProseWriter (prosewriter/app/src/PWLayout.cpp): each      *)
(* paragraph's lines, kept from one relayout to the next for the           *)
(* paragraphs whose identity and revision have not changed, and the pages  *)
(* the lines fall on.  Every character is one unit wide and every line one *)
(* unit high; a table's row is as high as the most lines one of its cells  *)
(* wraps into.  The padding of cells, and the fractions of a unit that a   *)
(* column can have, are left out.                                          *)
EXTENDS WriterDocument

CONSTANTS Widths,    \* the text columns that page setups leave
          PageLines  \* the height of a page

ASSUME LayoutAssumption == Widths \subseteq Nat \ {0} /\ PageLines \in Nat \ {0}

(* LayoutParagraph()'s greedy wrap.  A word takes the spaces before it     *)
(* along; one that is wider than the column is alone on its line, and      *)
(* the spaces at a line's end stand in no line.                            *)
IsBreak(c) == c = "space"
WordEnd(t, k) ==
    LET letter == {i \in k .. Len(t) : ~IsBreak(t[i].c)}
        after  == {i \in Min(letter) .. Len(t) : IsBreak(t[i].c)}
    IN  IF letter = {} \/ after = {} THEN Len(t) ELSE Min(after) - 1

LineEnd(t, first, width) ==
    LET end[last \in first - 1 .. Len(t)] ==
          LET next == WordEnd(t, last + 1)
          IN  IF last = Len(t) \/ (last >= first /\ next - first + 1 > width) THEN last
              ELSE end[next]
    IN  end[first - 1]

Wrapped(t, width) ==
    LET lines[first \in 1 .. Len(t) + 1] ==
          LET last == LineEnd(t, first, width)
              seen == Max({k \in first .. last : ~IsBreak(t[k].c)} \cup {first - 1})
          IN  <<[at |-> first - 1, len |-> seen - first + 1]>>
              \o IF seen >= Len(t) \/ last >= Len(t) THEN <<>> ELSE lines[last + 1]
    IN  lines[1]

(* A list's text is indented.  LayoutTableRow() lays a row as one line.    *)
Column(format, width) == width - IF format \in Numbered THEN 1 ELSE 0
Rows(d, p, width) ==
    LET t == d.paras[p].text
    IN  IF IsRow(d, p) THEN <<[at |-> 0, len |-> Len(t)]>>
        ELSE Wrapped(t, Column(d.paras[p].format, width))

(* TableColumnWidths(): a column is as wide as its widest cell, over all   *)
(* rows, but no wider than seven tenths of the text column, which all      *)
(* columns then share out.                                                 *)
CellTexts(t) ==
    LET stops  == CellEnds(t)
        End(k) == IF k = 0 THEN 0
                  ELSE CHOOSE e \in stops \cup {Len(t) + 1} : Cardinality({i \in stops : i < e}) = k - 1
    IN  [k \in 1 .. Cardinality(stops) + 1 |-> SubSeq(t, End(k - 1) + 1, End(k) - 1)]

ColumnWidths(d, p, width) ==
    LET rows       == {CellTexts(d.paras[k].text) : k \in FirstRow(d, p) .. LastRow(d, p)}
        Natural(c) == Max({1} \cup {Min({Len(r[c]), (7 * width) \div 10}) :
                                       r \in {x \in rows : c <= Len(x)}})
        natural    == [c \in 1 .. Max({Len(r) : r \in rows}) |-> Natural(c)]
        sum        == FoldFunction(+, 0, natural)
    IN  [c \in DOMAIN natural |-> Max({1, (natural[c] * width) \div sum})]

(* LayoutTableRow(): a cell is wrapped within its column, a word at a      *)
(* time, and the row is as high as its tallest cell.                       *)
CellLines(t, width) ==
    LET stop(k)  == {i \in k + 1 .. Len(t) : i = Len(t) \/ IsBreak(t[i].c) \/ IsBreak(t[i + 1].c)}
        good(k)  == {i \in stop(k) : i - k <= width}
        line(k)  == IF good(k) = {} THEN Min(stop(k)) ELSE Max(good(k))
        after(k) == Min({i \in line(k) .. Len(t) : i = Len(t) \/ ~IsBreak(t[i + 1].c)})
        lines[k \in 0 .. Len(t)] == IF k = Len(t) THEN 0 ELSE 1 + lines[after(k)]
    IN  Max({1, lines[0]})

RowHeight(cells, share) == Max({CellLines(cells[c], share[c]) : c \in DOMAIN cells})

(* The number of a numbered paragraph: how many come right before it.      *)
ListNumber(d, p) ==
    IF d.paras[p].format \notin Numbered THEN 0
    ELSE p - Max({k \in 0 .. p : k = 0 \/ d.paras[k].format \notin Numbered})

Measured(d, p, width) ==
    LET Lines(rows, share) ==
          [id |-> d.paras[p].id, rev |-> d.paras[p].rev, width |-> width,
           text |-> d.paras[p].text, format |-> d.paras[p].format, images |-> d.paras[p].images,
           rows |-> rows, number |-> ListNumber(d, p), columns |-> share,
           tall |-> [k \in DOMAIN rows |->
                       IF IsRow(d, p) THEN RowHeight(CellTexts(d.paras[p].text), share) ELSE 1]]
    IN  Lines(Rows(d, p, width), IF IsRow(d, p) THEN ColumnWidths(d, p, width) ELSE <<>>)

(* AssignLinesToPages(): the number of lines of each page.  A line that is *)
(* higher than a page has one to itself.                                   *)
PageSpans(tall) ==
    LET down[k \in 0 .. Len(tall)] == IF k = 0 THEN 0 ELSE down[k - 1] + tall[k]
        last(k) == Max({i \in k + 1 .. Len(tall) : i = k + 1 \/ down[i] - down[k] <= PageLines})
        spans[k \in 0 .. Len(tall)] ==
          IF k = Len(tall) THEN <<>> ELSE <<last(k) - k>> \o spans[last(k)]
    IN  spans[0]
Pages(paras) == PageSpans(FlattenSeq([p \in DOMAIN paras |-> paras[p].tall]))

(* LayoutFull(), and Layout(): what is kept is looked up by identity.      *)
LayoutFull(d, width) == [p \in DOMAIN d.paras |-> Measured(d, p, width)]

Kept(old, d, p) ==
    {k \in DOMAIN old : old[k].id = d.paras[p].id /\ old[k].rev = d.paras[p].rev}

LayoutParas(old, d, width) ==
    [p \in DOMAIN d.paras |->
       IF old.width # width \/ Kept(old.paras, d, p) = {} THEN Measured(d, p, width)
       ELSE old.paras[Max(Kept(old.paras, d, p))]]

(* The layout notes where its lines start (CacheAbsoluteStarts).           *)
Starts(d, paras) ==
    FlattenSeq([p \in DOMAIN paras |->
       [k \in DOMAIN paras[p].rows |-> ParaStart(d, p) + paras[p].rows[k].at]])

Layout(old, d, width) ==
    LET paras == LayoutParas(old, d, width)
    IN  [paras |-> paras, width |-> width, starts |-> Starts(d, paras), pages |-> Pages(paras)]

(* LineOfOffset(), LineStart(), LineEnd() and the lines next to one.       *)
LineOf(lay, o)      == Max({k \in DOMAIN lay.starts : lay.starts[k] <= o} \cup {1})
LineStop(lay, d, k) == IF k < Len(lay.starts) THEN lay.starts[k + 1] ELSE Length(d) + 1
PrevLineStart(lay, o)    == lay.starts[Max({1, LineOf(lay, o) - 1})]
NextLineStart(lay, d, o) == LineStop(lay, d, LineOf(lay, o))

(* What OffsetToXY() and XYToOffset() can give: a place in a line.         *)
LinePlaces(start, row) == start + row.at .. start + row.at + row.len
Places(lay, d) ==
    UNION {UNION {LinePlaces(ParaStart(d, p), lay.paras[p].rows[k]) :
                    k \in DOMAIN lay.paras[p].rows} : p \in DOMAIN lay.paras}
=============================================================================
