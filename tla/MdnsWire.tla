-------------------------------- MODULE MdnsWire --------------------------------
(***************************************************************************)
(* Packets of the mDNS library: how names and records are appended to the  *)
(* buffer (mdns_send.c) and how names are read back (mdns_utils.c).        *)
(*                                                                         *)
(* A packet is a sequence of cells: a label, a pointer to an earlier       *)
(* label, the end of a name, the head of a record (type to length), or a   *)
(* piece of data.  Each has a size in bytes, and the buffer Room of them.  *)
(* The time to live is left out: no record here says goodbye.              *)
(***************************************************************************)
EXTENDS Naturals, Sequences, SequencesExt

CONSTANTS
    Room,   \* MDNS_MAX_PACKET_SIZE less the header
    Long    \* the labels that take more room than others

\* FoldLeft of SequencesExt as a recursive function.
Fold(f(_, _), base, seq) ==
    LET upTo[i \in 0..Len(seq)] == IF i = 0 THEN base ELSE f(upTo[i - 1], seq[i])
    IN upTo[Len(seq)]

Domain == "local"
Domains == {Domain, "arpa"}
Underscored == {"_sub", "_services", "_dns-sd", "_udp", "_tcp", "_http", "_ipp"}

Label(l) == [k |-> "label", v |-> l]
Pointer(i) == [k |-> "pointer", v |-> i]
End == [k |-> "end"]
\* The length is filled in when the data is there; until then it is 0.
HeadOf(type) == [k |-> "head", v |-> type, len |-> 0]
Data(d) == [k |-> "data", v |-> d]

Size(cell) ==
    CASE cell.k = "label" -> IF cell.v \in Long THEN 20 ELSE 6
      [] cell.k = "pointer" -> 2
      [] cell.k = "end" -> 1
      [] cell.k = "head" -> 10
      [] cell.k = "data" -> 6

\* meant is kept for the properties: which name begins at which cell.
EmptyPacket == [cells |-> <<>>, used |-> 0, meant |-> {}]
Put(p, cell) ==
    LET used == p.used + Size(cell) IN
    IF used < Room THEN [p EXCEPT !.cells = Append(@, cell), !.used = used] ELSE p
Grew(p, q) == Len(q.cells) > Len(p.cells)

-----------------------------------------------------------------------------
(* Reading names *)

\* mdns_name_t: parts are host, service, proto and domain.
NoName == [parts |-> <<>>, sub |-> FALSE, invalid |-> FALSE]

\* What read_fqdn makes of one more label.
AddLabel(name, l) ==
    LET full == Len(name.parts) = 4
        inv == [name EXCEPT !.invalid = @ \/ full] IN
    CASE Len(name.parts) = 1 /\ l \notin Underscored \cup Domains ->
           [inv EXCEPT !.parts = <<name.parts[1] \o "." \o l>>]
      [] l = "_sub" -> [inv EXCEPT !.sub = TRUE]
      [] l # "_sub" /\ ~inv.invalid -> [inv EXCEPT !.parts = Append(@, l)]
      [] OTHER -> inv

\* The labels from cell i on, in a run of labels that began at cell start: a
\* pointer leads to before start or the name cannot be read.  The head of a
\* record begins with a zero byte, and so does nothing.
RECURSIVE LabelsFrom(_, _, _)
LabelsFrom(cells, start, i) ==
    IF i > Len(cells) THEN [ok |-> TRUE, labels |-> <<>>]
    ELSE LET c == cells[i]
             rest == LabelsFrom(cells, start, i + 1) IN
         CASE c.k = "label" -> [rest EXCEPT !.labels = <<c.v>> \o @]
           [] c.k = "pointer" /\ c.v < start -> LabelsFrom(cells, c.v, c.v)
           [] c.k = "pointer" /\ c.v >= start -> [ok |-> FALSE, labels |-> <<>>]
           [] OTHER -> [ok |-> TRUE, labels |-> <<>>]

Readable(cells, i) == LabelsFrom(cells, i, i).ok
ReadFqdn(cells, i) ==
    IF Readable(cells, i) THEN Fold(AddLabel, NoName, LabelsFrom(cells, i, i).labels)
    ELSE NoName

\* The cell after the name that begins at cell i.
AfterName(cells, i) ==
    LET stop == SelectInSubSeq(cells, i, Len(cells), LAMBDA c : c.k # "label") IN
    CASE stop = 0 -> Len(cells) + 1
      [] stop # 0 /\ cells[stop].k \in {"end", "pointer"} -> stop + 1
      [] OTHER -> stop

\* mdns_utils_parse_fqdn: what the parts are, once it is known how many.
Parsed(name) ==
    LET p == name.parts
        n == Len(p) IN
    [host |-> IF n \in {0, 3} THEN "" ELSE p[1],
     service |-> CASE n = 3 -> p[1] [] n = 4 -> p[2] [] OTHER -> "",
     proto |-> CASE n = 3 -> p[2] [] n = 4 -> p[3] [] OTHER -> "",
     domain |-> IF n < 2 THEN "" ELSE p[n],
     sub |-> name.sub,
     invalid |-> name.invalid \/ n < 2 \/ p[n] \notin Domains]
ParseFqdn(cells, i) == Parsed(ReadFqdn(cells, i))

-----------------------------------------------------------------------------
(* Appending *)

\* append_fqdn looks for the first label of strings that begins a name with
\* exactly these parts; that the name it finds has a _sub in it does not
\* matter.  Mutant: nor do the parts behind the first.
OccurrenceOfFirst(cells, strings) ==
    SelectInSeq(cells, LAMBDA c : c = Label(Head(strings)))
Occurrence(cells, strings) ==
    LET at == {i \in DOMAIN cells : /\ cells[i] = Label(Head(strings))
                                    /\ ReadFqdn(cells, i).parts = strings} IN
    IF at = {} THEN 0 ELSE Min(at)

\* A tail that does not fit leaves the name without an end, and counts as written.
RECURSIVE AppendLabels(_, _)
AppendLabels(p, strings) ==
    IF strings = <<>> THEN Put(p, End)
    ELSE LET found == Occurrence(p.cells, strings)
             longer == Put(p, Label(Head(strings))) IN
         CASE found # 0 -> Put(p, Pointer(found))
           [] found = 0 /\ Grew(p, longer) -> AppendLabels(longer, Tail(strings))
           [] OTHER -> p

\* q is p with the name behind it, if there is a whole one.
Whole(p, q) == Grew(p, q) /\ q.cells[Len(q.cells)].k \in {"end", "pointer"}
WithMeant(p, strings, q) ==
    IF Whole(p, q)
    THEN [q EXCEPT !.meant = @ \cup {[at |-> Len(p.cells) + 1, labels |-> strings]}] ELSE q
AppendFqdn(p, strings) == WithMeant(p, strings, AppendLabels(p, strings))

\* One piece of a record's data: a name or a cell.
AppendPiece(p, piece) == IF piece.k = "name" THEN AppendFqdn(p, piece.v) ELSE Put(p, piece)
Name(strings) == [k |-> "name", v |-> strings]

\* Head and data of a record behind its owner, then the length of the data.
\* What does not fit ends the record, and what was appended so far stays.
Extended(a, q) == IF a.ok /\ Grew(a.p, q) THEN [a EXCEPT !.p = q] ELSE [a EXCEPT !.ok = FALSE]
WithLength(a, at) ==
    IF a.ok THEN [p |-> [a.p EXCEPT !.cells[at].len = Len(a.p.cells) - at], count |-> 1]
    ELSE [p |-> a.p, count |-> 0]
AppendBody(owned, type, pieces) ==
    LET headed == Put(owned, HeadOf(type))
        step(a, piece) == Extended(a, AppendPiece(a.p, piece)) IN
    WithLength(Fold(step, [p |-> headed, ok |-> Grew(owned, headed)], pieces), Len(headed.cells))

\* A record whose owner does not fit is not begun.
AppendBehind(p, owned, type, pieces) ==
    IF Grew(p, owned) THEN AppendBody(owned, type, pieces) ELSE [p |-> p, count |-> 0]
AppendRecord(p, owner, type, pieces) == AppendBehind(p, AppendFqdn(p, owner), type, pieces)
=============================================================================
