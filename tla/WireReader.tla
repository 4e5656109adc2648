----------------------------- MODULE WireReader -----------------------------
(***************************************************************************)
(* Reading messages (core/wire/parser.cpp).  A message is a sequence of    *)
(* cells, at offsets from 0: the header, the labels of names, pointers and *)
(* root labels that end names, and the fixed fields and data of records.   *)
(* Sizes are in cells.  A label stands for its text as spelled.            *)
(***************************************************************************)
EXTENDS Integers, Sequences, FiniteSets

CONSTANTS
  kMaxPointerOffset,   \* one less than a power of two: pointers carry so many bits
  kMaxPointerJumps, kMaxNameWireLength,
  Layout               \* record type -> the fields of its RDATA, each "name" or "data"

kHeaderSize == 1
kMinQuestionSize == 2   \* root name and fixed fields
kMinRRSize == 2

Label(text) == [cell |-> "label", text |-> text]
Pointer(offset) == [cell |-> "pointer", to |-> offset]
Root == [cell |-> "root"]
Fixed(type, rdlen) == [cell |-> "fixed", type |-> type, rdlen |-> rdlen]
Data(value) == [cell |-> "data", value |-> value]

At(msg, pos) == msg[pos + 1]

----------------------------------------------------------------------------
(* read_name() *)

BeforeHere(target, cur, segment_start) == target >= cur   \* wrong: within the segment too

NotBackwards(target, cur, segment_start) == target >= segment_start

\* r: what is read so far: the name, the cells it took, where to go on, where that
\* segment starts, and, once it jumped, the end of the name's own cells.
RECURSIVE ReadOn(_, _)
ReadOn(msg, r) ==
  LET here == At(msg, r.cur)
      fails == [r EXCEPT !.ok = FALSE]
      next == [r EXCEPT !.path = Append(@, r.cur), !.end = IF r.jumps = 0 THEN r.cur + 1 ELSE @]
  IN
  IF r.cur >= Len(msg) THEN fails
  ELSE CASE here.cell = "root" -> next
         [] here.cell = "label" ->
              IF Len(r.name) + 2 > kMaxNameWireLength THEN fails
              ELSE ReadOn(msg, [next EXCEPT !.name = Append(@, here.text), !.cur = @ + 1])
         [] here.cell = "pointer" ->
              LET target == here.to % (kMaxPointerOffset + 1) IN
              IF NotBackwards(target, r.cur, r.segment_start) \/ r.jumps = kMaxPointerJumps
              THEN fails
              ELSE ReadOn(msg, [next EXCEPT !.jumps = @ + 1, !.cur = target,
                                            !.segment_start = target])
         [] OTHER -> fails   \* reserved label types, and here whatever is no name

read_name(msg, pos) ==
  ReadOn(msg, [ok |-> TRUE, name |-> <<>>, path |-> <<>>, cur |-> pos, segment_start |-> pos,
               jumps |-> 0, end |-> pos])

----------------------------------------------------------------------------
(* Records.  s: where reading stands, what it brought, and whether it failed. *)

Failed(s) == [s EXCEPT !.ok = FALSE]

\* One field after the other, as the type lays them out, up to the end of the RDATA.
RECURSIVE ReadFields(_, _, _, _, _)
ReadFields(msg, pos, end, fields, read) ==
  IF fields = <<>> THEN [ok |-> pos = end, rdata |-> read]
  ELSE IF Head(fields) = "data"
    THEN IF pos >= end THEN [ok |-> FALSE, rdata |-> read]
         ELSE ReadFields(msg, pos + 1, end, Tail(fields), Append(read, At(msg, pos).value))
    ELSE LET r == read_name(msg, pos) IN
         IF ~r.ok THEN [ok |-> FALSE, rdata |-> read]
         ELSE ReadFields(msg, r.end, end, Tail(fields), Append(read, r.name))

read_rdata(msg, pos, rdlen, type) == ReadFields(msg, pos, pos + rdlen, Layout[type], <<>>)

\* An OPT record is accepted in the additional section, once, owned by the root.
RECURSIVE read_section(_, _, _, _)
read_section(msg, s, count, is_additional) ==
  LET owner == read_name(msg, s.pos)
      fixed == At(msg, owner.end)
      rdata == read_rdata(msg, owner.end + 1, fixed.rdlen, fixed.type)
  IN
  IF count = 0 \/ ~s.ok THEN s
  ELSE IF ~owner.ok \/ owner.end >= Len(msg) THEN Failed(s)
  ELSE IF Len(msg) - (owner.end + 1) < fixed.rdlen THEN Failed(s)
  ELSE IF fixed.type = "OPT"
    THEN IF ~is_additional \/ s.edns \/ owner.name # <<>> THEN Failed(s)
         ELSE read_section(msg, [s EXCEPT !.edns = TRUE, !.pos = owner.end + 1 + fixed.rdlen],
                           count - 1, is_additional)
  ELSE IF ~rdata.ok THEN Failed(s)
  ELSE read_section(msg,
         [s EXCEPT !.pos = owner.end + 1 + fixed.rdlen,
                   !.rrs = Append(@, [name |-> owner.name, type |-> fixed.type, rdata |-> rdata.rdata])],
         count - 1, is_additional)

RECURSIVE ReadQuestions(_, _, _)
ReadQuestions(msg, s, count) ==
  LET qname == read_name(msg, s.pos) IN
  IF count = 0 \/ ~s.ok THEN s
  ELSE IF ~qname.ok \/ qname.end >= Len(msg) THEN Failed(s)
  ELSE ReadQuestions(msg, [s EXCEPT !.pos = qname.end + 1, !.questions = Append(@, qname.name)],
                     count - 1)

parse(msg) ==
  LET h == At(msg, 0)
      start == [ok |-> h.qdcount * kMinQuestionSize + (h.ancount + h.nscount + h.arcount) * kMinRRSize
                         <= Len(msg) - kHeaderSize,
                pos |-> kHeaderSize, questions |-> <<>>, rrs |-> <<>>, edns |-> FALSE]
      questions == ReadQuestions(msg, start, h.qdcount)
      answers == read_section(msg, questions, h.ancount, FALSE)
      authority == read_section(msg, answers, h.nscount, FALSE)
  IN  read_section(msg, authority, h.arcount, TRUE)

----------------------------------------------------------------------------
\* The cells of the name at pos, one after the other; -1 behind its end.
Walk(msg, pos) ==
  LET Next(c) == IF c \notin 0..(Len(msg) - 1) THEN -1
                 ELSE CASE At(msg, c).cell = "label" -> c + 1
                        [] At(msg, c).cell = "pointer" -> At(msg, c).to % (kMaxPointerOffset + 1)
                        [] OTHER -> -1
      cells[k \in 0..Len(msg)] == IF k = 0 THEN pos ELSE Next(cells[k - 1])
  IN  cells

\* The first k cells after pos are a name, its pointers all to before everything read.
IsName(msg, pos, k) ==
  LET cells == Walk(msg, pos)
      Among(kind) == {j \in 0..(k - 1) : At(msg, cells[j]).cell = kind}
  IN
  /\ \A j \in 0..k : cells[j] \in 0..(Len(msg) - 1)
  /\ At(msg, cells[k]).cell = "root"
  /\ \A j \in Among("pointer"), i \in 0..k : i <= j => cells[j + 1] < cells[i]
  /\ Cardinality(Among("pointer")) <= kMaxPointerJumps
  /\ Cardinality(Among("label")) < kMaxNameWireLength

\* "targets strictly decrease and no cycle can exist": whatever the message, read_name()
\* looks at no cell outside it and follows no pointer twice.  It accepts exactly the
\* names whose pointers lead back to before all that was read, no cell of which it then
\* looked at twice, and their labels in order.
ReadExactly(msg, pos) ==
  LET r == read_name(msg, pos)
      IsLabel(c) == At(msg, c).cell = "label"
      labels == SelectSeq(r.path, IsLabel)
      ends == {k \in 0..(Len(msg) - 1) : IsName(msg, pos, k)}
  IN
  /\ \A i, j \in DOMAIN r.path :
       /\ r.path[i] < Len(msg)
       /\ r.path[i] = r.path[j] /\ i # j => ~r.ok /\ At(msg, r.path[i]).cell = "label"
  /\ r.ok <=> ends # {}
  /\ r.ok =>
       /\ \A i \in DOMAIN r.path : r.path[i] = Walk(msg, pos)[i - 1]
       /\ Len(r.path) - 1 \in ends
       /\ r.name = [i \in DOMAIN labels |-> At(msg, labels[i]).text]
=============================================================================
