----------------------------- MODULE WireWriter -----------------------------
(***************************************************************************)
(* Building messages (core/wire/builder.cpp): names compressed against     *)
(* suffixes written before, whole RRsets until one does not fit, and the   *)
(* rollback of that one.  Cells are those of module WireReader, which      *)
(* reads back what is written here.                                        *)
(*                                                                         *)
(* The message is chosen on the way, one question or RRset at a time; what *)
(* was kept of it so far is history.                                       *)
(***************************************************************************)
EXTENDS WireReader, SequencesExt

CONSTANTS
  Canonical,     \* [label as spelled -> its canonical form]
  QNames,        \* names to ask
  RRsets,        \* non-empty sequences of records of one owner and type
  MaxQuestions, MaxRecords,   \* bounds of a message
  Sizes          \* limits callers set (bound: small)

kOptRecordSize == 2   \* root owner and fixed fields

VARIABLES
  options,     \* max_size and compress; whether the message has EDNS, and TC
  out,         \* the Writer's cells, the header's first
  suffixes_,   \* canonical suffix -> the offset it was written at
  section,     \* what build_message() writes now: 0 questions, 1 to 3 the sections, 4: the end
  counts,      \* [0..3 -> entries kept], for the header
  truncated,
  lost,        \* history: the section of what did not fit; 4: everything did
  previous,    \* the RRset written last, if any in this section
  kept         \* history: questions and records kept

vars == <<options, out, suffixes_, section, counts, truncated, lost, previous, kept>>

NoSet == <<>>

Options == [max_size : Sizes, compress : BOOLEAN, edns : BOOLEAN, tc : BOOLEAN]

Init ==
  /\ options \in Options
  /\ out = <<Root>>   \* filled in last
  /\ suffixes_ = [k \in {} |-> 0]
  /\ section = 0
  /\ counts = [i \in 0..3 |-> 0]
  /\ truncated = FALSE /\ lost = 4
  /\ previous = NoSet
  /\ kept = [questions |-> <<>>, rrs |-> <<>>]

----------------------------------------------------------------------------
(* Writer.  w: a Writer's cells and suffixes *)

Key(n) == [i \in DOMAIN n |-> Canonical[n[i]]]

Suffix(n, i) == SubSeq(n, i, Len(n))

CanTarget(offset) == offset <= kMaxPointerOffset

\* name(): labels up to the first suffix written before, then a pointer to it; each
\* label's own suffix becomes a target.  (No suffix of a name is one of its others.)
name(w, n) ==
  LET known == {i \in DOMAIN n : options.compress /\ Key(Suffix(n, i)) \in DOMAIN w.suffixes_}
      stop == IF known = {} THEN Len(n) + 1 ELSE Min(known)
      offset(i) == Len(w.out) + i - 1
      new == {i \in 1..(stop - 1) : options.compress /\ CanTarget(offset(i))}
  IN  [out |-> w.out \o [i \in 1..(stop - 1) |-> Label(n[i])]
                 \o <<IF known = {} THEN Root ELSE Pointer(w.suffixes_[Key(Suffix(n, stop))])>>,
       suffixes_ |-> [k \in DOMAIN w.suffixes_ \cup {Key(Suffix(n, i)) : i \in new} |->
                        IF k \in DOMAIN w.suffixes_ THEN w.suffixes_[k]
                        ELSE offset(Len(n) - Len(k) + 1)]]

Put(w, cell) == [w EXCEPT !.out = Append(@, cell)]

question(w, qname) == Put(name(w, qname), Fixed("question", 0))

\* rr(): the length is filled in once the RDATA is written.
rr(w, r) ==
  LET fixed == Put(name(w, r.name), Fixed(r.type, 0))
      field(v, f) == IF Layout[r.type][f] = "name" THEN name(v, r.rdata[f]) ELSE Put(v, Data(r.rdata[f]))
      done == FoldLeftDomain(field, fixed, r.rdata)
  IN  [done EXCEPT !.out[Len(fixed.out)].rdlen = Len(done.out) - Len(fixed.out)]

KeepTargets(w, mark) == [w EXCEPT !.out = SubSeq(@, 1, mark)]   \* wrong: they point at nothing

\* Offsets count from 0, so those from mark on are gone.
rollback(w, mark) ==
  [out |-> SubSeq(w.out, 1, mark),
   suffixes_ |-> [k \in {j \in DOMAIN w.suffixes_ : w.suffixes_[j] < mark} |-> w.suffixes_[k]]]

----------------------------------------------------------------------------
(* build_message() *)

W == [out |-> out, suffixes_ |-> suffixes_]

NoReserve == options.max_size   \* wrong: the OPT record comes on top

\* Room is left for OPT, so that a truncated response still carries EDNS.
limit == options.max_size - (IF options.edns THEN kOptRecordSize ELSE 0)

Fits(w) == Len(w.out) <= limit

\* What was written stays if it fits; otherwise it goes, and with it all that follows.
Keep(w) == out' = w.out /\ suffixes_' = w.suffixes_ /\ UNCHANGED <<truncated, lost>>

Overflow(w) ==
  /\ out' = rollback(w, Len(out)).out /\ suffixes_' = rollback(w, Len(out)).suffixes_
  /\ section' = 4
  /\ truncated' = (section < 3)   \* overflow of the additional section is not TC
  /\ lost' = section
  /\ UNCHANGED <<counts, previous, kept>>

WriteQuestion(qname) ==
  LET w == question(W, qname) IN
  /\ section = 0 /\ Len(kept.questions) < MaxQuestions
  /\ \/ /\ Fits(w) /\ Keep(w)
        /\ counts' = [counts EXCEPT ![0] = @ + 1]
        /\ kept' = [kept EXCEPT !.questions = Append(@, qname)]
        /\ UNCHANGED <<section, previous>>
     \/ ~Fits(w) /\ Overflow(w)
  /\ UNCHANGED options

SameRRset(a, b) == a.type = b.type /\ Key(a.name) = Key(b.name)

\* write_section(): an RRset is all the records next to each other that are of one.
WriteRRset(rrs) ==
  LET w == FoldLeft(rr, W, rrs) IN
  /\ section \in 1..3 /\ Len(kept.rrs) < MaxRecords
  /\ previous # NoSet => ~SameRRset(previous[1], rrs[1])
  /\ \/ /\ Fits(w) /\ Keep(w)
        /\ counts' = [counts EXCEPT ![section] = @ + Len(rrs)]
        /\ previous' = rrs
        /\ kept' = [kept EXCEPT !.rrs = @ \o rrs]
        /\ UNCHANGED section
     \/ ~Fits(w) /\ Overflow(w)
  /\ UNCHANGED options

NextSection ==
  /\ section < 3 /\ section' = section + 1 /\ previous' = NoSet
  /\ UNCHANGED <<options, out, suffixes_, counts, truncated, lost, kept>>

Next ==
  \/ \E qname \in QNames : WriteQuestion(qname)
  \/ \E rrs \in RRsets : WriteRRset(rrs)
  \/ NextSection

Spec == Init /\ [][Next]_vars

\* What is returned if the message ends here: OPT and header are written.
Header ==
  [cell |-> "header", qdcount |-> counts[0], ancount |-> counts[1], nscount |-> counts[2],
   arcount |-> counts[3] + (IF options.edns THEN 1 ELSE 0), tc |-> options.tc \/ truncated]

Built ==
  <<Header>> \o Tail(out) \o (IF options.edns THEN <<Root, Fixed("OPT", 0)>> ELSE <<>>)

----------------------------------------------------------------------------
\* Names compare without regard to case.
SameName(m, n) == Key(m) = Key(n)

SameRR(a, b) ==
  /\ SameRRset(a, b)
  /\ \A f \in DOMAIN a.rdata : IF Layout[a.type][f] = "name" THEN SameName(a.rdata[f], b.rdata[f])
                                                             ELSE a.rdata[f] = b.rdata[f]

\* parse() reads back exactly what build() kept, to the last cell, wherever the message
\* was cut off; the first question as it was spelled ("0x20 must survive the trip"); and
\* every compression target is, at any time, the suffix it stands for.
RoundTrip ==
  LET p == parse(Built) IN
  /\ p.ok /\ p.pos = Len(Built) /\ p.edns = options.edns
  /\ Len(p.questions) = Len(kept.questions) /\ Len(p.rrs) = Len(kept.rrs)
  /\ \A i \in DOMAIN p.questions : SameName(p.questions[i], kept.questions[i])
  /\ p.questions # <<>> => p.questions[1] = kept.questions[1]
  /\ \A i \in DOMAIN p.rrs : SameRR(p.rrs[i], kept.rrs[i])
  /\ \A k \in DOMAIN suffixes_ :
       read_name(out, suffixes_[k]).ok /\ Key(read_name(out, suffixes_[k]).name) = k

\* The message is never larger than the limit, OPT included; and TC says whether a
\* question, an answer or an authority record is missing, but not of additional ones.
TruncationHonest ==
  /\ Len(Built) <= options.max_size
  /\ Header.tc <=> options.tc \/ lost \in 0..2
=============================================================================
