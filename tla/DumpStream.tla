----------------------------- MODULE DumpStream -----------------------------
(***************************************************************************)
(* The SVN dump format as the program writes and reads it.                 *)
(*                                                                         *)
(* A stream is a sequence of lines.  The bytes that Content-length counts  *)
(* (a property block, the text of a file) are one "block" line; lengths    *)
(* are counted in units: a property block has length 1, a text that is not *)
(* empty has length 1.  Dates survive the trip at the resolution that is   *)
(* stored and are left out.                                                *)
(***************************************************************************)
EXTENDS TreeDelta, Naturals, Sequences, SequencesExt

CONSTANTS
    Order,      \* the paths as ORDER BY path lists them
    Text, EmptyText, BadText,   \* contents; the empty one; bytes cut at the wrong place
    Author, Message, Empty,     \* authors and log messages; the empty one
    Unknown,    \* the author "unknown"
    FirstLine,  \* FirstLine[m]: the first line of a message
    NoProp      \* no such property, header or value

FileEntry == [kind : {"file"}, text : Text, exec : BOOLEAN]
DirEntry == [kind |-> "dir", text |-> EmptyText, exec |-> FALSE]

ASSUME StreamAssumption ==
    /\ \A p \in Path : \E i \in DOMAIN Order : Order[i] = p
    /\ \A e \in Entry : e \in FileEntry \/ e = DirEntry
    /\ EmptyText \in Text /\ BadText \in Text
    /\ Empty \in Author \cap Message /\ Unknown \in Author
    /\ FirstLine \in [Message -> Message]

(***************************************************************************)
(* Lines.                                                                  *)
(***************************************************************************)
Line(h, v) == [h |-> h, v |-> v]
Blank == Line("", NoProp)
Block(author, message, text) == [h |-> "block", author |-> author, message |-> message, text |-> text]
Size(text) == IF text = EmptyText THEN 0 ELSE 1
Lengths == {"Prop-content-length", "Text-content-length", "Content-length"}

-----------------------------------------------------------------------------
(***************************************************************************)
(* The writers.  A history is a sequence of [author, message, delta].      *)
(***************************************************************************)
SourceTree(history) ==
    LET T[r \in 0..Len(history)] == IF r = 0 THEN EmptyTree ELSE ApplyDelta(T[r - 1], history[r].delta)
    IN T

\* build_rev_props: a property with an empty value is not written
RevProps(value) == IF value = Empty THEN NoProp ELSE value

\* the record of a revision; one without a commit (revision 0) has no properties
WriteRevProps(history, r) ==
    LET has == r \in DOMAIN history IN
    << Line("Revision-number", r), Line("Prop-content-length", 1), Line("Content-length", 1), Blank,
       Block(IF has THEN RevProps(history[r].author) ELSE NoProp,
             IF has THEN RevProps(history[r].message) ELSE NoProp, EmptyText),
       Blank >>

DeleteNode(p) == << Line("Node-path", p), Line("Node-action", "delete"), Blank >>

\* Mutant: the tree is asked at the revision itself instead of the one before.
WriteChangeLate(history, r, p, lost) ==
    LET e == history[r].delta[p] IN
    IF e = Delete THEN DeleteNode(p)
    ELSE << Line("Node-path", p), Line("Node-kind", e.kind),
            Line("Node-action", IF r > 1 /\ SourceTree(history)[r][p] # NoEntry THEN "change" ELSE "add"),
            Line("Prop-content-length", 1), Line("Text-content-length", Size(e.text)),
            Line("Content-length", 1 + Size(e.text)), Blank, Block(NoProp, NoProp, e.text), Blank >>

\* write_change_to_buf (HTTP): what is new is added, what the previous tree
\* has is changed; a file that cannot be read is left out
WriteChange(history, r, p, lost) ==
    LET e == history[r].delta[p]
        action == IF r > 1 /\ SourceTree(history)[r - 1][p] # NoEntry THEN "change" ELSE "add"
    IN CASE e = Delete -> DeleteNode(p)
         [] e \in lost -> << >>
         [] OTHER ->
              << Line("Node-path", p), Line("Node-kind", e.kind), Line("Node-action", action),
                 Line("Prop-content-length", 1) >>
              \o (IF e.kind = "file" THEN << Line("Text-content-length", Size(e.text)), Line("Text-content-md5", NoProp) >>
                  ELSE << >>)
              \o << Line("Content-length", 1 + Size(e.text)), Blank, Block(NoProp, NoProp, e.text), Blank, Blank >>

WriteRevision(history, r, lost) ==
    WriteRevProps(history, r)
    \o (IF r \in DOMAIN history
        THEN FlattenSeq([i \in DOMAIN Order |->
                 IF history[r].delta[Order[i]] = NoChange THEN << >> ELSE WriteChange(history, r, Order[i], lost)])
        ELSE << >>)

\* DumpParams::from_query: the end is cut at the head, then the two are put in order
WebdavRange(start, end, head) ==
    LET e == IF end < head THEN end ELSE head IN IF start > e THEN <<e, start>> ELSE <<start, e>>

\* the range of dsvn-admin dump; a start above the head is an error
AdminRange(start, end, head) == <<start, IF end < head THEN end ELSE head>>

StreamHeader == << Line("SVN-fs-dump-format-version", NoProp), Blank, Line("UUID", NoProp), Blank >>

\* generate_dump
Dump(history, range, lost) ==
    StreamHeader
    \o FlattenSeq([i \in 1..(IF range[1] > range[2] THEN 0 ELSE range[2] - range[1] + 1) |->
                      WriteRevision(history, range[1] + i - 1, lost)])

\* the Dump command: write_revision writes the number of the first revision
\* and calls Handle::block_on, which panics inside the runtime of main
AdminDump(range) ==
    StreamHeader \o (IF range[1] > range[2] THEN << >> ELSE << Line("Revision-number", range[1]) >>)

-----------------------------------------------------------------------------
(***************************************************************************)
(* The parsers.  Each is a loop over lines whose nested loops are the      *)
(* modes: the top level, the headers of a revision, its property block,    *)
(* the headers of a node, its length headers, its block and the newline    *)
(* after it.  rev and node are what is being collected, lens the lengths   *)
(* seen so far, first the length header that was seen first.               *)
(***************************************************************************)
NewNode(p) == [path |-> p, kind |-> NoProp, action |-> NoProp, copied |-> FALSE, text |-> EmptyText]
NewRev(n) == [num |-> n, author |-> Unknown, message |-> Empty, nodes |-> << >>]
InNode == {"node", "lengths", "node_block"}
NoLens == [l \in Lengths |-> 0]
ParserInit == [mode |-> "top", rev |-> NoProp, node |-> NoProp, lens |-> NoLens, first |-> NoProp]

Total(s) ==
    IF s.lens["Content-length"] > 0 THEN s.lens["Content-length"]
    ELSE s.lens["Prop-content-length"] + s.lens["Text-content-length"]

\* a node outside any revision is dropped
PushNode(s, mode) ==
    [s EXCEPT !.mode = mode,
              !.rev = IF @ = NoProp THEN @ ELSE [@ EXCEPT !.nodes = Append(@, s.node)]]

TopLine(s, line) ==
    CASE line.h = "Revision-number" -> [s EXCEPT !.mode = "rev", !.rev = NewRev(line.v), !.lens = NoLens]
      [] line.h = "Node-path" -> [s EXCEPT !.mode = "node", !.node = NewNode(line.v), !.lens = NoLens]
      [] OTHER -> s

\* read_hdr_buf and read_content_headers
RevLine(s, line) ==
    CASE line.h = "" -> [s EXCEPT !.mode = IF Total(s) > 0 THEN "rev_block" ELSE "top"]
      [] line.h \in {"Prop-content-length", "Content-length"} -> [s EXCEPT !.lens[line.h] = line.v]
      [] OTHER -> s

\* parse_props_block and parse_props read a value up to the end of its line
RevBlock(s, line) ==
    [s EXCEPT !.mode = "top",
              !.rev.author = IF line.author = NoProp THEN Unknown ELSE line.author,
              !.rev.message = IF line.message = NoProp THEN Empty ELSE FirstLine[line.message]]

\* the first loop of parse_node_headers, and of the other two parsers
NodeLine(s, line) ==
    CASE line.h = "" -> PushNode(s, "top")
      [] line.h = "Node-kind" -> [s EXCEPT !.node.kind = line.v]
      [] line.h = "Node-action" -> [s EXCEPT !.node.action = line.v]
      [] line.h = "Node-copyfrom" -> [s EXCEPT !.node.copied = TRUE]
      [] line.h \in Lengths -> [s EXCEPT !.mode = "lengths", !.first = line.h, !.lens[line.h] = line.v]
      [] OTHER -> s

\* Mutant: after the length of the properties only the total is looked at.
LaterLengthsTotal(parser, first) ==
    IF parser = "webdav" THEN Lengths ELSE {"Content-length"}

\* which of the later length headers a parser looks at; the HTTP one looks at all
LaterLengths(parser, first) ==
    IF parser = "webdav" THEN Lengths
    ELSE CASE first = "Prop-content-length" -> {"Text-content-length", "Content-length"}
           [] first = "Text-content-length" -> {"Content-length"}
           [] OTHER -> {}

LengthLine(parser, s, line) ==
    CASE line.h = "" -> IF Total(s) > 0 THEN [s EXCEPT !.mode = "node_block"] ELSE PushNode(s, "newline")
      [] line.h \in LaterLengths(parser, s.first) -> [s EXCEPT !.lens[line.h] = line.v]
      [] OTHER -> s

\* the text follows the properties; a parser that has seen no length for
\* them takes it from the start of the block
NodeText(parser, s, line) ==
    LET pl == s.lens["Prop-content-length"]
        tl == s.lens["Text-content-length"]
    IN CASE tl = 0 -> EmptyText
         [] tl > 0 /\ pl + tl = Total(s) -> line.text
         [] pl + tl > Total(s) /\ parser = "admin" -> EmptyText
         [] OTHER -> BadText

NodeBlock(parser, s, line) == PushNode([s EXCEPT !.node.text = NodeText(parser, s, line)], "newline")

ParseLine(parser, s, line) ==
    CASE s.mode = "top" -> TopLine(s, line)
      [] s.mode = "rev" -> RevLine(s, line)
      [] s.mode = "rev_block" -> RevBlock(s, line)
      [] s.mode = "node" -> NodeLine(s, line)
      [] s.mode = "lengths" -> LengthLine(parser, s, line)
      [] s.mode = "node_block" -> NodeBlock(parser, s, line)
      [] s.mode = "newline" -> [s EXCEPT !.mode = "top"]

\* on_revision is called when the next revision starts, and at the end
Flushes(s, line) == s.mode = "top" /\ line.h = "Revision-number" /\ s.rev # NoProp

\* the end of the stream inside a node's headers ends the node; where a
\* block is due, read_exact fails
AtEnd(s) == IF s.mode \in {"node", "lengths"} THEN PushNode(s, "top") ELSE s
FailsAtEnd(s) == s.mode \in {"rev_block", "node_block"} \/ (s.mode \in {"rev", "lengths"} /\ Total(s) > 0)

-----------------------------------------------------------------------------
(***************************************************************************)
(* parse_dump_file, the in-memory parser of dump.rs: the same lines, but   *)
(* a list of entries in which a node is pushed when the next node or       *)
(* revision starts, and a revision's own entry after its nodes.            *)
(***************************************************************************)
FileInit == [p |-> ParserInit, num |-> 0, held |-> << >>, entries |-> << >>]
NodeEntry(n, node) == [num |-> n, node |-> node]
RevEntry(rev) == [num |-> rev.num, author |-> rev.author, message |-> rev.message]

FileLine(f, line) ==
    LET p == ParseLine("admin", f.p, line)
        starts == f.p.mode = "top" /\ line.h \in {"Revision-number", "Node-path"}
        ends == f.p.mode \in InNode /\ p.mode \notin InNode
        last == IF Flushes(f.p, line) THEN << RevEntry(f.p.rev) >> ELSE << >>
    IN [p |-> p,
        num |-> IF starts /\ line.h = "Revision-number" THEN line.v ELSE f.num,
        held |-> IF ends THEN << NodeEntry(f.num, p.node) >> ELSE IF starts THEN << >> ELSE f.held,
        entries |-> IF starts THEN f.entries \o f.held \o last ELSE f.entries]

FileAtEnd(f) ==
    IF f.p.mode \in {"node", "lengths"} THEN [f EXCEPT !.p = AtEnd(@), !.held = << NodeEntry(f.num, f.p.node) >>] ELSE f

FileEntries(f) == f.entries \o f.held \o (IF f.p.rev = NoProp THEN << >> ELSE << RevEntry(f.p.rev) >>)
=============================================================================
