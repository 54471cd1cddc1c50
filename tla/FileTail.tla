------------------------------ MODULE FileTail ------------------------------
(***************************************************************************)
(* logingest/source.go: how FileSource follows a file that grows, is       *)
(* truncated and is replaced.                                              *)
(*                                                                         *)
(* A line is written in two units, its beginning and its end (which holds  *)
(* the newline); all units ever written are numbered, so that unit 2n - 1  *)
(* begins line n and unit 2n ends it.  The content of a file is the        *)
(* sequence of its units, and offsets count units.                         *)
(***************************************************************************)
EXTENDS Integers, Sequences

IsEnd(unit) == unit % 2 = 0

\* The variables of FileSource.Run: the open file (0 is nil), the offset as the
\* code counts it, the position of the reader and what it has buffered.  from,
\* clean and parts are history: where reading began, whether the file has not been
\* truncated since, and the units that were consumed before their line had an end.
NoTail ==
    [ino |-> 0, off |-> 0, pos |-> 0, buf |-> <<>>, from |-> 0, clean |-> TRUE, parts |-> {}]

\* A file the process may read: its inode, or 0.
Readable(fs) == IF fs.path # 0 /\ fs.path \notin fs.denied THEN fs.path ELSE 0

\* open(): the old file is closed; reading begins at the end of the new one, at
\* startup and after a rotation alike (main.go never sets FromStart).
Opened(tail, fs) ==
    LET ino == Readable(fs)
        size == IF ino = 0 THEN 0 ELSE Len(fs.files[ino])
    IN IF ino = 0 THEN [tail EXCEPT !.ino = 0, !.buf = <<>>]
       ELSE [ino |-> ino, off |-> size, pos |-> size, buf |-> <<>>,
             from |-> size, clean |-> TRUE, parts |-> {}]

\* Mutant: the inode is not compared.
RotatedBySize(tail, fs) == Len(fs.files[fs.path]) < tail.off

\* "truncated (smaller) or replaced (different inode)".
Rotated(tail, fs) == Len(fs.files[fs.path]) < tail.off \/ fs.path # tail.ino

\* ReadString: the buffer, filled up from the file when it holds no newline.
Ends(units) == {i \in DOMAIN units : IsEnd(units[i])}
Fresh(tail, fs) == SubSeq(fs.files[tail.ino], tail.pos + 1, Len(fs.files[tail.ino]))
Fills(tail) == Ends(tail.buf) = {}
Data(tail, fs) == IF Fills(tail) THEN tail.buf \o Fresh(tail, fs) ELSE tail.buf
PosAfter(tail, fs) == IF Fills(tail) THEN tail.pos + Len(Fresh(tail, fs)) ELSE tail.pos

FirstEnd(units) == CHOOSE i \in Ends(units) : \A j \in Ends(units) : i <= j

\* The line that ReadString returns, <<>> if there is no newline yet.
LineRead(tail, fs) ==
    LET data == Data(tail, fs) IN
    IF Ends(data) = {} THEN <<>> ELSE SubSeq(data, 1, FirstEnd(data))

\* Mutant: the part is kept, and read again, too.
AfterPartTwice(tail, fs) == [tail EXCEPT !.buf = Data(tail, fs)]

\* After a line; after a part of one, which is consumed while the offset is set
\* back by its length.
AfterLine(tail, fs) ==
    LET data == Data(tail, fs) IN
    [tail EXCEPT !.pos = PosAfter(tail, fs), !.off = @ + FirstEnd(data),
                 !.buf = SubSeq(data, FirstEnd(data) + 1, Len(data))]
AfterPart(tail, fs) ==
    LET data == Data(tail, fs) IN
    [tail EXCEPT !.pos = PosAfter(tail, fs), !.buf = <<>>,
                 !.parts = @ \cup {data[i] : i \in DOMAIN data}]
=============================================================================
