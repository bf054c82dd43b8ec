---------------------------- MODULE MCTftpServer ----------------------------
(* The TFTP server with a small flash: a block is two cells and a header   *)
(* one; two sectors of four cells, then two of two; the first sector is    *)
(* write protected.  File 1 begins in the second sector and goes on into   *)
(* the small ones; file 2 is the last sector; file 3 is the whole flash.   *)
EXTENDS TftpServer

OldFlash == [a \in Cells |-> 20 + a]
AnyContents == 1 .. 9 \cup 20 .. 31

Files == << [base |-> 4, length |-> 6], [base |-> 10, length |-> 2],
            [base |-> 0, length |-> 12] >>

Write(f, n) == [opcode |-> "WRQ", file |-> f, size |-> n]
Read(f) == [opcode |-> "RRQ", file |-> f, size |-> 0]
Malformed == [opcode |-> "RRQ", file |-> 0, size |-> 0]

(* Writes that end in a short block or in an empty one, one too long for   *)
(* its file and one into the protected sector.                             *)
Reads == {Read(1), Read(2)}
AnyTransfer ==
  {Write(1, 3), Write(1, 5), Write(1, 6), Write(1, 7), Write(3, 3),
   Malformed} \cup Reads

ASSUME TheoremsApply == Layout /\ OneClient /\ ContentsWritten
=============================================================================
