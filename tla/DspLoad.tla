------------------------------ MODULE DspLoad -------------------------------
(***************************************************************************)
(* Loading the feedback computation: the commands of the IOC with gains,   *)
(* limits and offsets, matrix elements and filter coefficients             *)
(* (software/src/epics.c), and the one register they all go through.  Each *)
(* is written in up to three accesses: the first two latch the address and *)
(* the high half of the value, and the write of the low half takes what is *)
(* in the latches (gateware/modules/fofbDSP.v, fofbCalc.v).                *)
(*                                                                         *)
(* Gains, limits and offsets are alike: one memory each, addressed by the  *)
(* row, of which the gains are modelled.                                   *)
(*                                                                         *)
(* External: the filters.  One takes the coefficients of a set one after   *)
(* another and is then busy until it is told to use the set and a sample   *)
(* of the feedback arrives (docs/EPICSnotes.html:185-187; one reload slot, *)
(* fofbSupplyFilter.tcl).  An IOC sends a set in commands of PieceSize     *)
(* coefficients, starting with column 0; if MayAbandon it may give up a    *)
(* set and start another one, or the same one again.                       *)
(***************************************************************************)
EXTENDS Integers, Sequences

CONSTANTS
  RowCount,    (* CC_PROTOCOL_FOFB_CORRECTOR_CAPACITY: power supplies.      *)
  PlaneSize,   (* Columns of a plane of the matrix, 2^FOFB_MATRIX_ADDR_WIDTH. *)
  FirSize,     (* CC_PROTOCOL_FOFB_CORRECTOR_FIR_SIZE.                      *)
  PieceSize,   (* Coefficients in a command.                                *)
  Arguments,   (* What commands carry: values as high and low halves.       *)
  MayAbandon   (* Whether an IOC may give up a set of coefficients.         *)

ASSUME DspAssumption ==
  /\ RowCount \in Nat \ {0} /\ PlaneSize \in Nat \ {0}
  /\ FirSize \in Nat \ {0} /\ PieceSize \in Nat \ {0}
  /\ Arguments \subseteq Seq(Nat \X Nat) /\ MayAbandon \in BOOLEAN

VARIABLES
  activeRow,   \* epics.c: row whose set is incomplete
  command,     \* what is left of the current command
  step,        \* where its handler is
  latch,       \* the registers of fofbDSP.v; the plane is part of the column
  memory,      \* the memories written through them
  wanted,      \* History: what the IOC last sent for each place of them
  filter,      \* coefficients taken so far; told to use the set
  sending      \* the IOC: next column for the row it is sending

dspVars == <<activeRow, command, step, latch, memory, wanted, filter, sending>>

MatrixRows == 0 .. RowCount - 1
(* Those of the X plane, then those of the Y plane. *)
MatrixColumns == 0 .. 2 * PlaneSize - 1
Places == [kind : {"gain"}, row : MatrixRows, col : {0}]
          \cup [kind : {"matrix"}, row : MatrixRows, col : MatrixColumns]
NoRow == -1
NoCommand == [kind |-> "none", row |-> 0, col |-> 0, left |-> <<>>]

DspTypeOK ==
  /\ activeRow \in MatrixRows \cup {NoRow}
  /\ command \in [kind : {"none", "gain", "matrix", "fir"}, row : 0 .. RowCount, col : Nat,
                  left : Seq(Nat \X Nat)]
  /\ step \in {"idle", "begin", "element", "high", "low", "config"}
  /\ latch \in [row : MatrixRows, col : MatrixColumns, high : Nat]
  /\ memory \in [Places -> Nat \X Nat]
  /\ filter \in [MatrixRows -> [taken : Seq([value : Nat \X Nat, last : BOOLEAN]),
                                config : BOOLEAN]]
  /\ \A r \in MatrixRows : Len(filter[r].taken) <= FirSize
  /\ sending \in [row : MatrixRows \cup {NoRow}, col : 0 .. FirSize - 1]

(* After configuration of the gateware. *)
DspInit ==
  /\ activeRow = NoRow /\ command = NoCommand /\ step = "idle"
  /\ latch = [row |-> 0, col |-> 0, high |-> 0]
  /\ memory = [p \in Places |-> <<0, 0>>] /\ wanted = memory
  /\ filter = [r \in MatrixRows |-> [taken |-> <<>>, config |-> FALSE]]
  /\ sending = [row |-> NoRow, col |-> 0]

reloadReady == \A r \in MatrixRows : Len(filter[r].taken) < FirSize
configReady == \A r \in MatrixRows : ~filter[r].config

-----------------------------------------------------------------------------
(* Commands *)

(* A command with a value for each row from the first; what is too many is *)
(* left out.                                                               *)
UpdateCommand(args) ==
  LET n == IF Len(args) > RowCount THEN RowCount ELSE Len(args)
  IN  /\ step = "idle" /\ step' = "element"
      /\ command' = [kind |-> "gain", row |-> 0, col |-> 0, left |-> [k \in 1 .. n |-> args[k]]]
      /\ wanted' = [p \in Places |-> IF p.kind = "gain" /\ p.row < n THEN args[p.row + 1]
                                     ELSE wanted[p]]
      /\ UNCHANGED <<activeRow, latch, memory, filter, sending>>

(* A command with elements of a row of the matrix, from a column on. *)
RowCommand(r, c, args) ==
  /\ step = "idle" /\ step' = "element"
  /\ command' = [kind |-> "matrix", row |-> r, col |-> c, left |-> args]
  /\ wanted' = [p \in Places |->
       IF p.kind = "matrix" /\ p.row = r /\ p.col \in c .. c + Len(args) - 1
       THEN args[p.col - c + 1] ELSE wanted[p]]
  /\ UNCHANGED <<activeRow, latch, memory, filter, sending>>

(* The coefficients of the filters are told apart. *)
Coefficient(r, c) == <<r * FirSize + c, r * FirSize + c>>

(* The plane bit marks the last coefficient of a set. *)
LastMark == PlaneSize

(* A command with filter coefficients arrives.  For another row than that  *)
(* of an incomplete set a last coefficient of 0 is addressed and latched,  *)
(* and not written.                                                        *)
FirCommand ==
  /\ step = "idle" /\ sending.row # NoRow
  /\ command' = [kind |-> "fir", row |-> sending.row, col |-> sending.col,
                 left |-> [k \in 1 .. PieceSize |-> Coefficient(sending.row, sending.col + k - 1)]]
  /\ sending' = IF sending.col + PieceSize >= FirSize THEN [row |-> NoRow, col |-> 0]
                ELSE [sending EXCEPT !.col = @ + PieceSize]
  /\ latch' = IF activeRow \in {NoRow, sending.row} THEN latch
              ELSE [row |-> activeRow, col |-> LastMark, high |-> 0]
  /\ activeRow' = sending.row
  /\ step' = "begin"
  /\ UNCHANGED <<memory, wanted, filter>>

(* Waits until no filter is busy. *)
FirBegin ==
  /\ step = "begin" /\ reloadReady /\ configReady
  /\ latch' = [latch EXCEPT !.row = command.row, !.col = 0]
  /\ step' = "element"
  /\ UNCHANGED <<activeRow, command, memory, wanted, filter, sending>>

-----------------------------------------------------------------------------
(* The elements of a command, one access of the register after another *)

IsFir == command.kind = "fir"
TooMany == IsFir /\ command.col = FirSize

(* Faulty variant of LastColumn: one too far. *)
LastColumnOver == FirSize
LastColumn == FirSize - 1

(* Every element is addressed, of a set of coefficients only the last. *)
LatchAddress ==
  /\ step = "element" /\ command.left # <<>> /\ ~TooMany
  /\ latch' = IF ~IsFir THEN [latch EXCEPT !.row = command.row, !.col = command.col]
              ELSE IF command.col = LastColumn
              THEN [latch EXCEPT !.row = command.row, !.col = LastMark]
              ELSE latch
  /\ step' = "high"
  /\ UNCHANGED <<activeRow, command, memory, wanted, filter, sending>>

(* Faulty variant of HighHalf: what was latched before stays. *)
HighHalfOld(v) == latch.high
HighHalf(v) == v[1]

LatchHigh ==
  /\ step = "high"
  /\ latch' = [latch EXCEPT !.high = HighHalf(Head(command.left))]
  /\ step' = "low"
  /\ UNCHANGED <<activeRow, command, memory, wanted, filter, sending>>

(* What the register has when the low half is written. *)
coefficientWriteValue == <<latch.high, Head(command.left)[2]>>

NextElement ==
  command' = [command EXCEPT !.row = IF command.kind = "gain" THEN @ + 1 ELSE @,
                             !.col = IF command.kind = "gain" THEN @ ELSE @ + 1,
                             !.left = Tail(@)]

(* The memory of the command takes the value, at the row and column that   *)
(* are latched; that of the gains has no columns.                          *)
WriteElement ==
  /\ step = "low" /\ ~IsFir
  /\ memory' = [memory EXCEPT ![[kind |-> command.kind, row |-> latch.row,
                                 col |-> IF command.kind = "gain" THEN 0 ELSE latch.col]]
                  = coefficientWriteValue]
  /\ NextElement /\ step' = "element"
  /\ UNCHANGED <<activeRow, latch, wanted, filter, sending>>

(* The filter of the latched row takes a coefficient, when none is busy    *)
(* with a full set.                                                        *)
FirReload ==
  /\ step = "low" /\ IsFir /\ reloadReady
  /\ filter' = [filter EXCEPT ![latch.row].taken =
       Append(@, [value |-> coefficientWriteValue, last |-> latch.col >= PlaneSize])]
  /\ IF command.col = LastColumn THEN step' = "config" /\ UNCHANGED command
     ELSE NextElement /\ step' = "element"
  /\ UNCHANGED <<activeRow, latch, memory, wanted, sending>>

(* The set is complete: the filter of the latched row is to use it. *)
FirConfig ==
  /\ step = "config" /\ configReady
  /\ filter' = [filter EXCEPT ![latch.row].config = TRUE]
  /\ activeRow' = NoRow
  /\ NextElement /\ step' = "element"
  /\ UNCHANGED <<latch, memory, wanted, sending>>

(* No elements are left, or too many coefficients were sent. *)
CommandEnd ==
  /\ step = "element" /\ (command.left = <<>> \/ TooMany)
  /\ step' = "idle" /\ command' = NoCommand
  /\ UNCHANGED <<activeRow, latch, memory, wanted, filter, sending>>

(* External: a sample of the feedback lets the filters change sets. *)
Sample ==
  /\ filter' = [r \in MatrixRows |->
       IF filter[r].config /\ Len(filter[r].taken) = FirSize
       THEN [taken |-> <<>>, config |-> FALSE] ELSE filter[r]]
  /\ UNCHANGED <<activeRow, command, step, latch, memory, wanted, sending>>

(* External: the IOC starts a set. *)
StartSet(r) ==
  /\ sending.row = NoRow \/ MayAbandon
  /\ step = "idle"
  /\ sending' = [row |-> r, col |-> 0]
  /\ UNCHANGED <<activeRow, command, step, latch, memory, wanted, filter>>

Handler ==
  \/ FirBegin \/ LatchAddress \/ LatchHigh \/ WriteElement \/ FirReload \/ FirConfig
  \/ CommandEnd

(* An IOC sends no more elements than the row has columns. *)
DspNext ==
  \/ \E args \in Arguments : UpdateCommand(args)
  \/ \E r \in MatrixRows, c \in MatrixColumns, args \in Arguments :
       c + Len(args) <= 2 * PlaneSize /\ RowCommand(r, c, args)
  \/ FirCommand
  \/ FirBegin \/ LatchAddress \/ LatchHigh \/ WriteElement \/ FirReload \/ FirConfig
  \/ CommandEnd
  \/ Sample
  \/ \E r \in MatrixRows : StartSet(r)

(* The server goes on with a command, and the feedback runs. *)
DspFairness == WF_dspVars(Handler) /\ WF_dspVars(Sample)
DspSpec == DspInit /\ [][DspNext]_dspVars /\ DspFairness

-----------------------------------------------------------------------------
(* Properties *)

(* When a command is done, every place of the memories holds what was last *)
(* sent for it, and before that only the places that the command has still *)
(* to write do not.                                                        *)
StillToWrite(p) ==
  \/ p.kind = "gain" /\ command.kind = "gain" /\ p.row >= command.row
     /\ p.row < command.row + Len(command.left)
  \/ p.kind = "matrix" /\ command.kind = "matrix" /\ p.row = command.row
     /\ p.col >= command.col /\ p.col < command.col + Len(command.left)
MemoryAsSent == \A p \in Places : memory[p] = wanted[p] \/ StillToWrite(p)

(* A filter has the coefficients of its own row in their order, the last   *)
(* and no other is marked, and only a whole set is used.                   *)
FilterAsSent(r) ==
  /\ \A k \in DOMAIN filter[r].taken :
       filter[r].taken[k] = [value |-> Coefficient(r, k - 1), last |-> k = FirSize]
  /\ filter[r].config => Len(filter[r].taken) = FirSize

(* What is written through the shared latches arrives as it was sent, each *)
(* value whole and at its own place, though commands of every kind leave   *)
(* their own address, mark and high half there (epics.c:146-169,207-289;   *)
(* fofbDSP.v:51-79; fofbCalc.v:165-184,239-245).  Of the filters only if   *)
(* no set is given up.                                                     *)
ValuesAsSent ==
  /\ MemoryAsSent
  /\ ~MayAbandon => \A r \in MatrixRows : FilterAsSent(r)

(* While the feedback runs, a command is always finished                   *)
(* (epics.c:223-224,244-252; docs/EPICSnotes.html:185-187: the filter      *)
(* accepts coefficients when it is receiving data).  Violated if sets are  *)
(* given up: an old set and a new one fill a filter with more than it      *)
(* takes, though the software checks "for partial fill" (epics.c:212).     *)
FirCommandsEnd == (step # "idle") ~> (step = "idle")
=============================================================================
