----------------------------- MODULE IicProofs -----------------------------
(***************************************************************************)
(* The I2C bus: it has one master at a time and leads to the device that   *)
(* is meant, and a command did to the device what it reports, for any size *)
(* of the EEPROM and any number of commands.                               *)
(*                                                                         *)
(* What is left of a command is the rest of a program: rules for each of   *)
(* its items, and for each item and the next, hold in all that may be left *)
(* of it, whatever was not acknowledged.  What is known of the bus, of the *)
(* EEPROM and of the oscillator before an item follows from its rules.     *)
(***************************************************************************)
EXTENDS IicBus, SequenceTheorems, WellFoundedInduction, TLAPS

(* Of the natural numbers in a set there is a least one. *)
LEMMA LeastNatural ==
  ASSUME NEW T \in SUBSET Nat, T # {}
  PROVE  \E x \in T : \A y \in T : x <= y
<1> DEFINE R == {ss \in Nat \X Nat : ss[1] < ss[2]}
<1>1. IsWellFoundedOn(R, Nat)
  BY NatLessThanWellFounded DEF OpToRel
<1>2. \A x, y \in Nat : y < x => <<y, x>> \in R
  OBVIOUS
<1> HIDE DEF R
<1>3. \E x \in T : \A y \in T : ~ (<<y, x>> \in R)
  BY <1>1, WFMin
<1>4. PICK x \in T : \A y \in T : ~ (<<y, x>> \in R)
  BY <1>3
<1>5. \A y \in T : ~ (y < x)
  BY <1>2, <1>4
<1>6. \A y \in T : x <= y
  BY <1>5
<1>7. QED
  BY <1>6

(***************************************************************************)
(* Programs                                                                *)
(***************************************************************************)

ClockValues == {"startup", "target", "freeze", "unfreeze", "apply"}
BusValue == Nat \cup Ppm \cup ClockValues
BusName == {"suspend", "wait", "give", "mux", "trymux", "access", "try", "found", "addr", "sub",
            "byte", "poll", "start", "stop", "report", "grab", "resume", "nothing",
            "fmc", "qsfp", "switch", "osc", "eeprom", "small", "halt", "unknown", ""}
BusItem == [op : BusName, device : BusName, value : BusValue, onNack : BusName, mark : BusName]

ToEeprom(a) == a.op \in {"addr", "sub", "byte", "poll"}

(* An item of a transfer, between START and STOP. *)
Transfer(a) == ToEeprom(a) \/ a.op \in {"start", "stop"}

(* An item for which the processor has the bus. *)
Session(a) == a.op \notin {"suspend", "wait", "grab", "resume", "nothing"}

(* An item that needs the multiplexer at the port of its device. *)
OnPort(a) == Transfer(a) \/ a.op = "access"
DeviceOf(a) == IF Transfer(a) THEN "fmc" ELSE a.device

(* A value written to the oscillator, for the target or for the offset. *)
ToClock(a) == a.op = "access" /\ a.device = "osc"
Clock(a, v, onNack) == ToClock(a) /\ a.value = v /\ a.onNack = onNack

(* An item by itself, in a command that writes n bytes or sets offset p.   *)
ErrorPathRight(a) ==
  /\ a.onNack \in {"", "give", "small", "halt", "unknown"}
  /\ a.onNack = "halt" <=> ToEeprom(a)
  /\ a.onNack \in {"give", "small"} <=> a.op \in {"mux", "access"}
  /\ a.onNack = "unknown" => a.op = "found"
  /\ a.mark = "give" <=> a.op = "give"
  /\ a.mark = "unknown" <=> a.op = "nothing"
  /\ a.mark = "halt" => a.op = "stop"
  /\ a.mark = "small" => a.op = "mux"
  /\ a.mark \in {"", "give", "small", "halt", "unknown"}

TargetRight(a, n, p) ==
  /\ a.op \in {"mux", "trymux"} => a.device \in BusDevices /\ a.value = Port[a.device]
  /\ a.op = "access" => a.device \in BusDevices
  /\ a.op = "try" => a.device \in BusDevices \ {"osc"}
  /\ ToEeprom(a) => a.device = "fmc"
  /\ ToEeprom(a) \/ a.op = "stop" => a.value \in Nat
  /\ a.op = "sub" => a.value < n /\ a.value % PageSize = 0
  /\ a.op = "byte" => a.value < n
  /\ a.op = "report" /\ a.device = "eeprom" => a.value = n
  /\ a.op = "report" /\ a.device = "osc" => a.value = p
  /\ ToClock(a) \/ (a.op = "report" /\ a.device = "osc") => p \in Ppm
  /\ ToClock(a) => a.value \in ClockValues \cup {p}
  /\ ToClock(a) /\ a.value = "startup" => a.onNack = "small"
  /\ ToClock(a) /\ a.value = "target" => a.onNack = "small"
  /\ ToClock(a) /\ a.value = p => a.onNack = "give"

(* An item a and the next, b: taking the bus and giving it back. *)
TurnFollows(a, b) ==
  /\ b.op # "suspend"
  /\ a.op = "suspend" <=> b.op = "wait"
  /\ a.op = "grab" <=> b.op \in {"grab", "resume"}
  /\ a.op = "give" <=> b.op = "nothing"
  /\ a.op \notin {"nothing", "resume"}
  /\ a.op = "report" => b.op = "give"

(* Transfers end with STOP, and are to the device of the multiplexer.      *)
TransferFollows(a, b) ==
  /\ Transfer(a) => Transfer(b) \/ a.op = "stop"
  /\ OnPort(b) => (OnPort(a) \/ a.op = "mux") /\ DeviceOf(a) = DeviceOf(b)

(* A page of the EEPROM after the other. *)
PageFollows(a, b, n) ==
  /\ b.op = "addr" => a.op = "mux"
  /\ b.op = "sub" => \/ a.op = "addr" /\ b.value = 0
                     \/ a.op = "poll" /\ a.value = b.value
  /\ b.op = "byte" => \/ a.op = "sub" /\ b.value = a.value
                      \/ a.op = "byte" /\ b.value = a.value + 1 /\ b.value % PageSize # 0
  /\ b.op = "stop" /\ b.mark = "" => a.op = "byte" /\ b.value = a.value + 1
  /\ b.op = "poll" => a.op = "stop" /\ a.mark = "" /\ a.value = b.value
  /\ b.op = "start" => a.op = "poll" /\ a.value = n
  /\ b.op = "stop" /\ b.mark = "halt" => a.op = "start"
  /\ b.op = "report" /\ b.device = "eeprom" => n = 0 \/ (a.op = "stop" /\ a.mark = "halt")

(* The values written to the oscillator, for the target and the offset.    *)
ClockFollows(a, b, p) ==
  /\ Clock(b, "freeze", "small") => Clock(a, "startup", "small")
  /\ Clock(b, "target", "small") => Clock(a, "freeze", "small")
  /\ Clock(b, "unfreeze", "small") => Clock(a, "target", "small")
  /\ Clock(b, "apply", "small") => Clock(a, "unfreeze", "small")
  /\ b.mark = "small" => Clock(a, "apply", "small")
  /\ Clock(b, "freeze", "give") => a.mark = "small"
  /\ Clock(b, p, "give") => Clock(a, "freeze", "give")
  /\ Clock(b, "unfreeze", "give") => Clock(a, p, "give")
  /\ Clock(b, "apply", "give") => Clock(a, "unfreeze", "give")
  /\ b.op = "report" /\ b.device = "osc" => Clock(a, "apply", "give")

Right(a, n, p) == ErrorPathRight(a) /\ TargetRight(a, n, p)
Follows(a, b, n, p) ==
  TurnFollows(a, b) /\ TransferFollows(a, b) /\ PageFollows(a, b, n) /\ ClockFollows(a, b, p)

(* A transfer that may fail. *)
MayFail(a) == a.onNack # ""

(* What is in a program: its operations, those to the oscillator apart.    *)
Kind(a) == IF ToClock(a) THEN "clock" ELSE a.op
Kinds(s) == {Kind(s[i]) : i \in DOMAIN s}

IsFound(a) == a.op = "found"
FoundOnce(s) == \A i, j \in DOMAIN s : s[i].op = "found" /\ s[j].op = "found" => i = j
EndsWell(s) == s # <<>> => s[Len(s)].op \in {"give", "nothing", "resume"}

(* The error path of each item is behind it, or in what is to come. *)
ErrorPaths(s, coming) ==
  \A i \in DOMAIN s : \/ ~MayFail(s[i]) \/ s[i].onNack \in coming
                      \/ \E j \in DOMAIN s : j > i /\ s[j].mark = s[i].onNack

(* A piece of a program, with the marks that are to come. *)
Piece(s, n, p, coming) ==
  /\ s \in Seq(BusItem)
  /\ \A i \in DOMAIN s : Right(s[i], n, p)
  /\ \A i \in DOMAIN s : i > 1 => Follows(s[i - 1], s[i], n, p)
  /\ FoundOnce(s) /\ ErrorPaths(s, coming)

Program(s, n, p) == Piece(s, n, p, {}) /\ EndsWell(s)

(***************************************************************************)
(* The invariant                                                           *)
(***************************************************************************)

PageStart(v) == v - (v % PageSize)
NoBytes == \A k \in EepromCells : page[k] = Empty
GoodBelow(v) == \A k \in 0 .. v - 1 : memory[k] = <<version, k>>
PageFilled(first, v) ==
  \A k \in EepromCells : page[k] = IF k \in first .. v - 1 THEN <<version, k>> ELSE Empty

(* Before an item: who has the bus, and where the multiplexer is. *)
BusAt(a) ==
  /\ Session(a) => driving /\ ~run /\ (~late => ~sequencing)
  /\ ~Session(a) => (driving => kept /\ ~known)
  /\ a.op = "wait" => ~run
  /\ bus # "idle" => Transfer(a)
  /\ OnPort(a) /\ ~late => muxPort = Port[DeviceOf(a)]
  /\ a.op \in {"grab", "resume"} => snapshot = {} \/ (freeze /\ snapshot = {generation})

(* What was written, unless there was an error. *)
EepromAt(a, n) ==
  /\ a.op = "sub" => GoodBelow(a.value)
  /\ a.op = "byte" => /\ pointer = a.value /\ GoodBelow(PageStart(a.value))
                      /\ PageFilled(PageStart(a.value), a.value)
  /\ a.op = "stop" /\ a.mark = "" =>
       /\ a.value > 0 /\ a.value - 1 \in EepromCells
       /\ GoodBelow(PageStart(a.value - 1)) /\ PageFilled(PageStart(a.value - 1), a.value)
  /\ a.op = "poll" => GoodBelow(a.value)
  /\ a.op = "start" \/ a.mark = "halt" => NoBytes /\ GoodBelow(n)
  /\ a.op = "report" /\ a.device = "eeprom" => GoodBelow(n)

(* The oscillator, unless there was an error. *)
ClockAt(a, p) ==
  /\ Clock(a, "freeze", "small") \/ Clock(a, "target", "small") => dividers = <<"startup">>
  /\ Clock(a, "unfreeze", "small") \/ Clock(a, "apply", "small") => dividers = <<"target">>
  /\ a.mark = "small" \/ Clock(a, "freeze", "give") \/ Clock(a, p, "give") =>
       dividers = <<"target">>
  /\ Clock(a, "unfreeze", "give") \/ Clock(a, "apply", "give") => dividers = <<"target", p>>
  /\ Clock(a, "apply", "give") => ~frozen
  /\ a.op = "report" /\ a.device = "osc" => frequency = <<"target", p>> /\ ~frozen

Cell == {Empty} \cup ((0 .. 2) \X Nat)

BusTypes ==
  /\ run \in BOOLEAN /\ freeze \in BOOLEAN /\ sequencing \in BOOLEAN
  /\ driving \in BOOLEAN /\ late \in BOOLEAN /\ ok \in BOOLEAN
  /\ known \in BOOLEAN /\ frozen \in BOOLEAN /\ bus \in {"idle", "open", "astray"}
  /\ memory \in [EepromCells -> Cell] /\ page \in [EepromCells -> Cell]
  /\ version \in 0 .. 2 /\ written \in Nat

(* No error so far, and the bus was not taken from a sequencer at work.    *)
Trusted == ok /\ ~late

Running(n, p) ==
  /\ Program(todo, n, p)
  /\ todo # <<>> /\ Trusted => EepromAt(item, n) /\ ClockAt(item, p)

(* The bus at rest, and in a command. *)
HeldInv ==
  /\ todo # <<>> => BusAt(item)
  /\ todo = <<>> => (driving => kept /\ ~known) /\ bus = "idle"
  /\ known => "found" \notin Kinds(todo)
  /\ bus = "astray" => late
  /\ FALSE \notin stray /\ SnapshotOfOneScan

(* Cells that wait to be written, and what was reported. *)
EepromInv ==
  /\ ~NoBytes => todo # <<>> /\ item.op \in {"byte", "stop"}
  /\ "eeprom" \in doubtful \/ GoodBelow(written)
  /\ written # 0 => NoBytes /\ "byte" \notin Kinds(todo)

ClockInv ==
  \/ adjusted = Empty
  \/ /\ \/ "osc" \in doubtful
        \/ \E p \in Ppm : adjusted = <<p>> /\ frequency = <<"target", p>> /\ ~frozen
     /\ "clock" \notin Kinds(todo)

Sizes == 0 .. EepromPages * PageSize
Offsets == Ppm \cup {""}

InCommand(n, p) == BusTypes /\ HeldInv /\ EepromInv /\ ClockInv /\ Running(n, p)

IicInv == \E n \in Sizes, p \in Offsets : InCommand(n, p)

(***************************************************************************)
(* Programs unfold: what may be left of a program is one                   *)
(***************************************************************************)

From(s, k) == SubSeq(s, k, Len(s))

LEMMA SuffixOfProgram ==
  ASSUME NEW s, NEW n, NEW p, Program(s, n, p), NEW k \in 1 .. Len(s)
  PROVE  /\ Program(From(s, k), n, p) /\ From(s, k) # <<>> /\ Head(From(s, k)) = s[k]
         /\ Len(From(s, k)) = Len(s) - k + 1
         /\ \A i \in DOMAIN From(s, k) : From(s, k)[i] = s[k + i - 1]
         /\ Kinds(From(s, k)) \subseteq Kinds(s)
<1> DEFINE t == From(s, k)
<1>1. s \in Seq(BusItem) /\ Len(s) \in Nat /\ DOMAIN s = 1 .. Len(s)
  BY DEF Program, Piece
<1>2. /\ t \in Seq(BusItem) /\ Len(t) = Len(s) - k + 1 /\ DOMAIN t = 1 .. Len(t)
      /\ \A i \in 1 .. Len(t) : t[i] = s[k + i - 1]
  <2>1. \A i \in k .. Len(s) : s[i] \in BusItem
    BY <1>1
  <2>2. QED
    BY <1>1, <2>1, SubSeqProperties DEF From
<1> HIDE DEF t
<1>a. /\ \A i \in DOMAIN t : k + i - 1 \in DOMAIN s /\ t[i] = s[k + i - 1]
      /\ \A l \in DOMAIN s : l >= k => l - k + 1 \in DOMAIN t /\ t[l - k + 1] = s[l]
  <2>1. \A i \in DOMAIN t : k + i - 1 \in DOMAIN s /\ t[i] = s[k + i - 1]
    BY <1>1, <1>2
  <2>2. ASSUME NEW l \in DOMAIN s, l >= k
        PROVE  l - k + 1 \in DOMAIN t /\ t[l - k + 1] = s[l]
    <3> DEFINE j == l - k + 1
    <3>1. j \in 1 .. Len(t) /\ k + j - 1 = l
      BY <1>1, <1>2, <2>2
    <3> HIDE DEF j
    <3>2. j \in DOMAIN t /\ t[j] = s[l]
      BY <1>2, <3>1
    <3>3. QED
      BY <3>2 DEF j
  <2>3. QED
    BY <2>1, <2>2
<1>3. t # <<>> /\ Head(t) = s[k] /\ t[1] = s[k] /\ t[Len(t)] = s[Len(s)]
  BY <1>1, <1>2
<1>4. \A i \in DOMAIN t : Right(t[i], n, p) /\ (i > 1 => Follows(t[i - 1], t[i], n, p))
  <2> SUFFICES ASSUME NEW i \in DOMAIN t
               PROVE  Right(t[i], n, p) /\ (i > 1 => Follows(t[i - 1], t[i], n, p))
    OBVIOUS
  <2> DEFINE j == k + i - 1
  <2>1. j \in DOMAIN s /\ t[i] = s[j] /\ (i > 1 => j > 1 /\ t[i - 1] = s[j - 1])
    BY <1>1, <1>2
  <2> HIDE DEF j
  <2>2. QED
    BY <2>1 DEF Program, Piece
<1>5. FoundOnce(t)
  <2> SUFFICES ASSUME NEW i \in DOMAIN t, NEW j \in DOMAIN t,
                      t[i].op = "found", t[j].op = "found"
               PROVE  i = j
    BY DEF FoundOnce
  <2>1. k + i - 1 \in DOMAIN s /\ k + j - 1 \in DOMAIN s
    BY <1>1, <1>2
  <2>2. k + i - 1 = k + j - 1
    BY <1>2, <2>1 DEF Program, Piece, FoundOnce
  <2>3. QED
    BY <1>2, <2>2
<1>6. ErrorPaths(t, {})
  <2> SUFFICES ASSUME NEW i \in DOMAIN t, MayFail(t[i])
               PROVE  \E j \in DOMAIN t : j > i /\ t[j].mark = t[i].onNack
    BY DEF ErrorPaths
  <2>1. k + i - 1 \in DOMAIN s /\ t[i] = s[k + i - 1]
    BY <1>a
  <2>2. PICK l \in DOMAIN s : l > k + i - 1 /\ s[l].mark = t[i].onNack
    BY <2>1 DEF Program, Piece, ErrorPaths
  <2> DEFINE j == l - k + 1
  <2>3. j \in DOMAIN t /\ j > i /\ t[j] = s[l]
    <3>1. i \in Int /\ l \in Int /\ l >= k /\ l - k + 1 > i
      BY <1>1, <1>2, <2>2
    <3>2. QED
      BY <1>a, <3>1
  <2>4. QED
    BY <2>2, <2>3
<1>7. Kinds(t) \subseteq Kinds(s)
  <2>1. \A i \in DOMAIN t : k + i - 1 \in DOMAIN s /\ t[i] = s[k + i - 1]
    BY <1>a
  <2>2. QED
    BY <2>1 DEF Kinds
<1>8. EndsWell(t)
  BY <1>1, <1>2, <1>3 DEF Program, EndsWell
<1>9. QED
  BY <1>2, <1>3, <1>4, <1>5, <1>6, <1>7, <1>8, <1>a DEF Program, Piece, t

LEMMA RestOfProgram ==
  ASSUME NEW s, NEW n, NEW p, Program(s, n, p), s # <<>>
  PROVE  /\ Program(Tail(s), n, p) /\ Kinds(Tail(s)) \subseteq Kinds(s)
         /\ Right(Head(s), n, p)
         /\ Tail(s) = <<>> => Head(s).op \in {"give", "nothing", "resume"}
         /\ Tail(s) # <<>> => /\ Follows(Head(s), Head(Tail(s)), n, p)
                              /\ Right(Head(Tail(s)), n, p)
         /\ Head(s).op = "found" => "found" \notin Kinds(Tail(s))
         /\ Head(s).op = "report" => Kinds(Tail(s)) \subseteq {"give", "nothing"}
<1>1. s \in Seq(BusItem) /\ Len(s) \in Nat \ {0} /\ DOMAIN s = 1 .. Len(s) /\ Head(s) = s[1]
  BY DEF Program, Piece
<1>2. Tail(s) = SubSeq(s, 2, Len(s)) /\ Right(Head(s), n, p)
  BY <1>1, TailIsSubSeq DEF Program, Piece
<1>3. CASE Len(s) = 1
  <2>1. Tail(s) = <<>>
    <3>1. Tail(s) \in Seq(BusItem) /\ Len(Tail(s)) = 0
      BY <1>1, <1>3, HeadTailProperties
    <3>2. QED
      BY <3>1, EmptySeq
  <2>2. Program(<<>>, n, p) /\ Kinds(<<>>) = {}
    <3>1. DOMAIN <<>> = {} /\ <<>> \in Seq(BusItem)
      OBVIOUS
    <3> DEFINE e == <<>>
    <3> HIDE DEF e
    <3>2. DOMAIN e = {} => FoundOnce(e) /\ ErrorPaths(e, {}) /\ Kinds(e) = {}
      BY DEF FoundOnce, ErrorPaths, Kinds
    <3>3. QED
      BY <3>1, <3>2 DEF Program, Piece, EndsWell, e
  <2>3. Head(s).op \in {"give", "nothing", "resume"}
    BY <1>1, <1>3 DEF Program, EndsWell
  <2>4. QED
    BY <1>2, <2>1, <2>2, <2>3
<1>4. CASE Len(s) > 1
  <2> DEFINE t == Tail(s)
  <2>1. /\ Program(t, n, p) /\ t # <<>> /\ Head(t) = s[2] /\ Len(t) = Len(s) - 1
        /\ \A i \in DOMAIN t : t[i] = s[i + 1]
        /\ Kinds(t) \subseteq Kinds(s)
    <3>1. 2 \in 1 .. Len(s) /\ t = From(s, 2)
      BY <1>1, <1>2, <1>4 DEF From
    <3> HIDE DEF t
    <3>2. /\ Program(t, n, p) /\ t # <<>> /\ Head(t) = s[2] /\ Len(t) = Len(s) - 2 + 1
          /\ \A i \in DOMAIN t : t[i] = s[2 + i - 1]
          /\ Kinds(t) \subseteq Kinds(s)
      BY <3>1, SuffixOfProgram
    <3>3. DOMAIN t \subseteq Int
      BY <3>2 DEF Program, Piece
    <3>4. \A i \in DOMAIN t : 2 + i - 1 = i + 1
      BY <3>3
    <3>5. QED
      BY <1>1, <3>2, <3>4
  <2>2. Follows(Head(s), Head(t), n, p) /\ Right(Head(t), n, p)
    <3>1. 2 \in DOMAIN s /\ 2 > 1 /\ s[2 - 1] = s[1]
      BY <1>1, <1>4
    <3>2. QED
      BY <1>1, <2>1, <3>1 DEF Program, Piece
  <2>3. DOMAIN t = 1 .. Len(t) /\ Len(t) \in Nat
    BY <2>1 DEF Program, Piece
  <2> HIDE DEF t
  <2>4. Head(s).op = "found" => "found" \notin Kinds(t)
    <3> SUFFICES ASSUME Head(s).op = "found", NEW i \in DOMAIN t, Kind(t[i]) = "found"
                 PROVE  FALSE
      BY DEF Kinds
    <3>1. t[i].op = "found" /\ i + 1 \in DOMAIN s /\ t[i] = s[i + 1] /\ 1 \in DOMAIN s
      BY <1>1, <2>1, <2>3 DEF Kind
    <3>2. i + 1 = 1
      BY <1>1, <3>1 DEF Program, Piece, FoundOnce
    <3>3. QED
      BY <2>3, <3>2
  <2>5. Head(s).op = "report" => Kinds(t) \subseteq {"give", "nothing"}
    <3> SUFFICES ASSUME Head(s).op = "report", NEW i \in DOMAIN t
                 PROVE  Kind(t[i]) \in {"give", "nothing"}
      BY DEF Kinds
    <3>1. \A j \in DOMAIN t : j > 1 => TurnFollows(t[j - 1], t[j])
      BY <2>1 DEF Program, Piece, Follows
    <3>2. t[1].op = "give"
      BY <2>1, <2>2, <2>3 DEF Follows, TurnFollows
    <3>3. i > 1 => t[2].op = "nothing"
      <4>1. i > 1 => 2 \in DOMAIN t /\ 2 > 1 /\ t[2 - 1] = t[1]
        BY <2>3
      <4>2. QED
        BY <3>1, <3>2, <4>1 DEF TurnFollows
    <3>4. ~(i > 2)
      <4>1. i > 2 => 3 \in DOMAIN t /\ i > 1 /\ 3 > 1 /\ t[3 - 1] = t[2]
        BY <2>3
      <4>2. QED
        BY <3>1, <3>3, <4>1 DEF TurnFollows
    <3>5. i = 1 \/ i = 2
      BY <2>3, <3>4
    <3>6. QED
      BY <3>2, <3>3, <3>5 DEF Kind, ToClock
  <2>6. QED
    BY <1>2, <2>1, <2>2, <2>4, <2>5 DEF t
<1>5. QED
  BY <1>1, <1>3, <1>4

(* A transfer that is not acknowledged leaves the program from the mark on.*)
LEMMA NackLeaves ==
  ASSUME NEW n, NEW p, Program(todo, n, p), todo # <<>>, MayFail(item), NotAcknowledged
  PROVE  /\ Program(todo', n, p) /\ todo' # <<>> /\ item'.mark = item.onNack
         /\ Right(item', n, p) /\ Kinds(todo') \subseteq Kinds(todo) /\ ~ok'
<1> DEFINE marks == {k \in DOMAIN todo : k > 1 /\ todo[k].mark = item.onNack}
           first == CHOOSE k \in marks : \A l \in marks : k <= l
<1>1. /\ todo \in Seq(BusItem) /\ Len(todo) \in Nat \ {0} /\ DOMAIN todo = 1 .. Len(todo)
      /\ item = todo[1]
  <2>1. todo \in Seq(BusItem)
    BY DEF Program, Piece
  <2>2. QED
    BY <2>1 DEF item
<1>2. marks # {}
  <2>1. 1 \in DOMAIN todo /\ DOMAIN todo \subseteq Nat
    <3> HIDE DEF marks
    <3>1. QED
      BY <1>1
  <2>2. PICK j \in DOMAIN todo : j > 1 /\ todo[j].mark = todo[1].onNack
    BY <1>1, <2>1 DEF Program, Piece, ErrorPaths
  <2>3. QED
    BY <1>1, <2>2
<1>3. \E k \in marks : \A l \in marks : k <= l
  <2>1. marks \in SUBSET Nat
    <3>1. marks \subseteq DOMAIN todo
      OBVIOUS
    <3> HIDE DEF marks
    <3>2. DOMAIN todo \subseteq Nat
      BY <1>1
    <3>3. QED
      BY <3>1, <3>2
  <2> HIDE DEF marks
  <2>2. QED
    BY <1>2, <2>1, LeastNatural
<1>4. first \in marks
  <2> HIDE DEF marks
  <2>1. QED
    BY <1>3
<1> HIDE DEF first
<1>5. todo' = SubSeq(todo, first, Len(todo)) /\ ~ok'
  BY DEF NotAcknowledged, first
<1>6. first \in 1 .. Len(todo) /\ todo[first].mark = item.onNack
  BY <1>1, <1>4
<1>7. QED
  <2>1. /\ Program(todo', n, p) /\ todo' # <<>> /\ Head(todo') = todo[first]
        /\ Kinds(todo') \subseteq Kinds(todo)
    <3>1. todo' = From(todo, first)
      BY <1>5 DEF From
    <3>2. QED
      BY <1>6, <3>1, SuffixOfProgram
  <2>2. Right(todo[first], n, p)
    BY <1>1, <1>6 DEF Program, Piece
  <2>3. QED
    BY <1>5, <1>6, <2>1, <2>2 DEF item

(***************************************************************************)
(* Every command is a program                                              *)
(***************************************************************************)

Marks(s) == {s[i].mark : i \in DOMAIN s}

(* Two pieces, one after the other. *)
LEMMA PiecesJoined ==
  ASSUME NEW s, NEW t, NEW n, NEW p, NEW c, NEW d,
         Piece(s, n, p, c), Piece(t, n, p, d), s # <<>>, t # <<>>,
         Follows(s[Len(s)], t[1], n, p),
         "found" \notin Kinds(s) \cap Kinds(t), c \subseteq d \cup Marks(t)
  PROVE  /\ Piece(s \o t, n, p, d) /\ s \o t # <<>>
         /\ Len(s \o t) = Len(s) + Len(t)
         /\ (s \o t)[1] = s[1] /\ (s \o t)[Len(s \o t)] = t[Len(t)]
         /\ Kinds(s \o t) = Kinds(s) \cup Kinds(t)
         /\ Marks(s \o t) = Marks(s) \cup Marks(t)
<1> DEFINE u == s \o t
<1>1. /\ s \in Seq(BusItem) /\ Len(s) \in Nat \ {0} /\ DOMAIN s = 1 .. Len(s)
      /\ t \in Seq(BusItem) /\ Len(t) \in Nat \ {0} /\ DOMAIN t = 1 .. Len(t)
  BY DEF Piece
<1>2. /\ u \in Seq(BusItem) /\ Len(u) = Len(s) + Len(t) /\ DOMAIN u = 1 .. Len(u)
      /\ \A i \in 1 .. Len(s) + Len(t) : u[i] = IF i <= Len(s) THEN s[i] ELSE t[i - Len(s)]
  <2>1. /\ s \o t \in Seq(BusItem) /\ Len(s \o t) = Len(s) + Len(t)
        /\ \A i \in 1 .. Len(s) + Len(t) : (s \o t)[i] =
                 IF i <= Len(s) THEN s[i] ELSE t[i - Len(s)]
    BY <1>1, ConcatProperties
  <2>2. QED
    BY <2>1
<1> HIDE DEF u
<1>3. /\ \A i \in DOMAIN s : i \in DOMAIN u /\ u[i] = s[i]
      /\ \A i \in DOMAIN t : Len(s) + i \in DOMAIN u /\ u[Len(s) + i] = t[i]
  <2>1. ASSUME NEW i \in DOMAIN s
        PROVE  i \in DOMAIN u /\ u[i] = s[i]
    BY <1>1, <1>2
  <2>2. ASSUME NEW i \in DOMAIN t
        PROVE  Len(s) + i \in DOMAIN u /\ u[Len(s) + i] = t[i]
    <3> DEFINE j == Len(s) + i
    <3>1. j \in 1 .. Len(s) + Len(t) /\ ~(j <= Len(s)) /\ j - Len(s) = i
      BY <1>1
    <3> HIDE DEF j
    <3>2. QED
      BY <1>2, <3>1 DEF j
  <2>3. QED
    BY <2>1, <2>2
<1>4. \A i \in DOMAIN u : \/ i \in DOMAIN s /\ u[i] = s[i]
                          \/ i - Len(s) \in DOMAIN t /\ u[i] = t[i - Len(s)] /\ i > Len(s)
  BY <1>1, <1>2
<1>5. \A i \in DOMAIN u : Right(u[i], n, p)
  BY <1>4 DEF Piece
<1>6. \A i \in DOMAIN u : i > 1 => Follows(u[i - 1], u[i], n, p)
  <2> SUFFICES ASSUME NEW i \in DOMAIN u, i > 1
               PROVE  Follows(u[i - 1], u[i], n, p)
    OBVIOUS
  <2>1. CASE i <= Len(s)
    <3>1. i \in DOMAIN s /\ i - 1 \in DOMAIN s
      BY <1>1, <1>2, <2>1
    <3>2. QED
      BY <1>3, <3>1 DEF Piece
  <2>2. CASE i = Len(s) + 1
    <3>1. Len(s) \in DOMAIN s /\ 1 \in DOMAIN t /\ i - 1 = Len(s)
      BY <1>1, <2>2
    <3>2. QED
      BY <1>3, <2>2, <3>1
  <2>3. CASE i > Len(s) + 1
    <3> DEFINE j == i - Len(s)
    <3>1. /\ j \in DOMAIN t /\ j - 1 \in DOMAIN t /\ j > 1
          /\ Len(s) + j = i /\ Len(s) + (j - 1) = i - 1
      <4>1. i \in Int /\ Len(s) \in Int /\ Len(t) \in Int /\ i <= Len(s) + Len(t)
        BY <1>1, <1>2
      <4>2. j \in 1 .. Len(t) /\ j - 1 \in 1 .. Len(t) /\ j > 1
        BY <2>3, <4>1
      <4>3. Len(s) + j = i /\ Len(s) + (j - 1) = i - 1
        BY <4>1
      <4>4. QED
        BY <1>1, <4>2, <4>3
    <3> HIDE DEF j
    <3>2. Follows(t[j - 1], t[j], n, p)
      BY <3>1 DEF Piece
    <3>3. u[i] = t[j] /\ u[i - 1] = t[j - 1]
      BY <1>3, <3>1
    <3>4. QED
      BY <3>2, <3>3
  <2>4. QED
    BY <1>1, <1>2, <2>1, <2>2, <2>3
<1>7. Kinds(u) = Kinds(s) \cup Kinds(t) /\ Marks(u) = Marks(s) \cup Marks(t)
  <2>1. Kinds(u) \subseteq Kinds(s) \cup Kinds(t) /\ Marks(u) \subseteq Marks(s) \cup Marks(t)
    BY <1>4 DEF Kinds, Marks
  <2>2. Kinds(s) \cup Kinds(t) \subseteq Kinds(u) /\ Marks(s) \cup Marks(t) \subseteq Marks(u)
    BY <1>3 DEF Kinds, Marks
  <2>3. QED
    BY <2>1, <2>2
<1>8. FoundOnce(u)
  <2> SUFFICES ASSUME NEW i \in DOMAIN u, NEW j \in DOMAIN u, IsFound(u[i]), IsFound(u[j])
               PROVE  i = j
    BY DEF FoundOnce, IsFound
  <2>1. CASE i \in DOMAIN s /\ u[i] = s[i] /\ j \in DOMAIN s /\ u[j] = s[j]
    BY <2>1 DEF Piece, FoundOnce, IsFound
  <2>2. CASE /\ i - Len(s) \in DOMAIN t /\ u[i] = t[i - Len(s)]
             /\ j - Len(s) \in DOMAIN t /\ u[j] = t[j - Len(s)]
    <3>1. i - Len(s) = j - Len(s)
      BY <2>2 DEF Piece, FoundOnce, IsFound
    <3>2. QED
      BY <1>1, <1>2, <3>1
  <2>3. ASSUME NEW k \in DOMAIN s, NEW l \in DOMAIN t, IsFound(s[k]), IsFound(t[l])
        PROVE  FALSE
    <3>1. Kind(s[k]) = "found" /\ Kind(t[l]) = "found"
      BY <2>3 DEF Kind, IsFound, ToClock
    <3>2. QED
      BY <3>1 DEF Kinds
  <2>4. /\ \/ i \in DOMAIN s /\ u[i] = s[i]
           \/ i - Len(s) \in DOMAIN t /\ u[i] = t[i - Len(s)]
        /\ \/ j \in DOMAIN s /\ u[j] = s[j]
           \/ j - Len(s) \in DOMAIN t /\ u[j] = t[j - Len(s)]
    BY <1>4
  <2>5. CASE i \in DOMAIN s /\ u[i] = s[i] /\ j - Len(s) \in DOMAIN t /\ u[j] = t[j - Len(s)]
    BY <2>3, <2>5, Zenon
  <2>6. CASE j \in DOMAIN s /\ u[j] = s[j] /\ i - Len(s) \in DOMAIN t /\ u[i] = t[i - Len(s)]
    BY <2>3, <2>6, Zenon
  <2>7. QED
    BY <2>1, <2>2, <2>4, <2>5, <2>6, Zenon
<1>9. ErrorPaths(u, d)
  <2> SUFFICES ASSUME NEW i \in DOMAIN u, MayFail(u[i]), u[i].onNack \notin d
               PROVE  \E j \in DOMAIN u : j > i /\ u[j].mark = u[i].onNack
    BY DEF ErrorPaths
  <2>1. CASE i \in DOMAIN s /\ u[i] = s[i]
    <3>1. CASE s[i].onNack \in c
      <4>1. PICK j \in DOMAIN t : t[j].mark = u[i].onNack
        BY <2>1, <3>1 DEF Marks
      <4>2. Len(s) + j \in DOMAIN u /\ u[Len(s) + j] = t[j] /\ Len(s) + j > i
        BY <1>1, <1>3, <2>1
      <4>3. QED
        BY <4>1, <4>2
    <3>2. CASE \E j \in DOMAIN s : j > i /\ s[j].mark = s[i].onNack
      BY <1>3, <2>1, <3>2
    <3>3. QED
      BY <2>1, <3>1, <3>2 DEF Piece, ErrorPaths
  <2>2. CASE i - Len(s) \in DOMAIN t /\ u[i] = t[i - Len(s)]
    <3>1. PICK j \in DOMAIN t : j > i - Len(s) /\ t[j].mark = u[i].onNack
      BY <2>2 DEF Piece, ErrorPaths
    <3>2. Len(s) + j \in DOMAIN u /\ u[Len(s) + j] = t[j] /\ Len(s) + j > i
      <4>1. Len(s) + j > i
        BY <1>1, <1>2, <3>1
      <4>2. QED
        BY <1>3, <4>1
    <3>3. QED
      BY <3>1, <3>2
  <2>3. QED
    BY <1>4, <2>1, <2>2
<1>10. u # <<>> /\ u[1] = s[1] /\ u[Len(u)] = t[Len(t)]
  <2>1. 1 \in DOMAIN s /\ Len(t) \in DOMAIN t /\ Len(u) = Len(s) + Len(t) /\ Len(u) # 0
    BY <1>1, <1>2
  <2>2. QED
    BY <1>2, <1>3, <2>1
<1>11. QED
  BY <1>2, <1>5, <1>6, <1>7, <1>8, <1>9, <1>10 DEF Piece, u

(* A piece from item a to item b with operations of these kinds only.      *)
Part(s, n, p, coming, a, b, kinds) ==
  /\ Piece(s, n, p, coming) /\ s # <<>> /\ s[1] = a /\ s[Len(s)] = b /\ Kinds(s) \subseteq kinds

LEMMA PartsJoined ==
  ASSUME NEW s, NEW t, NEW n, NEW p, NEW c, NEW d,
         NEW a, NEW b, NEW e, NEW f, NEW kinds, NEW others,
         Part(s, n, p, c, a, b, kinds), Part(t, n, p, d, e, f, others),
         Follows(b, e, n, p), "found" \notin kinds \cap others, c \subseteq d \cup Marks(t)
  PROVE  Part(s \o t, n, p, d, a, f, kinds \cup others)
<1>1. /\ Piece(s, n, p, c) /\ Piece(t, n, p, d) /\ s # <<>> /\ t # <<>>
      /\ Follows(s[Len(s)], t[1], n, p)
      /\ "found" \notin Kinds(s) \cap Kinds(t) /\ c \subseteq d \cup Marks(t)
      /\ s[1] = a /\ t[Len(t)] = f /\ Kinds(s) \subseteq kinds /\ Kinds(t) \subseteq others
  BY DEF Part
<1>2. /\ Piece(s \o t, n, p, d) /\ s \o t # <<>>
      /\ (s \o t)[1] = s[1] /\ (s \o t)[Len(s \o t)] = t[Len(t)]
      /\ Kinds(s \o t) = Kinds(s) \cup Kinds(t)
  BY <1>1, PiecesJoined
<1>3. QED
  BY <1>1, <1>2 DEF Part

LEMMA PartIsProgram ==
  ASSUME NEW s, NEW n, NEW p, NEW a, NEW b, NEW kinds,
         Part(s, n, p, {}, a, b, kinds), b.op \in {"give", "nothing", "resume"}
  PROVE  Program(s, n, p) /\ s # <<>> /\ Head(s) = a /\ Kinds(s) \subseteq kinds
<1>1. s \in Seq(BusItem) /\ s # <<>> /\ s[1] = a
  BY DEF Part, Piece
<1>2. Head(s) = a
  BY <1>1
<1>3. QED
  BY <1>2 DEF Part, Program, EndsWell

(* An item that may stand in a program. *)
Allowed(a, n, p, coming) ==
  a \in BusItem /\ Right(a, n, p) /\ (MayFail(a) => a.onNack \in coming)

LEMMA ItemIsPart ==
  ASSUME NEW a, NEW n, NEW p, NEW c, Allowed(a, n, p, c)
  PROVE  Part(<<a>>, n, p, c, a, a, {Kind(a)}) /\ Marks(<<a>>) = {a.mark}
<1> DEFINE s == <<a>>
<1>1. s \in Seq(BusItem) /\ Len(s) = 1 /\ DOMAIN s = {1} /\ s[1] = a /\ s # <<>>
  BY DEF Allowed
<1> HIDE DEF s
<1>2. /\ \A i \in DOMAIN s : Right(s[i], n, p)
      /\ \A i \in DOMAIN s : i > 1 => Follows(s[i - 1], s[i], n, p)
  BY <1>1 DEF Allowed
<1>3. FoundOnce(s) /\ ErrorPaths(s, c)
  BY <1>1 DEF FoundOnce, ErrorPaths, Allowed
<1>4. Kinds(s) = {Kind(a)} /\ Marks(s) = {a.mark}
  BY <1>1 DEF Kinds, Marks
<1>5. QED
  BY <1>1, <1>2, <1>3, <1>4 DEF Part, Piece, s

LEMMA OneItemMore ==
  ASSUME NEW s, NEW n, NEW p, NEW c, NEW d, NEW a, NEW b, NEW e, NEW kinds,
         Part(s, n, p, c, a, b, kinds), Allowed(e, n, p, d), Follows(b, e, n, p),
         ~IsFound(e) \/ "found" \notin kinds, c \subseteq d \cup {e.mark}
  PROVE  Part(s \o <<e>>, n, p, d, a, e, kinds \cup {Kind(e)})
<1>1. Part(<<e>>, n, p, d, e, e, {Kind(e)}) /\ Marks(<<e>>) = {e.mark}
  BY ItemIsPart
<1>2. "found" \notin kinds \cap {Kind(e)}
  BY DEF Kind, IsFound
<1>3. QED
  BY <1>1, <1>2, PartsJoined

LEMMA TwoJoined ==
  ASSUME NEW a, NEW b
  PROVE  <<a, b>> = <<a>> \o <<b>>
<1> DEFINE s == <<a>> \o <<b>>
           t == <<a, b>>
           S == {a, b}
<1>1. s \in Seq(S) /\ t \in Seq(S) /\ Len(s) = 2 /\ Len(t) = 2
  OBVIOUS
<1>2. s[1] = t[1] /\ s[2] = t[2]
  OBVIOUS
<1> HIDE DEF s, t, S
<1>3. \A i \in 1 .. Len(s) : s[i] = t[i]
  BY <1>1, <1>2
<1>4. s = t
  BY <1>1, <1>3, SeqEqual
<1>5. QED
  BY <1>4 DEF s, t

LEMMA ThreeJoined ==
  ASSUME NEW a, NEW b, NEW c
  PROVE  <<a, b, c>> = <<a, b>> \o <<c>>
<1> DEFINE s == <<a, b>> \o <<c>>
           t == <<a, b, c>>
           S == {a, b, c}
<1>1. s \in Seq(S) /\ t \in Seq(S) /\ Len(s) = 3 /\ Len(t) = 3
  OBVIOUS
<1>2. s[1] = t[1] /\ s[2] = t[2] /\ s[3] = t[3]
  OBVIOUS
<1> HIDE DEF s, t, S
<1>3. \A i \in 1 .. Len(s) : s[i] = t[i]
  BY <1>1, <1>2
<1>4. s = t
  BY <1>1, <1>3, SeqEqual
<1>5. QED
  BY <1>4 DEF s, t

LEMMA FourJoined ==
  ASSUME NEW a, NEW b, NEW c, NEW d
  PROVE  <<a, b, c, d>> = <<a, b, c>> \o <<d>>
<1> DEFINE s == <<a, b, c>> \o <<d>>
           t == <<a, b, c, d>>
           S == {a, b, c, d}
<1>1. s \in Seq(S) /\ t \in Seq(S) /\ Len(s) = 4 /\ Len(t) = 4
  OBVIOUS
<1>2. s[1] = t[1] /\ s[2] = t[2] /\ s[3] = t[3] /\ s[4] = t[4]
  OBVIOUS
<1> HIDE DEF s, t, S
<1>3. \A i \in 1 .. Len(s) : s[i] = t[i]
  BY <1>1, <1>2
<1>4. s = t
  BY <1>1, <1>3, SeqEqual
<1>5. QED
  BY <1>4 DEF s, t

LEMMA TwoItems ==
  ASSUME NEW n, NEW p, NEW c, NEW d, NEW a, NEW b,
         Allowed(a, n, p, c), Allowed(b, n, p, d), Follows(a, b, n, p),
         ~IsFound(a) \/ ~IsFound(b), c \subseteq d \cup {b.mark}
  PROVE  Part(<<a, b>>, n, p, d, a, b, {Kind(a), Kind(b)})
<1>1. Part(<<a>>, n, p, c, a, a, {Kind(a)})
  BY ItemIsPart
<1>2. ~IsFound(b) \/ "found" \notin {Kind(a)}
  BY DEF Kind, IsFound
<1>3. Part(<<a>> \o <<b>>, n, p, d, a, b, {Kind(a)} \cup {Kind(b)})
  BY <1>1, <1>2, OneItemMore
<1>4. {Kind(a)} \cup {Kind(b)} = {Kind(a), Kind(b)}
  OBVIOUS
<1>5. QED
  BY <1>3, <1>4, TwoJoined

LEMMA ThreeItems ==
  ASSUME NEW n, NEW p, NEW c, NEW d, NEW a, NEW b, NEW e,
         Allowed(a, n, p, c), Allowed(b, n, p, c), Allowed(e, n, p, d),
         Follows(a, b, n, p), Follows(b, e, n, p),
         ~IsFound(b) /\ ~IsFound(e), c \subseteq d \cup {e.mark}
  PROVE  Part(<<a, b, e>>, n, p, d, a, e, {Kind(a), Kind(b), Kind(e)})
<1>1. Part(<<a, b>>, n, p, c, a, b, {Kind(a), Kind(b)})
  BY TwoItems
<1>2. Part(<<a, b>> \o <<e>>, n, p, d, a, e, {Kind(a), Kind(b)} \cup {Kind(e)})
  BY <1>1, OneItemMore
<1>3. {Kind(a), Kind(b)} \cup {Kind(e)} = {Kind(a), Kind(b), Kind(e)}
  OBVIOUS
<1>4. QED
  BY <1>2, <1>3, ThreeJoined

LEMMA FourItems ==
  ASSUME NEW n, NEW p, NEW c, NEW d, NEW a, NEW b, NEW e, NEW f,
         Allowed(a, n, p, c), Allowed(b, n, p, c), Allowed(e, n, p, c), Allowed(f, n, p, d),
         Follows(a, b, n, p), Follows(b, e, n, p), Follows(e, f, n, p),
         ~IsFound(b) /\ ~IsFound(e) /\ ~IsFound(f), c \subseteq d \cup {f.mark}
  PROVE  Part(<<a, b, e, f>>, n, p, d, a, f, {Kind(a), Kind(b), Kind(e), Kind(f)})
<1>1. Part(<<a, b, e>>, n, p, c, a, e, {Kind(a), Kind(b), Kind(e)})
  BY ThreeItems
<1>2. Part(<<a, b, e>> \o <<f>>, n, p, d, a, f, {Kind(a), Kind(b), Kind(e)} \cup {Kind(f)})
  BY <1>1, OneItemMore
<1>3. {Kind(a), Kind(b), Kind(e)} \cup {Kind(f)} = {Kind(a), Kind(b), Kind(e), Kind(f)}
  OBVIOUS
<1>4. QED
  BY <1>2, <1>3, FourJoined

Suspend == Item("suspend", "", 0, "")
Wait == Item("wait", "", 0, "")
FirstAddress == Item("addr", "fmc", 0, "halt")
Start == Item("start", "", 0, "")
Try(d) == Item("try", d, 0, "")
TryMux == Item("trymux", "osc", Port["osc"], "")
Found(onNack) == Item("found", "osc", 0, onNack)
Small == Marked("small", SetMux("osc", "give"))
Nothing == Marked("unknown", Item("nothing", "", 0, ""))
Grab == Item("grab", "", 0, "")
Resume == Item("resume", "", 0, "")

LEMMA ValuesOfBus ==
  /\ Sizes \subseteq Nat /\ \A p \in Offsets : p \notin ClockValues
  /\ Nat \subseteq BusValue /\ Ppm \subseteq BusValue /\ ClockValues \subseteq BusValue
<1>1. Sizes \subseteq Nat
  BY BusAssumption DEF Sizes
<1>2. ASSUME NEW p \in Offsets
      PROVE  p \notin ClockValues
  <2>1. CASE p \in Ppm
    BY <2>1, BusAssumption DEF ClockValues
  <2>2. CASE p = ""
    BY <2>2 DEF ClockValues
  <2>3. QED
    BY <2>1, <2>2 DEF Offsets
<1>3. Nat \subseteq BusValue /\ Ppm \subseteq BusValue /\ ClockValues \subseteq BusValue
  BY Zenon DEF BusValue
<1>4. QED
  BY <1>1, <1>2, <1>3

LEMMA Names ==
  /\ "suspend" \in BusName /\ "wait" \in BusName /\ "give" \in BusName /\ "mux" \in BusName
  /\ "trymux" \in BusName /\ "access" \in BusName /\ "try" \in BusName /\ "found" \in BusName
  /\ "addr" \in BusName /\ "sub" \in BusName /\ "byte" \in BusName /\ "poll" \in BusName
  /\ "start" \in BusName /\ "stop" \in BusName /\ "report" \in BusName /\ "grab" \in BusName
  /\ "resume" \in BusName /\ "nothing" \in BusName /\ "fmc" \in BusName /\ "qsfp" \in BusName
  /\ "switch" \in BusName /\ "osc" \in BusName /\ "eeprom" \in BusName /\ "small" \in BusName
  /\ "halt" \in BusName /\ "unknown" \in BusName /\ "" \in BusName
BY DEF BusName

(* An item with these fields. *)
Is(a, op, d, v, o, m) ==
  /\ a \in BusItem
  /\ a.op = op /\ a.device = d /\ a.value = v /\ a.onNack = o /\ a.mark = m

LEMMA ItemIs ==
  ASSUME NEW op \in BusName, NEW d \in BusName, NEW v \in BusValue, NEW o \in BusName
  PROVE  Is(Item(op, d, v, o), op, d, v, o, "")
<1>1. Item(op, d, v, o) \in BusItem
  BY Names DEF Item, BusItem
<1>2. QED
  BY <1>1 DEF Item, Is

LEMMA MarkedIs ==
  ASSUME NEW a, NEW op, NEW d, NEW v, NEW o, NEW m \in BusName, Is(a, op, d, v, o, "")
  PROVE  Is(Marked(m, a), op, d, v, o, m)
BY DEF Marked, BusItem, Is

LEMMA DeviceNames ==
  /\ \A d \in BusDevices : d \in BusName /\ Port[d] \in Nat /\ Port[d] \in BusValue
  /\ {"fmc", "qsfp", "switch", "osc"} = BusDevices /\ 0 \in BusValue
<1>1. ASSUME NEW d \in BusDevices
      PROVE  d \in BusName
  <2>1. d = "fmc" \/ d = "qsfp" \/ d = "switch" \/ d = "osc"
    BY DEF BusDevices
  <2>2. QED
    BY <2>1, Names, Zenon
<1>2. ASSUME NEW d \in BusDevices
      PROVE  Port[d] \in Nat
  BY DEF BusDevices, Port
<1>3. 0 \in BusValue /\ \A d \in BusDevices : Port[d] \in BusValue
  BY <1>2, ValuesOfBus
<1>4. QED
  BY <1>1, <1>2, <1>3 DEF BusDevices

(* The items of the commands. *)
LEMMA ItemsAre ==
  /\ Is(Suspend, "suspend", "", 0, "", "") /\ Is(Wait, "wait", "", 0, "", "")
  /\ Is(Give, "give", "", 0, "", "give") /\ Is(Start, "start", "", 0, "", "")
  /\ Is(Halt, "stop", "", 0, "", "halt") /\ Is(Nothing, "nothing", "", 0, "", "unknown")
  /\ Is(Grab, "grab", "", 0, "", "") /\ Is(Resume, "resume", "", 0, "", "")
  /\ Is(TryMux, "trymux", "osc", Port["osc"], "", "")
  /\ Is(Found(""), "found", "osc", 0, "", "")
  /\ Is(Found("unknown"), "found", "osc", 0, "unknown", "")
  /\ Is(FirstAddress, "addr", "fmc", 0, "halt", "")
  /\ Is(Small, "mux", "osc", Port["osc"], "give", "small")
<1>1. Port["osc"] \in BusValue /\ 0 \in BusValue
  BY DeviceNames DEF BusDevices
<1>2. Is(Suspend, "suspend", "", 0, "", "") /\ Is(Wait, "wait", "", 0, "", "")
  BY <1>1, Names, ItemIs, Zenon DEF Suspend, Wait
<1>3. Is(Start, "start", "", 0, "", "")
  BY <1>1, Names, ItemIs, Zenon DEF Start
<1>4. Is(Grab, "grab", "", 0, "", "") /\ Is(Resume, "resume", "", 0, "", "")
  BY <1>1, Names, ItemIs, Zenon DEF Grab, Resume
<1>5. Is(Give, "give", "", 0, "", "give")
  BY <1>1, Names, ItemIs, MarkedIs, Zenon DEF Give
<1>6. Is(Halt, "stop", "", 0, "", "halt")
  BY <1>1, Names, ItemIs, MarkedIs, Zenon DEF Halt, STOP
<1>7. Is(Nothing, "nothing", "", 0, "", "unknown")
  BY <1>1, Names, ItemIs, MarkedIs, Zenon DEF Nothing
<1>8. Is(TryMux, "trymux", "osc", Port["osc"], "", "")
  BY <1>1, Names, ItemIs, Zenon DEF TryMux
<1>9. /\ Is(Found(""), "found", "osc", 0, "", "")
      /\ Is(Found("unknown"), "found", "osc", 0, "unknown", "")
  BY <1>1, Names, ItemIs, Zenon DEF Found
<1>10. Is(FirstAddress, "addr", "fmc", 0, "halt", "")
  BY <1>1, Names, ItemIs, Zenon DEF FirstAddress
<1>11. Is(Small, "mux", "osc", Port["osc"], "give", "small")
  BY <1>1, Names, ItemIs, MarkedIs, Zenon DEF Small, SetMux
<1>12. QED
  BY <1>2, <1>3, <1>4, <1>5, <1>6, <1>7, <1>8, <1>9, <1>10, <1>11

LEMMA TransfersAre ==
  /\ \A d \in BusDevices, o \in BusName : Is(SetMux(d, o), "mux", d, Port[d], o, "")
  /\ \A d \in BusDevices, o \in BusName, v \in BusValue :
        Is(Access(d, v, o), "access", d, v, o, "")
  /\ \A d \in BusDevices : Is(Try(d), "try", d, 0, "", "")
  /\ \A n \in BusValue : /\ Is(Report("eeprom", n), "report", "eeprom", n, "", "")
                         /\ Is(Report("osc", n), "report", "osc", n, "", "")
<1>1. \A d \in BusDevices, o \in BusName : Is(SetMux(d, o), "mux", d, Port[d], o, "")
  BY DeviceNames, Names, ItemIs, Zenon DEF SetMux
<1>2. \A d \in BusDevices, o \in BusName, v \in BusValue :
        Is(Access(d, v, o), "access", d, v, o, "")
  BY DeviceNames, Names, ItemIs, Zenon DEF Access
<1>3. \A d \in BusDevices : Is(Try(d), "try", d, 0, "", "")
  BY DeviceNames, Names, ItemIs, Zenon DEF Try
<1>4. \A n \in BusValue : /\ Is(Report("eeprom", n), "report", "eeprom", n, "", "")
                         /\ Is(Report("osc", n), "report", "osc", n, "", "")
  BY DeviceNames, Names, ItemIs, Zenon DEF Report
<1>5. QED
  BY <1>1, <1>2, <1>3, <1>4

(* Which of them may stand in a program. *)
LEMMA Allows ==
  ASSUME NEW n, NEW p, NEW c, p \notin ClockValues
  PROVE  /\ \A op \in {"suspend", "wait", "start", "grab", "resume"} : \A a :
             Is(a, op, "", 0, "", "") => Allowed(a, n, p, c)
         /\ \A a : Is(a, "give", "", 0, "", "give") => Allowed(a, n, p, c)
         /\ \A v \in Nat, m \in {"", "halt"} : \A a :
             Is(a, "stop", "", v, "", m) => Allowed(a, n, p, c)
         /\ \A a : Is(a, "nothing", "", 0, "", "unknown") => Allowed(a, n, p, c)
         /\ \A a : Is(a, "trymux", "osc", Port["osc"], "", "") => Allowed(a, n, p, c)
         /\ \A d \in BusDevices \ {"osc"} : \A a :
             Is(a, "try", d, 0, "", "") => Allowed(a, n, p, c)
         /\ \A a : Is(a, "found", "osc", 0, "", "") => Allowed(a, n, p, c)
         /\ \A a : Is(a, "report", "eeprom", n, "", "") => Allowed(a, n, p, c)
         /\ \A a : p \in Ppm /\ Is(a, "report", "osc", p, "", "") => Allowed(a, n, p, c)
         /\ \A a : "unknown" \in c /\ Is(a, "found", "osc", 0, "unknown", "") => Allowed(a, n, p, c)
         /\ \A v \in Nat, op \in {"addr", "poll"} : \A a :
             "halt" \in c /\ Is(a, op, "fmc", v, "halt", "") => Allowed(a, n, p, c)
         /\ \A v \in Nat : \A a : /\ "halt" \in c /\ v < n
                                /\ \/ Is(a, "byte", "fmc", v, "halt", "")
                                   \/ Is(a, "sub", "fmc", v, "halt", "") /\ v % PageSize = 0
                                => Allowed(a, n, p, c)
         /\ \A d \in BusDevices : \A a :
             "give" \in c /\ Is(a, "mux", d, Port[d], "give", "") => Allowed(a, n, p, c)
         /\ \A a : "give" \in c /\ Is(a, "mux", "osc", Port["osc"], "give", "small")
              => Allowed(a, n, p, c)
         /\ \A d \in BusDevices \ {"osc"} : \A a :
             "give" \in c /\ Is(a, "access", d, 0, "give", "") => Allowed(a, n, p, c)
         /\ \A a : "small" \in c /\ Is(a, "mux", "osc", Port["osc"], "small", "")
              => Allowed(a, n, p, c)
         /\ \A v \in ClockValues : \A a :
             p \in Ppm /\ "small" \in c /\ Is(a, "access", "osc", v, "small", "")
               => Allowed(a, n, p, c)
         /\ \A v \in {"freeze", p, "unfreeze", "apply"} : \A a :
             p \in Ppm /\ "give" \in c /\ Is(a, "access", "osc", v, "give", "")
               => Allowed(a, n, p, c)
<1>1. ASSUME NEW op \in {"suspend", "wait", "start", "grab", "resume"},
             NEW a, Is(a, op, "", 0, "", "")
      PROVE  Allowed(a, n, p, c)
  BY <1>1 DEF Is, Allowed, MayFail, Right,
               ErrorPathRight, TargetRight, ToEeprom, ToClock
<1>2. ASSUME NEW a, Is(a, "give", "", 0, "", "give")
      PROVE  Allowed(a, n, p, c)
  BY <1>2 DEF Is, Allowed, MayFail, Right,
               ErrorPathRight, TargetRight, ToEeprom, ToClock
<1>3. ASSUME NEW v \in Nat, NEW m \in {"", "halt"}, NEW a, Is(a, "stop", "", v, "", m)
      PROVE  Allowed(a, n, p, c)
  BY <1>3 DEF Is, Allowed, MayFail, Right,
               ErrorPathRight, TargetRight, ToEeprom, ToClock
<1>4. ASSUME NEW a, Is(a, "nothing", "", 0, "", "unknown")
      PROVE  Allowed(a, n, p, c)
  BY <1>4 DEF Is, Allowed, MayFail, Right,
               ErrorPathRight, TargetRight, ToEeprom, ToClock
<1>5. ASSUME NEW a, Is(a, "trymux", "osc", Port["osc"], "", "")
      PROVE  Allowed(a, n, p, c)
  BY <1>5 DEF Is, Allowed, MayFail, Right,
               ErrorPathRight, TargetRight, ToEeprom, ToClock, BusDevices
<1>6. ASSUME NEW d \in BusDevices \ {"osc"}, NEW a, Is(a, "try", d, 0, "", "")
      PROVE  Allowed(a, n, p, c)
  BY <1>6 DEF Is, Allowed, MayFail, Right,
               ErrorPathRight, TargetRight, ToEeprom, ToClock
<1>7. ASSUME NEW a, Is(a, "found", "osc", 0, "", "")
      PROVE  Allowed(a, n, p, c)
  BY <1>7 DEF Is, Allowed, MayFail, Right,
               ErrorPathRight, TargetRight, ToEeprom, ToClock
<1>8. ASSUME NEW a, Is(a, "report", "eeprom", n, "", "")
      PROVE  Allowed(a, n, p, c)
  BY <1>8 DEF Is, Allowed, MayFail, Right,
               ErrorPathRight, TargetRight, ToEeprom, ToClock
<1>9. ASSUME p \in Ppm, NEW a, Is(a, "report", "osc", p, "", "")
      PROVE  Allowed(a, n, p, c)
  BY <1>9 DEF Is, Allowed, MayFail, Right,
               ErrorPathRight, TargetRight, ToEeprom, ToClock
<1>10. ASSUME "unknown" \in c, NEW a, Is(a, "found", "osc", 0, "unknown", "")
      PROVE  Allowed(a, n, p, c)
  BY <1>10 DEF Is, Allowed, MayFail, Right,
               ErrorPathRight, TargetRight, ToEeprom, ToClock
<1>11. ASSUME "halt" \in c, NEW v \in Nat, NEW op \in {"addr", "poll"}, NEW a,
              Is(a, op, "fmc", v, "halt", "")
      PROVE  Allowed(a, n, p, c)
  BY <1>11 DEF Is, Allowed, MayFail, Right,
               ErrorPathRight, TargetRight, ToEeprom, ToClock
<1>18. ASSUME "halt" \in c, NEW v \in Nat, v < n, NEW a, Is(a, "byte", "fmc", v, "halt", "")
      PROVE  Allowed(a, n, p, c)
  BY <1>18 DEF Is, Allowed, MayFail, Right,
               ErrorPathRight, TargetRight, ToEeprom, ToClock
<1>19. ASSUME "halt" \in c, NEW v \in Nat, v < n, v % PageSize = 0, NEW a,
              Is(a, "sub", "fmc", v, "halt", "")
      PROVE  Allowed(a, n, p, c)
  BY <1>19 DEF Is, Allowed, MayFail, Right,
               ErrorPathRight, TargetRight, ToEeprom, ToClock
<1>12. ASSUME "give" \in c, NEW d \in BusDevices, NEW a, Is(a, "mux", d, Port[d], "give", "")
      PROVE  Allowed(a, n, p, c)
  BY <1>12 DEF Is, Allowed, MayFail, Right,
               ErrorPathRight, TargetRight, ToEeprom, ToClock
<1>13. ASSUME "give" \in c, NEW a, Is(a, "mux", "osc", Port["osc"], "give", "small")
      PROVE  Allowed(a, n, p, c)
  BY <1>13 DEF Is, Allowed, MayFail, Right,
               ErrorPathRight, TargetRight, ToEeprom, ToClock, BusDevices
<1>14. ASSUME "give" \in c, NEW d \in BusDevices \ {"osc"}, NEW a,
             Is(a, "access", d, 0, "give", "")
      PROVE  Allowed(a, n, p, c)
  BY <1>14 DEF Is, Allowed, MayFail, Right,
               ErrorPathRight, TargetRight, ToEeprom, ToClock
<1>15. ASSUME "small" \in c, NEW a, Is(a, "mux", "osc", Port["osc"], "small", "")
      PROVE  Allowed(a, n, p, c)
  BY <1>15 DEF Is, Allowed, MayFail, Right,
               ErrorPathRight, TargetRight, ToEeprom, ToClock, BusDevices
<1>16. ASSUME p \in Ppm, "small" \in c, NEW v \in ClockValues, NEW a,
             Is(a, "access", "osc", v, "small", "")
      PROVE  Allowed(a, n, p, c)
  BY <1>16 DEF Is, Allowed, MayFail, Right,
               ErrorPathRight, TargetRight, ToEeprom, ToClock, BusDevices
<1>17. ASSUME p \in Ppm, "give" \in c, NEW v \in {"freeze", p, "unfreeze", "apply"}, NEW a,
             Is(a, "access", "osc", v, "give", "")
      PROVE  Allowed(a, n, p, c)
  BY <1>17 DEF Is, Allowed, MayFail, Right,
               ErrorPathRight, TargetRight, ToEeprom, ToClock, BusDevices, ClockValues
<1>20. QED
  BY <1>1, <1>2, <1>3, <1>4, <1>5, <1>6, <1>7, <1>8, <1>9, <1>10, <1>11, <1>12,
     <1>13, <1>14, <1>15, <1>16, <1>17, <1>18, <1>19, Zenon

(* Which item may follow which: taking the bus and giving it back, ...    *)
LEMMA FollowsTaking ==
  ASSUME NEW n, NEW p, p \notin ClockValues
  PROVE  /\ \A a, b :
             Is(a, "suspend", "", 0, "", "") /\ Is(b, "wait", "", 0, "", "")
             => Follows(a, b, n, p)
         /\ \A d \in BusDevices, o \in {"give", "small"} : \A a, b :
             Is(a, "wait", "", 0, "", "") /\ Is(b, "mux", d, Port[d], o, "")
             => Follows(a, b, n, p)
         /\ \A a, b :
             Is(a, "wait", "", 0, "", "") /\ Is(b, "found", "osc", 0, "", "")
             => Follows(a, b, n, p)
         /\ \A a, b :
             Is(a, "wait", "", 0, "", "") /\ Is(b, "trymux", "osc", Port["osc"], "", "")
             => Follows(a, b, n, p)
         /\ \A a, b :
             Is(a, "trymux", "osc", Port["osc"], "", "")
             /\ Is(b, "found", "osc", 0, "unknown", "")
             => Follows(a, b, n, p)
         /\ \A o \in {"", "unknown"} : \A a, b :
             Is(a, "found", "osc", 0, o, "")
             /\ Is(b, "mux", "osc", Port["osc"], "small", "")
             => Follows(a, b, n, p)
         /\ \A d \in {"eeprom", "osc"} : \A v : \A a, b :
             Is(a, "report", d, v, "", "") /\ Is(b, "give", "", 0, "", "give")
             => Follows(a, b, n, p)
         /\ \A a, b :
             Is(a, "give", "", 0, "", "give") /\ Is(b, "nothing", "", 0, "", "unknown")
             => Follows(a, b, n, p)
         /\ \A a, b :
             Is(a, "grab", "", 0, "", "") /\ Is(b, "grab", "", 0, "", "")
             => Follows(a, b, n, p)
         /\ \A a, b :
             Is(a, "grab", "", 0, "", "") /\ Is(b, "resume", "", 0, "", "")
             => Follows(a, b, n, p)
<1>1. ASSUME NEW a, NEW b,
              Is(a, "suspend", "", 0, "", ""), Is(b, "wait", "", 0, "", "")
      PROVE  Follows(a, b, n, p)
  BY <1>1 DEF Is, Follows, TurnFollows, TransferFollows, PageFollows,
                 ClockFollows, Transfer, ToEeprom, OnPort, DeviceOf, Clock, ToClock, ClockValues
<1>2. ASSUME NEW d \in BusDevices, NEW o \in {"give", "small"}, NEW a, NEW b,
              Is(a, "wait", "", 0, "", ""), Is(b, "mux", d, Port[d], o, "")
      PROVE  Follows(a, b, n, p)
  BY <1>2 DEF Is, Follows, TurnFollows, TransferFollows, PageFollows,
                 ClockFollows, Transfer, ToEeprom, OnPort, DeviceOf, Clock, ToClock, ClockValues
<1>3. ASSUME NEW a, NEW b,
              Is(a, "wait", "", 0, "", ""), Is(b, "found", "osc", 0, "", "")
      PROVE  Follows(a, b, n, p)
  BY <1>3 DEF Is, Follows, TurnFollows, TransferFollows, PageFollows,
                 ClockFollows, Transfer, ToEeprom, OnPort, DeviceOf, Clock, ToClock, ClockValues
<1>4. ASSUME NEW a, NEW b,
              Is(a, "wait", "", 0, "", ""),
              Is(b, "trymux", "osc", Port["osc"], "", "")
      PROVE  Follows(a, b, n, p)
  BY <1>4 DEF Is, Follows, TurnFollows, TransferFollows, PageFollows,
                 ClockFollows, Transfer, ToEeprom, OnPort, DeviceOf, Clock, ToClock, ClockValues
<1>5. ASSUME NEW a, NEW b,
              Is(a, "trymux", "osc", Port["osc"], "", ""),
              Is(b, "found", "osc", 0, "unknown", "")
      PROVE  Follows(a, b, n, p)
  BY <1>5 DEF Is, Follows, TurnFollows, TransferFollows, PageFollows,
                 ClockFollows, Transfer, ToEeprom, OnPort, DeviceOf, Clock, ToClock, ClockValues
<1>6. ASSUME NEW o \in {"", "unknown"}, NEW a, NEW b,
              Is(a, "found", "osc", 0, o, ""),
              Is(b, "mux", "osc", Port["osc"], "small", "")
      PROVE  Follows(a, b, n, p)
  BY <1>6 DEF Is, Follows, TurnFollows, TransferFollows, PageFollows,
                 ClockFollows, Transfer, ToEeprom, OnPort, DeviceOf, Clock, ToClock, ClockValues
<1>7. ASSUME NEW d \in {"eeprom", "osc"}, NEW v, NEW a, NEW b,
              Is(a, "report", d, v, "", ""), Is(b, "give", "", 0, "", "give")
      PROVE  Follows(a, b, n, p)
  BY <1>7 DEF Is, Follows, TurnFollows, TransferFollows, PageFollows,
                 ClockFollows, Transfer, ToEeprom, OnPort, DeviceOf, Clock, ToClock, ClockValues
<1>8. ASSUME NEW a, NEW b,
              Is(a, "give", "", 0, "", "give"),
              Is(b, "nothing", "", 0, "", "unknown")
      PROVE  Follows(a, b, n, p)
  BY <1>8 DEF Is, Follows, TurnFollows, TransferFollows, PageFollows,
                 ClockFollows, Transfer, ToEeprom, OnPort, DeviceOf, Clock, ToClock, ClockValues
<1>9. ASSUME NEW a, NEW b,
              Is(a, "grab", "", 0, "", ""), Is(b, "grab", "", 0, "", "")
      PROVE  Follows(a, b, n, p)
  BY <1>9 DEF Is, Follows, TurnFollows, TransferFollows, PageFollows,
                 ClockFollows, Transfer, ToEeprom, OnPort, DeviceOf, Clock, ToClock, ClockValues
<1>10. ASSUME NEW a, NEW b,
              Is(a, "grab", "", 0, "", ""), Is(b, "resume", "", 0, "", "")
      PROVE  Follows(a, b, n, p)
  BY <1>10 DEF Is, Follows, TurnFollows, TransferFollows, PageFollows,
                 ClockFollows, Transfer, ToEeprom, OnPort, DeviceOf, Clock, ToClock, ClockValues
<1>11. QED
  BY <1>1, <1>2, <1>3, <1>4, <1>5, <1>6, <1>7, <1>8, <1>9, <1>10

(* ... access to a device at its port, ... *)
LEMMA FollowsAccessing ==
  ASSUME NEW n, NEW p, p \notin ClockValues
  PROVE  /\ \A d \in BusDevices \ {"osc"} : \A a, b :
             Is(a, "mux", d, Port[d], "give", "") /\ Is(b, "access", d, 0, "give", "")
             => Follows(a, b, n, p)
         /\ \A d \in BusDevices : \A a, b :
             Is(a, "mux", d, Port[d], "give", "") /\ Is(b, "try", d, 0, "", "")
             => Follows(a, b, n, p)
         /\ \A d \in BusDevices, e \in BusDevices : \A a, b :
             Is(a, "try", d, 0, "", "") /\ Is(b, "mux", e, Port[e], "give", "")
             => Follows(a, b, n, p)
         /\ \A d \in BusDevices : \A a, b :
             Is(a, "try", d, 0, "", "") /\ Is(b, "give", "", 0, "", "give")
             => Follows(a, b, n, p)
         /\ \A d \in BusDevices \ {"osc"} : \A a, b :
             Is(a, "access", d, 0, "give", "") /\ Is(b, "give", "", 0, "", "give")
             => Follows(a, b, n, p)
<1>1. ASSUME NEW d \in BusDevices \ {"osc"}, NEW a, NEW b,
              Is(a, "mux", d, Port[d], "give", ""),
              Is(b, "access", d, 0, "give", "")
      PROVE  Follows(a, b, n, p)
  BY <1>1 DEF Is, Follows, TurnFollows, TransferFollows, PageFollows,
                 ClockFollows, Transfer, ToEeprom, OnPort, DeviceOf, Clock, ToClock, ClockValues
<1>2. ASSUME NEW d \in BusDevices, NEW a, NEW b,
              Is(a, "mux", d, Port[d], "give", ""), Is(b, "try", d, 0, "", "")
      PROVE  Follows(a, b, n, p)
  BY <1>2 DEF Is, Follows, TurnFollows, TransferFollows, PageFollows,
                 ClockFollows, Transfer, ToEeprom, OnPort, DeviceOf, Clock, ToClock, ClockValues
<1>3. ASSUME NEW d \in BusDevices, NEW e \in BusDevices, NEW a, NEW b,
              Is(a, "try", d, 0, "", ""), Is(b, "mux", e, Port[e], "give", "")
      PROVE  Follows(a, b, n, p)
  BY <1>3 DEF Is, Follows, TurnFollows, TransferFollows, PageFollows,
                 ClockFollows, Transfer, ToEeprom, OnPort, DeviceOf, Clock, ToClock, ClockValues
<1>4. ASSUME NEW d \in BusDevices, NEW a, NEW b,
              Is(a, "try", d, 0, "", ""), Is(b, "give", "", 0, "", "give")
      PROVE  Follows(a, b, n, p)
  BY <1>4 DEF Is, Follows, TurnFollows, TransferFollows, PageFollows,
                 ClockFollows, Transfer, ToEeprom, OnPort, DeviceOf, Clock, ToClock, ClockValues
<1>5. ASSUME NEW d \in BusDevices \ {"osc"}, NEW a, NEW b,
              Is(a, "access", d, 0, "give", ""),
              Is(b, "give", "", 0, "", "give")
      PROVE  Follows(a, b, n, p)
  BY <1>5 DEF Is, Follows, TurnFollows, TransferFollows, PageFollows,
                 ClockFollows, Transfer, ToEeprom, OnPort, DeviceOf, Clock, ToClock, ClockValues
<1>6. QED
  BY <1>1, <1>2, <1>3, <1>4, <1>5

(* ... writing to the EEPROM, ... *)
LEMMA FollowsWriting ==
  ASSUME NEW n \in Nat, NEW p, p \notin ClockValues
  PROVE  /\ \A a, b :
             n = 0 /\ Is(a, "mux", "fmc", Port["fmc"], "give", "")
             /\ Is(b, "report", "eeprom", n, "", "")
             => Follows(a, b, n, p)
         /\ \A a, b :
             Is(a, "mux", "fmc", Port["fmc"], "give", "")
             /\ Is(b, "addr", "fmc", 0, "halt", "")
             => Follows(a, b, n, p)
         /\ \A a, b :
             Is(a, "addr", "fmc", 0, "halt", "") /\ Is(b, "sub", "fmc", 0, "halt", "")
             => Follows(a, b, n, p)
         /\ \A v \in Nat : \A a, b :
             Is(a, "sub", "fmc", v, "halt", "") /\ Is(b, "byte", "fmc", v, "halt", "")
             => Follows(a, b, n, p)
         /\ \A v \in Nat : \A a, b :
             (v + 1) % PageSize # 0 /\ Is(a, "byte", "fmc", v, "halt", "")
             /\ Is(b, "byte", "fmc", v + 1, "halt", "")
             => Follows(a, b, n, p)
         /\ \A v \in Nat : \A a, b :
             Is(a, "byte", "fmc", v, "halt", "") /\ Is(b, "stop", "", v + 1, "", "")
             => Follows(a, b, n, p)
         /\ \A v \in Nat : \A a, b :
             Is(a, "stop", "", v, "", "") /\ Is(b, "poll", "fmc", v, "halt", "")
             => Follows(a, b, n, p)
         /\ \A v \in Nat : \A a, b :
             Is(a, "poll", "fmc", v, "halt", "") /\ Is(b, "sub", "fmc", v, "halt", "")
             => Follows(a, b, n, p)
         /\ \A a, b :
             Is(a, "poll", "fmc", n, "halt", "") /\ Is(b, "start", "", 0, "", "")
             => Follows(a, b, n, p)
         /\ \A a, b :
             Is(a, "start", "", 0, "", "") /\ Is(b, "stop", "", 0, "", "halt")
             => Follows(a, b, n, p)
         /\ \A a, b :
             Is(a, "stop", "", 0, "", "halt") /\ Is(b, "report", "eeprom", n, "", "")
             => Follows(a, b, n, p)
<1>1. ASSUME NEW a, NEW b,
              n = 0, Is(a, "mux", "fmc", Port["fmc"], "give", ""),
              Is(b, "report", "eeprom", n, "", "")
      PROVE  Follows(a, b, n, p)
  BY <1>1 DEF Is, Follows, TurnFollows, TransferFollows, PageFollows,
                 ClockFollows, Transfer, ToEeprom, OnPort, DeviceOf, Clock, ToClock, ClockValues
<1>2. ASSUME NEW a, NEW b,
              Is(a, "mux", "fmc", Port["fmc"], "give", ""),
              Is(b, "addr", "fmc", 0, "halt", "")
      PROVE  Follows(a, b, n, p)
  BY <1>2 DEF Is, Follows, TurnFollows, TransferFollows, PageFollows,
                 ClockFollows, Transfer, ToEeprom, OnPort, DeviceOf, Clock, ToClock, ClockValues
<1>3. ASSUME NEW a, NEW b,
              Is(a, "addr", "fmc", 0, "halt", ""),
              Is(b, "sub", "fmc", 0, "halt", "")
      PROVE  Follows(a, b, n, p)
  BY <1>3 DEF Is, Follows, TurnFollows, TransferFollows, PageFollows,
                 ClockFollows, Transfer, ToEeprom, OnPort, DeviceOf, Clock, ToClock, ClockValues
<1>4. ASSUME NEW v \in Nat, NEW a, NEW b,
              Is(a, "sub", "fmc", v, "halt", ""),
              Is(b, "byte", "fmc", v, "halt", "")
      PROVE  Follows(a, b, n, p)
  BY <1>4 DEF Is, Follows, TurnFollows, TransferFollows, PageFollows,
                 ClockFollows, Transfer, ToEeprom, OnPort, DeviceOf, Clock, ToClock, ClockValues
<1>5. ASSUME NEW v \in Nat, NEW a, NEW b,
              (v + 1) % PageSize # 0, Is(a, "byte", "fmc", v, "halt", ""),
              Is(b, "byte", "fmc", v + 1, "halt", "")
      PROVE  Follows(a, b, n, p)
  BY <1>5 DEF Is, Follows, TurnFollows, TransferFollows, PageFollows,
                 ClockFollows, Transfer, ToEeprom, OnPort, DeviceOf, Clock, ToClock, ClockValues
<1>6. ASSUME NEW v \in Nat, NEW a, NEW b,
              Is(a, "byte", "fmc", v, "halt", ""),
              Is(b, "stop", "", v + 1, "", "")
      PROVE  Follows(a, b, n, p)
  BY <1>6 DEF Is, Follows, TurnFollows, TransferFollows, PageFollows,
                 ClockFollows, Transfer, ToEeprom, OnPort, DeviceOf, Clock, ToClock, ClockValues
<1>7. ASSUME NEW v \in Nat, NEW a, NEW b,
              Is(a, "stop", "", v, "", ""), Is(b, "poll", "fmc", v, "halt", "")
      PROVE  Follows(a, b, n, p)
  BY <1>7 DEF Is, Follows, TurnFollows, TransferFollows, PageFollows,
                 ClockFollows, Transfer, ToEeprom, OnPort, DeviceOf, Clock, ToClock, ClockValues
<1>8. ASSUME NEW v \in Nat, NEW a, NEW b,
              Is(a, "poll", "fmc", v, "halt", ""),
              Is(b, "sub", "fmc", v, "halt", "")
      PROVE  Follows(a, b, n, p)
  BY <1>8 DEF Is, Follows, TurnFollows, TransferFollows, PageFollows,
                 ClockFollows, Transfer, ToEeprom, OnPort, DeviceOf, Clock, ToClock, ClockValues
<1>9. ASSUME NEW a, NEW b,
              Is(a, "poll", "fmc", n, "halt", ""), Is(b, "start", "", 0, "", "")
      PROVE  Follows(a, b, n, p)
  BY <1>9 DEF Is, Follows, TurnFollows, TransferFollows, PageFollows,
                 ClockFollows, Transfer, ToEeprom, OnPort, DeviceOf, Clock, ToClock, ClockValues
<1>10. ASSUME NEW a, NEW b,
              Is(a, "start", "", 0, "", ""), Is(b, "stop", "", 0, "", "halt")
      PROVE  Follows(a, b, n, p)
  BY <1>10 DEF Is, Follows, TurnFollows, TransferFollows, PageFollows,
                 ClockFollows, Transfer, ToEeprom, OnPort, DeviceOf, Clock, ToClock, ClockValues
<1>11. ASSUME NEW a, NEW b,
              Is(a, "stop", "", 0, "", "halt"),
              Is(b, "report", "eeprom", n, "", "")
      PROVE  Follows(a, b, n, p)
  BY <1>11 DEF Is, Follows, TurnFollows, TransferFollows, PageFollows,
                 ClockFollows, Transfer, ToEeprom, OnPort, DeviceOf, Clock, ToClock, ClockValues
<1>12. QED
  BY <1>1, <1>2, <1>3, <1>4, <1>5, <1>6, <1>7, <1>8, <1>9, <1>10, <1>11

(* ... and setting the oscillator. *)
LEMMA FollowsAdjusting ==
  ASSUME NEW n, NEW p, p \notin ClockValues
  PROVE  /\ \A a, b :
             Is(a, "mux", "osc", Port["osc"], "small", "")
             /\ Is(b, "access", "osc", "startup", "small", "")
             => Follows(a, b, n, p)
         /\ \A a, b :
             Is(a, "access", "osc", "startup", "small", "")
             /\ Is(b, "access", "osc", "freeze", "small", "")
             => Follows(a, b, n, p)
         /\ \A a, b :
             Is(a, "access", "osc", "freeze", "small", "")
             /\ Is(b, "access", "osc", "target", "small", "")
             => Follows(a, b, n, p)
         /\ \A a, b :
             Is(a, "access", "osc", "target", "small", "")
             /\ Is(b, "access", "osc", "unfreeze", "small", "")
             => Follows(a, b, n, p)
         /\ \A a, b :
             Is(a, "access", "osc", "unfreeze", "small", "")
             /\ Is(b, "access", "osc", "apply", "small", "")
             => Follows(a, b, n, p)
         /\ \A a, b :
             Is(a, "access", "osc", "apply", "small", "")
             /\ Is(b, "mux", "osc", Port["osc"], "give", "small")
             => Follows(a, b, n, p)
         /\ \A a, b :
             Is(a, "mux", "osc", Port["osc"], "give", "small")
             /\ Is(b, "access", "osc", "freeze", "give", "")
             => Follows(a, b, n, p)
         /\ \A a, b :
             Is(a, "access", "osc", "freeze", "give", "")
             /\ Is(b, "access", "osc", p, "give", "")
             => Follows(a, b, n, p)
         /\ \A a, b :
             Is(a, "access", "osc", p, "give", "")
             /\ Is(b, "access", "osc", "unfreeze", "give", "")
             => Follows(a, b, n, p)
         /\ \A a, b :
             Is(a, "access", "osc", "unfreeze", "give", "")
             /\ Is(b, "access", "osc", "apply", "give", "")
             => Follows(a, b, n, p)
         /\ \A a, b :
             Is(a, "access", "osc", "apply", "give", "")
             /\ Is(b, "report", "osc", p, "", "")
             => Follows(a, b, n, p)
<1>1. ASSUME NEW a, NEW b,
              Is(a, "mux", "osc", Port["osc"], "small", ""),
              Is(b, "access", "osc", "startup", "small", "")
      PROVE  Follows(a, b, n, p)
  BY <1>1 DEF Is, Follows, TurnFollows, TransferFollows, PageFollows,
                 ClockFollows, Transfer, ToEeprom, OnPort, DeviceOf, Clock, ToClock, ClockValues
<1>2. ASSUME NEW a, NEW b,
              Is(a, "access", "osc", "startup", "small", ""),
              Is(b, "access", "osc", "freeze", "small", "")
      PROVE  Follows(a, b, n, p)
  BY <1>2 DEF Is, Follows, TurnFollows, TransferFollows, PageFollows,
                 ClockFollows, Transfer, ToEeprom, OnPort, DeviceOf, Clock, ToClock, ClockValues
<1>3. ASSUME NEW a, NEW b,
              Is(a, "access", "osc", "freeze", "small", ""),
              Is(b, "access", "osc", "target", "small", "")
      PROVE  Follows(a, b, n, p)
  BY <1>3 DEF Is, Follows, TurnFollows, TransferFollows, PageFollows,
                 ClockFollows, Transfer, ToEeprom, OnPort, DeviceOf, Clock, ToClock, ClockValues
<1>4. ASSUME NEW a, NEW b,
              Is(a, "access", "osc", "target", "small", ""),
              Is(b, "access", "osc", "unfreeze", "small", "")
      PROVE  Follows(a, b, n, p)
  BY <1>4 DEF Is, Follows, TurnFollows, TransferFollows, PageFollows,
                 ClockFollows, Transfer, ToEeprom, OnPort, DeviceOf, Clock, ToClock, ClockValues
<1>5. ASSUME NEW a, NEW b,
              Is(a, "access", "osc", "unfreeze", "small", ""),
              Is(b, "access", "osc", "apply", "small", "")
      PROVE  Follows(a, b, n, p)
  BY <1>5 DEF Is, Follows, TurnFollows, TransferFollows, PageFollows,
                 ClockFollows, Transfer, ToEeprom, OnPort, DeviceOf, Clock, ToClock, ClockValues
<1>6. ASSUME NEW a, NEW b,
              Is(a, "access", "osc", "apply", "small", ""),
              Is(b, "mux", "osc", Port["osc"], "give", "small")
      PROVE  Follows(a, b, n, p)
  BY <1>6 DEF Is, Follows, TurnFollows, TransferFollows, PageFollows,
                 ClockFollows, Transfer, ToEeprom, OnPort, DeviceOf, Clock, ToClock, ClockValues
<1>7. ASSUME NEW a, NEW b,
              Is(a, "mux", "osc", Port["osc"], "give", "small"),
              Is(b, "access", "osc", "freeze", "give", "")
      PROVE  Follows(a, b, n, p)
  BY <1>7 DEF Is, Follows, TurnFollows, TransferFollows, PageFollows,
                 ClockFollows, Transfer, ToEeprom, OnPort, DeviceOf, Clock, ToClock, ClockValues
<1>8. ASSUME NEW a, NEW b,
              Is(a, "access", "osc", "freeze", "give", ""),
              Is(b, "access", "osc", p, "give", "")
      PROVE  Follows(a, b, n, p)
  BY <1>8 DEF Is, Follows, TurnFollows, TransferFollows, PageFollows,
                 ClockFollows, Transfer, ToEeprom, OnPort, DeviceOf, Clock, ToClock, ClockValues
<1>9. ASSUME NEW a, NEW b,
              Is(a, "access", "osc", p, "give", ""),
              Is(b, "access", "osc", "unfreeze", "give", "")
      PROVE  Follows(a, b, n, p)
  BY <1>9 DEF Is, Follows, TurnFollows, TransferFollows, PageFollows,
                 ClockFollows, Transfer, ToEeprom, OnPort, DeviceOf, Clock, ToClock, ClockValues
<1>10. ASSUME NEW a, NEW b,
              Is(a, "access", "osc", "unfreeze", "give", ""),
              Is(b, "access", "osc", "apply", "give", "")
      PROVE  Follows(a, b, n, p)
  BY <1>10 DEF Is, Follows, TurnFollows, TransferFollows, PageFollows,
                 ClockFollows, Transfer, ToEeprom, OnPort, DeviceOf, Clock, ToClock, ClockValues
<1>11. ASSUME NEW a, NEW b,
              Is(a, "access", "osc", "apply", "give", ""),
              Is(b, "report", "osc", p, "", "")
      PROVE  Follows(a, b, n, p)
  BY <1>11 DEF Is, Follows, TurnFollows, TransferFollows, PageFollows,
                 ClockFollows, Transfer, ToEeprom, OnPort, DeviceOf, Clock, ToClock, ClockValues
<1>12. QED
  BY <1>1, <1>2, <1>3, <1>4, <1>5, <1>6, <1>7, <1>8, <1>9, <1>10, <1>11

LEMMA EndMarks ==
  ASSUME NEW s, NEW n, NEW p, NEW c, NEW a, NEW b, NEW kinds, Part(s, n, p, c, a, b, kinds)
  PROVE  {a.mark, b.mark} \subseteq Marks(s)
<1>1. s \in Seq(BusItem) /\ s # <<>> /\ s[1] = a /\ s[Len(s)] = b
  BY DEF Part, Piece
<1>2. 1 \in DOMAIN s /\ Len(s) \in DOMAIN s
  BY <1>1
<1>3. QED
  BY <1>1, <1>2 DEF Marks

(* A whole command: it begins with item a, with operations of these kinds. *)
Whole(s, n, p, a, kinds) ==
  Program(s, n, p) /\ s # <<>> /\ Head(s) = a /\ Kinds(s) \subseteq kinds

Monitoring == {"suspend", "wait", "mux", "access", "try", "give"}

LEMMA TakeIsPart ==
  ASSUME NEW n \in Sizes, NEW p \in Offsets
  PROVE  Part(Take, n, p, {}, Suspend, Wait, {"suspend", "wait"})
<1>1. Allowed(Suspend, n, p, {}) /\ Allowed(Wait, n, p, {}) /\ Follows(Suspend, Wait, n, p)
  BY ValuesOfBus, ItemsAre, Allows, FollowsTaking, Zenon
<1>2. Kind(Suspend) = "suspend" /\ Kind(Wait) = "wait" /\ ~IsFound(Wait)
  <2>1. Is(Suspend, "suspend", "", 0, "", "") /\ Is(Wait, "wait", "", 0, "", "")
    BY ItemsAre, Zenon
  <2>2. QED
    BY <2>1 DEF Is, Kind, ToClock, IsFound
<1>3. Part(<<Suspend, Wait>>, n, p, {}, Suspend, Wait, {Kind(Suspend), Kind(Wait)})
  BY <1>1, <1>2, TwoItems
<1>4. QED
  BY <1>2, <1>3, Zenon DEF Take, Suspend, Wait

LEMMA ReadIsProgram ==
  ASSUME NEW n \in Sizes, NEW p \in Offsets
  PROVE  Whole(iicProcReadFMC_EEPROM, n, p, Suspend, Monitoring)
<1> DEFINE a == SetMux("fmc", "give")
           b == Access("fmc", 0, "give")
<1>1. /\ Is(a, "mux", "fmc", Port["fmc"], "give", "") /\ Is(b, "access", "fmc", 0, "give", "")
      /\ Is(Give, "give", "", 0, "", "give") /\ Is(Wait, "wait", "", 0, "", "")
      /\ p \notin ClockValues
  <2>1. "fmc" \in BusDevices /\ 0 \in BusValue /\ "give" \in BusName
    BY DeviceNames, Names DEF BusDevices
  <2>2. QED
    BY <2>1, ItemsAre, TransfersAre, ValuesOfBus, Zenon
<1> HIDE DEF a, b
<1>2. "fmc" \in BusDevices /\ "fmc" \in BusDevices \ {"osc"} /\ "give" \in {"give"}
  BY DEF BusDevices
<1>3. Allowed(a, n, p, {"give"}) /\ Allowed(b, n, p, {"give"}) /\ Allowed(Give, n, p, {})
  BY <1>1, <1>2, Allows, Zenon
<1>4. Follows(Wait, a, n, p) /\ Follows(a, b, n, p) /\ Follows(b, Give, n, p)
  <2>1. "give" \in {"give", "small"}
    OBVIOUS
  <2>2. QED
    BY <1>1, <1>2, <2>1, FollowsTaking, FollowsAccessing, Zenon
<1>5. /\ Kind(a) = "mux" /\ Kind(b) = "access" /\ Kind(Give) = "give"
      /\ ~IsFound(a) /\ ~IsFound(b) /\ ~IsFound(Give) /\ Give.mark = "give" /\ Give.op = "give"
  BY <1>1 DEF Is, Kind, ToClock, IsFound
<1>6. Part(<<a, b, Give>>, n, p, {}, a, Give, {"mux", "access", "give"})
  BY <1>3, <1>4, <1>5, ThreeItems
<1>7. Part(Take \o <<a, b, Give>>, n, p, {}, Suspend, Give,
           {"suspend", "wait"} \cup {"mux", "access", "give"})
  BY <1>4, <1>6, TakeIsPart, PartsJoined
<1>8. QED
  BY <1>5, <1>7, PartIsProgram DEF Whole, Monitoring, iicProcReadFMC_EEPROM, a, b

LEMMA SwitchIsProgram ==
  ASSUME NEW n \in Sizes, NEW p \in Offsets
  PROVE  Whole(mgtClkSwitch, n, p, Suspend, Monitoring)
<1> DEFINE a == SetMux("switch", "give")
           b == Try("switch")
<1>1. /\ Is(a, "mux", "switch", Port["switch"], "give", "") /\ Is(b, "try", "switch", 0, "", "")
      /\ Is(Give, "give", "", 0, "", "give") /\ Is(Wait, "wait", "", 0, "", "")
      /\ p \notin ClockValues
  <2>1. "switch" \in BusDevices /\ "give" \in BusName
    BY DeviceNames, Names DEF BusDevices
  <2>2. QED
    BY <2>1, ItemsAre, TransfersAre, ValuesOfBus, Zenon
<1>2. mgtClkSwitch = Take \o <<a, b, Give>>
  BY DEF mgtClkSwitch, Try
<1> HIDE DEF a, b
<1>3. "switch" \in BusDevices /\ "give" \in {"give"} /\ "give" \in {"give", "small"}
  BY DEF BusDevices
<1>4. Allowed(a, n, p, {"give"}) /\ Allowed(b, n, p, {"give"}) /\ Allowed(Give, n, p, {})
  BY <1>1, <1>3, Allows, Zenon
<1>5. Follows(Wait, a, n, p) /\ Follows(a, b, n, p) /\ Follows(b, Give, n, p)
  BY <1>1, <1>3, FollowsTaking, FollowsAccessing, Zenon
<1>6. /\ Kind(a) = "mux" /\ Kind(b) = "try" /\ Kind(Give) = "give"
      /\ ~IsFound(a) /\ ~IsFound(b) /\ ~IsFound(Give) /\ Give.mark = "give" /\ Give.op = "give"
  BY <1>1 DEF Is, Kind, ToClock, IsFound
<1>7. Part(<<a, b, Give>>, n, p, {}, a, Give, {"mux", "try", "give"})
  BY <1>4, <1>5, <1>6, ThreeItems
<1>8. Part(Take \o <<a, b, Give>>, n, p, {}, Suspend, Give,
           {"suspend", "wait"} \cup {"mux", "try", "give"})
  BY <1>5, <1>7, TakeIsPart, PartsJoined
<1>9. QED
  BY <1>2, <1>6, <1>8, PartIsProgram DEF Whole, Monitoring

LEMMA ScanIsProgram ==
  ASSUME NEW n \in Sizes, NEW p \in Offsets, NEW found \in BOOLEAN
  PROVE  Whole(iicProcScan(found), n, p, Suspend, Monitoring)
<1> DEFINE a == SetMux("fmc", "give")
           b == Try("fmc")
           e == SetMux("qsfp", "give")
           f == Try("qsfp")
           g == Access("qsfp", 0, "give")
           K == {"suspend", "wait", "mux", "try"}
<1>1. /\ Is(a, "mux", "fmc", Port["fmc"], "give", "") /\ Is(b, "try", "fmc", 0, "", "")
      /\ Is(e, "mux", "qsfp", Port["qsfp"], "give", "") /\ Is(f, "try", "qsfp", 0, "", "")
      /\ Is(g, "access", "qsfp", 0, "give", "")
      /\ Is(Give, "give", "", 0, "", "give") /\ Is(Wait, "wait", "", 0, "", "")
      /\ p \notin ClockValues
  <2>1. "fmc" \in BusDevices /\ "qsfp" \in BusDevices /\ 0 \in BusValue /\ "give" \in BusName
    BY DeviceNames, Names DEF BusDevices
  <2>2. QED
    BY <2>1, ItemsAre, TransfersAre, ValuesOfBus, Zenon
<1>2. iicProcScan(found) =
        ((Take \o <<a, b, e, f>>) \o (IF found THEN <<e, g>> ELSE <<>>)) \o <<Give>>
  BY DEF iicProcScan, iicProcShowQSFP, Try
<1> HIDE DEF a, b, e, f, g
<1>3. /\ "fmc" \in BusDevices /\ "qsfp" \in BusDevices /\ "qsfp" \in BusDevices \ {"osc"}
      /\ "give" \in {"give"} /\ "give" \in {"give", "small"}
  BY DEF BusDevices
<1>4. /\ Allowed(a, n, p, {"give"}) /\ Allowed(b, n, p, {"give"}) /\ Allowed(e, n, p, {"give"})
      /\ Allowed(f, n, p, {"give"}) /\ Allowed(g, n, p, {"give"}) /\ Allowed(Give, n, p, {})
  BY <1>1, <1>3, Allows, Zenon
<1>5. /\ Follows(Wait, a, n, p) /\ Follows(a, b, n, p) /\ Follows(b, e, n, p)
      /\ Follows(e, f, n, p) /\ Follows(f, e, n, p) /\ Follows(e, g, n, p)
      /\ Follows(f, Give, n, p) /\ Follows(g, Give, n, p)
  BY <1>1, <1>3, FollowsTaking, FollowsAccessing, Zenon
<1>6. /\ Kind(a) = "mux" /\ Kind(b) = "try" /\ Kind(e) = "mux" /\ Kind(f) = "try"
      /\ Kind(g) = "access" /\ Kind(Give) = "give"
      /\ ~IsFound(b) /\ ~IsFound(e) /\ ~IsFound(f) /\ ~IsFound(g) /\ ~IsFound(Give)
      /\ Give.mark = "give" /\ Give.op = "give"
  BY <1>1 DEF Is, Kind, ToClock, IsFound
<1>7. Part(<<a, b, e, f>>, n, p, {"give"}, a, f, {"mux", "try"})
  <2>1. Part(<<a, b, e, f>>, n, p, {"give"}, a, f, {Kind(a), Kind(b), Kind(e), Kind(f)})
    BY <1>4, <1>5, <1>6, FourItems
  <2>2. {Kind(a), Kind(b), Kind(e), Kind(f)} = {"mux", "try"}
    BY <1>6
  <2>3. QED
    BY <2>1, <2>2
<1>8. Part(Take \o <<a, b, e, f>>, n, p, {"give"}, Suspend, f, K)
  <2>1. Part(Take \o <<a, b, e, f>>, n, p, {"give"}, Suspend, f,
             {"suspend", "wait"} \cup {"mux", "try"})
    BY <1>5, <1>7, TakeIsPart, PartsJoined
  <2>2. {"suspend", "wait"} \cup {"mux", "try"} = K
    OBVIOUS
  <2>3. QED
    BY <2>1, <2>2
<1> DEFINE s == Take \o <<a, b, e, f>>
<1> HIDE DEF s
<1>9. CASE found
  <2>1. Part(<<e, g>>, n, p, {"give"}, e, g, {"mux", "access"})
    <3>1. Part(<<e, g>>, n, p, {"give"}, e, g, {Kind(e), Kind(g)})
      BY <1>4, <1>5, <1>6, TwoItems
    <3>2. QED
      BY <1>6, <3>1
  <2>2. Part(s \o <<e, g>>, n, p, {"give"}, Suspend, g, K \cup {"mux", "access"})
    BY <1>5, <1>8, <2>1, PartsJoined DEF s
  <2>3. Part((s \o <<e, g>>) \o <<Give>>, n, p, {}, Suspend, Give,
             (K \cup {"mux", "access"}) \cup {Kind(Give)})
    BY <1>4, <1>5, <1>6, <2>2, OneItemMore
  <2>4. Whole((s \o <<e, g>>) \o <<Give>>, n, p, Suspend, Monitoring)
    BY <1>6, <2>3, PartIsProgram DEF Whole, Monitoring
  <2>5. QED
    BY <1>2, <1>9, <2>4 DEF s
<1>10. CASE ~found
  <2>1. Part(s \o <<Give>>, n, p, {}, Suspend, Give, K \cup {Kind(Give)})
    BY <1>4, <1>5, <1>6, <1>8, OneItemMore DEF s
  <2>2. Whole(s \o <<Give>>, n, p, Suspend, Monitoring)
    BY <1>6, <2>1, PartIsProgram DEF Whole, Monitoring
  <2>3. s \o <<>> = s
    <3>1. s \in Seq(BusItem)
      BY <1>8 DEF s, Part, Piece
    <3>2. QED
      BY <3>1, ConcatEmptySeq
  <2>4. QED
    BY <1>2, <1>10, <2>2, <2>3 DEF s
<1>11. QED
  BY <1>9, <1>10

(* The readback, of any number of values. *)
LEMMA ReadbackIsProgram ==
  ASSUME NEW n \in Sizes, NEW p \in Offsets
  PROVE  /\ Whole(iicChunkReadback, n, p, Head(iicChunkReadback), {"grab", "resume"})
         /\ Head(iicChunkReadback) \in {Grab, Resume}
<1>1. /\ Is(Grab, "grab", "", 0, "", "") /\ Is(Resume, "resume", "", 0, "", "")
      /\ p \notin ClockValues
  BY ItemsAre, ValuesOfBus, Zenon
<1>2. Allowed(Grab, n, p, {}) /\ Allowed(Resume, n, p, {})
  BY <1>1, Allows, Zenon
<1>3. Follows(Grab, Grab, n, p) /\ Follows(Grab, Resume, n, p)
  BY <1>1, FollowsTaking, Zenon
<1>4. /\ Kind(Grab) = "grab" /\ Kind(Resume) = "resume" /\ Resume.op = "resume"
      /\ ~IsFound(Grab) /\ ~IsFound(Resume) /\ ~MayFail(Grab) /\ Grab.op = "grab"
  BY <1>1 DEF Is, Kind, ToClock, IsFound, MayFail
<1> DEFINE s == [k \in 1 .. SnapshotSize |-> Grab]
<1>5. iicChunkReadback = s \o <<Resume>>
  BY DEF iicChunkReadback, Grab, Resume
<1>6. CASE SnapshotSize = 0
  <2>1. s = <<>> /\ <<Resume>> \in Seq(BusItem)
    BY <1>2, <1>6 DEF Allowed
  <2>2. iicChunkReadback = <<Resume>>
    BY <1>5, <2>1, ConcatEmptySeq
  <2>3. Part(<<Resume>>, n, p, {}, Resume, Resume, {Kind(Resume)})
    BY <1>2, ItemIsPart
  <2>4. QED
    BY <1>4, <2>2, <2>3, PartIsProgram DEF Whole
<1>7. CASE SnapshotSize # 0
  <2>1. /\ s \in Seq(BusItem) /\ Len(s) = SnapshotSize /\ DOMAIN s = 1 .. SnapshotSize
        /\ s # <<>> /\ \A i \in DOMAIN s : s[i] = Grab
        /\ 1 \in DOMAIN s /\ SnapshotSize \in DOMAIN s
    BY <1>2, <1>7, BusAssumption DEF Allowed
  <2> HIDE DEF s
  <2>2. \A i \in DOMAIN s : i > 1 => s[i - 1] = Grab
    <3>1. \A i \in 1 .. SnapshotSize : i > 1 => i - 1 \in 1 .. SnapshotSize
      BY BusAssumption
    <3>2. QED
      BY <2>1, <3>1
  <2>3. Kinds(s) \subseteq {"grab"} /\ FoundOnce(s) /\ ErrorPaths(s, {})
    BY <1>4, <2>1 DEF Kinds, FoundOnce, ErrorPaths
  <2>4. Part(s, n, p, {}, Grab, Grab, {"grab"})
    BY <1>2, <1>3, <2>1, <2>2, <2>3 DEF Part, Piece, Allowed
  <2>5. Part(s \o <<Resume>>, n, p, {}, Grab, Resume, {"grab"} \cup {Kind(Resume)})
    BY <1>2, <1>3, <1>4, <2>4, OneItemMore
  <2>6. QED
    BY <1>4, <1>5, <2>5, PartIsProgram DEF Whole
<1>8. QED
  BY <1>6, <1>7

(* The parts of a command that sets the oscillator. *)
LEMMA InitIsPart ==
  ASSUME NEW n \in Sizes, NEW p \in Ppm
  PROVE  Part(refInit, n, p, {"small", "unknown"}, SetMux("osc", "small"),
              Access("osc", "apply", "small"), {"mux", "clock"})
<1> DEFINE m == SetMux("osc", "small")
           a(v) == Access("osc", v, "small")
           c == {"small", "unknown"}
<1>1. refInit = (<<m>> \o <<a("startup")>>)
                \o <<a("freeze"), a("target"), a("unfreeze"), a("apply")>>
  BY DEF refInit, Recall, SetDividers
<1>2. /\ Is(m, "mux", "osc", Port["osc"], "small", "") /\ p \notin ClockValues
      /\ \A v \in ClockValues : Is(a(v), "access", "osc", v, "small", "")
  <2>1. "osc" \in BusDevices /\ "small" \in BusName /\ p \in Offsets
    BY Names DEF BusDevices, Offsets
  <2>2. QED
    BY <2>1, TransfersAre, ValuesOfBus
<1>3. /\ "startup" \in ClockValues /\ "freeze" \in ClockValues /\ "target" \in ClockValues
      /\ "unfreeze" \in ClockValues /\ "apply" \in ClockValues /\ "small" \in c
  BY DEF ClockValues
<1> HIDE DEF m, a, c
<1>4. Allowed(m, n, p, c) /\ \A v \in ClockValues : Allowed(a(v), n, p, c)
  BY <1>2, <1>3, Allows, Zenon
<1>5. /\ Follows(m, a("startup"), n, p) /\ Follows(a("startup"), a("freeze"), n, p)
      /\ Follows(a("freeze"), a("target"), n, p) /\ Follows(a("target"), a("unfreeze"), n, p)
      /\ Follows(a("unfreeze"), a("apply"), n, p)
  BY <1>2, <1>3, FollowsAdjusting, Zenon
<1>6. Kind(m) = "mux" /\ \A v \in ClockValues : Kind(a(v)) = "clock" /\ ~IsFound(a(v))
  <2>1. Kind(m) = "mux"
    BY <1>2 DEF Is, Kind, ToClock
  <2>2. ASSUME NEW v \in ClockValues
        PROVE  Kind(a(v)) = "clock" /\ ~IsFound(a(v))
    <3>1. a(v).op = "access" /\ a(v).device = "osc"
      BY <1>2 DEF Is
    <3>2. QED
      BY <3>1 DEF Kind, ToClock, IsFound
  <2>3. QED
    BY <2>1, <2>2
<1>7. Part(<<m>>, n, p, c, m, m, {"mux"})
  BY <1>4, <1>6, ItemIsPart
<1>8. Part(<<m>> \o <<a("startup")>>, n, p, c, m, a("startup"), {"mux"} \cup {"clock"})
  <2>1. Kind(a("startup")) = "clock" /\ ~IsFound(a("startup")) /\ Allowed(a("startup"), n, p, c)
    BY <1>3, <1>4, <1>6, Zenon
  <2>2. QED
    BY <1>5, <1>7, <2>1, OneItemMore
<1>9. Part(<<a("freeze"), a("target"), a("unfreeze"), a("apply")>>, n, p, c,
           a("freeze"), a("apply"), {"clock"})
  <2>1. /\ Allowed(a("freeze"), n, p, c) /\ Allowed(a("target"), n, p, c)
        /\ Allowed(a("unfreeze"), n, p, c) /\ Allowed(a("apply"), n, p, c)
        /\ ~IsFound(a("target")) /\ ~IsFound(a("unfreeze")) /\ ~IsFound(a("apply"))
    BY <1>3, <1>4, <1>6, Zenon
  <2>2. Part(<<a("freeze"), a("target"), a("unfreeze"), a("apply")>>, n, p, c, a("freeze"),
             a("apply"), {Kind(a("freeze")), Kind(a("target")), Kind(a("unfreeze")),
                          Kind(a("apply"))})
    BY <1>5, <2>1, FourItems
  <2>3. /\ Kind(a("freeze")) = "clock" /\ Kind(a("target")) = "clock"
        /\ Kind(a("unfreeze")) = "clock" /\ Kind(a("apply")) = "clock"
    BY <1>3, <1>6, Zenon
  <2>4. QED
    BY <2>2, <2>3
<1>10. Part(refInit, n, p, c, m, a("apply"), ({"mux"} \cup {"clock"}) \cup {"clock"})
  BY <1>1, <1>5, <1>8, <1>9, PartsJoined
<1>11. ({"mux"} \cup {"clock"}) \cup {"clock"} = {"mux", "clock"}
  OBVIOUS
<1>12. QED
  BY <1>10, <1>11 DEF m, a, c

LEMMA ChangesArePart ==
  ASSUME NEW n \in Sizes, NEW p \in Ppm
  PROVE  Part(refSmallChanges(p), n, p, {"give", "unknown"}, Small,
              Access("osc", "apply", "give"), {"mux", "clock"})
<1> DEFINE a(v) == Access("osc", v, "give")
           c == {"give", "unknown"}
<1>1. refSmallChanges(p) = <<Small>> \o <<a("freeze"), a(p), a("unfreeze"), a("apply")>>
  BY DEF refSmallChanges, SetDividers, Small
<1> DEFINE V == {"freeze", p, "unfreeze", "apply"}
<1>2. /\ Is(Small, "mux", "osc", Port["osc"], "give", "small") /\ p \notin ClockValues
      /\ \A v \in V : Is(a(v), "access", "osc", v, "give", "")
  <2>1. "osc" \in BusDevices /\ "give" \in BusName /\ p \in Offsets /\ p \in BusValue
    BY Names, ValuesOfBus DEF BusDevices, Offsets
  <2>2. V \subseteq BusValue
    <3>1. {"freeze", "unfreeze", "apply"} \subseteq ClockValues
      BY DEF ClockValues
    <3>2. QED
      BY <2>1, <3>1, ValuesOfBus
  <2>3. QED
    BY <2>1, <2>2, ItemsAre, TransfersAre, ValuesOfBus
<1>3. "freeze" \in V /\ p \in V /\ "unfreeze" \in V /\ "apply" \in V /\ "give" \in c
  OBVIOUS
<1>4. Allowed(Small, n, p, c) /\ \A v \in V : Allowed(a(v), n, p, c)
  <2> HIDE DEF a, c
  <2>1. QED
    BY <1>2, <1>3, Allows, Zenon
<1> HIDE DEF a, c, V
<1>5. /\ Follows(Small, a("freeze"), n, p) /\ Follows(a("freeze"), a(p), n, p)
      /\ Follows(a(p), a("unfreeze"), n, p) /\ Follows(a("unfreeze"), a("apply"), n, p)
  BY <1>2, <1>3, FollowsAdjusting, Zenon
<1>6. Kind(Small) = "mux" /\ \A v \in V : Kind(a(v)) = "clock" /\ ~IsFound(a(v))
  <2>1. Kind(Small) = "mux"
    BY <1>2 DEF Is, Kind, ToClock
  <2>2. ASSUME NEW v \in V
        PROVE  Kind(a(v)) = "clock" /\ ~IsFound(a(v))
    <3>1. a(v).op = "access" /\ a(v).device = "osc"
      BY <1>2 DEF Is
    <3>2. QED
      BY <3>1 DEF Kind, ToClock, IsFound
  <2>3. QED
    BY <2>1, <2>2
<1>7. Part(<<Small>>, n, p, c, Small, Small, {"mux"})
  BY <1>4, <1>6, ItemIsPart
<1>8. Part(<<a("freeze"), a(p), a("unfreeze"), a("apply")>>, n, p, c,
           a("freeze"), a("apply"), {"clock"})
  <2>1. /\ Allowed(a("freeze"), n, p, c) /\ Allowed(a(p), n, p, c)
        /\ Allowed(a("unfreeze"), n, p, c) /\ Allowed(a("apply"), n, p, c)
        /\ ~IsFound(a(p)) /\ ~IsFound(a("unfreeze")) /\ ~IsFound(a("apply"))
    BY <1>3, <1>4, <1>6, Zenon
  <2>2. Part(<<a("freeze"), a(p), a("unfreeze"), a("apply")>>, n, p, c, a("freeze"),
             a("apply"), {Kind(a("freeze")), Kind(a(p)), Kind(a("unfreeze")), Kind(a("apply"))})
    BY <1>5, <2>1, FourItems
  <2>3. /\ Kind(a("freeze")) = "clock" /\ Kind(a(p)) = "clock"
        /\ Kind(a("unfreeze")) = "clock" /\ Kind(a("apply")) = "clock"
    BY <1>3, <1>6, Zenon
  <2>4. QED
    BY <2>2, <2>3
<1>9. Part(refSmallChanges(p), n, p, c, Small, a("apply"), {"mux"} \cup {"clock"})
  BY <1>1, <1>5, <1>7, <1>8, PartsJoined
<1>10. {"mux"} \cup {"clock"} = {"mux", "clock"}
  OBVIOUS
<1>11. QED
  BY <1>9, <1>10 DEF a, c

(* Beginning, where the address of the oscillator may have to be found. *)
Locating == {"suspend", "wait", "trymux"}
Finding == IF known THEN {} ELSE {"found"}
Located(inMailbox) ==
  Take \o (IF known THEN <<>> ELSE readSI570parameter(inMailbox))

LEMMA LocatedIsPart ==
  ASSUME NEW n \in Sizes, NEW p \in Ppm, NEW inMailbox \in BOOLEAN
  PROVE  \E b : /\ Part(Located(inMailbox), n, p, {"unknown"}, Suspend, b, Locating \cup Finding)
               /\ Follows(b, SetMux("osc", "small"), n, p)
<1> DEFINE c == {"unknown"}
           m == SetMux("osc", "small")
           u == Found("unknown")
<1>1. /\ Is(m, "mux", "osc", Port["osc"], "small", "") /\ p \notin ClockValues
      /\ Is(Wait, "wait", "", 0, "", "") /\ Is(Suspend, "suspend", "", 0, "", "")
      /\ Is(TryMux, "trymux", "osc", Port["osc"], "", "")
      /\ Is(Found(""), "found", "osc", 0, "", "") /\ Is(u, "found", "osc", 0, "unknown", "")
  <2>1. "osc" \in BusDevices /\ "small" \in BusName /\ p \in Offsets
    BY Names DEF BusDevices, Offsets
  <2>2. QED
    BY <2>1, TransfersAre, ItemsAre, ValuesOfBus, Zenon
<1>2. "unknown" \in c /\ "" \in {"", "unknown"} /\ "osc" \in BusDevices
      /\ "small" \in {"give", "small"}
  BY DEF BusDevices
<1>3. /\ \A v \in {Suspend, Wait} : Allowed(v, n, p, c)
      /\ Allowed(TryMux, n, p, c) /\ Allowed(Found(""), n, p, c) /\ Allowed(u, n, p, c)
  <2> HIDE DEF c, u
  <2>1. QED
    BY <1>1, <1>2, Allows, Zenon
<1>4. /\ Follows(Wait, m, n, p) /\ Follows(Wait, Found(""), n, p) /\ Follows(Wait, TryMux, n, p)
      /\ Follows(TryMux, u, n, p) /\ Follows(Found(""), m, n, p) /\ Follows(u, m, n, p)
  <2>1. "unknown" \in {"", "unknown"}
    OBVIOUS
  <2> HIDE DEF m, u
  <2>2. QED
    BY <1>1, <1>2, <2>1, FollowsTaking, Zenon
<1> HIDE DEF m, u
<1>5. /\ Kind(Found("")) = "found" /\ Kind(u) = "found" /\ Kind(TryMux) = "trymux"
      /\ ~IsFound(TryMux)
  BY <1>1 DEF Is, Kind, ToClock, IsFound
<1>6. Part(Take, n, p, {}, Suspend, Wait, {"suspend", "wait"})
  BY TakeIsPart DEF Offsets
<1>7. CASE known
  <2>1. Located(inMailbox) = Take
    <3>1. Take \in Seq(BusItem)
      BY <1>6 DEF Part, Piece
    <3>2. QED
      BY <1>7, <3>1, ConcatEmptySeq DEF Located
  <2>2. Part(Take, n, p, c, Suspend, Wait, Locating \cup Finding)
    BY <1>6 DEF Part, Piece, ErrorPaths, Locating
  <2>3. QED
    BY <1>4, <2>1, <2>2 DEF m
<1>8. CASE ~known /\ inMailbox
  <2>1. Located(inMailbox) = Take \o <<Found("")>>
    BY <1>8 DEF Located, readSI570parameter, Found
  <2>2. Part(Take \o <<Found("")>>, n, p, c, Suspend, Found(""),
             {"suspend", "wait"} \cup {"found"})
    BY <1>3, <1>4, <1>5, <1>6, OneItemMore
  <2>3. Part(Take \o <<Found("")>>, n, p, c, Suspend, Found(""), Locating \cup Finding)
    BY <1>8, <2>2 DEF Part, Locating, Finding
  <2>4. QED
    BY <1>4, <2>1, <2>3 DEF m
<1>9. CASE ~known /\ ~inMailbox
  <2>1. Located(inMailbox) = Take \o <<TryMux, u>>
    BY <1>9 DEF Located, readSI570parameter, Found, TryMux, u
  <2>2. Part(<<TryMux, u>>, n, p, c, TryMux, u, {"trymux", "found"})
    BY <1>3, <1>4, <1>5, TwoItems
  <2> DEFINE t == <<TryMux, u>>
  <2> HIDE DEF t, c
  <2>3. Part(Take \o t, n, p, c, Suspend, u, {"suspend", "wait"} \cup {"trymux", "found"})
    <3>1. {} \subseteq c \cup Marks(t)
      OBVIOUS
    <3>2. "found" \notin {"suspend", "wait"} \cap {"trymux", "found"}
      OBVIOUS
    <3>3. Part(t, n, p, c, TryMux, u, {"trymux", "found"})
      BY <2>2 DEF t
    <3>4. Follows(Wait, TryMux, n, p)
      BY <1>4, Zenon
    <3> HIDE DEF u
    <3>5. QED
      BY <1>6, <3>1, <3>2, <3>3, <3>4, PartsJoined
  <2>4. Part(Take \o t, n, p, c, Suspend, u, Locating \cup Finding)
    BY <1>9, <2>3 DEF Part, Locating, Finding
  <2>5. QED
    BY <1>4, <2>1, <2>4 DEF m, t, c
<1>10. QED
  BY <1>7, <1>8, <1>9

Setting == Locating \cup {"mux", "clock", "report", "give", "nothing"}

LEMMA AdjustIsProgram ==
  ASSUME NEW n \in Sizes, NEW p \in Ppm, NEW inMailbox \in BOOLEAN
  PROVE  Whole(userMGTrefClkAdjust(p, inMailbox), n, p, Suspend, Setting \cup Finding)
<1> DEFINE m == SetMux("osc", "small")
           r == Report("osc", p)
           y == Access("osc", "apply", "small")
           z == Access("osc", "apply", "give")
           s == Located(inMailbox)
<1>1. PICK b : /\ Part(s, n, p, {"unknown"}, Suspend, b, Locating \cup Finding)
               /\ Follows(b, m, n, p)
  BY LocatedIsPart
<1>2. /\ Is(r, "report", "osc", p, "", "") /\ Is(Give, "give", "", 0, "", "give")
      /\ Is(y, "access", "osc", "apply", "small", "")
      /\ Is(z, "access", "osc", "apply", "give", "")
      /\ Is(Small, "mux", "osc", Port["osc"], "give", "small")
      /\ Is(Nothing, "nothing", "", 0, "", "unknown") /\ p \notin ClockValues
  <2>1. /\ "osc" \in BusDevices /\ "small" \in BusName /\ "give" \in BusName /\ p \in Offsets
        /\ p \in BusValue
    BY Names, ValuesOfBus DEF BusDevices, Offsets
  <2>2. "apply" \in BusValue
    BY ValuesOfBus DEF ClockValues
  <2>3. QED
    BY <2>1, <2>2, TransfersAre, ItemsAre, ValuesOfBus, Zenon
<1>3. userMGTrefClkAdjust(p, inMailbox) =
        (((s \o refInit) \o refSmallChanges(p)) \o <<r, Give>>) \o <<Nothing>>
  BY DEF userMGTrefClkAdjust, Nothing, Located
<1> HIDE DEF m, r, s, y, z
<1>4. /\ Allowed(r, n, p, {"unknown"}) /\ Allowed(Give, n, p, {"unknown"})
      /\ Allowed(Nothing, n, p, {})
  BY <1>2, Allows, Zenon
<1>5. /\ Follows(y, Small, n, p) /\ Follows(z, r, n, p) /\ Follows(r, Give, n, p)
      /\ Follows(Give, Nothing, n, p)
  <2>1. "osc" \in {"eeprom", "osc"}
    OBVIOUS
  <2>2. QED
    BY <1>2, <2>1, FollowsTaking, FollowsAdjusting, Zenon
<1>6. /\ Kind(r) = "report" /\ Kind(Give) = "give" /\ Kind(Nothing) = "nothing"
      /\ Give.mark = "give" /\ Small.mark = "small" /\ Nothing.mark = "unknown"
      /\ ~IsFound(Nothing) /\ ~IsFound(Give) /\ Nothing.op = "nothing"
  BY <1>2 DEF Is, Kind, ToClock, IsFound
<1>7. /\ Part(refInit, n, p, {"small", "unknown"}, m, y, {"mux", "clock"})
      /\ Part(refSmallChanges(p), n, p, {"give", "unknown"}, Small, z, {"mux", "clock"})
  BY InitIsPart, ChangesArePart DEF m, y, z
<1> DEFINE K == (Locating \cup Finding) \cup {"mux", "clock"}
<1>8. Part(s \o refInit, n, p, {"small", "unknown"}, Suspend, y, K)
  BY <1>1, <1>7, PartsJoined
<1>9. Part((s \o refInit) \o refSmallChanges(p), n, p, {"give", "unknown"}, Suspend, z,
           K \cup {"mux", "clock"})
  <2>1. "small" \in Marks(refSmallChanges(p))
    BY <1>6, <1>7, EndMarks
  <2>2. {"small", "unknown"} \subseteq {"give", "unknown"} \cup Marks(refSmallChanges(p))
    BY <2>1
  <2> HIDE DEF K
  <2>3. "found" \notin K \cap {"mux", "clock"}
    OBVIOUS
  <2>4. QED
    BY <1>5, <1>7, <1>8, <2>2, <2>3, PartsJoined
<1> DEFINE t == (s \o refInit) \o refSmallChanges(p)
           L == K \cup {"mux", "clock"}
<1>10. Part(<<r, Give>>, n, p, {"unknown"}, r, Give, {"report", "give"})
  BY <1>4, <1>5, <1>6, TwoItems
<1> HIDE DEF t, L
<1>11. Part(t \o <<r, Give>>, n, p, {"unknown"}, Suspend, Give, L \cup {"report", "give"})
  <2>1. "give" \in Marks(<<r, Give>>)
    BY <1>6, <1>10, EndMarks
  <2>2. {"give", "unknown"} \subseteq {"unknown"} \cup Marks(<<r, Give>>)
    BY <2>1
  <2>3. Part(t, n, p, {"give", "unknown"}, Suspend, z, L)
    BY <1>9 DEF t, L
  <2>4. "found" \notin L \cap {"report", "give"}
    OBVIOUS
  <2>5. QED
    BY <1>5, <1>10, <2>2, <2>3, <2>4, PartsJoined
<1>12. Part((t \o <<r, Give>>) \o <<Nothing>>, n, p, {}, Suspend, Nothing,
            (L \cup {"report", "give"}) \cup {"nothing"})
  BY <1>4, <1>5, <1>6, <1>11, OneItemMore
<1>13. (L \cup {"report", "give"}) \cup {"nothing"} \subseteq Setting \cup Finding
  BY DEF L, Setting
<1>14. QED
  BY <1>3, <1>6, <1>12, <1>13, PartIsProgram DEF Whole, t

(* A number divided by another. *)
LEMMA DividedBack ==
  ASSUME NEW n \in Nat \ {0}, NEW r \in Nat, NEW c \in 0 .. n - 1
  PROVE  (r * n + c) % n = c /\ (r * n + c) \div n = r
<1> DEFINE x == r * n + c
           q == x \div n
           m == x % n
<1>1. r * n \in Nat /\ x \in Nat
  OBVIOUS
<1>2. q \in Nat /\ m \in 0 .. n - 1 /\ x = q * n + m
  <2> HIDE DEF x
  <2>1. QED
    BY <1>1
<1>3. q * n + m = r * n + c
  BY <1>2 DEF x
<1> HIDE DEF q, m, x
<1>4. ~(q < r)
  <2> SUFFICES ASSUME q < r
               PROVE  FALSE
    OBVIOUS
  <2> DEFINE d == r - q - 1
  <2>1. d \in Nat /\ r = q + 1 + d
    BY <1>2
  <2> HIDE DEF d
  <2>2. r * n = q * n + n + d * n /\ d * n \in Nat /\ q * n \in Nat
    BY <1>2, <2>1
  <2>3. QED
    BY <1>2, <1>3, <2>2
<1>5. ~(r < q)
  <2> SUFFICES ASSUME r < q
               PROVE  FALSE
    OBVIOUS
  <2> DEFINE d == q - r - 1
  <2>1. d \in Nat /\ q = r + 1 + d
    BY <1>2
  <2> HIDE DEF d
  <2>2. q * n = r * n + n + d * n /\ d * n \in Nat /\ r * n \in Nat
    BY <1>2, <2>1
  <2>3. QED
    BY <1>2, <1>3, <2>2
<1>6. q = r
  BY <1>2, <1>4, <1>5
<1>7. m = c
  <2>1. q * n = r * n /\ r * n \in Nat
    BY <1>1, <1>6
  <2>2. QED
    BY <1>2, <1>3, <2>1
<1>8. QED
  BY <1>6, <1>7 DEF q, m, x

(* Multiples of a number.                                                  *)
LEMMA Multiples ==
  ASSUME NEW q \in Nat, NEW r \in Nat, NEW b \in Nat
  PROVE  q * b \in Nat /\ (q < r => q * b + b <= r * b)
<1>1. q * b \in Nat
  OBVIOUS
<1>2. ASSUME q < r
      PROVE  q * b + b <= r * b
  <2> DEFINE d == r - q - 1
  <2>1. d \in Nat /\ r = q + 1 + d
    BY <1>2
  <2> HIDE DEF d
  <2>2. r * b = q * b + b + d * b /\ d * b \in Nat
    BY <2>1
  <2>3. QED
    BY <1>1, <2>2
<1>3. QED
  BY <1>1, <1>2

LEMMA Divides ==
  ASSUME NEW x \in Nat, NEW b \in Nat \ {0}
  PROVE  /\ x \div b \in Nat /\ x % b \in 0 .. b - 1 /\ (x \div b) * b \in Nat
         /\ x = (x \div b) * b + (x % b)
<1> DEFINE q == x \div b
           r == x % b
<1>1. q \in Nat /\ r \in 0 .. b - 1 /\ x = q * b + r
  OBVIOUS
<1>2. q * b \in Nat
  BY <1>1, Multiples
<1>3. QED
  BY <1>1, <1>2

(* The pages of n bytes, and how many are in the page after q pages. *)
PagesOf(n) == (n + PageSize - 1) \div PageSize
InPage(n, q) == IF n - q * PageSize > PageSize THEN PageSize ELSE n - q * PageSize
PageOf(i) == (i - 1) \div (PageSize + 3)
StepOf(i) == (i - 1) % (PageSize + 3)

LEMMA PageCount ==
  ASSUME NEW n \in Nat \ {0}
  PROVE  /\ PagesOf(n) \in Nat \ {0} /\ (PagesOf(n) - 1) * PageSize \in Nat
         /\ (PagesOf(n) - 1) * PageSize < n
         /\ n <= (PagesOf(n) - 1) * PageSize + PageSize
<1> DEFINE c == PagesOf(n)
           x == n + PageSize - 1
           r == x % PageSize
<1>1. PageSize \in Nat \ {0} /\ x \in Nat
  BY BusAssumption
<1>2. c \in Nat /\ r \in 0 .. PageSize - 1 /\ c * PageSize \in Nat /\ x = c * PageSize + r
  BY <1>1, Divides DEF PagesOf
<1> HIDE DEF c, r
<1>3. c # 0
  <2> SUFFICES ASSUME c = 0
               PROVE  FALSE
    OBVIOUS
  <2>1. c * PageSize = 0
    BY <1>1
  <2>2. QED
    BY <1>1, <1>2, <2>1
<1>4. (c - 1) * PageSize = c * PageSize - PageSize
  BY <1>1, <1>2
<1>5. (c - 1) * PageSize \in Nat
  BY <1>1, <1>2, <1>3, Multiples
<1>6. QED
  BY <1>1, <1>2, <1>3, <1>4, <1>5 DEF c

(* Where a step of the writing is: its page, and its place in the page.    *)
LEMMA PagePlace ==
  ASSUME NEW n \in Nat \ {0}, NEW i \in 1 .. n + 3 * PagesOf(n)
  PROVE  LET q == PageOf(i)
             k == StepOf(i)
             b == InPage(n, q)
         IN  /\ q \in Nat /\ q * PageSize \in Nat /\ q * PageSize < n
             /\ b \in 1 .. PageSize /\ q * PageSize + b <= n
             /\ k \in 0 .. b + 2
             /\ b # PageSize => q * PageSize + b = n
             /\ i = n + 3 * PagesOf(n) => k = b + 2 /\ q * PageSize + b = n
<1> DEFINE P == PageSize
           c == PagesOf(n)
           q == PageOf(i)
           k == StepOf(i)
           b == InPage(n, q)
<1>1. P \in Nat \ {0} /\ i - 1 \in Nat /\ P + 3 \in Nat \ {0}
  BY BusAssumption, PageCount
<1>2. /\ c \in Nat \ {0} /\ (c - 1) * P \in Nat /\ (c - 1) * P < n
      /\ n <= (c - 1) * P + P
  BY PageCount
<1>3. /\ q \in Nat /\ k \in 0 .. P + 2 /\ i - 1 = q * (P + 3) + k
  <2> DEFINE d == P + 3
             x == i - 1
  <2>1. q = x \div d /\ k = x % d
    BY DEF PageOf, StepOf
  <2> HIDE DEF q, k, d, x
  <2>2. q \in Nat /\ k \in 0 .. d - 1 /\ x = q * d + k
    BY <1>1, <2>1, Divides DEF d, x
  <2>3. QED
    BY <1>1, <2>2 DEF d, x
<1> HIDE DEF q, k, c
<1>4. q * (P + 3) = q * P + 3 * q /\ q * P \in Nat
  BY <1>1, <1>3, Multiples
<1>5. i - 1 = q * P + 3 * q + k /\ i <= n + 3 * c
  BY <1>3, <1>4 DEF c
<1>6. ~(c - 1 < q)
  <2> SUFFICES ASSUME c - 1 < q
               PROVE  FALSE
    OBVIOUS
  <2>1. (c - 1) * P + P <= q * P
    BY <1>1, <1>2, <1>3, Multiples
  <2>2. QED
    BY <1>1, <1>2, <1>3, <1>4, <1>5, <2>1
<1>7. CASE q < c - 1
  <2>1. q * P + P <= (c - 1) * P
    BY <1>1, <1>2, <1>3, <1>7, Multiples
  <2>2. b = P
    BY <1>1, <1>2, <1>4, <2>1 DEF InPage
  <2>3. i # n + 3 * c
    BY <1>1, <1>2, <1>3, <1>4, <1>5, <1>7, <2>1
  <2> HIDE DEF b
  <2>4. QED
    BY <1>1, <1>2, <1>3, <1>4, <1>7, <2>1, <2>2, <2>3 DEF q, k, b, c
<1>8. CASE q = c - 1
  <2>1. b = n - q * P
    BY <1>1, <1>2, <1>4, <1>8 DEF InPage
  <2> HIDE DEF b
  <2>2. q * P < n /\ n <= q * P + P
    BY <1>2, <1>8
  <2>3. k <= b + 2 /\ (i = n + 3 * c => k = b + 2)
    BY <1>1, <1>2, <1>3, <1>4, <1>5, <1>8, <2>1, <2>2
  <2>4. QED
    BY <1>1, <1>2, <1>3, <1>4, <2>1, <2>2, <2>3 DEF q, k, b, c
<1>9. QED
  BY <1>2, <1>3, <1>6, <1>7, <1>8

(* The step after it. *)
LEMMA PageNext ==
  ASSUME NEW i \in Nat \ {0}
  PROVE  /\ StepOf(i) # PageSize + 2 => PageOf(i + 1) = PageOf(i) /\ StepOf(i + 1) = StepOf(i) + 1
         /\ StepOf(i) = PageSize + 2 => PageOf(i + 1) = PageOf(i) + 1 /\ StepOf(i + 1) = 0
<1> DEFINE b == PageSize + 3
           q == PageOf(i)
           k == StepOf(i)
<1>1. b \in Nat \ {0} /\ i - 1 \in Nat /\ i + 1 - 1 = i /\ PageSize \in Nat
  BY BusAssumption
<1>2. q \in Nat /\ k \in 0 .. b - 1 /\ q * b \in Nat /\ i - 1 = q * b + k
  BY <1>1, Divides DEF PageOf, StepOf
<1> HIDE DEF q, k
<1>3. CASE k # PageSize + 2
  <2>1. k + 1 \in 0 .. b - 1 /\ i = q * b + (k + 1)
    BY <1>1, <1>2, <1>3
  <2>2. (q * b + (k + 1)) % b = k + 1 /\ (q * b + (k + 1)) \div b = q
    <3> HIDE DEF b
    <3>1. QED
      BY <1>1, <1>2, <2>1, DividedBack
  <2>3. PageOf(i + 1) = i \div b /\ StepOf(i + 1) = i % b
    BY <1>1 DEF PageOf, StepOf
  <2>4. PageOf(i + 1) = q /\ StepOf(i + 1) = k + 1
    <3> HIDE DEF b
    <3>1. QED
      BY <2>1, <2>2, <2>3
  <2>5. QED
    BY <1>3, <2>4 DEF q, k
<1>4. CASE k = PageSize + 2
  <2>1. 0 \in 0 .. b - 1 /\ i = (q + 1) * b + 0 /\ q + 1 \in Nat
    BY <1>1, <1>2, <1>4
  <2>2. ((q + 1) * b + 0) % b = 0 /\ ((q + 1) * b + 0) \div b = q + 1
    <3> HIDE DEF b
    <3>1. QED
      BY <1>1, <1>2, <2>1, DividedBack
  <2>3. PageOf(i + 1) = i \div b /\ StepOf(i + 1) = i % b
    BY <1>1 DEF PageOf, StepOf
  <2>4. PageOf(i + 1) = q + 1 /\ StepOf(i + 1) = 0
    <3> HIDE DEF b
    <3>1. QED
      BY <2>1, <2>2, <2>3
  <2>5. QED
    BY <1>4, <2>4 DEF q, k
<1>5. QED
  BY <1>3, <1>4 DEF k

LEMMA StepChosen ==
  ASSUME NEW x, NEW k, NEW b \in Nat, NEW u, NEW v, NEW w, NEW y,
         x = CASE k = 0 -> u [] k \in 1 .. b -> v [] k = b + 1 -> w [] k = b + 2 -> y
  PROVE  /\ k = 0 => x = u
         /\ k \in 1 .. b => x = v
         /\ k = b + 1 => x = w
         /\ k = b + 2 => x = y
<1>1. ASSUME k = 0
      PROVE  x = u
  <2>1. k \notin 1 .. b /\ k # b + 1 /\ k # b + 2
    BY <1>1
  <2>2. QED
    BY <1>1, <2>1
<1>2. ASSUME k \in 1 .. b
      PROVE  x = v
  <2>1. k # 0 /\ k # b + 1 /\ k # b + 2
    BY <1>2
  <2>2. QED
    BY <1>2, <2>1
<1>3. ASSUME k = b + 1
      PROVE  x = w
  <2>1. k \notin 1 .. b /\ k # 0 /\ k # b + 2
    BY <1>3
  <2>2. QED
    BY <1>3, <2>1
<1>4. ASSUME k = b + 2
      PROVE  x = y
  <2>1. k \notin 1 .. b /\ k # 0 /\ k # b + 1
    BY <1>4
  <2>2. QED
    BY <1>4, <2>1
<1>5. QED
  BY <1>1, <1>2, <1>3, <1>4

(* The cell where the page of a step begins. *)
FirstOf(i) == PageOf(i) * PageSize

LEMMA PageItem ==
  ASSUME NEW n \in Nat \ {0}, NEW i \in 1 .. n + 3 * PagesOf(n)
  PROVE  LET b == InPage(n, PageOf(i))
         IN  /\ StepOf(i) = 0 => Is(Pages(n)[i], "sub", "fmc", FirstOf(i), "halt", "")
             /\ StepOf(i) \in 1 .. b =>
                  Is(Pages(n)[i], "byte", "fmc", FirstOf(i) + StepOf(i) - 1, "halt", "")
             /\ StepOf(i) = b + 1 => Is(Pages(n)[i], "stop", "", FirstOf(i) + b, "", "")
             /\ StepOf(i) = b + 2 => Is(Pages(n)[i], "poll", "fmc", FirstOf(i) + b, "halt", "")
<1> DEFINE q == PageOf(i)
           k == StepOf(i)
           b == InPage(n, q)
           f == FirstOf(i)
<1>1. /\ q \in Nat /\ f \in Nat /\ b \in Nat \ {0} /\ k \in 0 .. b + 2
  BY PagePlace DEF FirstOf
<1> DEFINE x == Pages(n)[i]
           sub == Item("sub", "fmc", f, "halt")
           byte == Item("byte", "fmc", f + k - 1, "halt")
           stop == Item("stop", "", f + b, "")
           poll == Item("poll", "fmc", f + b, "halt")
<1>2. x = CASE k = 0 -> sub [] k \in 1 .. b -> byte [] k = b + 1 -> stop [] k = b + 2 -> poll
  BY Zenon DEF Pages, PagesOf, InPage, PageOf, StepOf, FirstOf, EEPROM_PAGE_SIZE
<1> HIDE DEF q, k, b, f, x, sub, byte, stop, poll
<1>a. /\ k = 0 => x = sub
      /\ k \in 1 .. b => x = byte
      /\ k = b + 1 => x = stop
      /\ k = b + 2 => x = poll
  <2>1. b \in Nat
    BY <1>1
  <2>2. QED
    BY <1>2, <2>1, StepChosen
<1>3. ASSUME k = 0
      PROVE  Is(x, "sub", "fmc", f, "halt", "")
  <2>1. x = sub
    BY <1>a, <1>3, Zenon
  <2>2. Is(sub, "sub", "fmc", f, "halt", "")
    <3>1. f \in BusValue
      BY <1>1, ValuesOfBus
    <3>2. QED
      BY <3>1, Names, ItemIs, Zenon DEF sub
  <2>3. QED
    BY <2>1, <2>2, Zenon
<1>4. ASSUME k \in 1 .. b
      PROVE  Is(x, "byte", "fmc", f + k - 1, "halt", "")
  <2>1. x = byte
    BY <1>a, <1>4, Zenon
  <2>2. f + k - 1 \in BusValue
    BY <1>1, <1>4, ValuesOfBus
  <2>3. Is(byte, "byte", "fmc", f + k - 1, "halt", "")
    BY <2>2, Names, ItemIs, Zenon DEF byte
  <2>4. QED
    BY <2>1, <2>3, Zenon
<1>5. ASSUME k = b + 1
      PROVE  Is(x, "stop", "", f + b, "", "")
  <2>1. x = stop
    BY <1>a, <1>5, Zenon
  <2>2. f + b \in BusValue
    BY <1>1, ValuesOfBus
  <2>3. Is(stop, "stop", "", f + b, "", "")
    BY <2>2, Names, ItemIs, Zenon DEF stop
  <2>4. QED
    BY <2>1, <2>3, Zenon
<1>6. ASSUME k = b + 2
      PROVE  Is(x, "poll", "fmc", f + b, "halt", "")
  <2>1. x = poll
    BY <1>a, <1>6, Zenon
  <2>2. f + b \in BusValue
    BY <1>1, ValuesOfBus
  <2>3. Is(poll, "poll", "fmc", f + b, "halt", "")
    BY <2>2, Names, ItemIs, Zenon DEF poll
  <2>4. QED
    BY <2>1, <2>3, Zenon
<1>7. /\ k = 0 => Is(Pages(n)[i], "sub", "fmc", f, "halt", "")
      /\ k \in 1 .. b => Is(Pages(n)[i], "byte", "fmc", f + k - 1, "halt", "")
      /\ k = b + 1 => Is(Pages(n)[i], "stop", "", f + b, "", "")
      /\ k = b + 2 => Is(Pages(n)[i], "poll", "fmc", f + b, "halt", "")
  BY <1>3, <1>4, <1>5, <1>6, Zenon DEF x
<1>8. QED
  BY <1>7, Zenon DEF q, k, b, f

LEMMA PagesArePart ==
  ASSUME NEW n \in Sizes \ {0}, NEW p \in Offsets
  PROVE  \E a, b : /\ Part(Pages(n), n, p, {"halt"}, a, b, {"sub", "byte", "stop", "poll"})
                  /\ Is(a, "sub", "fmc", 0, "halt", "") /\ Is(b, "poll", "fmc", n, "halt", "")
<1> DEFINE s == Pages(n)
           N == n + 3 * PagesOf(n)
           I(i) == InPage(n, PageOf(i))
<1>1. n \in Nat \ {0} /\ N \in Nat \ {0} /\ PageSize \in Nat \ {0} /\ p \notin ClockValues
  <2>1. n \in Nat \ {0} /\ PageSize \in Nat \ {0} /\ p \notin ClockValues
    BY ValuesOfBus, BusAssumption
  <2>2. PagesOf(n) \in Nat
    BY <2>1, PageCount
  <2>3. QED
    BY <2>1, <2>2
<1>2. /\ DOMAIN s = 1 .. N
      /\ \A X : (\A i \in 1 .. N : s[i] \in X) => s \in Seq(X) /\ Len(s) = N
  <2> DEFINE G(i) ==
        LET first == ((i - 1) \div (PageSize + 3)) * PageSize
            nSend == IF n - first > PageSize THEN PageSize ELSE n - first
            k == (i - 1) % (PageSize + 3)
        IN  CASE k = 0 -> Item("sub", "fmc", first, "halt")
              [] k \in 1 .. nSend -> Item("byte", "fmc", first + k - 1, "halt")
              [] k = nSend + 1 -> Item("stop", "", first + nSend, "")
              [] k = nSend + 2 -> Item("poll", "fmc", first + nSend, "halt")
  <2>1. s = [i \in 1 .. N |-> G(i)]
    BY Zenon DEF Pages, PagesOf, EEPROM_PAGE_SIZE
  <2> HIDE DEF s, N, G
  <2>2. QED
    BY <1>1, <2>1
<1>3. ASSUME NEW i \in 1 .. N
      PROVE  /\ FirstOf(i) \in Nat /\ FirstOf(i) < n /\ I(i) \in 1 .. PageSize
             /\ FirstOf(i) + I(i) <= n /\ StepOf(i) \in 0 .. I(i) + 2
             /\ I(i) # PageSize => FirstOf(i) + I(i) = n
             /\ i = N => StepOf(i) = I(i) + 2 /\ FirstOf(i) + I(i) = n
             /\ FirstOf(i) % PageSize = 0
             /\ \A k \in 0 .. PageSize - 1 : (FirstOf(i) + k) % PageSize = k
  <2>1. PageOf(i) \in Nat
    BY <1>1, PagePlace
  <2>2. \A k \in 0 .. PageSize - 1 : (FirstOf(i) + k) % PageSize = k
    BY <1>1, <2>1, DividedBack DEF FirstOf
  <2>3. FirstOf(i) \in Nat
    BY <1>1, PagePlace DEF FirstOf
  <2>4. FirstOf(i) % PageSize = 0
    <3>1. 0 \in 0 .. PageSize - 1 /\ FirstOf(i) + 0 = FirstOf(i)
      BY <1>1, <2>3
    <3>2. QED
      BY <2>2, <3>1
  <2>5. QED
    BY <1>1, <2>2, <2>4, PagePlace DEF FirstOf
<1>4. ASSUME NEW i \in 1 .. N
      PROVE  /\ StepOf(i) = 0 => Is(s[i], "sub", "fmc", FirstOf(i), "halt", "")
             /\ StepOf(i) \in 1 .. I(i) =>
                  Is(s[i], "byte", "fmc", FirstOf(i) + StepOf(i) - 1, "halt", "")
             /\ StepOf(i) = I(i) + 1 => Is(s[i], "stop", "", FirstOf(i) + I(i), "", "")
             /\ StepOf(i) = I(i) + 2 => Is(s[i], "poll", "fmc", FirstOf(i) + I(i), "halt", "")
  BY <1>1, PageItem
<1>5. ASSUME NEW i \in 1 .. N, i + 1 \in 1 .. N
      PROVE  /\ StepOf(i) # PageSize + 2 => /\ FirstOf(i + 1) = FirstOf(i)
                                           /\ I(i + 1) = I(i) /\ StepOf(i + 1) = StepOf(i) + 1
             /\ StepOf(i) = PageSize + 2 => /\ FirstOf(i + 1) = FirstOf(i) + PageSize
                                           /\ StepOf(i + 1) = 0
  <2>1. i \in Nat \ {0} /\ PageOf(i) \in Nat
    BY <1>1, PagePlace
  <2>2. (PageOf(i) + 1) * PageSize = PageOf(i) * PageSize + PageSize
    BY <1>1, <2>1
  <2>3. QED
    BY <2>1, <2>2, PageNext DEF FirstOf
<1> HIDE DEF s, N, I
<1>6. \A i \in 1 .. N : StepOf(i) = 0 \/ StepOf(i) \in 1 .. I(i)
                        \/ StepOf(i) = I(i) + 1 \/ StepOf(i) = I(i) + 2
  <2>1. ASSUME NEW i \in 1 .. N
        PROVE  StepOf(i) = 0 \/ StepOf(i) \in 1 .. I(i)
               \/ StepOf(i) = I(i) + 1 \/ StepOf(i) = I(i) + 2
    <3>1. StepOf(i) \in 0 .. I(i) + 2 /\ I(i) \in 1 .. PageSize
      BY <1>3, Zenon
    <3>2. QED
      BY <1>1, <3>1
  <2>2. QED
    BY <2>1
<1>7. \A i \in 1 .. N : Allowed(s[i], n, p, {"halt"})
  <2> SUFFICES ASSUME NEW i \in 1 .. N
               PROVE  Allowed(s[i], n, p, {"halt"})
    OBVIOUS
  <2>0. FirstOf(i) + I(i) \in Nat
    <3>1. FirstOf(i) \in Nat /\ I(i) \in 1 .. PageSize
      BY <1>3, Zenon
    <3>2. QED
      BY <3>1
  <2>1. CASE StepOf(i) = 0
    <3>1. Is(s[i], "sub", "fmc", FirstOf(i), "halt", "")
      BY <1>4, <2>1
    <3>2. /\ FirstOf(i) \in Nat /\ FirstOf(i) < n /\ FirstOf(i) % PageSize = 0
          /\ "halt" \in {"halt"}
      BY <1>3
    <3>3. QED
      BY <1>1, <3>1, <3>2, Allows, Zenon
  <2>2. CASE StepOf(i) \in 1 .. I(i)
    <3>1. Is(s[i], "byte", "fmc", FirstOf(i) + StepOf(i) - 1, "halt", "")
      BY <1>4, <2>2
    <3>2. FirstOf(i) + StepOf(i) - 1 \in Nat /\ FirstOf(i) + StepOf(i) - 1 < n
      <4>1. /\ FirstOf(i) \in Nat /\ I(i) \in 1 .. PageSize /\ FirstOf(i) + I(i) <= n
        BY <1>3, Zenon
      <4>2. QED
        BY <1>1, <2>2, <4>1
    <3>3. "halt" \in {"halt"}
      OBVIOUS
    <3>4. QED
      BY <1>1, <3>1, <3>2, <3>3, Allows, Zenon
  <2>3. CASE StepOf(i) = I(i) + 1
    <3>1. Is(s[i], "stop", "", FirstOf(i) + I(i), "", "") /\ "" \in {"", "halt"}
      BY <1>4, <2>3
    <3>2. QED
      BY <1>1, <2>0, <3>1, Allows, Zenon
  <2>4. CASE StepOf(i) = I(i) + 2
    <3>1. Is(s[i], "poll", "fmc", FirstOf(i) + I(i), "halt", "")
      BY <1>4, <2>4
    <3>2. "poll" \in {"addr", "poll"} /\ "halt" \in {"halt"}
      OBVIOUS
    <3>3. QED
      BY <1>1, <2>0, <3>1, <3>2, Allows, Zenon
  <2>5. QED
    BY <1>6, <2>1, <2>2, <2>3, <2>4
<1>8. \A i \in 1 .. N : i + 1 \in 1 .. N => Follows(s[i], s[i + 1], n, p)
  <2> SUFFICES ASSUME NEW i \in 1 .. N, i + 1 \in 1 .. N
               PROVE  Follows(s[i], s[i + 1], n, p)
    OBVIOUS
  <2> DEFINE f == FirstOf(i)
             k == StepOf(i)
             j == i + 1
  <2>0. /\ f \in Nat /\ I(i) \in 1 .. PageSize /\ k \in 0 .. I(i) + 2 /\ j \in 1 .. N
        /\ n \in Nat /\ PageSize \in Nat
    BY <1>1, <1>3
  <2>n. /\ k # PageSize + 2 => FirstOf(j) = f /\ I(j) = I(i) /\ StepOf(j) = k + 1
        /\ k = PageSize + 2 => FirstOf(j) = f + PageSize /\ StepOf(j) = 0
    BY <1>5
  <2> HIDE DEF f, k, j
  <2>1. CASE k = 0
    <3>1. StepOf(j) = 1 /\ 1 \in 1 .. I(j) /\ FirstOf(j) + StepOf(j) - 1 = f
      BY <2>0, <2>n, <2>1
    <3>2. Is(s[i], "sub", "fmc", f, "halt", "") /\ Is(s[j], "byte", "fmc", f, "halt", "")
      BY <1>4, <2>0, <2>1, <3>1 DEF f, k
    <3>3. QED
      BY <1>1, <2>0, <3>2, FollowsWriting, Zenon DEF j
  <2>2. CASE k \in 1 .. I(i) - 1
    <3>1. /\ StepOf(j) = k + 1 /\ StepOf(j) \in 1 .. I(j)
          /\ k \in 1 .. I(i) /\ k \in 0 .. PageSize - 1
          /\ FirstOf(j) + StepOf(j) - 1 = (f + k - 1) + 1 /\ f + k - 1 \in Nat /\ k # 0
      BY <2>0, <2>n, <2>2
    <3>2. ((f + k - 1) + 1) % PageSize # 0
      <4>1. (f + k - 1) + 1 = f + k
        BY <2>0
      <4>2. (f + k) % PageSize = k
        BY <1>3, <3>1 DEF f
      <4>3. QED
        BY <3>1, <4>1, <4>2
    <3>3. /\ Is(s[i], "byte", "fmc", f + k - 1, "halt", "")
          /\ Is(s[j], "byte", "fmc", (f + k - 1) + 1, "halt", "")
      <4>1. Is(s[i], "byte", "fmc", f + k - 1, "halt", "")
        BY <1>4, <3>1 DEF f, k
      <4>2. Is(s[j], "byte", "fmc", FirstOf(j) + StepOf(j) - 1, "halt", "")
        BY <1>4, <2>0, <3>1
      <4>3. QED
        BY <3>1, <4>1, <4>2
    <3> DEFINE v == f + k - 1
    <3>4. v \in Nat /\ (v + 1) % PageSize # 0
          /\ Is(s[i], "byte", "fmc", v, "halt", "") /\ Is(s[j], "byte", "fmc", v + 1, "halt", "")
      BY <3>1, <3>2, <3>3
    <3> HIDE DEF v
    <3>5. QED
      BY <1>1, <2>0, <3>4, FollowsWriting, Zenon DEF j
  <2>3. CASE k = I(i)
    <3>1. /\ StepOf(j) = I(j) + 1 /\ k \in 1 .. I(i) /\ FirstOf(j) + I(j) = (f + k - 1) + 1
          /\ f + k - 1 \in Nat
      BY <2>0, <2>n, <2>3
    <3> DEFINE v == f + k - 1
    <3>2. /\ v \in Nat /\ Is(s[i], "byte", "fmc", v, "halt", "")
          /\ Is(s[j], "stop", "", v + 1, "", "")
      <4>1. Is(s[i], "byte", "fmc", f + k - 1, "halt", "")
        BY <1>4, <3>1 DEF f, k
      <4>2. Is(s[j], "stop", "", FirstOf(j) + I(j), "", "")
        BY <1>4, <2>0, <3>1
      <4>3. QED
        BY <3>1, <4>1, <4>2
    <3> HIDE DEF v
    <3>3. QED
      BY <1>1, <2>0, <3>2, FollowsWriting, Zenon DEF j
  <2>4. CASE k = I(i) + 1
    <3>1. StepOf(j) = I(j) + 2 /\ FirstOf(j) + I(j) = f + I(i) /\ f + I(i) \in Nat
      BY <2>0, <2>n, <2>4
    <3> DEFINE v == f + I(i)
    <3>2. /\ v \in Nat /\ Is(s[i], "stop", "", v, "", "")
          /\ Is(s[j], "poll", "fmc", v, "halt", "")
      <4>1. Is(s[i], "stop", "", f + I(i), "", "")
        BY <1>4, <2>4 DEF f, k
      <4>2. Is(s[j], "poll", "fmc", FirstOf(j) + I(j), "halt", "")
        BY <1>4, <2>0, <3>1
      <4>3. QED
        BY <3>1, <4>1, <4>2
    <3> HIDE DEF v
    <3>3. QED
      BY <1>1, <2>0, <3>2, FollowsWriting, Zenon DEF j
  <2>5. CASE k = I(i) + 2
    <3>1. I(i) = PageSize
      <4> SUFFICES ASSUME I(i) # PageSize
                   PROVE  FALSE
        OBVIOUS
      <4>1. FirstOf(j) = f /\ I(j) = I(i) /\ StepOf(j) = I(i) + 3
        BY <2>0, <2>n, <2>5
      <4>2. StepOf(j) \in 0 .. I(j) + 2
        BY <1>3, <2>0
      <4>3. QED
        BY <2>0, <4>1, <4>2
    <3>2. StepOf(j) = 0 /\ FirstOf(j) = f + I(i) /\ f + I(i) \in Nat
      BY <2>0, <2>n, <2>5, <3>1
    <3> DEFINE v == f + I(i)
    <3>3. /\ v \in Nat /\ Is(s[i], "poll", "fmc", v, "halt", "")
          /\ Is(s[j], "sub", "fmc", v, "halt", "")
      <4>1. Is(s[i], "poll", "fmc", f + I(i), "halt", "")
        BY <1>4, <2>5 DEF f, k
      <4>2. Is(s[j], "sub", "fmc", FirstOf(j), "halt", "")
        BY <1>4, <2>0, <3>2
      <4>3. QED
        BY <3>2, <4>1, <4>2
    <3> HIDE DEF v
    <3>4. QED
      BY <1>1, <2>0, <3>3, FollowsWriting, Zenon DEF j
  <2>6. k = 0 \/ k \in 1 .. I(i) - 1 \/ k = I(i) \/ k = I(i) + 1 \/ k = I(i) + 2
    BY <2>0
  <2>7. QED
    BY <2>1, <2>2, <2>3, <2>4, <2>5, <2>6
<1>9. s \in Seq(BusItem) /\ Len(s) = N /\ s # <<>>
  <2>1. \A i \in 1 .. N : s[i] \in BusItem
    BY <1>7 DEF Allowed
  <2>2. QED
    BY <1>1, <1>2, <2>1
<1>10. \A i \in DOMAIN s : Right(s[i], n, p) /\ (MayFail(s[i]) => s[i].onNack \in {"halt"})
  BY <1>2, <1>7 DEF Allowed
<1>11. \A i \in DOMAIN s : i > 1 => Follows(s[i - 1], s[i], n, p)
  <2> SUFFICES ASSUME NEW i \in 1 .. N, i > 1
               PROVE  Follows(s[i - 1], s[i], n, p)
    BY <1>2
  <2> DEFINE j == i - 1
  <2>1. j \in 1 .. N /\ j + 1 = i
    BY <1>1
  <2> HIDE DEF j
  <2>2. Follows(s[j], s[i], n, p)
    BY <1>8, <2>1
  <2>3. QED
    BY <2>2 DEF j
<1>12. \A i \in DOMAIN s : Kind(s[i]) \in {"sub", "byte", "stop", "poll"}
  <2> SUFFICES ASSUME NEW i \in 1 .. N
               PROVE  s[i].op \in {"sub", "byte", "stop", "poll"}
    BY <1>2 DEF Kind, ToClock
  <2>1. /\ StepOf(i) = 0 => s[i].op = "sub"
        /\ StepOf(i) \in 1 .. I(i) => s[i].op = "byte"
        /\ StepOf(i) = I(i) + 1 => s[i].op = "stop"
        /\ StepOf(i) = I(i) + 2 => s[i].op = "poll"
    BY <1>4, Zenon DEF Is
  <2>2. QED
    BY <1>6, <2>1
<1>13. Kinds(s) \subseteq {"sub", "byte", "stop", "poll"} /\ FoundOnce(s) /\ ErrorPaths(s, {"halt"})
  <2>1. Kinds(s) \subseteq {"sub", "byte", "stop", "poll"} /\ ErrorPaths(s, {"halt"})
    BY <1>10, <1>12 DEF Kinds, ErrorPaths
  <2>2. \A i \in DOMAIN s : s[i].op # "found"
    <3>1. ASSUME NEW i \in DOMAIN s, IsFound(s[i])
          PROVE  FALSE
      <4>1. Kind(s[i]) = "found"
        BY <3>1 DEF IsFound, Kind, ToClock
      <4>2. QED
        BY <1>12, <4>1
    <3>2. QED
      BY <3>1 DEF IsFound
  <2>3. FoundOnce(s)
    BY <2>2 DEF FoundOnce
  <2>4. QED
    BY <2>1, <2>3
<1>14. Is(s[1], "sub", "fmc", 0, "halt", "")
  <2>1. PageSize + 3 \in Nat \ {0} /\ 0 \in Nat /\ 0 \in 0 .. (PageSize + 3) - 1 /\ 1 \in 1 .. N
    BY <1>1
  <2>2. StepOf(1) = 0 /\ FirstOf(1) = 0
    <3> DEFINE b == PageSize + 3
    <3>1. 0 * b + 0 = 0 /\ StepOf(1) = 0 % b /\ PageOf(1) = 0 \div b
      BY <2>1 DEF StepOf, PageOf
    <3>2. (0 * b + 0) % b = 0 /\ (0 * b + 0) \div b = 0
      <4> HIDE DEF b
      <4>1. b \in Nat \ {0} /\ 0 \in Nat /\ 0 \in 0 .. b - 1
        BY <2>1 DEF b
      <4>2. QED
        BY <4>1, DividedBack
    <3> HIDE DEF b
    <3>3. StepOf(1) = 0 /\ PageOf(1) = 0
      BY <3>1, <3>2
    <3>4. QED
      BY <1>1, <3>3 DEF FirstOf
  <2>3. QED
    BY <1>4, <2>1, <2>2
<1>15. Is(s[N], "poll", "fmc", n, "halt", "")
  <2>1. N \in 1 .. N
    BY <1>1
  <2>2. QED
    BY <1>3, <1>4, <2>1
<1>16. Part(s, n, p, {"halt"}, s[1], s[N], {"sub", "byte", "stop", "poll"})
  BY <1>9, <1>10, <1>11, <1>13 DEF Part, Piece
<1>17. QED
  BY <1>14, <1>15, <1>16 DEF s

Programming == {"suspend", "wait", "mux", "addr", "sub", "byte", "stop", "poll", "start",
                "report", "give"}

LEMMA WriteIsProgram ==
  ASSUME NEW n \in Sizes, NEW p \in Offsets
  PROVE  Whole(iicProcWriteFMC_EEPROM(n), n, p, Suspend, Programming)
<1> DEFINE m == SetMux("fmc", "give")
           r == Report("eeprom", n)
<1>1. /\ Is(m, "mux", "fmc", Port["fmc"], "give", "") /\ Is(r, "report", "eeprom", n, "", "")
      /\ Is(Give, "give", "", 0, "", "give") /\ Is(Wait, "wait", "", 0, "", "")
      /\ Is(FirstAddress, "addr", "fmc", 0, "halt", "") /\ Is(Start, "start", "", 0, "", "")
      /\ Is(Halt, "stop", "", 0, "", "halt") /\ p \notin ClockValues
  <2>1. "fmc" \in BusDevices /\ n \in BusValue /\ "give" \in BusName
    BY ValuesOfBus, Names DEF BusDevices
  <2>2. QED
    BY <2>1, ItemsAre, TransfersAre, ValuesOfBus, Zenon
<1>2. iicProcWriteFMC_EEPROM(n) =
        ((Take \o <<m>>)
         \o (IF n = 0 THEN <<>> ELSE (<<FirstAddress>> \o Pages(n)) \o <<Start, Halt>>))
        \o <<r, Give>>
  BY DEF iicProcWriteFMC_EEPROM, FirstAddress, Start
<1> HIDE DEF m, r
<1>3. /\ n \in Nat /\ 0 \in Nat /\ "fmc" \in BusDevices /\ "halt" \in {"", "halt"}
      /\ "give" \in {"give"} /\ "give" \in {"give", "small"} /\ "start" \in {"start"}
      /\ "halt" \in {"give", "halt"} /\ "addr" \in {"addr", "poll"} /\ "eeprom" \in {"eeprom", "osc"}
  BY ValuesOfBus DEF BusDevices
<1>4. /\ Allowed(m, n, p, {"give"}) /\ Allowed(r, n, p, {}) /\ Allowed(Give, n, p, {})
      /\ Allowed(FirstAddress, n, p, {"give", "halt"})
      /\ Allowed(Start, n, p, {"give"}) /\ Allowed(Halt, n, p, {"give"})
  <2>1. "start" \in {"suspend", "wait", "start", "grab", "resume"}
    OBVIOUS
  <2>2. QED
    BY <1>1, <1>3, <2>1, Allows, Zenon
<1>5. /\ Follows(Wait, m, n, p) /\ Follows(m, FirstAddress, n, p) /\ Follows(Start, Halt, n, p)
      /\ Follows(Halt, r, n, p) /\ Follows(r, Give, n, p)
      /\ (n = 0 => Follows(m, r, n, p))
  BY <1>1, <1>3, FollowsTaking, FollowsWriting, Zenon
<1>6. /\ Kind(m) = "mux" /\ Kind(FirstAddress) = "addr" /\ Kind(Start) = "start"
      /\ Kind(Halt) = "stop" /\ Kind(r) = "report" /\ Kind(Give) = "give"
      /\ ~IsFound(m) /\ ~IsFound(FirstAddress) /\ ~IsFound(Start) /\ ~IsFound(Halt)
      /\ ~IsFound(Give) /\ Give.mark = "give" /\ Give.op = "give" /\ Halt.mark = "halt"
  BY <1>1 DEF Is, Kind, ToClock, IsFound
<1>7. Part(Take \o <<m>>, n, p, {"give"}, Suspend, m, {"suspend", "wait"} \cup {"mux"})
  BY <1>4, <1>5, <1>6, TakeIsPart, OneItemMore
<1>8. Part(<<r, Give>>, n, p, {}, r, Give, {"report", "give"})
  BY <1>4, <1>5, <1>6, TwoItems
<1>9. {"give"} \subseteq {} \cup Marks(<<r, Give>>)
  BY <1>6, <1>8, EndMarks
<1> DEFINE s == Take \o <<m>>
           K == {"suspend", "wait"} \cup {"mux"}
           t == <<r, Give>>
<1> HIDE DEF s, t
<1>10. CASE n = 0
  <2>1. s \o <<>> = s
    <3>1. s \in Seq(BusItem)
      BY <1>7 DEF s, Part, Piece
    <3>2. QED
      BY <3>1, ConcatEmptySeq
  <2>2. Part(s \o t, n, p, {}, Suspend, Give, K \cup {"report", "give"})
    BY <1>5, <1>7, <1>8, <1>9, <1>10, PartsJoined DEF s, t
  <2>3. Whole(s \o t, n, p, Suspend, Programming)
    BY <1>6, <2>2, PartIsProgram DEF Whole, Programming
  <2>4. QED
    BY <1>2, <1>10, <2>1, <2>3 DEF s, t
<1>11. CASE n # 0
  <2> DEFINE u == (<<FirstAddress>> \o Pages(n)) \o <<Start, Halt>>
             L == {"addr"} \cup {"sub", "byte", "stop", "poll"}
             H == {"give", "halt"}
  <2>1. PICK a, b : /\ Part(Pages(n), n, p, {"halt"}, a, b, {"sub", "byte", "stop", "poll"})
                    /\ Is(a, "sub", "fmc", 0, "halt", "") /\ Is(b, "poll", "fmc", n, "halt", "")
    BY <1>11, PagesArePart
  <2>2. Part(Pages(n), n, p, H, a, b, {"sub", "byte", "stop", "poll"})
    <3>1. {"halt"} \subseteq H
      OBVIOUS
    <3> HIDE DEF H
    <3>2. \A x : ErrorPaths(x, {"halt"}) => ErrorPaths(x, H)
      BY <3>1, Zenon DEF ErrorPaths
    <3>3. QED
      BY <2>1, <3>2, Zenon DEF Part, Piece
  <2>3. Follows(FirstAddress, a, n, p) /\ Follows(b, Start, n, p)
    BY <1>1, <1>3, <2>1, FollowsWriting, Zenon
  <2>4. Part(<<FirstAddress>>, n, p, H, FirstAddress, FirstAddress, {"addr"})
    BY <1>4, <1>6, ItemIsPart
  <2>5. Part(<<FirstAddress>> \o Pages(n), n, p, H, FirstAddress, b, L)
    <3>1. H \subseteq H \cup Marks(Pages(n))
      OBVIOUS
    <3>2. "found" \notin {"addr"} \cap {"sub", "byte", "stop", "poll"}
      OBVIOUS
    <3> HIDE DEF H
    <3>3. QED
      BY <2>2, <2>3, <2>4, <3>1, <3>2, PartsJoined
  <2>6. Part(<<Start, Halt>>, n, p, {"give"}, Start, Halt, {"start", "stop"})
    BY <1>4, <1>5, <1>6, TwoItems
  <2>7. Part(u, n, p, {"give"}, FirstAddress, Halt, L \cup {"start", "stop"})
    <3>1. "halt" \in Marks(<<Start, Halt>>)
      BY <1>6, <2>6, EndMarks
    <3>2. H \subseteq {"give"} \cup Marks(<<Start, Halt>>)
      BY <3>1
    <3>3. "found" \notin L \cap {"start", "stop"}
      OBVIOUS
    <3> HIDE DEF L, H
    <3>4. QED
      BY <2>3, <2>5, <2>6, <3>2, <3>3, PartsJoined
  <2> DEFINE M == L \cup {"start", "stop"}
  <2>8. "found" \notin K \cap M /\ "found" \notin (K \cup M) \cap {"report", "give"}
    OBVIOUS
  <2>9. (K \cup M) \cup {"report", "give"} \subseteq Programming
    BY DEF Programming
  <2>10. Part(u, n, p, {"give"}, FirstAddress, Halt, M)
    BY <2>7
  <2>11. Part(s, n, p, {"give"}, Suspend, m, K)
    BY <1>7 DEF s
  <2> HIDE DEF u, M, K
  <2>12. Part(s \o u, n, p, {"give"}, Suspend, Halt, K \cup M)
    BY <1>5, <2>8, <2>10, <2>11, PartsJoined
  <2>13. Part((s \o u) \o t, n, p, {}, Suspend, Give, (K \cup M) \cup {"report", "give"})
    BY <1>5, <1>8, <1>9, <2>8, <2>12, PartsJoined DEF t
  <2>14. Whole((s \o u) \o t, n, p, Suspend, Programming)
    BY <1>6, <2>9, <2>13, PartIsProgram DEF Whole
  <2>15. QED
    BY <1>2, <1>11, <2>14 DEF s, t, u
<1>12. QED
  BY <1>10, <1>11

(***************************************************************************)
(* What the rules say of the item after another                            *)
(***************************************************************************)

LEMMA Continued ==
  ASSUME NEW n, NEW p, Running(n, p), todo # <<>>, Continue
  PROVE  /\ Program(todo', n, p) /\ Kinds(todo') \subseteq Kinds(todo) /\ Right(item, n, p)
         /\ todo' = <<>> => item.op \in {"give", "nothing", "resume"}
         /\ todo' # <<>> => Follows(item, item', n, p) /\ Right(item', n, p)
         /\ item.op = "found" => "found" \notin Kinds(todo')
         /\ item.op = "report" => Kinds(todo') \subseteq {"give", "nothing"}
         /\ ok' = ok
<1>1. Program(todo, n, p) /\ todo' = Tail(todo) /\ ok' = ok
  BY DEF Running, Continue
<1>2. QED
  BY <1>1, RestOfProgram DEF item

LEMMA AfterTurn ==
  ASSUME NEW a, NEW b, NEW n, NEW p, Follows(a, b, n, p)
  PROVE  /\ a.op = "suspend" => b.op = "wait"
         /\ a.op = "give" => b.op = "nothing"
         /\ a.op = "grab" => b.op \in {"grab", "resume"}
         /\ a.op \notin {"suspend", "give", "grab"} =>
               Session(b) /\ b.op \notin {"wait", "grab", "resume"}
         /\ a.op \notin {"nothing", "resume"}
         /\ Transfer(a) /\ a.op # "stop" => Transfer(b)
         /\ OnPort(b) => (OnPort(a) \/ a.op = "mux") /\ DeviceOf(a) = DeviceOf(b)
<1>1. TurnFollows(a, b) /\ TransferFollows(a, b)
  BY DEF Follows
<1>2. /\ a.op = "suspend" => b.op = "wait"
      /\ a.op = "give" => b.op = "nothing"
      /\ a.op = "grab" => b.op \in {"grab", "resume"}
      /\ a.op \notin {"suspend", "give", "grab"} =>
               Session(b) /\ b.op \notin {"wait", "grab", "resume"}
      /\ a.op \notin {"nothing", "resume"}
  BY <1>1 DEF TurnFollows, Session
<1>3. /\ Transfer(a) /\ a.op # "stop" => Transfer(b)
      /\ OnPort(b) => (OnPort(a) \/ a.op = "mux") /\ DeviceOf(a) = DeviceOf(b)
  BY <1>1 DEF TransferFollows
<1>4. QED
  BY <1>2, <1>3

(* Items that leave the EEPROM and the oscillator as they are. *)
LEMMA EepromPasses ==
  ASSUME NEW n, NEW p, Running(n, p), EepromInv, todo # <<>>, Continue,
         UNCHANGED <<memory, page, pointer, version, written, doubtful>>, written \in Nat,
         ~Transfer(item)
  PROVE  EepromInv' /\ (todo' # <<>> /\ Trusted' => EepromAt(item, n)')
<1>1. /\ Kinds(todo') \subseteq Kinds(todo)
      /\ todo' # <<>> => Follows(item, item', n, p) /\ Right(item', n, p)
  BY Continued
<1>2. NoBytes' <=> NoBytes
  BY DEF NoBytes
<1>3. NoBytes
  BY DEF EepromInv, Transfer, ToEeprom
<1>4. EepromInv'
  <2>1. ("eeprom" \in doubtful \/ GoodBelow(written))'
    BY DEF EepromInv, GoodBelow
  <2>2. written' # 0 => "byte" \notin Kinds(todo')
    BY <1>1 DEF EepromInv
  <2>3. QED
    BY <1>2, <1>3, <2>1, <2>2 DEF EepromInv
<1>5. ASSUME todo' # <<>>
      PROVE  EepromAt(item, n)'
  <2>1. PageFollows(item, item', n) /\ ErrorPathRight(item')
    BY <1>1, <1>5 DEF Follows, Right
  <2>2. /\ item'.op \notin {"sub", "byte", "poll", "start", "stop"} /\ item'.mark # "halt"
        /\ item'.op = "report" /\ item'.device = "eeprom" => n = 0
    BY <2>1 DEF PageFollows, ErrorPathRight, Transfer, ToEeprom
  <2>3. n = 0 => GoodBelow(n)'
    BY DEF GoodBelow
  <2>4. QED
    BY <2>2, <2>3 DEF EepromAt
<1>6. QED
  BY <1>4, <1>5

LEMMA ClockPasses ==
  ASSUME NEW n, NEW p, Running(n, p), ClockInv, todo # <<>>, Continue,
         UNCHANGED <<dividers, frequency, frozen, adjusted, doubtful>>, ~ToClock(item),
         item.op = "mux" => late' = late
  PROVE  ClockInv' /\ (todo' # <<>> /\ Trusted' => ClockAt(item, p)')
<1>1. /\ Kinds(todo') \subseteq Kinds(todo) /\ ok' = ok /\ Right(item, n, p)
      /\ todo' # <<>> => Follows(item, item', n, p)
  BY Continued
<1>2. ClockInv'
  BY <1>1 DEF ClockInv
<1>3. ASSUME todo' # <<>>, Trusted'
      PROVE  ClockAt(item, p)'
  <2>1. ClockFollows(item, item', p)
    BY <1>1, <1>3 DEF Follows
  <2>2. /\ \A v, o : ~Clock(item, v, o)
        /\ \A v : Clock(item', v, "small") => v \notin {"freeze", "target", "unfreeze", "apply"}
        /\ ~Clock(item', p, "give") /\ ~Clock(item', "unfreeze", "give")
        /\ ~Clock(item', "apply", "give") /\ ~(item'.op = "report" /\ item'.device = "osc")
        /\ item'.mark # "small"
        /\ Clock(item', "freeze", "give") => item.mark = "small"
    <3>1. \A v, o : ~Clock(item, v, o)
      BY DEF Clock
    <3>2. QED
      BY <2>1, <3>1 DEF ClockFollows
  <2>3. item.mark = "small" => dividers' = <<"target">>
    <3>1. item.mark = "small" => Trusted
      BY <1>1, <1>3 DEF Right, ErrorPathRight, Trusted
    <3>2. QED
      BY <3>1 DEF Running, ClockAt
  <2>4. QED
    BY <2>2, <2>3 DEF ClockAt
<1>4. QED
  BY <1>2, <1>3

(***************************************************************************)
(* Who has the bus: kept by every step                                     *)
(***************************************************************************)

(* A step that goes on, and takes nothing from who has the bus. *)
LEMMA HeldPasses ==
  ASSUME NEW n, NEW p, Running(n, p), HeldInv, BusTypes, todo # <<>>, Continue,
         UNCHANGED <<run, freeze, sequencing, generation, snapshot, driving, late>>,
         item.op \notin {"suspend", "wait", "give", "grab", "resume"},
         known' = known \/ item.op = "found", item.op = "nothing" => kept' = kept,
         bus' \in {bus, "idle"} \/ (Transfer(item) /\ (bus' = "astray" => late)),
         item.op = "stop" => bus' = "idle",
         OnPort(item) => muxPort' = muxPort, item.op = "mux" => late \/ muxPort' = item.value,
         FALSE \notin stray'
  PROVE  HeldInv'
<1>1. /\ Kinds(todo') \subseteq Kinds(todo) /\ Right(item, n, p)
      /\ todo' = <<>> => item.op \in {"give", "nothing", "resume"}
      /\ todo' # <<>> => Follows(item, item', n, p) /\ Right(item', n, p)
      /\ item.op = "found" => "found" \notin Kinds(todo')
  BY Continued
<1>2. BusAt(item) /\ (known => "found" \notin Kinds(todo)) /\ SnapshotOfOneScan
      /\ (bus = "astray" => late)
  BY DEF HeldInv
<1>3. known' => "found" \notin Kinds(todo')
  BY <1>1, <1>2
<1>4. SnapshotOfOneScan' /\ (bus' = "astray" => late')
  BY <1>2 DEF SnapshotOfOneScan
<1>5. CASE todo' = <<>>
  <2>1. item.op = "nothing"
    BY <1>1, <1>5
  <2>2. ~Session(item) /\ ~Transfer(item)
    BY <2>1 DEF Session, Transfer, ToEeprom
  <2>3. (driving => kept /\ ~known) /\ bus = "idle"
    BY <1>2, <2>2 DEF BusAt, BusTypes
  <2>4. (driving' => kept' /\ ~known') /\ bus' = "idle"
    BY <2>1, <2>2, <2>3
  <2>5. QED
    BY <1>3, <1>4, <1>5, <2>4 DEF HeldInv
<1>6. CASE todo' # <<>>
  <2>1. Follows(item, item', n, p) /\ Right(item', n, p)
    BY <1>1, <1>6
  <2>2. /\ Session(item') /\ item'.op \notin {"wait", "grab", "resume"}
        /\ item.op # "nothing"
        /\ Transfer(item) /\ item.op # "stop" => Transfer(item')
        /\ OnPort(item') => (OnPort(item) \/ item.op = "mux") /\ DeviceOf(item) = DeviceOf(item')
    BY <2>1, AfterTurn
  <2>3. Session(item)
    BY <2>2 DEF Session
  <2>4. driving /\ ~run /\ (~late => ~sequencing)
    BY <1>2, <2>3 DEF BusAt
  <2>5. bus' # "idle" => Transfer(item')
    <3>1. bus # "idle" => Transfer(item)
      BY <1>2 DEF BusAt
    <3>2. QED
      BY <2>2, <3>1
  <2>6. OnPort(item') /\ ~late => muxPort' = Port[DeviceOf(item')]
    <3>1. CASE OnPort(item)
      <4>1. item.op # "mux"
        BY <3>1 DEF OnPort, Transfer, ToEeprom
      <4>2. ~late => muxPort = Port[DeviceOf(item)]
        BY <1>2, <3>1 DEF BusAt
      <4>3. QED
        BY <2>2, <4>1, <4>2
    <3>2. CASE item.op = "mux"
      <4>1. item.value = Port[item.device] /\ DeviceOf(item) = item.device
        BY <1>1, <3>2 DEF Right, TargetRight, DeviceOf, Transfer, ToEeprom
      <4>2. QED
        BY <2>2, <3>2, <4>1
    <3>3. QED
      BY <2>2, <3>1, <3>2
  <2>7. BusAt(item)'
    BY <2>2, <2>4, <2>5, <2>6 DEF BusAt
  <2>8. QED
    BY <1>3, <1>4, <1>6, <2>7 DEF HeldInv
<1>7. QED
  BY <1>5, <1>6

(* Without acknowledgement, the error path has the bus as it was. *)
LEMMA HeldFails ==
  ASSUME NEW n, NEW p, Running(n, p), HeldInv, BusTypes, todo # <<>>, NotAcknowledged,
         MayFail(item),
         UNCHANGED <<run, freeze, sequencing, generation, snapshot, driving, late, known,
                     muxPort, stray>>,
         item.op = "found" => kept',
         bus' = bus \/ (bus' = "open" /\ Transfer(item))
  PROVE  HeldInv'
<1>1. /\ todo' # <<>> /\ item'.mark = item.onNack /\ Right(item', n, p)
      /\ Kinds(todo') \subseteq Kinds(todo)
  BY NackLeaves DEF Running
<1>2. Right(item, n, p)
  BY RestOfProgram DEF Running, item
<1>3. BusAt(item) /\ (known => "found" \notin Kinds(todo)) /\ SnapshotOfOneScan
      /\ FALSE \notin stray /\ (bus = "astray" => late)
  BY DEF HeldInv
<1>4. SnapshotOfOneScan' /\ (known' => "found" \notin Kinds(todo')) /\ FALSE \notin stray'
      /\ (bus' = "astray" => late')
  BY <1>1, <1>3 DEF SnapshotOfOneScan
<1>5. /\ item.onNack \in {"give", "small", "halt", "unknown"}
      /\ item.onNack = "halt" => ToEeprom(item)
      /\ item.onNack \in {"give", "small"} => item.op \in {"mux", "access"}
      /\ item.onNack = "unknown" => item.op = "found"
      /\ item'.mark = "give" => item'.op = "give"
      /\ item'.mark = "small" => item'.op = "mux"
      /\ item'.mark = "halt" => item'.op = "stop"
      /\ item'.mark = "unknown" => item'.op = "nothing"
  <2>1. ErrorPathRight(item) /\ ErrorPathRight(item')
    BY <1>1, <1>2 DEF Right
  <2>2. item.onNack \in {"give", "small", "halt", "unknown"}
    BY <2>1 DEF ErrorPathRight, MayFail
  <2>3. QED
    BY <2>1, <2>2 DEF ErrorPathRight
<1>6. CASE item.onNack = "halt"
  <2>1. ToEeprom(item) /\ item'.op = "stop"
    BY <1>1, <1>5, <1>6
  <2>2. Session(item) /\ Transfer(item) /\ OnPort(item) /\ DeviceOf(item) = "fmc"
    BY <2>1 DEF Session, Transfer, OnPort, DeviceOf, ToEeprom
  <2>3. /\ Session(item') /\ Transfer(item') /\ DeviceOf(item') = "fmc"
        /\ item'.op \notin {"wait", "grab", "resume"}
    BY <2>1 DEF Session, Transfer, DeviceOf
  <2>4. driving /\ ~run /\ (~late => ~sequencing /\ muxPort = Port["fmc"])
    BY <1>3, <2>2 DEF BusAt
  <2>5. BusAt(item)'
    BY <2>3, <2>4 DEF BusAt
  <2>6. QED
    BY <1>1, <1>4, <2>5 DEF HeldInv
<1>7. CASE item.onNack \in {"give", "small"}
  <2>1. item.op \in {"mux", "access"} /\ item'.op \in {"give", "mux"}
    BY <1>1, <1>5, <1>7
  <2>2. Session(item) /\ ~Transfer(item)
    BY <2>1 DEF Session, Transfer, ToEeprom
  <2>3. Session(item') /\ ~OnPort(item') /\ item'.op \notin {"wait", "grab", "resume"}
    BY <2>1 DEF Session, OnPort, Transfer, ToEeprom
  <2>4. driving /\ ~run /\ (~late => ~sequencing) /\ bus = "idle"
    BY <1>3, <2>2 DEF BusAt
  <2>5. BusAt(item)'
    BY <2>2, <2>3, <2>4 DEF BusAt
  <2>6. QED
    BY <1>1, <1>4, <2>5 DEF HeldInv
<1>8. CASE item.onNack = "unknown"
  <2>1. item.op = "found" /\ item'.op = "nothing"
    BY <1>1, <1>5, <1>8
  <2>2. Session(item) /\ ~Transfer(item)
    BY <2>1 DEF Session, Transfer, ToEeprom
  <2>3. ~Session(item') /\ ~OnPort(item') /\ item'.op \notin {"wait", "grab", "resume"}
    BY <2>1 DEF Session, OnPort, Transfer, ToEeprom
  <2>4. kept' /\ ~known
    <3>1. 1 \in DOMAIN todo /\ todo[1] = item
      <4>1. todo \in Seq(BusItem)
        BY DEF Running, Program, Piece
      <4>2. QED
        BY <4>1 DEF item
    <3>2. "found" \in Kinds(todo)
      BY <2>1, <3>1 DEF Kinds, Kind, ToClock
    <3>3. QED
      BY <1>3, <2>1, <3>2
  <2>5. bus = "idle"
    BY <1>3, <2>2 DEF BusAt
  <2>6. BusAt(item)'
    BY <2>2, <2>3, <2>4, <2>5 DEF BusAt
  <2>7. QED
    BY <1>1, <1>4, <2>6 DEF HeldInv
<1>9. QED
  BY <1>5, <1>6, <1>7, <1>8

(***************************************************************************)
(* The EEPROM: kept by every step                                          *)
(***************************************************************************)

(* The next byte of a page, and the cells of a page. *)
LEMMA NextCell ==
  ASSUME NEW v \in Nat
  PROVE  /\ PageStart(v) \in 0 .. v
         /\ v % PageSize = 0 => PageStart(v) = v
         /\ (v + 1) % PageSize # 0 =>
              /\ PageStart(v + 1) = PageStart(v)
              /\ (v \div PageSize) * PageSize + ((v + 1) % PageSize) = v + 1
<1> DEFINE b == PageSize
           q == v \div b
           r == v % b
<1>1. b \in Nat \ {0}
  BY BusAssumption
<1>2. q \in Nat /\ r \in 0 .. b - 1 /\ q * b \in Nat /\ v = q * b + r
  BY <1>1, Divides
<1>3. PageStart(v) = v - r /\ PageStart(v + 1) = (v + 1) - ((v + 1) % b)
  BY Zenon DEF PageStart
<1> HIDE DEF b, q, r
<1>4. v - r \in 0 .. v /\ v - r = q * b /\ (r = 0 => v - r = v)
  BY <1>1, <1>2
<1>5. ASSUME (v + 1) % b # 0
      PROVE  (v + 1) % b = r + 1
  <2>1. CASE r + 1 = b
    <3>1. v + 1 = (q + 1) * b + 0 /\ q + 1 \in Nat /\ 0 \in 0 .. b - 1
      BY <1>1, <1>2, <2>1
    <3>2. (v + 1) % b = 0
      BY <1>1, <3>1, DividedBack
    <3>3. QED
      BY <1>5, <3>2
  <2>2. CASE r + 1 # b
    <3>1. v + 1 = q * b + (r + 1) /\ r + 1 \in 0 .. b - 1
      BY <1>1, <1>2, <2>2
    <3>2. QED
      BY <1>1, <1>2, <3>1, DividedBack
  <2>3. QED
    BY <2>1, <2>2
<1>6. ASSUME (v + 1) % b # 0
      PROVE  /\ (v + 1) - ((v + 1) % b) = v - r
             /\ q * b + ((v + 1) % b) = v + 1
  <2>1. (v + 1) % b = r + 1
    BY <1>5, <1>6
  <2>2. r \in Nat
    BY <1>1, <1>2
  <2>3. (v + 1) - (r + 1) = v - r /\ q * b + (r + 1) = v + 1
    BY <1>2, <2>2
  <2>4. QED
    BY <2>1, <2>3
<1>7. /\ PageStart(v) \in 0 .. v /\ (r = 0 => PageStart(v) = v)
      /\ (v + 1) % b # 0 => PageStart(v + 1) = PageStart(v) /\ q * b + ((v + 1) % b) = v + 1
  BY <1>3, <1>4, <1>6, Zenon
<1>8. QED
  BY <1>7, Zenon DEF b, q, r

(* A byte goes to the cell of its place, behind those of its page. *)
LEMMA ByteFills ==
  ASSUME NEW first \in Nat, NEW v \in EepromCells, first <= v, PageFilled(first, v),
         DOMAIN page = EepromCells,
         page' = [page EXCEPT ![v] = <<version, v>>], version' = version
  PROVE  PageFilled(first, v + 1)'
<1>1. EepromCells \subseteq Int
  BY BusAssumption DEF EepromCells
<1>2. ASSUME NEW k \in EepromCells
      PROVE  page'[k] = IF k \in first .. (v + 1) - 1 THEN <<version', k>> ELSE Empty
  <2>1. page[k] = IF k \in first .. v - 1 THEN <<version, k>> ELSE Empty
    BY DEF PageFilled
  <2>2. page'[k] = IF k = v THEN <<version, v>> ELSE page[k]
    OBVIOUS
  <2>3. k \in first .. (v + 1) - 1 <=> k = v \/ k \in first .. v - 1
    BY <1>1
  <2>4. QED
    BY <2>1, <2>2, <2>3, Zenon
<1>3. QED
  BY <1>2, Zenon DEF PageFilled

(* At STOP the EEPROM holds the page that was sent. *)
LEMMA PageStored ==
  ASSUME NEW first \in Nat, NEW v \in Nat, v > 0, v - 1 \in EepromCells,
         GoodBelow(first), PageFilled(first, v), version' = version,
         memory' = [k \in EepromCells |-> IF page[k] = Empty THEN memory[k] ELSE page[k]]
  PROVE  GoodBelow(v)'
<1> SUFFICES ASSUME NEW k \in 0 .. v - 1
             PROVE  memory'[k] = <<version', k>>
  BY DEF GoodBelow
<1>1. k \in 0 .. v - 1 /\ k \in EepromCells
  BY BusAssumption DEF EepromCells
<1>2. <<version, k>> # Empty
  BY DEF Empty
<1>3. CASE k \in 0 .. first - 1
  <2>1. k \notin first .. v - 1
    BY <1>3
  <2>2. page[k] = Empty
    BY <1>1, <2>1 DEF PageFilled
  <2>3. memory[k] = <<version, k>>
    BY <1>3 DEF GoodBelow
  <2>4. QED
    BY <1>1, <2>2, <2>3
<1>4. CASE k \in first .. v - 1
  <2>1. page[k] = <<version, k>>
    BY <1>1, <1>4 DEF PageFilled
  <2>2. QED
    BY <1>1, <1>2, <2>1
<1>5. QED
  BY <1>1, <1>3, <1>4

(* What may follow a transfer, and what is known of the EEPROM before it. *)
NextTransfer(a, b, n) ==
  /\ b.op = "sub" => \/ a.op = "addr" /\ b.value = 0
                     \/ a.op = "poll" /\ a.value = b.value
  /\ b.op = "byte" => \/ a.op = "sub" /\ b.value = a.value
                      \/ a.op = "byte" /\ b.value = a.value + 1 /\ b.value % PageSize # 0
  /\ b.op = "stop" => b.mark \in {"", "halt"}
  /\ b.op = "stop" /\ b.mark = "" => a.op = "byte" /\ b.value = a.value + 1
  /\ b.op = "poll" => a.op = "stop" /\ a.mark = "" /\ a.value = b.value
  /\ b.op = "start" => a.op = "poll" /\ a.value = n
  /\ b.mark = "halt" => b.op = "stop" /\ a.op = "start"
  /\ b.op = "report" /\ b.device = "eeprom" => n = 0 \/ (a.op = "stop" /\ a.mark = "halt")
  /\ a.op = "byte" => b.op \in {"byte", "stop"}

LEMMA TransferNext ==
  ASSUME NEW n, NEW a, NEW b, NEW p, Follows(a, b, n, p), Right(b, n, p)
  PROVE  NextTransfer(a, b, n)
<1>1. PageFollows(a, b, n) /\ ErrorPathRight(b) /\ TransferFollows(a, b)
  BY DEF Follows, Right
<1>2. /\ b.mark \in {"", "give", "small", "halt", "unknown"}
      /\ b.mark = "give" => b.op = "give"
      /\ b.mark = "unknown" => b.op = "nothing"
      /\ b.mark = "halt" => b.op = "stop"
      /\ b.mark = "small" => b.op = "mux"
  BY <1>1 DEF ErrorPathRight
<1>3. a.op = "byte" => b.op \in {"byte", "stop"}
  <2>1. a.op = "byte" => Transfer(b)
    BY <1>1 DEF TransferFollows, Transfer, ToEeprom
  <2>2. QED
    BY <1>1, <2>1 DEF PageFollows, Transfer, ToEeprom
<1>4. QED
  BY <1>1, <1>2, <1>3 DEF PageFollows, NextTransfer

(* START and STOP. *)
LEMMA StopKeepsEeprom ==
  ASSUME NEW n \in Sizes, NEW p, InCommand(n, p), StartStop
  PROVE  EepromInv' /\ (todo' # <<>> /\ Trusted' => EepromAt(item, n)')
<1>1. /\ Running(n, p) /\ EepromInv /\ BusTypes /\ todo # <<>> /\ Continue
      /\ item.op \in {"start", "stop", "nothing"}
      /\ UNCHANGED <<pointer, version, written, doubtful, late>> /\ written \in Nat
  BY DEF InCommand, StartStop, At, eeprom, history, BusTypes
<1>2. /\ Kinds(todo') \subseteq Kinds(todo) /\ Right(item, n, p) /\ (Trusted' => Trusted)
      /\ todo' = <<>> => item.op \in {"give", "nothing", "resume"}
      /\ todo' # <<>> => Follows(item, item', n, p) /\ Right(item', n, p)
  BY <1>1, Continued DEF Trusted
<1>3. written # 0 => NoBytes /\ "byte" \notin Kinds(todo')
  BY <1>1, <1>2 DEF EepromInv
<1>4. CASE item.op = "nothing"
  <2>1. UNCHANGED <<memory, page>> /\ ~Transfer(item)
    BY <1>4 DEF StartStop, Transfer, ToEeprom
  <2>2. QED
    BY <1>1, <2>1, EepromPasses
<1>5. CASE item.op = "start"
  <2>1. UNCHANGED <<memory, page>> /\ NoBytes
    BY <1>1, <1>5 DEF StartStop, EepromInv
  <2>2. NoBytes' /\ ("eeprom" \in doubtful \/ GoodBelow(written))'
    BY <1>1, <2>1 DEF NoBytes, EepromInv, GoodBelow
  <2>3. EepromInv'
    BY <1>1, <1>3, <2>2 DEF EepromInv
  <2>4. ASSUME todo' # <<>>, Trusted'
        PROVE  EepromAt(item, n)'
    <3>1. GoodBelow(n)
      BY <1>1, <1>2, <1>5, <2>4 DEF Running, EepromAt
    <3>2. GoodBelow(n)'
      BY <1>1, <2>1, <3>1 DEF GoodBelow
    <3>3. /\ item'.op \notin {"sub", "byte", "poll", "start"}
          /\ ~(item'.op = "stop" /\ item'.mark = "")
      <4>1. NextTransfer(item, item', n)
        BY <1>2, <2>4, TransferNext
      <4>2. QED
        BY <1>5, <4>1 DEF NextTransfer
    <3>4. QED
      BY <2>2, <3>2, <3>3 DEF EepromAt
  <2>5. QED
    BY <2>3, <2>4
<1>6. CASE item.op = "stop"
  <2>1. NoBytes'
    BY <1>6 DEF StartStop, NoBytes
  <2>2. NoBytes => UNCHANGED memory
    BY DEF StartStop, NoBytes
  <2>3. ("eeprom" \in doubtful \/ GoodBelow(written))'
    <3>1. CASE NoBytes
      BY <1>1, <2>2, <3>1 DEF EepromInv, GoodBelow
    <3>2. CASE ~NoBytes
      <4>1. written' = 0
        BY <1>1, <1>3, <3>2
      <4>2. QED
        BY <4>1 DEF GoodBelow
    <3>3. QED
      BY <3>1, <3>2
  <2>4. EepromInv'
    BY <1>1, <1>3, <2>1, <2>3 DEF EepromInv
  <2>5. ASSUME todo' # <<>>, Trusted'
        PROVE  EepromAt(item, n)'
    <3>1. EepromAt(item, n) /\ Follows(item, item', n, p) /\ Right(item', n, p)
      BY <1>1, <1>2, <2>5 DEF Running
    <3>2. /\ item'.op \notin {"sub", "byte", "start", "stop"} /\ item'.mark # "halt"
          /\ item'.op = "poll" => item.mark = "" /\ item.value = item'.value
          /\ item'.op = "report" /\ item'.device = "eeprom" => n = 0 \/ item.mark = "halt"
      <4>1. NextTransfer(item, item', n)
        BY <3>1, TransferNext
      <4>2. QED
        BY <1>6, <4>1 DEF NextTransfer
    <3>3. ASSUME item.mark = "", NEW v, v = item.value
          PROVE  GoodBelow(v)'
      <4> DEFINE first == PageStart(v - 1)
      <4>1. v \in Nat
        BY <1>2, <1>6, <3>3 DEF Right, TargetRight
      <4>2. v > 0 /\ v - 1 \in EepromCells /\ GoodBelow(first) /\ PageFilled(first, v)
        BY <1>6, <3>1, <3>3 DEF EepromAt
      <4>3. v - 1 \in Nat
        BY <4>1, <4>2
      <4>4. first \in 0 .. v - 1
        BY <4>3, NextCell
      <4> HIDE DEF first
      <4>5. first \in Nat /\ v - 1 \in first .. v - 1
        BY <4>3, <4>4
      <4>6. page[v - 1] = <<version, v - 1>>
        BY <4>2, <4>5 DEF PageFilled
      <4>7. page[v - 1] # Empty
        BY <4>6 DEF Empty
      <4>8. memory' = [k \in EepromCells |-> IF page[k] = Empty THEN memory[k] ELSE page[k]]
        BY <1>6, <4>2, <4>7 DEF StartStop
      <4>9. QED
        BY <1>1, <4>1, <4>2, <4>5, <4>8, PageStored
    <3>4. ASSUME n = 0 \/ item.mark = "halt"
          PROVE  GoodBelow(n)'
      <4>1. CASE n = 0
        BY <4>1 DEF GoodBelow
      <4>2. CASE item.mark = "halt"
        <5>1. NoBytes /\ GoodBelow(n)
          BY <3>1, <4>2 DEF EepromAt
        <5>2. QED
          BY <1>1, <2>2, <5>1 DEF GoodBelow
      <4>3. QED
        BY <3>4, <4>1, <4>2
    <3>5. item'.op = "poll" => GoodBelow(item.value)'
      <4>1. PICK v : v = item'.value
        OBVIOUS
      <4>2. item'.op = "poll" => GoodBelow(v)'
        BY <3>2, <3>3, <4>1
      <4>3. QED
        BY <4>1, <4>2 DEF GoodBelow
    <3>6. QED
      BY <3>2, <3>4, <3>5 DEF EepromAt
  <2>6. QED
    BY <2>4, <2>5
<1>7. QED
  BY <1>1, <1>4, <1>5, <1>6

(* A byte to the EEPROM that it acknowledges. *)
BytePlaced ==
  /\ pointer' = CASE item.op = "sub" -> item.value
                  [] item.op = "byte" -> (pointer \div PageSize) * PageSize
                                         + ((pointer + 1) % PageSize)
                  [] OTHER -> pointer
  /\ page' = IF item.op = "byte" THEN [page EXCEPT ![pointer] = <<version, item.value>>] ELSE page

LEMMA ByteKeepsEeprom ==
  ASSUME NEW n \in Sizes, NEW p, InCommand(n, p), todo # <<>>, Continue, BytePlaced,
         item.op \in {"addr", "sub", "byte"}, UNCHANGED <<memory, version, written, doubtful, late>>
  PROVE  EepromInv' /\ (todo' # <<>> /\ Trusted' => EepromAt(item, n)')
<1>1. Running(n, p) /\ EepromInv /\ BusTypes
  BY DEF InCommand
<1>2. /\ Kinds(todo') \subseteq Kinds(todo) /\ Right(item, n, p) /\ (Trusted' => Trusted)
      /\ todo' = <<>> => item.op \in {"give", "nothing", "resume"}
      /\ todo' # <<>> => Follows(item, item', n, p) /\ Right(item', n, p)
  BY <1>1, Continued DEF Trusted
<1>3. todo' # <<>> /\ NextTransfer(item, item', n)
  BY <1>2, TransferNext
<1>4. (written # 0 => NoBytes /\ "byte" \notin Kinds(todo)) /\ (NoBytes \/ item.op = "byte")
  BY <1>1 DEF EepromInv
<1>5. ("eeprom" \in doubtful \/ GoodBelow(written))'
  BY <1>1 DEF EepromInv, GoodBelow
<1>6. CASE item.op # "byte"
  <2>1. NoBytes /\ page' = page /\ NoBytes'
    BY <1>4, <1>6 DEF BytePlaced, NoBytes
  <2>2. EepromInv'
    BY <1>2, <1>4, <1>5, <2>1 DEF EepromInv
  <2>3. /\ item'.op \notin {"stop", "poll", "start"} /\ item'.mark # "halt"
        /\ item'.op = "sub" => item'.value = 0
        /\ item'.op = "byte" => item.op = "sub" /\ item'.value = item.value
        /\ item'.op = "report" /\ item'.device = "eeprom" => n = 0
    BY <1>3, <1>6 DEF NextTransfer
  <2>4. ASSUME item.op = "sub", Trusted', NEW v, v = item.value
        PROVE  pointer' = v /\ GoodBelow(PageStart(v))' /\ PageFilled(PageStart(v), v)'
    <3>1. GoodBelow(v) /\ v \in Nat /\ v % PageSize = 0 /\ pointer' = v
      BY <1>1, <1>2, <2>4 DEF Running, EepromAt, Right, TargetRight, ToEeprom, BytePlaced
    <3>2. PageStart(v) = v
      BY <3>1, NextCell
    <3>3. GoodBelow(v)' /\ PageFilled(v, v)'
      BY <2>1, <3>1 DEF GoodBelow, PageFilled, NoBytes
    <3>4. QED
      BY <3>1, <3>2, <3>3
  <2>5. GoodBelow(0)'
    BY DEF GoodBelow
  <2>6. ASSUME Trusted', NEW v, v = item'.value
        PROVE  /\ item'.op = "sub" => GoodBelow(v)'
               /\ item'.op = "byte" => /\ pointer' = v /\ GoodBelow(PageStart(v))'
                                       /\ PageFilled(PageStart(v), v)'
    <3>1. item'.op = "sub" => GoodBelow(v)'
      BY <2>3, <2>5, <2>6
    <3>2. item'.op = "byte" => item.op = "sub" /\ v = item.value
      BY <2>3, <2>6
    <3>3. QED
      BY <2>4, <2>6, <3>1, <3>2
  <2>7. ASSUME Trusted'
        PROVE  /\ item'.op = "sub" => GoodBelow(item.value)'
               /\ item'.op = "byte" => /\ pointer' = item'.value /\ GoodBelow(PageStart(item.value))'
                                       /\ PageFilled(PageStart(item.value), item.value)'
    <3>1. PICK v : v = item'.value
      OBVIOUS
    <3>2. /\ item'.op = "sub" => GoodBelow(v)'
          /\ item'.op = "byte" => /\ pointer' = v /\ GoodBelow(PageStart(v))'
                                  /\ PageFilled(PageStart(v), v)'
      BY <2>6, <2>7, <3>1
    <3>3. QED
      BY <3>1, <3>2 DEF GoodBelow, PageFilled, PageStart
  <2>8. Trusted' => EepromAt(item, n)'
    BY <2>3, <2>5, <2>7 DEF EepromAt
  <2>9. QED
    BY <2>2, <2>8
<1>7. CASE item.op = "byte"
  <2>1. written = 0
    <3>1. 1 \in DOMAIN todo /\ todo[1] = item
      <4>1. todo \in Seq(BusItem)
        BY <1>1 DEF Running, Program, Piece
      <4>2. QED
        BY <4>1 DEF item
    <3>2. "byte" \in Kinds(todo)
      BY <1>7, <3>1 DEF Kinds, Kind, ToClock
    <3>3. QED
      BY <1>4, <3>2
  <2>2. item'.op \in {"byte", "stop"}
    BY <1>3, <1>7 DEF NextTransfer
  <2>3. EepromInv'
    BY <1>3, <1>5, <2>1, <2>2 DEF EepromInv
  <2>4. PICK v : v = item.value
    OBVIOUS
  <2>5. v \in Nat /\ v < n
    BY <1>2, <1>7, <2>4 DEF Right, TargetRight, ToEeprom
  <2>6. v \in EepromCells /\ DOMAIN page = EepromCells
    BY <1>1, <2>5, BusAssumption DEF EepromCells, Sizes, BusTypes
  <2> DEFINE first == PageStart(v)
  <2>7. first \in 0 .. v
    BY <2>5, NextCell
  <2>8. ASSUME Trusted'
        PROVE  EepromAt(item, n)'
    <3>1. pointer = v /\ GoodBelow(first) /\ PageFilled(first, v)
      BY <1>1, <1>2, <1>3, <1>7, <2>4, <2>8 DEF Running, EepromAt
    <3>2. page' = [page EXCEPT ![v] = <<version, v>>]
      BY <1>7, <2>4, <3>1 DEF BytePlaced
    <3>3. GoodBelow(first)'
      BY <3>1 DEF GoodBelow
    <3>4. PageFilled(first, v + 1)'
      <4>1. first \in Nat /\ first <= v
        BY <2>5, <2>7
      <4> HIDE DEF first
      <4>2. QED
        BY <2>6, <3>1, <3>2, <4>1, ByteFills
    <3>5. item'.mark # "halt" /\ (item'.op = "byte" => item'.value = v + 1 /\ item'.value % PageSize # 0)
          /\ (item'.op = "stop" => item'.value = v + 1)
      BY <1>3, <1>7, <2>4 DEF NextTransfer
    <3>6. ASSUME NEW w, w = item'.value
          PROVE  /\ item'.op = "byte" => /\ pointer' = w /\ GoodBelow(PageStart(w))'
                                         /\ PageFilled(PageStart(w), w)'
                 /\ item'.op = "stop" => /\ w > 0 /\ w - 1 \in EepromCells
                                         /\ GoodBelow(PageStart(w - 1))'
                                         /\ PageFilled(PageStart(w - 1), w)'
      <4>1. w = v + 1
        BY <2>2, <3>5, <3>6
      <4>2. w > 0 /\ w - 1 = v
        BY <2>5, <4>1
      <4>3. ASSUME item'.op = "byte"
            PROVE  pointer' = w /\ PageStart(w) = first
        <5>1. (v + 1) % PageSize # 0
          BY <3>5, <4>3
        <5>2. PageStart(v + 1) = first
              /\ (v \div PageSize) * PageSize + ((v + 1) % PageSize) = v + 1
          BY <2>5, <5>1, NextCell
        <5>3. pointer' = (v \div PageSize) * PageSize + ((v + 1) % PageSize)
          BY <1>7, <3>1 DEF BytePlaced
        <5>4. QED
          BY <4>1, <5>2, <5>3
      <4> HIDE DEF first
      <4>4. item'.op = "byte" => /\ pointer' = w /\ GoodBelow(PageStart(w))'
                                 /\ PageFilled(PageStart(w), w)'
        BY <3>3, <3>4, <4>1, <4>3
      <4>5. PageStart(w - 1) = first
        BY <4>2 DEF first
      <4>6. QED
        BY <2>6, <3>3, <3>4, <4>1, <4>2, <4>4, <4>5
    <3>7. PICK w : w = item'.value
      OBVIOUS
    <3>8. /\ item'.op = "byte" => /\ pointer' = w /\ GoodBelow(PageStart(w))'
                                  /\ PageFilled(PageStart(w), w)'
          /\ item'.op = "stop" => /\ w > 0 /\ w - 1 \in EepromCells
                                  /\ GoodBelow(PageStart(w - 1))'
                                  /\ PageFilled(PageStart(w - 1), w)'
      BY <3>6, <3>7
    <3>9. QED
      BY <2>2, <3>5, <3>7, <3>8 DEF EepromAt, GoodBelow, PageFilled, PageStart
  <2>9. QED
    BY <2>3, <2>8
<1>8. QED
  BY <1>6, <1>7

(* A byte that another device takes. *)
LEMMA AstrayKeepsEeprom ==
  ASSUME NEW n, NEW p, InCommand(n, p), todo # <<>>, Continue, late,
         item.op \in {"addr", "sub", "byte", "poll"},
         UNCHANGED <<memory, page, version, written, doubtful, late>>
  PROVE  EepromInv' /\ (todo' # <<>> /\ Trusted' => EepromAt(item, n)')
<1>1. Running(n, p) /\ EepromInv
  BY DEF InCommand
<1>2. /\ Kinds(todo') \subseteq Kinds(todo)
      /\ todo' = <<>> => item.op \in {"give", "nothing", "resume"}
      /\ todo' # <<>> => Follows(item, item', n, p) /\ Right(item', n, p)
  BY <1>1, Continued
<1>3. todo' # <<>> /\ NextTransfer(item, item', n)
  BY <1>2, TransferNext
<1>4. ~NoBytes' => item'.op \in {"byte", "stop"}
  BY <1>1, <1>3 DEF EepromInv, NoBytes, NextTransfer
<1>5. /\ ("eeprom" \in doubtful \/ GoodBelow(written))'
      /\ written' # 0 => NoBytes' /\ "byte" \notin Kinds(todo')
  BY <1>1, <1>2 DEF EepromInv, GoodBelow, NoBytes
<1>6. EepromInv'
  BY <1>3, <1>4, <1>5 DEF EepromInv
<1>7. QED
  BY <1>6 DEF Trusted

(* A page is written, and the next may be sent. *)
LEMMA PollKeepsEeprom ==
  ASSUME NEW n, NEW p, InCommand(n, p), todo # <<>>, Continue, item.op = "poll",
         UNCHANGED <<memory, page, pointer, version, written, doubtful, late>>
  PROVE  EepromInv' /\ (todo' # <<>> /\ Trusted' => EepromAt(item, n)')
<1>1. Running(n, p) /\ EepromInv
  BY DEF InCommand
<1>2. /\ Kinds(todo') \subseteq Kinds(todo) /\ Right(item, n, p) /\ (Trusted' => Trusted)
      /\ todo' = <<>> => item.op \in {"give", "nothing", "resume"}
      /\ todo' # <<>> => Follows(item, item', n, p) /\ Right(item', n, p)
  BY <1>1, Continued DEF Trusted
<1>3. todo' # <<>> /\ NextTransfer(item, item', n)
  BY <1>2, TransferNext
<1>4. NoBytes /\ NoBytes'
  BY <1>1 DEF EepromInv, NoBytes
<1>5. EepromInv'
  <2>1. ("eeprom" \in doubtful \/ GoodBelow(written))'
    BY <1>1 DEF EepromInv, GoodBelow
  <2>2. written' # 0 => "byte" \notin Kinds(todo')
    BY <1>1, <1>2 DEF EepromInv
  <2>3. QED
    BY <1>4, <2>1, <2>2 DEF EepromInv
<1>6. ASSUME Trusted'
      PROVE  EepromAt(item, n)'
  <2>1. PICK v : v = item.value
    OBVIOUS
  <2>2. GoodBelow(v)
    BY <1>1, <1>2, <1>6, <2>1 DEF Running, EepromAt
  <2>3. GoodBelow(v)'
    BY <2>2 DEF GoodBelow
  <2>4. /\ item'.op \notin {"byte", "stop", "poll"} /\ item'.mark # "halt"
        /\ item'.op = "sub" => item'.value = v
        /\ item'.op = "start" => n = v
        /\ item'.op = "report" /\ item'.device = "eeprom" => n = 0
    BY <1>3, <2>1 DEF NextTransfer
  <2>5. GoodBelow(0)' /\ (item'.op = "sub" => GoodBelow(item.value)')
    BY <2>3, <2>4 DEF GoodBelow
  <2>6. QED
    BY <1>4, <2>3, <2>4, <2>5 DEF EepromAt
<1>7. QED
  BY <1>5, <1>6

(***************************************************************************)
(* The oscillator: kept by every step                                      *)
(***************************************************************************)

ValueSet(v) ==
  /\ frozen' = IF v = "freeze" THEN TRUE ELSE frozen /\ v # "unfreeze"
  /\ IF v \in {"startup", "target"} \cup Ppm THEN dividers' \in Divided(v) ELSE UNCHANGED dividers
  /\ frequency' = CASE v = "startup" -> <<v>> [] v = "apply" -> dividers [] OTHER -> frequency

(* What a value written to the oscillator does. *)
LEMMA ValuesSet ==
  ASSUME NEW v, NEW p \in Ppm, ValueSet(v), ~late
  PROVE  /\ v = "startup" => dividers' = <<"startup">>
         /\ v \in {"freeze", "unfreeze", "apply"} => dividers' = dividers
         /\ v = "target" /\ dividers = <<"startup">> => dividers' = <<"target">>
         /\ v = p /\ dividers = <<"target">> => dividers' = <<"target", p>>
         /\ v = "unfreeze" => ~frozen'
         /\ v = "apply" => frequency' = dividers /\ (~frozen => ~frozen')
<1>0. Divided(v) = {NewDividers(v)}
  BY DEF Divided
<1>1. {"startup", "target", "freeze", "unfreeze", "apply"} \cap Ppm = {}
  BY BusAssumption
<1>2. v = "startup" => dividers' = <<"startup">>
  <2>1. v = "startup" => dividers' = NewDividers(v)
    BY <1>0 DEF ValueSet
  <2>2. v = "startup" => NewDividers(v) = <<v>>
    BY <1>1 DEF NewDividers
  <2>3. QED
    BY <2>1, <2>2, Zenon
<1>3. v \in {"freeze", "unfreeze", "apply"} => dividers' = dividers
  <2>1. v \in {"freeze", "unfreeze", "apply"} => v \notin {"startup", "target"} \cup Ppm
    BY <1>1
  <2>2. QED
    BY <2>1 DEF ValueSet
<1>4. v = "target" /\ dividers = <<"startup">> => dividers' = <<"target">>
  BY <1>0 DEF ValueSet, NewDividers
<1>5. v = p /\ dividers = <<"target">> => dividers' = <<"target", p>>
  <2>1. v = p => v \in Ppm /\ v # "startup" /\ v # "target"
    BY <1>1
  <2>2. QED
    BY <1>0, <2>1 DEF ValueSet, NewDividers
<1>6. /\ v = "unfreeze" => ~frozen'
      /\ v = "apply" => frequency' = dividers /\ (~frozen => ~frozen')
  BY DEF ValueSet
<1>7. QED
  BY <1>2, <1>3, <1>4, <1>5, <1>6

LEMMA ValueKeepsClock ==
  ASSUME NEW n, NEW p, InCommand(n, p), todo # <<>>, Continue, ToClock(item),
         ValueSet(item.value), UNCHANGED <<adjusted, doubtful, late>>
  PROVE  ClockInv' /\ (todo' # <<>> /\ Trusted' => ClockAt(item, p)')
<1>1. Running(n, p) /\ ClockInv
  BY DEF InCommand
<1>2. /\ Kinds(todo') \subseteq Kinds(todo) /\ Right(item, n, p) /\ (Trusted' => Trusted)
      /\ todo' # <<>> => Follows(item, item', n, p) /\ Right(item', n, p)
  BY <1>1, Continued DEF Trusted
<1>3. ClockInv'
  <2>1. 1 \in DOMAIN todo /\ todo[1] = item
    <3>1. todo \in Seq(BusItem)
      BY <1>1 DEF Running, Program, Piece
    <3>2. QED
      BY <3>1 DEF item
  <2>2. "clock" \in Kinds(todo)
    BY <2>1 DEF Kinds, Kind
  <2>3. QED
    BY <1>1, <2>2 DEF ClockInv
<1>4. ASSUME todo' # <<>>, Trusted'
      PROVE  ClockAt(item, p)'
  <2>1. p \in Ppm
    BY <1>2 DEF Right, TargetRight
  <2>2. PICK v : v = item.value
    OBVIOUS
  <2>3. /\ v = "startup" => dividers' = <<"startup">>
        /\ v \in {"freeze", "unfreeze", "apply"} => dividers' = dividers
        /\ v = "target" /\ dividers = <<"startup">> => dividers' = <<"target">>
        /\ v = p /\ dividers = <<"target">> => dividers' = <<"target", p>>
        /\ v = "unfreeze" => ~frozen'
        /\ v = "apply" => frequency' = dividers /\ (~frozen => ~frozen')
    BY <1>2, <1>4, <2>1, <2>2, ValuesSet DEF Trusted
  <2>4. item.mark # "small"
    BY <1>2 DEF Right, ErrorPathRight, ToClock
  <2>5. ClockAt(item, p) /\ ClockFollows(item, item', p)
    BY <1>1, <1>2, <1>4 DEF Running, Follows
  <2>6. \A w, o : Clock(item, w, o) => v = w
    BY <2>2 DEF Clock
  <2>7. /\ Clock(item', "freeze", "small") \/ Clock(item', "target", "small") =>
             dividers' = <<"startup">>
        /\ Clock(item', "unfreeze", "small") \/ Clock(item', "apply", "small")
           \/ item'.mark = "small" => dividers' = <<"target">>
    BY <2>3, <2>5, <2>6 DEF ClockFollows, ClockAt
  <2>8. /\ ~Clock(item', "freeze", "give")
        /\ Clock(item', p, "give") => dividers' = <<"target">>
        /\ Clock(item', "unfreeze", "give") \/ Clock(item', "apply", "give") =>
             dividers' = <<"target", p>>
        /\ Clock(item', "apply", "give") => ~frozen'
    BY <2>3, <2>4, <2>5, <2>6 DEF ClockFollows, ClockAt
  <2>9. item'.op = "report" /\ item'.device = "osc" =>
          frequency' = <<"target", p>> /\ ~frozen'
    BY <2>3, <2>5, <2>6 DEF ClockFollows, ClockAt
  <2>10. QED
    BY <2>7, <2>8, <2>9 DEF ClockAt, Clock, ToClock
<1>5. QED
  BY <1>3, <1>4

(***************************************************************************)
(* The steps of a command                                                  *)
(***************************************************************************)

LEMMA GoesOn ==
  ASSUME NEW n, NEW p, InCommand(n, p), todo # <<>>, Continue, BusTypes', HeldInv',
         EepromInv', todo' # <<>> /\ Trusted' => EepromAt(item, n)',
         ClockInv', todo' # <<>> /\ Trusted' => ClockAt(item, p)'
  PROVE  InCommand(n, p)'
<1>1. Program(todo', n, p)
  BY Continued DEF InCommand
<1>2. QED
  BY <1>1 DEF InCommand, Running

LEMMA Fails ==
  ASSUME NEW n, NEW p, InCommand(n, p), todo # <<>>, NotAcknowledged, MayFail(item),
         UNCHANGED <<sequencer, snapshot, driving, late, muxPort, stray, eeprom, known,
                     oscillator, history>>,
         item.op = "found" => kept',
         bus' = bus \/ (bus' = "open" /\ Transfer(item))
  PROVE  InCommand(n, p)'
<1>1. Running(n, p) /\ HeldInv /\ BusTypes /\ EepromInv /\ ClockInv
  BY DEF InCommand
<1>2. /\ UNCHANGED <<run, freeze, sequencing, generation, memory, page, pointer, busy>>
      /\ UNCHANGED <<dividers, frequency, frozen, version, written, adjusted, doubtful>>
      /\ UNCHANGED <<snapshot, driving, late, muxPort, stray, known>>
  BY DEF sequencer, eeprom, oscillator, history
<1>3. /\ todo' # <<>> /\ item'.mark = item.onNack /\ Right(item', n, p)
      /\ Kinds(todo') \subseteq Kinds(todo) /\ Program(todo', n, p) /\ ~ok'
  BY <1>1, NackLeaves DEF Running
<1>4. HeldInv'
  BY <1>1, <1>2, HeldFails
<1>5. BusTypes'
  <2>1. ok' \in BOOLEAN /\ bus' \in {"idle", "open", "astray"}
    BY <1>1 DEF NotAcknowledged, BusTypes
  <2>2. QED
    BY <1>1, <1>2, <2>1 DEF BusTypes
<1>6. EepromInv'
  <2>1. (NoBytes' <=> NoBytes) /\ ("eeprom" \in doubtful \/ GoodBelow(written))'
    BY <1>1, <1>2 DEF NoBytes, GoodBelow, EepromInv
  <2>2. ASSUME ~NoBytes
        PROVE  item'.op = "stop"
    <3>1. item.op \in {"byte", "stop"}
      BY <1>1, <2>2 DEF EepromInv
    <3>2. ErrorPathRight(item) /\ ErrorPathRight(item')
      BY <1>1, <1>3, RestOfProgram DEF Running, Right, item
    <3>3. item.op \notin {"mux", "access", "found"}
      BY <3>1
    <3>4. item.onNack = "halt"
      BY <3>2, <3>3 DEF ErrorPathRight, MayFail
    <3>5. QED
      BY <1>3, <3>2, <3>4 DEF ErrorPathRight
  <2>3. QED
    BY <1>1, <1>2, <1>3, <2>1, <2>2 DEF EepromInv
<1>7. ClockInv'
  BY <1>1, <1>2, <1>3 DEF ClockInv
<1>8. QED
  BY <1>3, <1>4, <1>5, <1>6, <1>7 DEF InCommand, Running, Trusted

(* Steps that leave the devices alone. *)
LEMMA DevicesPass ==
  ASSUME NEW n, NEW p, InCommand(n, p), todo # <<>>, Continue, HeldInv', BusTypes',
         ~Transfer(item), ~ToClock(item), UNCHANGED <<eeprom, oscillator, history>>,
         item.op = "mux" => late' = late
  PROVE  InCommand(n, p)'
<1>1. Running(n, p) /\ BusTypes /\ EepromInv /\ ClockInv
  BY DEF InCommand
<1>2. /\ UNCHANGED <<memory, page, pointer, version, written, doubtful>>
      /\ UNCHANGED <<dividers, frequency, frozen, adjusted, doubtful>>
  BY DEF eeprom, oscillator, history
<1>3. EepromInv' /\ (todo' # <<>> /\ Trusted' => EepromAt(item, n)')
  BY <1>1, <1>2, EepromPasses DEF BusTypes
<1>4. ClockInv' /\ (todo' # <<>> /\ Trusted' => ClockAt(item, p)')
  BY <1>1, <1>2, ClockPasses
<1>5. QED
  BY <1>3, <1>4, GoesOn

LEMMA TakeControlKeeps ==
  ASSUME NEW n, NEW p, InCommand(n, p), TakeControl
  PROVE  InCommand(n, p)'
<1>1. /\ Running(n, p) /\ HeldInv /\ BusTypes /\ todo # <<>> /\ Continue
      /\ item.op \in {"suspend", "wait"}
      /\ UNCHANGED <<sequencing, generation, snapshot, bus, muxPort, stray, known>>
      /\ UNCHANGED <<eeprom, oscillator, history>>
  BY DEF InCommand, TakeControl, At
<1>2. /\ Kinds(todo') \subseteq Kinds(todo) /\ ok' = ok
      /\ todo' # <<>> /\ Follows(item, item', n, p)
  <2>1. item.op \notin {"give", "nothing", "resume"}
    BY <1>1
  <2>2. QED
    BY <1>1, <2>1, Continued
<1>3. BusAt(item) /\ (known => "found" \notin Kinds(todo)) /\ SnapshotOfOneScan /\ FALSE \notin stray
  BY <1>1 DEF HeldInv
<1>4. SnapshotOfOneScan' /\ (known' => "found" \notin Kinds(todo')) /\ FALSE \notin stray'
  BY <1>1, <1>2, <1>3 DEF SnapshotOfOneScan
<1>5. ~Transfer(item) /\ ~ToClock(item) /\ ~OnPort(item) /\ ~Session(item)
  BY <1>1 DEF Transfer, ToEeprom, ToClock, OnPort, Session
<1>6. bus' = "idle"
  BY <1>1, <1>3, <1>5 DEF BusAt
<1>7. CASE item.op = "suspend"
  <2>1. /\ item'.op = "wait" /\ run' = FALSE /\ freeze' = FALSE /\ UNCHANGED <<driving, late, kept>>
    BY <1>2, <1>7, AfterTurn DEF TakeControl, At
  <2>2. ~Session(item') /\ ~OnPort(item')
    BY <2>1 DEF Session, OnPort, Transfer, ToEeprom
  <2>3. BusAt(item)'
    BY <1>1, <1>3, <1>5, <1>6, <2>1, <2>2 DEF BusAt
  <2>4. BusTypes'
    BY <1>1, <1>2, <2>1 DEF BusTypes, eeprom, oscillator, history
  <2>5. HeldInv'
    BY <1>2, <1>4, <1>6, <2>3 DEF HeldInv
  <2>6. QED
    BY <1>1, <1>5, <2>4, <2>5, DevicesPass
<1>8. CASE item.op = "wait"
  <2>1. /\ driving' = TRUE /\ late' \in BOOLEAN /\ (~late' => ~sequencing)
        /\ UNCHANGED <<run, freeze>>
    BY <1>8 DEF TakeControl, At, Stopped
  <2>2. Session(item') /\ item'.op \notin {"wait", "grab", "resume"} /\ ~OnPort(item')
    <3>1. /\ Session(item') /\ item'.op \notin {"wait", "grab", "resume"}
          /\ OnPort(item') => (OnPort(item) \/ item.op = "mux")
      BY <1>2, <1>8, AfterTurn
    <3>2. QED
      BY <1>5, <1>8, <3>1
  <2>3. ~run
    BY <1>3, <1>8 DEF BusAt
  <2>4. BusAt(item)'
    BY <1>1, <1>6, <2>1, <2>2, <2>3 DEF BusAt
  <2>5. BusTypes'
    BY <1>1, <1>2, <2>1 DEF BusTypes, eeprom, oscillator, history
  <2>6. HeldInv'
    BY <1>2, <1>4, <1>6, <2>4 DEF HeldInv
  <2>7. QED
    BY <1>1, <1>5, <2>5, <2>6, DevicesPass
<1>9. QED
  BY <1>1, <1>7, <1>8

LEMMA RelinquishControlKeeps ==
  ASSUME NEW n, NEW p, InCommand(n, p), RelinquishControl
  PROVE  InCommand(n, p)'
<1>1. /\ Running(n, p) /\ HeldInv /\ BusTypes /\ todo # <<>> /\ Continue
      /\ item.op = "give" /\ driving' = FALSE /\ late' = FALSE /\ run' = TRUE /\ freeze' = FALSE
      /\ UNCHANGED <<sequencing, generation, snapshot, bus, muxPort, stray, known>>
      /\ UNCHANGED <<eeprom, oscillator, history>>
  BY DEF InCommand, RelinquishControl, At
<1>2. /\ Kinds(todo') \subseteq Kinds(todo) /\ ok' = ok
      /\ todo' # <<>> => Follows(item, item', n, p)
  BY <1>1, Continued
<1>3. BusAt(item) /\ (known => "found" \notin Kinds(todo)) /\ SnapshotOfOneScan /\ FALSE \notin stray
  BY <1>1 DEF HeldInv
<1>4. SnapshotOfOneScan' /\ (known' => "found" \notin Kinds(todo')) /\ FALSE \notin stray'
  BY <1>1, <1>2, <1>3 DEF SnapshotOfOneScan
<1>5. ~Transfer(item) /\ ~ToClock(item)
  BY <1>1 DEF Transfer, ToEeprom, ToClock
<1>6. bus' = "idle"
  BY <1>1, <1>3, <1>5 DEF BusAt, BusTypes
<1>7. ASSUME todo' # <<>>
      PROVE  BusAt(item)'
  <2>1. item'.op = "nothing"
    BY <1>1, <1>2, <1>7, AfterTurn
  <2>2. ~Session(item') /\ ~OnPort(item')
    BY <2>1 DEF Session, OnPort, Transfer, ToEeprom
  <2>3. QED
    BY <1>1, <1>6, <2>1, <2>2 DEF BusAt
<1>8. BusTypes'
  BY <1>1, <1>2, <1>6 DEF BusTypes, eeprom, oscillator, history
<1>9. HeldInv'
  BY <1>1, <1>4, <1>6, <1>7 DEF HeldInv
<1>10. QED
  BY <1>1, <1>5, <1>8, <1>9, DevicesPass

LEMMA ReadbackKeeps ==
  ASSUME NEW n, NEW p, InCommand(n, p), Readback
  PROVE  InCommand(n, p)'
<1>1. /\ Running(n, p) /\ HeldInv /\ BusTypes /\ todo # <<>> /\ Continue
      /\ item.op \in {"grab", "resume"} /\ run' = TRUE
      /\ UNCHANGED <<sequencing, generation, driving, late, bus, muxPort, stray, kept, known>>
      /\ UNCHANGED <<eeprom, oscillator, history>>
  BY DEF InCommand, Readback, At
<1>2. /\ Kinds(todo') \subseteq Kinds(todo) /\ ok' = ok
      /\ todo' = <<>> => item.op # "grab"
      /\ todo' # <<>> => Follows(item, item', n, p)
  BY <1>1, Continued
<1>3. BusAt(item) /\ (known => "found" \notin Kinds(todo)) /\ SnapshotOfOneScan /\ FALSE \notin stray
  BY <1>1 DEF HeldInv
<1>4. /\ (known' => "found" \notin Kinds(todo')) /\ FALSE \notin stray'
  BY <1>1, <1>2, <1>3
<1>5. ~Transfer(item) /\ ~ToClock(item) /\ ~Session(item)
  BY <1>1 DEF Transfer, ToEeprom, ToClock, Session
<1>6. bus' = "idle" /\ (driving' => kept' /\ ~known')
  BY <1>1, <1>3, <1>5 DEF BusAt, BusTypes
<1>7. CASE item.op = "grab"
  <2>1. freeze' = TRUE /\ snapshot' = {generation'}
    <3>1. freeze' = TRUE /\ snapshot' = snapshot \cup {generation}
      BY <1>7 DEF Readback, GrabFreezes
    <3>2. snapshot = {} \/ snapshot = {generation}
      BY <1>1, <1>3 DEF BusAt
    <3>3. QED
      BY <1>1, <3>1, <3>2
  <2>2. todo' # <<>> /\ item'.op \in {"grab", "resume"}
    BY <1>2, <1>7, AfterTurn
  <2>3. ~Session(item') /\ ~OnPort(item')
    BY <2>2 DEF Session, OnPort, Transfer, ToEeprom
  <2>4. BusAt(item)' /\ SnapshotOfOneScan'
    BY <1>6, <2>1, <2>2, <2>3 DEF BusAt, SnapshotOfOneScan
  <2>5. BusTypes'
    BY <1>1, <1>2, <2>1 DEF BusTypes, eeprom, oscillator, history
  <2>6. HeldInv'
    BY <1>4, <1>6, <2>2, <2>4 DEF HeldInv
  <2>7. QED
    BY <1>1, <1>5, <2>5, <2>6, DevicesPass
<1>8. CASE item.op = "resume"
  <2>1. freeze' = FALSE /\ snapshot' = snapshot
    BY <1>8 DEF Readback
  <2>2. todo' = <<>> /\ SnapshotOfOneScan'
    BY <1>2, <1>3, <1>8, <2>1, AfterTurn DEF SnapshotOfOneScan
  <2>3. BusTypes'
    BY <1>1, <1>2, <2>1 DEF BusTypes, eeprom, oscillator, history
  <2>4. HeldInv'
    BY <1>4, <1>6, <2>2 DEF HeldInv
  <2>5. QED
    BY <1>1, <1>5, <2>3, <2>4, DevicesPass
<1>9. QED
  BY <1>1, <1>7, <1>8

LEMMA StartStopKeeps ==
  ASSUME NEW n \in Sizes, NEW p, InCommand(n, p), StartStop
  PROVE  InCommand(n, p)'
<1>1. /\ Running(n, p) /\ HeldInv /\ BusTypes /\ ClockInv /\ todo # <<>> /\ Continue
      /\ item.op \in {"start", "stop", "nothing"}
      /\ UNCHANGED <<run, freeze, sequencing, generation>>
      /\ UNCHANGED <<snapshot, driving, late, muxPort, stray, pointer, polls, kept, known>>
      /\ UNCHANGED <<dividers, frequency, frozen, version, written, adjusted, doubtful>>
  BY DEF InCommand, StartStop, At, sequencer, oscillator, history
<1>2. /\ item.op = "start" => bus' = "open"
      /\ item.op = "stop" => bus' = "idle"
      /\ item.op = "nothing" => bus' = bus
  BY DEF StartStop
<1>3. bus' \in {bus, "idle"} \/ (bus' = "open" /\ Transfer(item))
  BY <1>1, <1>2 DEF Transfer
<1>4. item.op \notin {"suspend", "wait", "give", "grab", "resume", "mux"} /\ ~ToClock(item)
  BY <1>1 DEF ToClock
<1>5. HeldInv'
  <2>1. FALSE \notin stray'
    BY <1>1 DEF HeldInv
  <2>2. QED
    BY <1>1, <1>2, <1>3, <1>4, <2>1, HeldPasses
<1>6. BusTypes'
  <2>1. ok' \in BOOLEAN /\ bus' \in {"idle", "open", "astray"}
    BY <1>1, <1>3 DEF Continue, BusTypes
  <2>2. memory' \in [EepromCells -> Cell] /\ page' \in [EepromCells -> Cell]
    <3>1. memory \in [EepromCells -> Cell] /\ page \in [EepromCells -> Cell] /\ Empty \in Cell
      BY <1>1 DEF BusTypes, Cell
    <3>2. QED
      BY <3>1 DEF StartStop
  <2>3. QED
    BY <1>1, <2>1, <2>2 DEF BusTypes
<1>7. EepromInv' /\ (todo' # <<>> /\ Trusted' => EepromAt(item, n)')
  BY StopKeepsEeprom
<1>8. ClockInv' /\ (todo' # <<>> /\ Trusted' => ClockAt(item, p)')
  BY <1>1, <1>4, ClockPasses
<1>9. QED
  BY <1>1, <1>5, <1>6, <1>7, <1>8, GoesOn

LEMMA SetMuxKeeps ==
  ASSUME NEW n, NEW p, InCommand(n, p), iicProcSetMux
  PROVE  InCommand(n, p)'
<1>1. /\ Running(n, p) /\ HeldInv /\ BusTypes /\ todo # <<>> /\ item.op \in {"mux", "trymux"}
      /\ UNCHANGED <<sequencer, eeprom, oscillator, history>>
      /\ UNCHANGED <<snapshot, driving, late, bus, stray, polls, known>>
  BY DEF InCommand, iicProcSetMux, At
<1>2. UNCHANGED <<run, freeze, sequencing, generation>>
  BY <1>1 DEF sequencer
<1>3. ~Transfer(item) /\ ~ToClock(item) /\ ~OnPort(item)
      /\ item.op \notin {"suspend", "wait", "give", "grab", "resume", "stop"}
  BY <1>1 DEF Transfer, ToEeprom, ToClock, OnPort
<1>4. CASE Continue /\ (item.op = "mux" => late \/ muxPort' = item.value)
  <2>1. FALSE \notin stray' /\ ok' = ok
    BY <1>1, <1>4 DEF HeldInv, Continue
  <2>2. HeldInv'
    BY <1>1, <1>2, <1>3, <1>4, <2>1, HeldPasses
  <2>3. BusTypes'
    BY <1>1, <1>2, <2>1 DEF BusTypes, eeprom, oscillator, history
  <2>4. QED
    BY <1>1, <1>3, <1>4, <2>2, <2>3, DevicesPass
<1>5. CASE item.op = "mux" /\ UNCHANGED muxPort /\ NotAcknowledged
  <2>1. MayFail(item)
    BY <1>1, <1>5, RestOfProgram DEF Running, Right, ErrorPathRight, MayFail, item
  <2>2. QED
    BY <1>1, <1>5, <2>1, Fails
<1>6. (Continue /\ (item.op = "mux" => late \/ muxPort' = item.value))
      \/ (item.op = "mux" /\ UNCHANGED muxPort /\ NotAcknowledged)
  BY DEF iicProcSetMux, MuxFailed
<1>7. QED
  BY <1>4, <1>5, <1>6

LEMMA FindOscillatorKeeps ==
  ASSUME NEW n, NEW p, InCommand(n, p), FindOscillator
  PROVE  InCommand(n, p)'
<1>1. /\ Running(n, p) /\ HeldInv /\ BusTypes /\ todo # <<>> /\ item.op = "found"
      /\ UNCHANGED <<sequencer, eeprom, oscillator, history>>
      /\ UNCHANGED <<snapshot, driving, late, bus, muxPort, stray, polls>>
  BY DEF InCommand, FindOscillator, At
<1>2. UNCHANGED <<run, freeze, sequencing, generation>>
  BY <1>1 DEF sequencer
<1>3. ~Transfer(item) /\ ~ToClock(item) /\ ~OnPort(item)
      /\ item.op \notin {"suspend", "wait", "give", "grab", "resume", "stop", "mux"}
  BY <1>1 DEF Transfer, ToEeprom, ToClock, OnPort
<1>4. CASE Continue /\ known' = TRUE
  <2>1. FALSE \notin stray' /\ ok' = ok
    BY <1>1, <1>4 DEF HeldInv, Continue
  <2>2. HeldInv'
    BY <1>1, <1>2, <1>3, <1>4, <2>1, HeldPasses
  <2>3. BusTypes'
    BY <1>1, <1>2, <1>4, <2>1 DEF BusTypes, eeprom, oscillator, history
  <2>4. QED
    BY <1>1, <1>3, <1>4, <2>2, <2>3, DevicesPass
<1>5. CASE MayFail(item) /\ NotAcknowledged /\ kept' /\ UNCHANGED known
  BY <1>1, <1>5, Fails
<1>6. (Continue /\ known' = TRUE) \/ (MayFail(item) /\ NotAcknowledged /\ kept' /\ UNCHANGED known)
  BY DEF FindOscillator, MayFail
<1>7. QED
  BY <1>4, <1>5, <1>6

(* Another device than was meant acknowledges only if the bus was taken late. *)
LEMMA NoStray ==
  ASSUME NEW n, NEW p, InCommand(n, p), todo # <<>>, ToEeprom(item) \/ item.op = "access",
         Misled
  PROVE  late /\ FALSE \notin stray'
<1>1. BusAt(item) /\ FALSE \notin stray /\ Right(item, n, p) /\ late \in BOOLEAN
  BY RestOfProgram DEF InCommand, HeldInv, Running, item, BusTypes
<1>2. OnPort(item) /\ DeviceOf(item) = item.device
  BY <1>1 DEF OnPort, Transfer, DeviceOf, Right, TargetRight, ToEeprom
<1>3. ~late => Reached
  BY <1>1, <1>2 DEF BusAt, Reached
<1>4. late
  BY <1>3 DEF Misled
<1>5. QED
  BY <1>1, <1>4 DEF Misled

LEMMA TransferToKeeps ==
  ASSUME NEW n, NEW p, InCommand(n, p), TransferTo
  PROVE  InCommand(n, p)'
<1>1. /\ Running(n, p) /\ HeldInv /\ BusTypes /\ EepromInv /\ ClockInv /\ todo # <<>>
      /\ item.op \in {"access", "try"}
      /\ UNCHANGED <<sequencer, eeprom, history>>
      /\ UNCHANGED <<snapshot, driving, late, bus, muxPort, polls, known>>
  BY DEF InCommand, TransferTo, At
<1>2. /\ UNCHANGED <<run, freeze, sequencing, generation>>
      /\ UNCHANGED <<memory, page, pointer, version, written, adjusted, doubtful>>
  BY <1>1 DEF sequencer, eeprom, history
<1>3. /\ ~Transfer(item)
      /\ item.op \notin {"suspend", "wait", "give", "grab", "resume", "stop", "mux", "found"}
  BY <1>1 DEF Transfer, ToEeprom
<1>4. Right(item, n, p)
  BY <1>1, RestOfProgram DEF Running, item
<1>5. ASSUME Continue, FALSE \notin stray'
      PROVE  /\ HeldInv' /\ ok' = ok
             /\ EepromInv' /\ (todo' # <<>> /\ Trusted' => EepromAt(item, n)')
  <2>1. HeldInv' /\ ok' = ok
    BY <1>1, <1>2, <1>3, <1>5, HeldPasses DEF Continue
  <2>2. EepromInv' /\ (todo' # <<>> /\ Trusted' => EepromAt(item, n)')
    BY <1>1, <1>2, <1>3, <1>5, EepromPasses DEF BusTypes
  <2>3. QED
    BY <2>1, <2>2
<1>6. ASSUME Continue, FALSE \notin stray', UNCHANGED oscillator, ~ToClock(item) \/ late
      PROVE  InCommand(n, p)'
  <2>1. /\ HeldInv' /\ ok' = ok
        /\ EepromInv' /\ (todo' # <<>> /\ Trusted' => EepromAt(item, n)')
    BY <1>5, <1>6
  <2>2. UNCHANGED <<dividers, frequency, frozen>>
    BY <1>6 DEF oscillator
  <2>3. BusTypes'
    BY <1>1, <1>2, <2>1, <2>2 DEF BusTypes
  <2>4. ClockInv' /\ (todo' # <<>> /\ Trusted' => ClockAt(item, p)')
    <3>1. CASE ~ToClock(item)
      BY <1>1, <1>2, <1>6, <2>2, <3>1, ClockPasses
    <3>2. CASE late
      <4>1. Kinds(todo') \subseteq Kinds(todo)
        BY <1>1, <1>6, Continued
      <4>2. ClockInv'
        BY <1>1, <1>2, <2>2, <4>1 DEF ClockInv
      <4>3. QED
        BY <1>1, <3>2, <4>2 DEF Trusted
    <3>3. QED
      BY <1>6, <3>1, <3>2
  <2>5. QED
    BY <1>1, <1>6, <2>1, <2>3, <2>4, GoesOn
<1>7. ASSUME Continue, UNCHANGED stray, item.op = "access", item.device = "osc",
             ValueSet(item.value)
      PROVE  InCommand(n, p)'
  <2>1. FALSE \notin stray'
    BY <1>1, <1>7 DEF HeldInv
  <2>2. /\ HeldInv' /\ ok' = ok
        /\ EepromInv' /\ (todo' # <<>> /\ Trusted' => EepromAt(item, n)')
    BY <1>5, <1>7, <2>1
  <2>3. ToClock(item)
    BY <1>7 DEF ToClock
  <2>4. BusTypes'
    <3>1. frozen' \in BOOLEAN
      BY <1>1, <1>7 DEF ValueSet, BusTypes
    <3>2. QED
      BY <1>1, <1>2, <2>2, <3>1 DEF BusTypes
  <2>5. ClockInv' /\ (todo' # <<>> /\ Trusted' => ClockAt(item, p)')
    BY <1>1, <1>2, <1>7, <2>3, ValueKeepsClock
  <2>6. QED
    BY <1>1, <1>7, <2>2, <2>4, <2>5, GoesOn
<1>8. ASSUME item.op = "access", NotAcknowledged, UNCHANGED <<stray, oscillator>>
      PROVE  InCommand(n, p)'
  <2>1. MayFail(item)
    BY <1>4, <1>8 DEF Right, ErrorPathRight, MayFail
  <2>2. QED
    BY <1>1, <1>8, <2>1, Fails
<1>9. CASE item.op = "try"
  <2>1. Continue /\ UNCHANGED <<stray, oscillator>>
    BY <1>9 DEF TransferTo, At
  <2>2. FALSE \notin stray' /\ ~ToClock(item)
    BY <1>1, <1>9, <2>1 DEF HeldInv, ToClock
  <2>3. QED
    BY <1>6, <2>1, <2>2
<1>10. CASE item.op = "access"
  <2>1. CASE Continue /\ UNCHANGED stray /\ item.device # "osc" /\ UNCHANGED oscillator
    <3>1. FALSE \notin stray' /\ ~ToClock(item)
      BY <1>1, <2>1 DEF HeldInv, ToClock
    <3>2. QED
      BY <1>6, <2>1, <3>1
  <2>2. CASE Continue /\ UNCHANGED stray /\ item.device = "osc" /\ ValueSet(item.value)
    BY <1>7, <1>10, <2>2
  <2>3. CASE Misled /\ Continue /\ UNCHANGED oscillator
    <3>1. late /\ FALSE \notin stray'
      BY <1>1, <1>10, <2>3, NoStray
    <3>2. QED
      BY <1>6, <2>3, <3>1
  <2>4. CASE NotAcknowledged /\ UNCHANGED <<stray, oscillator>>
    BY <1>8, <1>10, <2>4
  <2>5. \/ Continue /\ UNCHANGED stray /\ item.device # "osc" /\ UNCHANGED oscillator
        \/ Continue /\ UNCHANGED stray /\ item.device = "osc" /\ ValueSet(item.value)
        \/ Misled /\ Continue /\ UNCHANGED oscillator
        \/ NotAcknowledged /\ UNCHANGED <<stray, oscillator>>
    <3>1. ASSUME item.device = "osc",
                 ~(Misled /\ Continue /\ UNCHANGED oscillator),
                 ~(NotAcknowledged /\ UNCHANGED <<stray, oscillator>>)
          PROVE  Continue /\ UNCHANGED stray /\ ValueSet(item.value)
      BY <1>10, <3>1, Zenon DEF TransferTo, At, ValueSet
    <3>2. ASSUME item.device # "osc",
                 ~(Misled /\ Continue /\ UNCHANGED oscillator),
                 ~(NotAcknowledged /\ UNCHANGED <<stray, oscillator>>)
          PROVE  Continue /\ UNCHANGED stray /\ UNCHANGED oscillator
      BY <1>10, <3>2, Zenon DEF TransferTo, At
    <3>3. QED
      BY <3>1, <3>2
  <2>6. QED
    BY <2>1, <2>2, <2>3, <2>4, <2>5
<1>11. QED
  BY <1>1, <1>9, <1>10

LEMMA SendAddressKeeps ==
  ASSUME NEW n \in Sizes, NEW p, InCommand(n, p), SendAddress
  PROVE  InCommand(n, p)'
<1>1. /\ Running(n, p) /\ HeldInv /\ BusTypes /\ ClockInv /\ todo # <<>> /\ item.op = "addr"
      /\ UNCHANGED <<sequencer, eeprom, oscillator, history>>
      /\ UNCHANGED <<snapshot, driving, late, muxPort, known>>
  BY DEF InCommand, SendAddress, At
<1>2. /\ UNCHANGED <<run, freeze, sequencing, generation>>
      /\ UNCHANGED <<memory, page, pointer, busy>>
      /\ UNCHANGED <<dividers, frequency, frozen, version, written, adjusted, doubtful>>
  BY <1>1 DEF sequencer, eeprom, oscillator, history
<1>3. ToEeprom(item) /\ Transfer(item) /\ ~ToClock(item)
      /\ item.op \notin {"suspend", "wait", "give", "grab", "resume", "stop", "mux", "found"}
  BY <1>1 DEF ToEeprom, Transfer, ToClock
<1>4. ASSUME Continue, FALSE \notin stray', bus' \in {"open", "astray"}, bus' = "astray" => late
      PROVE  InCommand(n, p)'
  <2>1. ok' = ok
    BY <1>4 DEF Continue
  <2>2. HeldInv'
    BY <1>1, <1>2, <1>3, <1>4, HeldPasses
  <2>3. BusTypes'
    BY <1>1, <1>2, <1>4, <2>1 DEF BusTypes
  <2>4. EepromInv' /\ (todo' # <<>> /\ Trusted' => EepromAt(item, n)')
    <3>1. BytePlaced
      BY <1>1, <1>2 DEF BytePlaced
    <3>2. QED
      BY <1>1, <1>2, <1>4, <3>1, ByteKeepsEeprom
  <2>5. ClockInv' /\ (todo' # <<>> /\ Trusted' => ClockAt(item, p)')
    BY <1>1, <1>2, <1>3, <1>4, ClockPasses
  <2>6. QED
    BY <1>1, <1>4, <2>2, <2>3, <2>4, <2>5, GoesOn
<1>5. CASE Continue /\ bus' = "open" /\ UNCHANGED stray
  <2>1. FALSE \notin stray'
    BY <1>1, <1>5 DEF HeldInv
  <2>2. QED
    BY <1>4, <1>5, <2>1
<1>6. CASE Misled /\ Continue /\ bus' = "astray"
  <2>1. late /\ FALSE \notin stray'
    BY <1>1, <1>3, <1>6, NoStray
  <2>2. QED
    BY <1>4, <1>6, <2>1
<1>7. CASE NotAcknowledged /\ bus' = "open" /\ UNCHANGED stray
  <2>1. MayFail(item)
    BY <1>1, <1>3, RestOfProgram DEF Running, Right, ErrorPathRight, MayFail, item
  <2>2. QED
    BY <1>1, <1>3, <1>7, <2>1, Fails
<1>8. QED
  BY <1>5, <1>6, <1>7 DEF SendAddress

LEMMA SendByteKeeps ==
  ASSUME NEW n \in Sizes, NEW p, InCommand(n, p), SendByte
  PROVE  InCommand(n, p)'
<1>1. /\ Running(n, p) /\ HeldInv /\ BusTypes /\ ClockInv /\ todo # <<>>
      /\ item.op \in {"sub", "byte"}
      /\ UNCHANGED <<sequencer, oscillator, history>>
      /\ UNCHANGED <<snapshot, driving, late, bus, muxPort, memory, busy, known>>
  BY DEF InCommand, SendByte, At
<1>2. /\ UNCHANGED <<run, freeze, sequencing, generation>>
      /\ UNCHANGED <<dividers, frequency, frozen, version, written, adjusted, doubtful>>
  BY <1>1 DEF sequencer, oscillator, history
<1>3. ToEeprom(item) /\ Transfer(item) /\ ~ToClock(item)
      /\ item.op \notin {"suspend", "wait", "give", "grab", "resume", "stop", "mux", "found"}
  BY <1>1 DEF ToEeprom, Transfer, ToClock
<1>4. ASSUME Continue, FALSE \notin stray', page' \in [EepromCells -> Cell],
             EepromInv' /\ (todo' # <<>> /\ Trusted' => EepromAt(item, n)')
      PROVE  InCommand(n, p)'
  <2>1. ok' = ok
    BY <1>4 DEF Continue
  <2>2. HeldInv'
    BY <1>1, <1>2, <1>3, <1>4, HeldPasses
  <2>3. BusTypes'
    BY <1>1, <1>2, <1>4, <2>1 DEF BusTypes
  <2>4. ClockInv' /\ (todo' # <<>> /\ Trusted' => ClockAt(item, p)')
    BY <1>1, <1>2, <1>3, <1>4, ClockPasses
  <2>5. QED
    BY <1>1, <1>4, <2>2, <2>3, <2>4, GoesOn
<1>5. CASE Continue /\ UNCHANGED stray /\ BytePlaced
  <2>1. FALSE \notin stray'
    BY <1>1, <1>5 DEF HeldInv
  <2>2. page' \in [EepromCells -> Cell]
    <3>1. CASE item.op # "byte"
      BY <1>1, <1>5, <3>1 DEF BytePlaced, BusTypes
    <3>2. CASE item.op = "byte"
      <4>1. <<version, item.value>> \in Cell
        <5>1. Right(item, n, p)
          BY <1>1, RestOfProgram DEF Running, item
        <5>2. item.value \in Nat /\ version \in 0 .. 2
          BY <1>1, <1>3, <5>1 DEF Right, TargetRight, BusTypes
        <5>3. QED
          BY <5>2 DEF Cell
      <4>2. page \in [EepromCells -> Cell]
        BY <1>1 DEF BusTypes
      <4>3. page' = [page EXCEPT ![pointer] = <<version, item.value>>]
        BY <1>5, <3>2 DEF BytePlaced
      <4>4. QED
        BY <4>1, <4>2, <4>3
    <3>3. QED
      BY <3>1, <3>2
  <2>3. EepromInv' /\ (todo' # <<>> /\ Trusted' => EepromAt(item, n)')
    BY <1>1, <1>2, <1>5, ByteKeepsEeprom
  <2>4. QED
    BY <1>4, <1>5, <2>1, <2>2, <2>3
<1>6. CASE bus = "astray" /\ Continue /\ stray' = stray \cup {late} /\ UNCHANGED <<pointer, page>>
  <2>1. late /\ late \in BOOLEAN /\ FALSE \notin stray /\ page \in [EepromCells -> Cell]
    BY <1>1, <1>6 DEF HeldInv, BusTypes
  <2>2. FALSE \notin stray' /\ page' \in [EepromCells -> Cell]
    BY <1>6, <2>1
  <2>3. EepromInv' /\ (todo' # <<>> /\ Trusted' => EepromAt(item, n)')
    BY <1>1, <1>2, <1>6, <2>1, AstrayKeepsEeprom
  <2>4. QED
    BY <1>4, <1>6, <2>2, <2>3
<1>7. CASE NotAcknowledged /\ UNCHANGED <<stray, pointer, page>>
  <2>1. MayFail(item)
    BY <1>1, <1>3, RestOfProgram DEF Running, Right, ErrorPathRight, MayFail, item
  <2>2. UNCHANGED eeprom
    BY <1>1, <1>7 DEF eeprom
  <2>3. QED
    BY <1>1, <1>3, <1>7, <2>1, <2>2, Fails
<1>8. \/ Continue /\ UNCHANGED stray /\ BytePlaced
      \/ bus = "astray" /\ Continue /\ stray' = stray \cup {late} /\ UNCHANGED <<pointer, page>>
      \/ NotAcknowledged /\ UNCHANGED <<stray, pointer, page>>
  BY <1>1 DEF SendByte, BytePlaced
<1>9. QED
  BY <1>5, <1>6, <1>7, <1>8

(* What is known of the devices, while they and the command stay as they are. *)
LEMMA SameTodo ==
  ASSUME NEW n, NEW p, InCommand(n, p), UNCHANGED <<todo, ok, late>>, UNCHANGED <<memory, page>>,
         UNCHANGED <<pointer, version, written, doubtful>>, UNCHANGED <<oscillator, adjusted, doubtful>>
  PROVE  Running(n, p)' /\ EepromInv' /\ ClockInv'
<1>1. UNCHANGED <<dividers, frequency, frozen>> /\ item' = item
  BY DEF oscillator, item
<1>2. EepromAt(item, n) => EepromAt(item, n)'
  BY <1>1 DEF EepromAt, GoodBelow, PageFilled, NoBytes
<1>3. ClockAt(item, p) => ClockAt(item, p)'
  BY <1>1 DEF ClockAt, Clock, ToClock
<1>4. Running(n, p)'
  BY <1>2, <1>3 DEF InCommand, Running, Trusted
<1>5. EepromInv' /\ ClockInv'
  BY <1>1 DEF InCommand, EepromInv, ClockInv, GoodBelow, NoBytes
<1>6. QED
  BY <1>4, <1>5

LEMMA PollReadyKeeps ==
  ASSUME NEW n, NEW p, InCommand(n, p), PollReady
  PROVE  InCommand(n, p)'
<1>1. /\ Running(n, p) /\ HeldInv /\ BusTypes /\ EepromInv /\ ClockInv /\ todo # <<>>
      /\ item.op = "poll"
      /\ UNCHANGED <<sequencer, eeprom, oscillator, history>>
      /\ UNCHANGED <<snapshot, driving, late, muxPort, kept, known>>
  BY DEF InCommand, PollReady, At
<1>2. /\ UNCHANGED <<run, freeze, sequencing, generation>>
      /\ UNCHANGED <<memory, page, pointer, busy>>
      /\ UNCHANGED <<dividers, frequency, frozen, version, written, adjusted, doubtful>>
  BY <1>1 DEF sequencer, eeprom, oscillator, history
<1>3. ToEeprom(item) /\ Transfer(item) /\ ~ToClock(item)
      /\ item.op \notin {"suspend", "wait", "give", "grab", "resume", "stop", "mux", "found"}
  BY <1>1 DEF ToEeprom, Transfer, ToClock
<1>4. ASSUME Continue, FALSE \notin stray', bus' \in {"open", "astray"}, bus' = "astray" => late
      PROVE  InCommand(n, p)'
  <2>1. ok' = ok
    BY <1>4 DEF Continue
  <2>2. HeldInv'
    BY <1>1, <1>2, <1>3, <1>4, HeldPasses
  <2>3. BusTypes'
    BY <1>1, <1>2, <1>4, <2>1 DEF BusTypes
  <2>4. EepromInv' /\ (todo' # <<>> /\ Trusted' => EepromAt(item, n)')
    BY <1>1, <1>2, <1>4, PollKeepsEeprom
  <2>5. ClockInv' /\ (todo' # <<>> /\ Trusted' => ClockAt(item, p)')
    BY <1>1, <1>2, <1>3, <1>4, ClockPasses
  <2>6. QED
    BY <1>1, <1>4, <2>2, <2>3, <2>4, <2>5, GoesOn
<1>5. CASE Continue /\ bus' = "open" /\ UNCHANGED stray
  <2>1. FALSE \notin stray'
    BY <1>1, <1>5 DEF HeldInv
  <2>2. QED
    BY <1>4, <1>5, <2>1
<1>6. CASE Misled /\ Continue /\ bus' = "astray"
  <2>1. late /\ FALSE \notin stray'
    BY <1>1, <1>3, <1>6, NoStray
  <2>2. QED
    BY <1>4, <1>6, <2>1
<1>7. CASE NotAcknowledged /\ bus' = "open" /\ UNCHANGED stray
  <2>1. MayFail(item)
    BY <1>1, <1>3, RestOfProgram DEF Running, Right, ErrorPathRight, MayFail, item
  <2>2. QED
    BY <1>1, <1>3, <1>7, <2>1, Fails
<1>8. CASE bus' = "open" /\ UNCHANGED <<todo, ok, stray>>
  <2>1. item' = item /\ BusAt(item) /\ SnapshotOfOneScan
    BY <1>1, <1>8 DEF HeldInv, item
  <2>2. BusAt(item)' /\ SnapshotOfOneScan'
    BY <1>1, <1>2, <1>3, <1>8, <2>1 DEF BusAt, SnapshotOfOneScan
  <2>3. HeldInv'
    BY <1>1, <1>8, <2>2 DEF HeldInv
  <2>4. BusTypes'
    BY <1>1, <1>2, <1>8 DEF BusTypes
  <2>5. Running(n, p)' /\ EepromInv' /\ ClockInv'
    BY <1>1, <1>2, <1>8, SameTodo
  <2>6. QED
    BY <2>3, <2>4, <2>5 DEF InCommand
<1>9. \/ Continue /\ bus' = "open" /\ UNCHANGED stray
      \/ Misled /\ Continue /\ bus' = "astray"
      \/ NotAcknowledged /\ bus' = "open" /\ UNCHANGED stray
      \/ bus' = "open" /\ UNCHANGED <<todo, ok, stray>>
  BY DEF PollReady
<1>10. QED
  BY <1>5, <1>6, <1>7, <1>8, <1>9

(* What a command reports. *)
LEMMA ReportResultKeeps ==
  ASSUME NEW n \in Sizes, NEW p, InCommand(n, p), ReportResult
  PROVE  InCommand(n, p)'
<1>1. /\ Running(n, p) /\ HeldInv /\ BusTypes /\ EepromInv /\ ClockInv /\ todo # <<>> /\ Continue
      /\ item.op = "report"
      /\ UNCHANGED <<run, freeze, sequencing, generation>>
      /\ UNCHANGED <<memory, page, pointer, busy>>
      /\ UNCHANGED <<dividers, frequency, frozen, version>>
      /\ UNCHANGED <<snapshot, driving, late, bus, muxPort, stray, known>>
  BY DEF InCommand, ReportResult, At, sequencer, eeprom, oscillator
<1>2. /\ ok' = ok /\ Right(item, n, p) /\ Kinds(todo') \subseteq {"give", "nothing"}
      /\ todo' # <<>> /\ Follows(item, item', n, p) /\ Right(item', n, p)
  BY <1>1, Continued
<1>3. ~Transfer(item) /\ ~ToClock(item)
      /\ item.op \notin {"suspend", "wait", "give", "grab", "resume", "stop", "mux", "found"}
  BY <1>1 DEF ToEeprom, Transfer, ToClock
<1>4. HeldInv'
  <2>1. FALSE \notin stray'
    BY <1>1 DEF HeldInv
  <2>2. QED
    BY <1>1, <1>3, <2>1, HeldPasses
<1>5. NoBytes /\ NoBytes'
  BY <1>1 DEF EepromInv, NoBytes
<1>6. written' \in Nat /\ ("eeprom" \in doubtful \/ GoodBelow(written))'
  <2>0. CASE late /\ ok /\ item.device = "eeprom"
    <3>1. item.value = n /\ n \in Nat
      BY <1>1, <1>2, <2>0, ValuesOfBus DEF Right, TargetRight
    <3>2. "eeprom" \in doubtful' /\ written' = n
      BY <2>0, <3>1 DEF ReportResult
    <3>3. QED
      BY <3>1, <3>2
  <2>1. CASE ~late /\ ok /\ item.device = "eeprom"
    <3>1. EepromAt(item, n) /\ item.value = n
      BY <1>1, <1>2, <2>1 DEF Running, Right, TargetRight, Trusted
    <3>2. GoodBelow(n) /\ written' = n
      BY <1>1, <2>1, <3>1 DEF EepromAt, ReportResult
    <3>3. n \in Nat
      BY ValuesOfBus
    <3>4. QED
      BY <1>1, <3>2, <3>3 DEF GoodBelow
  <2>2. CASE ~(ok /\ item.device = "eeprom")
    <3>1. written' = written
      BY <2>2 DEF ReportResult
    <3>2. doubtful \subseteq doubtful'
      BY DEF ReportResult
    <3>3. QED
      BY <1>1, <3>1, <3>2 DEF EepromInv, GoodBelow, BusTypes
  <2>3. QED
    BY <2>0, <2>1, <2>2
<1>7. BusTypes'
  BY <1>1, <1>2, <1>6 DEF BusTypes
<1>8. EepromInv'
  BY <1>2, <1>5, <1>6 DEF EepromInv
<1>9. item'.op = "give" /\ item'.mark = "give"
  <2>1. item'.op = "give"
    BY <1>1, <1>2 DEF Follows, TurnFollows
  <2>2. QED
    BY <1>2, <2>1 DEF Right, ErrorPathRight
<1>10. EepromAt(item, n)' /\ ClockAt(item, p)'
  BY <1>9 DEF EepromAt, ClockAt, Clock, ToClock
<1>11. ClockInv'
  <2>1. "clock" \notin Kinds(todo')
    BY <1>2
  <2>0. CASE late /\ ok /\ item.device = "osc"
    <3>1. "osc" \in doubtful'
      BY <2>0 DEF ReportResult
    <3>2. QED
      BY <2>1, <3>1 DEF ClockInv
  <2>2. CASE ~late /\ ok /\ item.device = "osc"
    <3>1. ClockAt(item, p) /\ item.value = p /\ p \in Ppm
      BY <1>1, <1>2, <2>2 DEF Running, Right, TargetRight, Trusted
    <3>2. frequency = <<"target", p>> /\ ~frozen /\ adjusted' = <<p>>
      BY <1>1, <2>2, <3>1 DEF ClockAt, ReportResult
    <3>3. QED
      BY <1>1, <2>1, <3>1, <3>2 DEF ClockInv
  <2>3. CASE ~(ok /\ item.device = "osc")
    <3>1. adjusted' = adjusted
      BY <2>3 DEF ReportResult
    <3>2. doubtful \subseteq doubtful'
      BY DEF ReportResult
    <3>3. QED
      BY <1>1, <2>1, <3>1, <3>2 DEF ClockInv
  <2>4. QED
    BY <2>0, <2>2, <2>3
<1>12. QED
  BY <1>1, <1>4, <1>7, <1>8, <1>10, <1>11, GoesOn

LEMMA ProcessorKeeps ==
  ASSUME NEW n \in Sizes, NEW p, InCommand(n, p), Processor
  PROVE  InCommand(n, p)'
BY TakeControlKeeps, RelinquishControlKeeps, StartStopKeeps, SetMuxKeeps, TransferToKeeps,
   FindOscillatorKeeps, SendAddressKeeps, SendByteKeeps, PollReadyKeeps, ReportResultKeeps, ReadbackKeeps
   DEF Processor

(***************************************************************************)
(* The sequencer, the EEPROM, and the beginning of a command               *)
(***************************************************************************)

LEMMA SequencerKeeps ==
  ASSUME NEW n, NEW p, InCommand(n, p), Sequencer
  PROVE  InCommand(n, p)'
<1>1. /\ HeldInv /\ BusTypes
      /\ UNCHANGED <<run, freeze, snapshot, todo, ok, driving, late, bus, stray, kept, known>>
      /\ UNCHANGED <<memory, page, pointer, version, written, adjusted, doubtful, oscillator>>
      /\ UNCHANGED <<dividers, frequency, frozen>>
  BY DEF InCommand, Sequencer, eeprom, history, oscillator
<1>2. Running(n, p)' /\ EepromInv' /\ ClockInv'
  BY <1>1, SameTodo
<1>3. item' = item
  BY <1>1 DEF item
<1>4. /\ sequencing' \in BOOLEAN /\ (~run /\ ~sequencing => ~sequencing' /\ muxPort' = muxPort)
      /\ freeze => generation' = generation
  BY <1>1 DEF Sequencer, BusTypes
<1>5. BusTypes'
  BY <1>1, <1>4 DEF BusTypes
<1>6. SnapshotOfOneScan'
  BY <1>1 DEF HeldInv, SnapshotOfOneScan
<1>7. BusAt(item) => BusAt(item)'
  <2>1. OnPort(item) => Session(item)
    BY DEF OnPort, Session, Transfer, ToEeprom
  <2>2. QED
    BY <1>1, <1>3, <1>4, <2>1 DEF BusAt
<1>8. HeldInv'
  BY <1>1, <1>3, <1>6, <1>7 DEF HeldInv
<1>9. QED
  BY <1>2, <1>5, <1>8 DEF InCommand

LEMMA EepromDoneKeeps ==
  ASSUME NEW n, NEW p, InCommand(n, p),
         EepromDone \/ UNCHANGED <<iicVars>>
  PROVE  InCommand(n, p)'
<1>1. /\ HeldInv /\ BusTypes
      /\ UNCHANGED <<run, freeze, sequencing, generation, snapshot, todo, ok>>
      /\ UNCHANGED <<driving, late, bus, muxPort, stray, kept, known>>
      /\ UNCHANGED <<memory, page, pointer, version, written, adjusted, doubtful, oscillator>>
      /\ UNCHANGED <<dividers, frequency, frozen>>
  BY DEF InCommand, EepromDone, iicVars, sequencer, eeprom, history, oscillator
<1>2. Running(n, p)' /\ EepromInv' /\ ClockInv'
  BY <1>1, SameTodo
<1>3. item' = item /\ BusTypes'
  BY <1>1 DEF BusTypes, item
<1>4. (BusAt(item) => BusAt(item)') /\ SnapshotOfOneScan'
  BY <1>1, <1>3 DEF HeldInv, BusAt, SnapshotOfOneScan
<1>5. HeldInv'
  BY <1>1, <1>3, <1>4 DEF HeldInv
<1>6. QED
  BY <1>2, <1>3, <1>5 DEF InCommand

(* A command begins with the bus at rest. *)
LEMMA CommandBegins ==
  ASSUME NEW n, NEW p, NEW m, NEW q, NEW s, NEW a, NEW kinds, InCommand(n, p),
         BusCommand(s), Whole(s, m, q, a, kinds),
         a.op \in {"suspend", "grab", "resume"}, a.mark \notin {"small", "halt"},
         known => "found" \notin kinds,
         version' \in 0 .. 2,
         /\ written' # 0 => UNCHANGED <<version, written>> /\ "byte" \notin kinds
                           /\ ("eeprom" \in doubtful => "eeprom" \in doubtful'),
         /\ adjusted' # Empty => UNCHANGED adjusted /\ "clock" \notin kinds
                                /\ ("osc" \in doubtful => "osc" \in doubtful')
  PROVE  InCommand(m, q)'
<1>1. HeldInv /\ BusTypes /\ EepromInv /\ ClockInv
  BY DEF InCommand
<1>2. /\ todo = <<>> /\ todo' = s /\ ok' = TRUE /\ snapshot' = {}
      /\ UNCHANGED <<run, freeze, sequencing, generation, driving, late, bus, muxPort>> /\ stray' = {}
      /\ UNCHANGED <<memory, page, kept, known, dividers, frequency, frozen>>
  BY DEF BusCommand, sequencer, eeprom, oscillator
<1>3. /\ Program(todo', m, q) /\ todo' # <<>> /\ item' = a /\ Kinds(todo') \subseteq kinds
  BY <1>2 DEF Whole, item
<1>4. (driving => kept /\ ~known) /\ bus = "idle" /\ FALSE \notin stray'
  BY <1>1, <1>2 DEF HeldInv
<1>5. HeldInv'
  <2>1. ~Session(a) /\ ~OnPort(a) /\ a.op # "wait"
    BY DEF Session, OnPort, Transfer, ToEeprom
  <2>2. BusAt(item)'
    BY <1>2, <1>3, <1>4, <2>1 DEF BusAt
  <2>3. SnapshotOfOneScan' /\ (known' => "found" \notin Kinds(todo'))
    BY <1>2, <1>3 DEF SnapshotOfOneScan
  <2>4. QED
    BY <1>2, <1>3, <1>4, <2>2, <2>3 DEF HeldInv
<1>6. BusTypes'
  <2>1. written' \in Nat
    <3>1. written \in Nat
      BY <1>1 DEF BusTypes
    <3>2. QED
      BY <3>1
  <2>2. QED
    BY <1>1, <1>2, <2>1 DEF BusTypes
<1>7. EepromInv'
  <2>1. NoBytes'
    BY <1>1, <1>2 DEF EepromInv, NoBytes
  <2>2. ("eeprom" \in doubtful \/ GoodBelow(written))' /\ (written' # 0 => "byte" \notin Kinds(todo'))
    <3>1. CASE written' # 0
      BY <1>1, <1>2, <1>3, <3>1 DEF EepromInv, GoodBelow
    <3>2. CASE written' = 0
      BY <3>2 DEF GoodBelow
    <3>3. QED
      BY <3>1, <3>2
  <2>3. QED
    BY <2>1, <2>2 DEF EepromInv
<1>8. ClockInv'
  <2>1. CASE adjusted' # Empty
    BY <1>1, <1>2, <1>3, <2>1 DEF ClockInv
  <2>2. CASE adjusted' = Empty
    BY <2>2 DEF ClockInv
  <2>3. QED
    BY <2>1, <2>2
<1>9. EepromAt(item, m)' /\ ClockAt(item, q)'
  <2>1. item'.op \in {"suspend", "grab", "resume"} /\ item'.mark \notin {"small", "halt"}
    BY <1>3
  <2>2. QED
    BY <2>1 DEF EepromAt, ClockAt, Clock, ToClock
<1>10. QED
  BY <1>3, <1>5, <1>6, <1>7, <1>8, <1>9 DEF InCommand, Running

LEMMA CommandsKeep ==
  ASSUME NEW n \in Sizes, NEW p \in Offsets, InCommand(n, p), Commands
  PROVE  IicInv'
<1>1. /\ Is(Suspend, "suspend", "", 0, "", "") /\ Is(Grab, "grab", "", 0, "", "")
      /\ Is(Resume, "resume", "", 0, "", "")
  BY ItemsAre, Zenon
<1>2. /\ Suspend.op = "suspend" /\ Suspend.mark \notin {"small", "halt"}
      /\ Grab.op = "grab" /\ Grab.mark \notin {"small", "halt"}
      /\ Resume.op = "resume" /\ Resume.mark \notin {"small", "halt"}
  BY <1>1, Zenon DEF Is
<1>3. version \in 0 .. 2
  BY DEF InCommand, BusTypes
<1>4. "byte" \notin Monitoring /\ "clock" \notin Monitoring /\ "found" \notin Monitoring
  BY DEF Monitoring
<1>5. ASSUME NEW s, BusCommand(s), UNCHANGED history, Whole(s, n, p, Suspend, Monitoring)
      PROVE  IicInv'
  <2>1. version' \in 0 .. 2 /\ UNCHANGED <<version, written, doubtful>> /\ UNCHANGED adjusted
    BY <1>3, <1>5 DEF history
  <2>2. InCommand(n, p)'
    BY <1>2, <1>4, <1>5, <2>1, CommandBegins
  <2>3. QED
    BY <2>2 DEF IicInv
<1>6. ASSUME BusCommand(iicChunkReadback), UNCHANGED history
      PROVE  IicInv'
  <2> DEFINE a == Head(iicChunkReadback)
             K == {"grab", "resume"}
  <2>1. Whole(iicChunkReadback, n, p, a, K) /\ a \in {Grab, Resume}
    BY ReadbackIsProgram
  <2>2. "byte" \notin K /\ "clock" \notin K /\ "found" \notin K
    OBVIOUS
  <2>3. version' \in 0 .. 2 /\ UNCHANGED <<version, written, doubtful>> /\ UNCHANGED adjusted
    BY <1>3, <1>6 DEF history
  <2> HIDE DEF a, K
  <2>4. a.op \in {"suspend", "grab", "resume"} /\ a.mark \notin {"small", "halt"}
    BY <1>2, <2>1
  <2>5. InCommand(n, p)'
    BY <1>6, <2>1, <2>2, <2>3, <2>4, CommandBegins
  <2>6. QED
    BY <2>5 DEF IicInv
<1>7. ASSUME NEW m \in Lengths, BusCommand(iicProcWriteFMC_EEPROM(m)),
             version' = (version % 2) + 1, written' = 0, UNCHANGED adjusted, doubtful' = doubtful \ {"eeprom"}
      PROVE  IicInv'
  <2>1. m \in Sizes
    BY BusAssumption DEF Sizes
  <2>2. version' \in 0 .. 2
    BY <1>3, <1>7
  <2>3. "clock" \notin Programming /\ "found" \notin Programming
    BY DEF Programming
  <2>4. Whole(iicProcWriteFMC_EEPROM(m), m, p, Suspend, Programming)
    BY <2>1, WriteIsProgram
  <2>5. InCommand(m, p)'
    BY <1>2, <1>7, <2>2, <2>3, <2>4, CommandBegins
  <2>6. QED
    BY <2>1, <2>5 DEF IicInv
<1>8. ASSUME NEW q \in Ppm, NEW inMailbox \in BOOLEAN,
             BusCommand(userMGTrefClkAdjust(q, inMailbox)),
             adjusted' = Empty, UNCHANGED <<version, written>>, doubtful' = doubtful \ {"osc"}
      PROVE  IicInv'
  <2>1. q \in Offsets /\ version' \in 0 .. 2
    BY <1>3, <1>8 DEF Offsets
  <2>2. "byte" \notin Setting \cup Finding /\ (known => "found" \notin Setting \cup Finding)
    BY DEF Setting, Finding, Locating
  <2>3. Whole(userMGTrefClkAdjust(q, inMailbox), n, q, Suspend, Setting \cup Finding)
    BY AdjustIsProgram
  <2>4. InCommand(n, q)'
    BY <1>2, <1>8, <2>1, <2>2, <2>3, CommandBegins
  <2>5. QED
    BY <2>1, <2>4 DEF IicInv
<1>9. QED
  <2>1. /\ Whole(iicProcReadFMC_EEPROM, n, p, Suspend, Monitoring)
        /\ Whole(mgtClkSwitch, n, p, Suspend, Monitoring)
        /\ \A found \in BOOLEAN : Whole(iicProcScan(found), n, p, Suspend, Monitoring)
    BY ReadIsProgram, SwitchIsProgram, ScanIsProgram
  <2>2. QED
    BY <1>5, <1>6, <1>7, <1>8, <2>1, Zenon DEF Commands

(***************************************************************************)
(* The bus over all steps                                                  *)
(***************************************************************************)

LEMMA IicStarts ==
  ASSUME IicInit
  PROVE  IicInv
<1>1. todo = <<>> /\ DOMAIN todo = {} /\ todo \in Seq(BusItem)
  BY DEF IicInit
<1>2. /\ driving = FALSE /\ bus = "idle" /\ known = FALSE /\ stray = {} /\ snapshot = {}
      /\ written = 0 /\ adjusted = Empty /\ page = [k \in EepromCells |-> Empty]
  BY DEF IicInit
<1>3. BusTypes
  <2>1. EepromCells \subseteq Nat
    BY BusAssumption DEF EepromCells
  <2>2. memory \in [EepromCells -> Cell] /\ page \in [EepromCells -> Cell]
    BY <2>1 DEF IicInit, Cell
  <2>3. /\ run = TRUE /\ freeze = FALSE /\ sequencing = TRUE /\ late = FALSE /\ ok = TRUE
        /\ frozen = FALSE /\ version = 0
    BY DEF IicInit
  <2>4. version \in 0 .. 2 /\ written \in Nat
    BY <1>2, <2>3
  <2>5. QED
    BY <1>2, <2>2, <2>3, <2>4, Zenon DEF BusTypes
<1>4. ASSUME NEW n, NEW p
      PROVE  InCommand(n, p)
  <2>1. Running(n, p)
    <3>1. FoundOnce(todo) /\ ErrorPaths(todo, {})
      BY <1>1 DEF FoundOnce, ErrorPaths
    <3>2. QED
      BY <1>1, <3>1 DEF Running, Program, Piece, EndsWell
  <2>2. HeldInv
    BY <1>1, <1>2 DEF HeldInv, SnapshotOfOneScan
  <2>3. EepromInv
    BY <1>2 DEF EepromInv, NoBytes, GoodBelow
  <2>4. QED
    BY <1>2, <1>3, <2>1, <2>2, <2>3 DEF InCommand, ClockInv
<1>5. 0 \in Sizes /\ "" \in Offsets
  BY BusAssumption DEF Sizes, Offsets
<1>6. QED
  BY <1>4, <1>5 DEF IicInv

LEMMA IicSteps ==
  ASSUME IicInv, [IicNext]_iicVars
  PROVE  IicInv'
<1>1. PICK n \in Sizes, p \in Offsets : InCommand(n, p)
  BY DEF IicInv
<1>2. CASE Commands
  BY <1>1, <1>2, CommandsKeep
<1>3. CASE Processor \/ Sequencer \/ EepromDone \/ UNCHANGED iicVars
  <2>1. InCommand(n, p)'
    BY <1>1, <1>3, ProcessorKeeps, SequencerKeeps, EepromDoneKeeps
  <2>2. QED
    BY <2>1 DEF IicInv
<1>4. QED
  BY <1>2, <1>3 DEF IicNext

(* What the invariant says of the bus and of the devices. *)
LEMMA HeldByOne ==
  ASSUME IicInv
  PROVE  BusHeldByOne
<1>1. PICK n \in Sizes, p \in Offsets : InCommand(n, p)
  BY DEF IicInv
<1>2. HeldInv /\ BusTypes
  BY <1>1 DEF InCommand
<1>3. ASSUME OnTheBus, ~late
      PROVE  driving /\ ~sequencing
  BY <1>2, <1>3 DEF OnTheBus, HeldInv, BusAt, Session
<1>4. ASSUME bus # "idle"
      PROVE  driving
  <2>1. todo # <<>> /\ Transfer(item) /\ BusAt(item)
    BY <1>2, <1>4 DEF HeldInv, BusAt
  <2>2. Session(item)
    BY <2>1 DEF Session, Transfer, ToEeprom
  <2>3. QED
    BY <2>1, <2>2 DEF BusAt
<1>5. todo = <<>> /\ driving => kept /\ ~known
  BY <1>2 DEF HeldInv
<1>6. QED
  BY <1>2, <1>3, <1>4, <1>5 DEF BusHeldByOne, BusHandedOver, OwnDeviceAnswers, HeldInv

LEMMA AsTold ==
  ASSUME IicInv
  PROVE  DevicesAsTold
<1>1. PICK n \in Sizes, p \in Offsets : InCommand(n, p)
  BY DEF IicInv
<1>2. EepromAsTold
  BY <1>1 DEF InCommand, EepromInv, GoodBelow, EepromAsTold
<1>3. OscillatorAsTold
  <2>1. CASE adjusted = Empty
    BY <2>1 DEF Empty, OscillatorAsTold
  <2>2. CASE adjusted # Empty /\ "osc" \notin doubtful
    <3>1. PICK q \in Ppm : adjusted = <<q>> /\ frequency = <<"target", q>> /\ ~frozen
      BY <1>1, <2>2 DEF InCommand, ClockInv
    <3>2. QED
      BY <3>1 DEF OscillatorAsTold
  <2>3. QED
    BY <2>1, <2>2 DEF OscillatorAsTold
<1>4. QED
  BY <1>2, <1>3 DEF DevicesAsTold

(***************************************************************************)
(* Theorems                                                                *)
(***************************************************************************)

(* The bus has one master and leads to one device at a time, and a readback*)
(* is of one scan (iicChunk.c:85-160, iicProc.c:74-87,243-255), for any    *)
(* number of commands and whatever goes without acknowledgement.  Not      *)
(* claimed, as BusHeldByOne says: that the sequencer is at rest, and that  *)
(* no other device answers, in a command that gave up waiting for it       *)
(* (iicChunk.c:149-153); and that the bus is given back by the one command *)
(* that does not find the oscillator, which keeps it                       *)
(* (user_mgt_refclk.c:233-237) until the next that takes the bus.          *)
THEOREM BusHasOneMaster == IicSpec => []BusHeldByOne
<1>1. IicInit => IicInv
  BY IicStarts
<1>2. IicInv /\ [IicNext]_iicVars => IicInv'
  BY IicSteps
<1>3. IicInv => BusHeldByOne
  BY HeldByOne
<1>4. QED
  BY <1>1, <1>2, <1>3, PTL DEF IicSpec

(* What a command reports is what it did to the device (iicProc.c:270-330, *)
(* user_mgt_refclk.c:105-260), for pages of any size and any number of     *)
(* them, any number of bytes that fits, any offsets, and any transfers     *)
(* that go without acknowledgement.  Of a command that took the bus from a *)
(* sequencer which had not stopped nothing is claimed                      *)
(* (iicChunk.c:149-153): its report may be wrong.                          *)
THEOREM DoesAsReported == IicSpec => []DevicesAsTold
<1>1. IicInit => IicInv
  BY IicStarts
<1>2. IicInv /\ [IicNext]_iicVars => IicInv'
  BY IicSteps
<1>3. IicInv => DevicesAsTold
  BY AsTold
<1>4. QED
  BY <1>1, <1>2, <1>3, PTL DEF IicSpec
=============================================================================
