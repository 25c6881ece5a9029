---------------------------- MODULE DeviceAccess ----------------------------
(***************************************************************************)
(* How the host reaches the device: shm.cpp, which maps its memory, and    *)
(* xdma.cpp, which moves data through files with the loops of dma_utils.c. *)
(* One driver is taken at build time.  The module keeps the descriptors    *)
(* the process has open, the position of the file data goes through, the   *)
(* start register, and the packed table in which the device says where its *)
(* registers are.                                                          *)
(*                                                                         *)
(* Opening fails where the system refuses a file; a moved chunk fails      *)
(* where the system moves less than it was asked for.                      *)
(***************************************************************************)
EXTENDS Integers, SequencesExt

CONSTANTS
  RW_MAX_SIZE,   \* the most the system moves in one call
  Bases, Sizes,  \* addresses and lengths of the data moved
  WORD,          \* bits of a word of the register table (32 in the code)
  Tables,        \* register tables, [bits, regs]: bits of an index, indices
  MaxOpens,      \* bound: openings
  MaxPosition    \* bound: a file further than this moves no more

Pow2[n \in Nat] == IF n = 0 THEN 1 ELSE 2 * Pow2[n - 1]

ASSUME DeviceConstants ==
  /\ RW_MAX_SIZE \in Nat \ {0} /\ WORD \in Nat \ {0}
  /\ Bases \subseteq Nat /\ Sizes \subseteq Nat
  /\ \A t \in Tables : /\ t.bits \in 1..WORD
                       /\ t.regs \in Seq(0 .. Pow2[t.bits] - 1)

VARIABLES
  driver,      \* "shm" or "xdma"
  devPc,       \* "idle", "moving", "down": FPGA_DOWN is written, "aborted"
  isOpened,    \* is_shm_dev_opened, is_xdma_dev_opened
  fds,         \* the driver's descriptors, by file
  kernel,      \* what each descriptor of the process is open on
  opens,       \* openings so far
  refused,     \* history: an opening was refused a file
  position,    \* where the files data goes out and comes in through stand
  move,        \* the transfer under way, then the last one
  moved,       \* history: the addresses it moved, in order
  startReg,    \* the start register
  starts,      \* history: what the device was started on since the last Begin
  table, header,   \* the device's table; its head, as first read, or NoHeader
  answer       \* what the last read_reg answered

fileVars  == <<isOpened, fds, kernel, opens, refused>>
moveVars  == <<position, move, moved>>
startVars == <<startReg, starts>>
regVars   == <<table, header, answer>>
deviceVars == <<driver, devPc, fileVars, moveVars, startVars, regVars>>

INVALID_DEV_ID == -1
Files(d) == IF d = "shm" THEN <<"reg", "mem">>
            ELSE <<"reg", "h2c0", "h2c1", "c2h0", "c2h1">>
FilesOf(d) == Range(Files(d))

(* The second channel's descriptors start as 0, the first's as -1: the     *)
(* initialiser names one element of two (xdma.cpp:64).                     *)
FirstFds(d) == [f \in FilesOf(d) |->
                  IF f \in {"h2c1", "c2h1"} THEN 0 ELSE INVALID_DEV_ID]

Descriptors == 0 .. 6
NoMove   == [kind |-> "none", base |-> 0, size |-> 0, count |-> 0, from |-> 0]
AtZero   == [out |-> 0, in |-> 0]
NoHeader == [bits |-> 0, num |-> 0]
NoAnswer == [index |-> 0, at |-> 0, ok |-> FALSE, right |-> TRUE]

DeviceInit ==
  /\ driver \in {"shm", "xdma"} /\ devPc = "idle"
  /\ isOpened = FALSE /\ fds = FirstFds(driver) /\ opens = 0
  /\ kernel = [n \in Descriptors |-> IF n = 0 THEN "stdin" ELSE "free"]
  /\ refused = FALSE
  /\ position = AtZero /\ move = NoMove /\ moved = <<>>
  /\ startReg = 0 /\ starts = <<>>
  /\ table \in Tables /\ header = NoHeader /\ answer = NoAnswer

-----------------------------------------------------------------------------
(* Opening and closing.  The state of both is [fds, kernel].               *)

Lowest(k) == CHOOSE n \in Descriptors :
               k[n] = "free" /\ \A m \in Descriptors : k[m] = "free" => n <= m

OpenFile(s, f) ==
  [fds    |-> [s.fds EXCEPT ![f] = Lowest(s.kernel)],
   kernel |-> [s.kernel EXCEPT ![Lowest(s.kernel)] = f]]

RefuseFile(s, f) == [s EXCEPT !.fds[f] = INVALID_DEV_ID]

CloseFiles(s, files) ==
  [fds    |-> [f \in DOMAIN s.fds |->
                 IF f \in files THEN INVALID_DEV_ID ELSE s.fds[f]],
   kernel |-> [n \in Descriptors |->
                 IF \E f \in files : s.fds[f] = n THEN "free" ELSE s.kernel[n]]]

(* The first n files are opened, one after the other.                     *)
OpenFiles(s, files, n) ==
  LET after[i \in 0..n] == IF i = 0 THEN s ELSE OpenFile(after[i - 1], files[i])
  IN  after[n]

(* The files up to the first one refused are opened.                       *)
OpenUpTo(s, files, refusal) ==
  LET k == SelectInSeq(files, LAMBDA f : f \in refusal)
  IN  IF k = 0 THEN OpenFiles(s, files, Len(files))
               ELSE RefuseFile(OpenFiles(s, files, k - 1), files[k])

(* shm_open gives up at the first refusal and closes nothing.              *)
ShmOpened(s, refusal) == OpenUpTo(s, Files("shm"), refusal)

(* xdma_open leaves only the loop of the refused channel; a refused read   *)
(* channel closes the write channel of the same number.                    *)
XdmaOpened(s, refusal) ==
  IF "reg" \in refusal THEN RefuseFile(s, "reg")
  ELSE LET w == OpenUpTo(OpenFile(s, "reg"), <<"h2c0", "h2c1">>, refusal)
           r == OpenUpTo(w, <<"c2h0", "c2h1">>, refusal)
       IN  IF "c2h0" \in refusal THEN CloseFiles(r, {"h2c0"})
           ELSE IF "c2h1" \in refusal THEN CloseFiles(r, {"h2c1"}) ELSE r

(* Does the driver take itself for open?  xdma does once it has registers. *)
TakenForOpen(d, refusal) ==
  IF d = "shm" THEN refusal = {} ELSE "reg" \notin refusal

Open(refusal) ==
  /\ devPc = "idle" /\ ~isOpened /\ opens < MaxOpens
  /\ LET s == [fds |-> fds, kernel |-> kernel]
         r == IF driver = "shm" THEN ShmOpened(s, refusal)
                                ELSE XdmaOpened(s, refusal)
     IN  fds' = r.fds /\ kernel' = r.kernel
  /\ isOpened' = TakenForOpen(driver, refusal)
  /\ refused' = (refused \/ refusal # {})
  /\ opens' = opens + 1 /\ position' = AtZero
  /\ UNCHANGED <<driver, devPc, move, moved, startVars, regVars>>

(* Mutant: the last file is left open. *)
Close_ButLast ==
  /\ devPc = "idle" /\ isOpened
  /\ LET r == CloseFiles([fds |-> fds, kernel |-> kernel],
                         FilesOf(driver) \ {Last(Files(driver))})
     IN  fds' = r.fds /\ kernel' = r.kernel
  /\ isOpened' = FALSE
  /\ UNCHANGED <<driver, devPc, opens, refused, moveVars, startVars, regVars>>

Close ==
  /\ devPc = "idle" /\ isOpened
  /\ LET r == CloseFiles([fds |-> fds, kernel |-> kernel], FilesOf(driver))
     IN  fds' = r.fds /\ kernel' = r.kernel
  /\ isOpened' = FALSE
  /\ UNCHANGED <<driver, devPc, opens, refused, moveVars, startVars, regVars>>

-----------------------------------------------------------------------------
(* Moving data.  kind is DATA_TYPE_DATA, DATA_TYPE_PARAM or "read".  The   *)
(* other two are shm_read_from_dev with each type: it takes a picture, or  *)
(* parameters, out of a file into the mapped memory, with the loop xdma    *)
(* uses, from address 0 of the file.                                       *)

FromDev == {"fromDev", "paramFromDev"}
Kinds(d) == {"data", "param", "read"} \cup {k \in FromDev : d = "shm"}
ByLoop(kind) == driver = "xdma" \/ kind \in FromDev

Way(kind) == IF kind \in {"read"} \cup FromDev THEN "in" ELSE "out"

Begin(kind, base, size) ==
  /\ devPc = "idle" /\ isOpened /\ ~refused
  /\ kind \in FromDev => base = 0
  /\ position[Way(kind)] <= MaxPosition
  /\ move' = [kind |-> kind, base |-> base, size |-> size, count |-> 0,
              from |-> IF base = 0 /\ ByLoop(kind) THEN position[Way(kind)]
                                                       ELSE base]
  /\ moved' = <<>> /\ starts' = <<>> /\ devPc' = "moving"
  /\ UNCHANGED <<driver, fileVars, position, startReg, regVars>>

(* Mutant: the offset is not moved on. *)
ChunkAt_Stays(m, at) == IF m.base # 0 THEN m.base ELSE at

(* Where the next chunk goes: to the offset, or, when that is zero, to     *)
(* wherever the file stands.                                               *)
ChunkAt(m, at) == IF m.base + m.count # 0 THEN m.base + m.count ELSE at

ChunkSize(m) == IF m.size - m.count > RW_MAX_SIZE THEN RW_MAX_SIZE
                                                  ELSE m.size - m.count

(* One pass of the loop.  The system may move less than was asked for, as  *)
(* it does beyond RW_MAX_SIZE: then the loop answers -EIO, at which a      *)
(* write aborts (xdma.cpp:267), as shm_read_from_dev does (shm.cpp:406),   *)
(* and a read is taken for done (xdma.cpp:320).                            *)
Chunk(done) ==
  /\ devPc = "moving" /\ ByLoop(move.kind) /\ move.count < move.size
  /\ done <= RW_MAX_SIZE /\ done <= ChunkSize(move)
  /\ LET at == ChunkAt(move, position[Way(move.kind)])
     IN  /\ moved' = moved \o [i \in 1..done |-> at + i - 1]
         /\ position' = [position EXCEPT ![Way(move.kind)] = at + done]
  /\ IF done = ChunkSize(move)
       THEN /\ move' = [move EXCEPT !.count = @ + done]
            /\ UNCHANGED devPc
       ELSE /\ devPc' = IF move.kind = "read" THEN "idle" ELSE "aborted"
            /\ move' = [move EXCEPT !.kind = "failed"]
  /\ UNCHANGED <<driver, fileVars, startVars, regVars>>

(* shm copies to or from the mapped memory.                                *)
Copy ==
  /\ devPc = "moving" /\ ~ByLoop(move.kind) /\ move.count < move.size
  /\ move' = [move EXCEPT !.count = move.size]
  /\ moved' = [i \in 1..move.size |-> move.base + i - 1]
  /\ UNCHANGED <<driver, devPc, fileVars, position, startVars, regVars>>

(* FPGA_CALC_START: pictures start the device, parameters do not, whether  *)
(* they come from the program or out of a file (shm.cpp:413).              *)
(* Mutant: parameters start it too. *)
Moved_StartsAll ==
  /\ devPc = "moving" /\ move.count = move.size
  /\ IF move.kind = "read" THEN devPc' = "idle" /\ UNCHANGED startReg
                           ELSE devPc' = "down" /\ startReg' = 0
  /\ UNCHANGED <<driver, fileVars, moveVars, starts, regVars>>

Moved ==
  /\ devPc = "moving" /\ move.count = move.size
  /\ IF move.kind \in {"data", "fromDev"}
       THEN devPc' = "down" /\ startReg' = 0
       ELSE devPc' = "idle" /\ UNCHANGED startReg
  /\ UNCHANGED <<driver, fileVars, moveVars, starts, regVars>>

(* The device starts when the register rises.                              *)
Start ==
  /\ devPc = "down"
  /\ starts' = IF startReg = 0 THEN Append(starts, move) ELSE starts
  /\ startReg' = 1 /\ devPc' = "idle"
  /\ UNCHANGED <<driver, fileVars, moveVars, regVars>>

-----------------------------------------------------------------------------
(* read_reg.  The table packs the indices, bits of each, into words.       *)

Bit(t, j) == IF j < t.bits * Len(t.regs)
               THEN (t.regs[j \div t.bits + 1] \div Pow2[j % t.bits]) % 2 ELSE 0
Word(t, k) ==
  LET low[n \in 0..WORD] ==
        IF n = 0 THEN 0 ELSE low[n - 1] + Bit(t, k * WORD + n - 1) * Pow2[n - 1]
  IN  low[WORD]
TableHead(t) == [bits |-> t.bits, num |-> Len(t.regs)]

(* Mutant: an index never crosses into the next word. *)
IndexAt_OneWord(h, t, i) ==
  (Word(t, (i * h.bits) \div WORD) \div Pow2[(i * h.bits) % WORD]) % Pow2[h.bits]

(* The i-th index, which may lie across two words.                         *)
IndexAt(h, t, i) ==
  LET k     == (i * h.bits) \div WORD
      shift == (i * h.bits) % WORD
      over  == shift + h.bits - WORD
  IN  IF over > 0
        THEN ((Word(t, k) \div Pow2[shift]) % Pow2[WORD - shift])
               + (Word(t, k + 1) % Pow2[over]) * Pow2[WORD - shift]
        ELSE (Word(t, k) \div Pow2[shift]) % Pow2[h.bits]

(* The place of the register, counted from 1, or 0: shm takes the first    *)
(* match, xdma the last.                                                   *)
Places(h, t, index) == {i \in 0..(h.num - 1) : IndexAt(h, t, i) = index}
Place(h, t, index) ==
  LET P == Places(h, t, index)
  IN  IF P = {} THEN 0
      ELSE 1 + IF driver = "shm" THEN CHOOSE i \in P : \A j \in P : i <= j
                                 ELSE CHOOSE i \in P : \A j \in P : i >= j

(* What the caller is told.  getRegs refuses a register it does not find;  *)
(* xdma_read_reg refuses an empty table only: of a register it does not    *)
(* find it says ERR_NONE, and leaves the caller's value as it was.         *)
SaysNone(h, at) == IF driver = "shm" THEN at # 0 ELSE h.num # 0

(* getRegs keeps the head of the table it saw first; xdma_read_reg reads   *)
(* it every time.                                                          *)
ReadReg(index) ==
  /\ devPc = "idle" /\ isOpened
  /\ LET h == IF driver = "shm" /\ header # NoHeader THEN header
                                                     ELSE TableHead(table)
         at == Place(h, table, index)
     IN  /\ header' = h
         /\ answer' = [index |-> index, at |-> at,
                       ok |-> SaysNone(h, at), right |-> h = TableHead(table)]
  /\ UNCHANGED <<driver, devPc, fileVars, moveVars, startVars, table>>

(* Another design is loaded into the device while nobody has it open.      *)
Load(t) ==
  /\ ~isOpened /\ opens < MaxOpens
  /\ table' = t /\ answer' = NoAnswer
  /\ UNCHANGED <<driver, devPc, fileVars, moveVars, startVars, header>>

Indices == UNION {0 .. Pow2[t.bits] : t \in Tables}

DeviceNext ==
  \/ \E refusal \in SUBSET FilesOf(driver) : Open(refusal)
  \/ Close
  \/ \E kind \in Kinds(driver), base \in Bases, size \in Sizes :
       Begin(kind, base, size)
  \/ \E done \in 0..RW_MAX_SIZE : Chunk(done)
  \/ Copy \/ Moved \/ Start
  \/ \E index \in Indices : ReadReg(index)
  \/ \E t \in Tables : Load(t)

DeviceSpec == DeviceInit /\ [][DeviceNext]_deviceVars

-----------------------------------------------------------------------------
(* Properties.                                                             *)

(* A driver that was never refused a file holds, while open, one           *)
(* descriptor on each of its files, and none once it is closed; the        *)
(* descriptors of the rest of the program stay as they are (shm_open,      *)
(* xdma_open, and the closing of both).                                    *)
FilesKept ==
  ~refused =>
    /\ kernel[0] = "stdin"
    /\ isOpened => \A f \in FilesOf(driver) : kernel[fds[f]] = f
    /\ \A n \in Descriptors \ {0} :
         kernel[n] # "free" => isOpened /\ fds[kernel[n]] = n

(* A move that ends has moved each byte of its range once and in order,    *)
(* whatever chunks it took, if it does not begin at address 0: there the   *)
(* loop does not seek (dma_utils.c:60) and takes the file to stand at 0,   *)
(* which holds for the first move since the opening only.                  *)
MovedRange ==
  /\ move.kind \notin {"none", "failed"}
  /\ move.count = move.size /\ move.from = move.base
  => moved = [i \in 1..move.size |-> move.base + i - 1]

(* The device starts on a picture that is all there, never on parameters   *)
(* and never on part of a picture; every start is seen by the device as a  *)
(* rise of the register.                                                   *)
StartsOnWholePicture ==
  [][devPc = "down" /\ devPc' = "idle" =>
       /\ starts' = <<move>> /\ move.kind \in {"data", "fromDev"}
       /\ Len(moved) = move.size]_deviceVars

(* read_reg finds a register exactly where the device put it and none that *)
(* is not there, wherever its index lies across the words, unless the head *)
(* it works with is that of an earlier design (shm.cpp:254).  A value it   *)
(* sets it calls good, and shm calls nothing else good; xdma does          *)
(* (xdma.cpp:236), so its answer does not tell that the register is there. *)
RegisterFound ==
  answer.right /\ answer # NoAnswer =>
    /\ IF answer.at = 0 THEN answer.index \notin Range(table.regs)
       ELSE /\ answer.at <= Len(table.regs)
            /\ table.regs[answer.at] = answer.index
    /\ answer.index \in Range(table.regs) => answer.ok
    /\ answer.ok => IF driver = "shm" THEN answer.index \in Range(table.regs)
                                     ELSE table.regs # <<>>

(* The drivers (shm.cpp, xdma.cpp) hold their own files and no other, move *)
(* each byte of the device once and in order, and find its registers where *)
(* they are.                                                               *)
DeviceKept == FilesKept /\ MovedRange /\ RegisterFound
=============================================================================
