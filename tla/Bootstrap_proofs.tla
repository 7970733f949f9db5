--------------------------- MODULE Bootstrap_proofs ---------------------------
(***************************************************************************)
(* What booting promises, for images, cache lines, chunks and numbers of   *)
(* attempts of any size: TypeOK, SentIsStored, RomSurvives and             *)
(* CleanBootSucceeds, from one inductive invariant.                        *)
(***************************************************************************)
EXTENDS Bootstrap, SequenceTheorems, TLAPS

-----------------------------------------------------------------------------
(* The invariant.                                                          *)

\* The first n units that are sent of an image of m.
Prefix(m, n) == [i \in 1 .. n |-> IF i <= m THEN i ELSE Pad]

\* The k units after those.
Cut(m, n, k) == [i \in 1 .. k |-> IF n + i <= m THEN n + i ELSE Pad]

\* Which image is being loaded where.
StubPcs == {"detect", "files", "addr", "len", "data", "window", "exec", "readAddr",
            "readLen", "read"}
SplPcs == {"files", "pad", "addr", "len", "claim", "data", "exec"}
UbootPcs == {"pad", "addr", "len", "claim", "data", "flush", "stage2"}

Running == pc \notin {"idle", "done"}

ImageAtPc ==
  /\ image = "stub" /\ Running => pc \in StubPcs
  /\ image = "spl" /\ Running => pc \in SplPcs
  /\ image = "uboot" /\ Running => pc \in UbootPcs
  /\ image = "stub" => how = "detect" /\ offset = 0 /\ left = 0
  /\ pc = "detect" => offset = 0

TriesOK ==
  /\ pc \in Requests => tries < VendorTries
  /\ pc = "data" => tries < BulkTries /\ (image = "stub" => tries = 0)
  /\ pc \notin Requests \union {"data"} => tries = 0

\* The memory, as far as it is written: an image that is loaded is there up to the
\* offset, unless units were sent twice or there is no DRAM behind it; and it is there to
\* its end when it is run.
ImageInPlace ==
  image # "stub" =>
    /\ pc \in {"addr", "len", "claim", "data", "exec", "flush", "stage2"}
         => \/ size = Padded(ImageSize[image])
            \/ unpadded /\ size = ImageSize[image]
    /\ pc \in {"addr", "len", "claim"} => offset = 0 /\ left <= size
    /\ pc \in {"len", "claim", "data"} => addr = Area
    /\ pc \in {"len", "claim", "data", "exec", "flush", "stage2"}
         => \/ partial
            \/ image = "uboot" /\ ~ddr
            \/ mem[Area] = Prefix(ImageSize[image], offset)
    /\ pc \in {"exec", "flush", "stage2"} => offset = size
    /\ image = "spl" /\ pc \in {"len", "claim", "data", "exec"} => mem["sram"] # <<Stub>>

\* The detection program, and what it leaves: results, unless it was not executed.
StubInPlace ==
  image = "stub" =>
    /\ pc \in {"len", "data"} => addr = "sram" /\ mem["sram"] = << >>
    /\ pc \in {"window", "exec"} => mem["sram"] = <<Stub>>
    /\ pc = "exec" => len = Window
    /\ pc \in {"readAddr", "readLen", "read"} => marker \/ used

\* The ROM's one run of stage 1 is spent on the first stage, but for a spoiled T10; so
\* U-Boot is loaded behind working DRAM.
StageOneOK ==
  /\ used => ddr \/ Spoiled
  /\ image = "uboot" /\ Running => ddr \/ Spoiled \/ mode = "hung"
  /\ mode = "uboot" => pc \in {"stage2", "idle", "done"}

HistoryOK ==
  /\ pc # "idle" /\ partial => faulty
  /\ pc # "done" => result = "NONE"

IInv ==
  /\ TypeOK
  /\ ImageAtPc
  /\ TriesOK
  /\ ImageInPlace
  /\ StubInPlace
  /\ StageOneOK
  /\ HistoryOK
  /\ RomSurvives
  /\ CleanBootSucceeds

-----------------------------------------------------------------------------
(* What is sent, and what the ROM makes of it.                             *)

\* Padding goes up to the end of a cache line.
LEMMA PaddedIs ==
  ASSUME NEW n \in Nat
  PROVE  Padded(n) \in Nat /\ n <= Padded(n) /\ Padded(n) % Align = 0
<1> DEFINE lines == (n + Align - 1) \div Align
<1>1. Align \in Nat /\ Align > 0
  BY ImageAssumption
<1>2. lines \in Int /\ n + Align - 1 = Align * lines + ((n + Align - 1) % Align)
      /\ (n + Align - 1) % Align \in 0 .. Align - 1
  BY <1>1
<1>3. n <= Align * lines
  BY <1>1, <1>2
<1>4. lines >= 0
  BY <1>1, <1>2
<1>5. Padded(n) = lines * Align
  BY DEF Padded
<1>6. (lines * Align) % Align = 0
  BY <1>1, <1>2
<1> HIDE DEF lines
<1>7. QED BY <1>1, <1>2, <1>3, <1>4, <1>5, <1>6

\* Images have sizes.
LEMMA SizeIs ==
  \A i \in {"stub", "spl", "uboot"} : ImageSize[i] \in Nat /\ ImageSize[i] > 0
BY ImageAssumption DEF ImageSize

\* A beginning of an image, and the units after it, are a longer beginning.
LEMMA PrefixGrows ==
  ASSUME NEW m \in Nat, NEW n \in Nat, NEW k \in Nat
  PROVE  /\ Cut(m, n, k) \in Seq(Int) /\ Len(Cut(m, n, k)) = k
         /\ Prefix(m, n) \o Cut(m, n, k) = Prefix(m, n + k)
<1> DEFINE data == Cut(m, n, k)
<1>1. data \in Seq(Int) /\ Len(data) = k
  BY DEF Cut, Pad
<1>2. \A j \in Nat : Prefix(m, j) \in Seq(Int) /\ Len(Prefix(m, j)) = j
  BY DEF Prefix, Pad
<1> DEFINE p == Prefix(m, n)
           q == Prefix(m, n + k)
<1>3. p \in Seq(Int) /\ Len(p) = n /\ q \in Seq(Int) /\ Len(q) = n + k
  BY <1>2
<1>4. /\ \A i \in 1 .. n : p[i] = IF i <= m THEN i ELSE Pad
      /\ \A i \in 1 .. n + k : q[i] = IF i <= m THEN i ELSE Pad
      /\ \A i \in 1 .. k : data[i] = IF n + i <= m THEN n + i ELSE Pad
  BY DEF Prefix, Cut
<1> HIDE DEF p, q, data
<1>5. /\ p \o data \in Seq(Int) /\ Len(p \o data) = n + k
      /\ \A i \in 1 .. n + k : (p \o data)[i] = IF i <= n THEN p[i] ELSE data[i - n]
  <2>1. /\ p \o data \in Seq(Int) /\ Len(p \o data) = Len(p) + Len(data)
        /\ \A i \in 1 .. Len(p) + Len(data) :
             (p \o data)[i] = IF i <= Len(p) THEN p[i] ELSE data[i - Len(p)]
    BY <1>1, <1>3, ConcatProperties, Zenon
  <2>2. QED BY <1>1, <1>3, <2>1
<1>6. \A i \in 1 .. n + k : (p \o data)[i] = q[i]
  <2>1. SUFFICES ASSUME NEW i \in 1 .. n + k PROVE (p \o data)[i] = q[i]
    OBVIOUS
  <2>2. CASE i <= n
    <3>1. i \in 1 .. n
      BY <2>2
    <3>2. QED BY <1>4, <1>5, <2>2, <3>1
  <2>3. CASE ~(i <= n)
    <3>1. i - n \in 1 .. k /\ n + (i - n) = i
      BY <2>3
    <3>2. QED BY <1>4, <1>5, <2>3, <3>1
  <2>4. QED BY <2>2, <2>3
<1>7. p \o data = q
  BY <1>3, <1>5, <1>6, SeqEqual
<1>8. QED BY <1>1, <1>7 DEF p, q, data

\* The ROM keeps what can still become a first stage or a U-Boot.
LEMMA JoinedKeeps ==
  ASSUME NEW m \in {SplSize, UbootSize}, NEW n \in Nat, n <= Padded(m),
         NEW held, NEW data, held \o data = Prefix(m, n)
  PROVE  Joined(held, data) = Prefix(m, n)
<1>1. m \in Nat /\ Padded(m) \in Nat
  BY ImageAssumption, PaddedIs
<1>2. Prefix(m, n) \in Seq(Int) /\ Len(Prefix(m, n)) = n /\ DOMAIN Prefix(m, n) = 1 .. n
  BY DEF Prefix, Pad
<1>3. \A i \in 1 .. n : Prefix(m, n)[i] = PaddedUnits(m)[i]
  BY <1>1 DEF Prefix, PaddedUnits
<1>4. Begins(Prefix(m, n), m)
  BY <1>2, <1>3 DEF Begins
<1>5. QED BY <1>4 DEF Joined

\* Whatever arrives, memory is a sequence of units; and no image becomes the detection
\* program.
LEMMA JoinedIs ==
  ASSUME NEW held \in Seq(Int), NEW data \in Seq(Int)
  PROVE  /\ Joined(held, data) \in Seq(Int)
         /\ held # <<Stub>> /\ (\A i \in 1 .. Len(data) : data[i] # Stub)
              => Joined(held, data) # <<Stub>>
<1>1. held \o data \in Seq(Int) /\ <<Garbled>> \in Seq(Int) /\ <<Garbled>> # <<Stub>>
  BY DEF Garbled, Stub
<1>2. ASSUME held \o data = <<Stub>>, held # <<Stub>>,
             \A i \in 1 .. Len(data) : data[i] # Stub
      PROVE  FALSE
  <2> DEFINE all == held \o data
  <2>1. /\ Len(all) = Len(held) + Len(data)
        /\ \A i \in 1 .. Len(held) + Len(data) :
             all[i] = IF i <= Len(held) THEN held[i] ELSE data[i - Len(held)]
    BY ConcatProperties, Zenon
  <2>2. Len(all) = 1 /\ all[1] = Stub
    BY <1>2
  <2>3. Len(held) \in Nat /\ Len(data) \in Nat
    BY LenProperties
  <2> HIDE DEF all
  <2>4. Len(held) + Len(data) = 1
    BY <2>1, <2>2
  <2>5. CASE Len(held) = 0
    <3>1. Len(data) = 1 /\ all[1] = data[1]
      BY <2>1, <2>3, <2>4, <2>5
    <3>2. QED BY <1>2, <2>2, <3>1
  <2>6. CASE Len(held) = 1
    <3>1. held[1] = Stub
      BY <2>1, <2>2, <2>4, <2>6
    <3>2. held = <<Stub>>
      BY <1>2, <2>6, <3>1
    <3>3. QED BY <1>2, <3>2
  <2>7. \A a, b \in Nat : a + b = 1 => a = 0 \/ a = 1
    OBVIOUS
  <2>8. QED BY <2>4, <2>3, <2>5, <2>6, <2>7, Zenon
<1>3. QED BY <1>1, <1>2 DEF Joined

\* An image that is there to its end is one the ROM can run; a padded one ends on a cache
\* line.
LEMMA WholeHolds ==
  ASSUME NEW m \in Nat, NEW a \in Areas, NEW n \in {m, Padded(m)}, mem[a] = Prefix(m, n)
  PROVE  Holds(a, m) /\ (n = Padded(m) => Len(mem[a]) % Align = 0)
<1>1. Padded(m) \in Nat /\ Padded(m) % Align = 0
  BY PaddedIs
<1>2. Prefix(m, Padded(m)) = PaddedUnits(m) /\ Prefix(m, m) = Units(m)
  BY DEF Prefix, PaddedUnits, Units
<1>3. Len(Prefix(m, Padded(m))) = Padded(m)
  BY <1>1 DEF Prefix, Pad
<1>4. QED BY <1>1, <1>2, <1>3 DEF Holds

-----------------------------------------------------------------------------
(* The steps that leave the ROM alone.                                     *)

\* The parts of the type invariant: the ROM's, the host's, and the flags.
Ranges ==
  /\ pc \in Calls
  /\ front \in {"native", "android"} /\ how \in {"detect", "given"}
  /\ seen \in {"t10", "other"} /\ image \in {"stub", "spl", "uboot"}
  /\ size \in Nat /\ offset \in 0 .. size /\ left \in 0 .. Chunk
  /\ pc = "data" => offset + left <= size
  /\ tries \in 0 .. BulkTries + VendorTries /\ runs \in 0 .. MaxRuns
  /\ result \in {"NONE", "SUCCESS", "FILE_IO", "PROTOCOL", "TIMEOUT", "TRANSFER_FAILED"}

Flagged ==
  faulty \in BOOLEAN /\ partial \in BOOLEAN /\ unpadded \in BOOLEAN /\ stubbed \in BOOLEAN

\* The images, by name.
LEMMA ImagesAre == DOMAIN ImageSize = {"stub", "spl", "uboot"}
BY DEF ImageSize

\* The type invariant is these three.
LEMMA TypeParts == TypeOK <=> RomTypeOK /\ Ranges /\ Flagged
BY ImagesAre, Zenon DEF TypeOK, Ranges, Flagged

\* And so it is after a step.
LEMMA TypePartsNext == TypeOK' <=> RomTypeOK' /\ Ranges' /\ Flagged'
BY ImagesAre, Zenon DEF TypeOK, Ranges, Flagged

\* A run begins with nothing loaded, whatever was loaded before.
LEMMA BeginKeeps == IInv /\ Begin => IInv'
<1>1. SUFFICES ASSUME IInv, Begin PROVE IInv'
  OBVIOUS
<1> USE DEF IInv
<1>0. RomTypeOK /\ Ranges /\ Flagged
  BY <1>1, TypeParts
<1>2. UNCHANGED <<romVars, stubbed>> /\ mode = "rom" /\ mode' = "rom" /\ RomTypeOK' /\ soc \in {"t10", "other"}
  BY <1>0, <1>1 DEF Begin, RomTypeOK, romVars
<1>3. TypeOK'
  <2>1. Ranges'
    BY <1>0, <1>1, <1>2, HostAssumption DEF Begin, Calls, Requests, Ranges
  <2>2. Flagged'
    BY <1>0, <1>1, <1>2, HostAssumption DEF Begin, Calls, Requests, Flagged
  <2>3. QED BY <1>2, <2>1, <2>2, TypePartsNext
<1>4. ImageAtPc' /\ TriesOK' /\ ImageInPlace' /\ StubInPlace'
  BY <1>1, HostAssumption DEF Begin, ImageAtPc, TriesOK, ImageInPlace, StubInPlace, Running, StubPcs, SplPcs,
              Requests
<1>5. StageOneOK' /\ HistoryOK' /\ RomSurvives' /\ CleanBootSucceeds'
  BY <1>1, <1>2 DEF Begin, StageOneOK, HistoryOK, RomSurvives, CleanBootSucceeds, Running, Spoiled,
              romVars
<1>6. QED BY <1>3, <1>4, <1>5

\* Detection skips its program, or begins with its address.
LEMMA DetectKeeps == IInv /\ Detect => IInv'
<1>1. SUFFICES ASSUME IInv, Detect PROVE IInv'
  OBVIOUS
<1> USE DEF IInv
<1>0. RomTypeOK /\ Ranges /\ Flagged
  BY <1>1, TypeParts
<1>2. UNCHANGED romVars /\ RomTypeOK'
  BY <1>0, <1>1 DEF Detect, RomTypeOK, romVars
<1>3. image = "stub" /\ pc = "detect" /\ pc' \in {"files", "addr"} /\ image' = image
  BY <1>0, <1>1 DEF Detect, ImageAtPc, Ranges, Running, SplPcs, UbootPcs
<1>4. TypeOK'
  <2>1. Ranges'
    BY <1>0, <1>1, <1>2, <1>3, SizeIs, HostAssumption DEF Detect, ImageAtPc, Calls, Requests, Ranges
  <2>2. Flagged'
    BY <1>0, <1>1, <1>2, <1>3, SizeIs, HostAssumption DEF Detect, ImageAtPc, Calls, Requests, Flagged
  <2>3. QED BY <1>2, <2>1, <2>2, TypePartsNext
<1>5. ImageAtPc' /\ TriesOK' /\ ImageInPlace' /\ StubInPlace'
  BY <1>1, <1>3, HostAssumption DEF Detect, ImageAtPc, TriesOK, ImageInPlace, StubInPlace, Running, StubPcs, Requests
<1>6. StageOneOK' /\ HistoryOK' /\ RomSurvives' /\ CleanBootSucceeds'
  BY <1>1, <1>2, <1>3 DEF Detect, StageOneOK, HistoryOK, RomSurvives, CleanBootSucceeds, Running, Spoiled,
              romVars
<1>7. QED BY <1>4, <1>5, <1>6

\* With both files read, the first stage is next; without one, the run is over.
LEMMA LoadFilesKeeps == IInv /\ LoadFiles => IInv'
<1>1. SUFFICES ASSUME IInv, LoadFiles PROVE IInv'
  OBVIOUS
<1> USE DEF IInv
<1>0. RomTypeOK /\ Ranges /\ Flagged
  BY <1>1, TypeParts
<1>2. UNCHANGED romVars /\ RomTypeOK'
  BY <1>0, <1>1 DEF LoadFiles, RomTypeOK, romVars
<1>3. /\ pc = "files" /\ pc' \in {"pad", "done"} /\ image' = "spl"
      /\ pc' = "done" => result' = "FILE_IO" /\ faulty' = TRUE
      /\ pc' = "pad" => UNCHANGED <<result, faulty>>
  BY <1>1 DEF LoadFiles, Finish
<1>4. TypeOK'
  <2>1. Ranges'
    BY <1>0, <1>1, <1>2, <1>3 DEF LoadFiles, Calls, Ranges
  <2>2. Flagged'
    BY <1>0, <1>1, <1>2, <1>3 DEF LoadFiles, Calls, Flagged
  <2>3. QED BY <1>2, <2>1, <2>2, TypePartsNext
<1>5. ImageAtPc' /\ TriesOK' /\ ImageInPlace' /\ StubInPlace'
  BY <1>1, <1>3 DEF LoadFiles, ImageAtPc, TriesOK, ImageInPlace, StubInPlace, Running, SplPcs, Requests
<1>6. StageOneOK' /\ HistoryOK' /\ RomSurvives' /\ CleanBootSucceeds'
  BY <1>1, <1>2, <1>3 DEF LoadFiles, StageOneOK, HistoryOK, RomSurvives, CleanBootSucceeds, Running, Spoiled,
              romVars
<1>7. QED BY <1>4, <1>5, <1>6

\* An image to send has its size, padded or not, and nothing of it is sent.
LEMMA PadsKeeps == IInv /\ Pads => IInv'
<1>1. SUFFICES ASSUME IInv, Pads PROVE IInv'
  OBVIOUS
<1> USE DEF IInv
<1>0. RomTypeOK /\ Ranges /\ Flagged
  BY <1>1, TypeParts
<1>2. UNCHANGED romVars /\ RomTypeOK'
  BY <1>0, <1>1 DEF Pads, RomTypeOK, romVars
<1>3. /\ pc = "pad" /\ pc' = "addr" /\ image' = image /\ image \in {"spl", "uboot"}
      /\ ImageSize[image] \in Nat /\ Padded(ImageSize[image]) \in Nat
  BY <1>0, <1>1, SizeIs, PaddedIs DEF Pads, ImageAtPc, Ranges, Running, StubPcs
<1>4. /\ \/ size' = Padded(ImageSize[image]) /\ unpadded' = unpadded
         \/ size' = ImageSize[image] /\ unpadded' = TRUE
      /\ offset' = 0 /\ left' = Least(Chunk, size') /\ size' \in Nat
      /\ UNCHANGED <<front, how, seen, tries, result, runs, faulty, partial, stubbed>>
  BY <1>1, <1>3 DEF Pads
<1>5. left' \in 0 .. Chunk /\ left' <= size'
  BY <1>4, HostAssumption DEF Least
<1>6. TypeOK'
  <2>1. Ranges'
    BY <1>0, <1>1, <1>2, <1>3, <1>4, <1>5 DEF Calls, Requests, Ranges
  <2>2. Flagged'
    BY <1>0, <1>1, <1>2, <1>3, <1>4, <1>5 DEF Calls, Requests, Flagged
  <2>3. QED BY <1>2, <2>1, <2>2, TypePartsNext
<1>7. ImageAtPc' /\ TriesOK' /\ ImageInPlace' /\ StubInPlace'
  BY <1>1, <1>3, <1>4, <1>5, HostAssumption DEF ImageAtPc, TriesOK, ImageInPlace, StubInPlace, Running, SplPcs, UbootPcs,
              Requests
<1>8. StageOneOK' /\ HistoryOK' /\ RomSurvives' /\ CleanBootSucceeds'
  BY <1>1, <1>2, <1>3, <1>4 DEF StageOneOK, HistoryOK, RomSurvives, CleanBootSucceeds, Running, Spoiled,
              romVars
<1>9. QED BY <1>6, <1>7, <1>8

\* The interface is there, or the run is over.
LEMMA ClaimKeeps == IInv /\ Claim => IInv'
<1>1. SUFFICES ASSUME IInv, Claim PROVE IInv'
  OBVIOUS
<1> USE DEF IInv
<1>0. RomTypeOK /\ Ranges /\ Flagged
  BY <1>1, TypeParts
<1>2. UNCHANGED romVars /\ RomTypeOK'
  BY <1>0, <1>1 DEF Claim, RomTypeOK, romVars
<1>3. /\ pc = "claim" /\ pc' \in {"data", "done"} /\ image' = image /\ image \in {"spl", "uboot"}
      /\ pc' = "done" => result' = "TRANSFER_FAILED" /\ faulty' = TRUE
      /\ pc' = "data" => UNCHANGED <<result, faulty>>
  BY <1>0, <1>1 DEF Claim, Finish, ImageAtPc, Ranges, Running, StubPcs
<1>4. TypeOK'
  <2>1. Ranges'
    BY <1>0, <1>1, <1>2, <1>3 DEF Claim, ImageInPlace, Calls, Ranges
  <2>2. Flagged'
    BY <1>0, <1>1, <1>2, <1>3 DEF Claim, ImageInPlace, Calls, Flagged
  <2>3. QED BY <1>2, <2>1, <2>2, TypePartsNext
<1>5. ImageAtPc' /\ TriesOK' /\ ImageInPlace' /\ StubInPlace'
  BY <1>1, <1>2, <1>3, HostAssumption DEF Claim, ImageAtPc, TriesOK, ImageInPlace, StubInPlace, Running, SplPcs,
              UbootPcs, Requests, Area, romVars
<1>6. StageOneOK' /\ HistoryOK' /\ RomSurvives' /\ CleanBootSucceeds'
  BY <1>1, <1>2, <1>3 DEF Claim, StageOneOK, HistoryOK, RomSurvives, CleanBootSucceeds, Running, Spoiled,
              romVars
<1>7. QED BY <1>4, <1>5, <1>6

\* Detection ends with its results, or without them.
LEMMA ReadResultsKeeps == IInv /\ ReadResults => IInv'
<1>1. SUFFICES ASSUME IInv, ReadResults PROVE IInv'
  OBVIOUS
<1> USE DEF IInv
<1>0. RomTypeOK /\ Ranges /\ Flagged
  BY <1>1, TypeParts
<1>2. UNCHANGED romVars /\ RomTypeOK'
  BY <1>0, <1>1 DEF ReadResults, RomTypeOK, romVars
<1>3. pc = "read" /\ image = "stub" /\ image' = image /\ (marker \/ used)
  BY <1>0, <1>1 DEF ReadResults, ImageAtPc, StubInPlace, Ranges, Running, SplPcs, UbootPcs
<1>4. /\ \/ pc' = "files" /\ result' = result
         \/ pc' = "done" /\ result' = "PROTOCOL"
      /\ pc' = "done" => faulty' \/ ~marker
      /\ faulty => faulty'
      /\ faulty' \in BOOLEAN
  <2>1. CASE faulty' = faulty
    BY <1>0, <1>1, <1>3, <2>1 DEF ReadResults, FailWith, Finish, Flagged
  <2>2. CASE faulty' = TRUE
    BY <1>0, <1>1, <1>3, <2>2 DEF ReadResults, FailWith, Finish, Flagged
  <2>3. QED BY <1>1, <2>1, <2>2 DEF ReadResults
<1>5. TypeOK'
  <2>1. Ranges'
    BY <1>0, <1>1, <1>2, <1>3, <1>4 DEF ReadResults, Calls, Ranges
  <2>2. Flagged'
    BY <1>0, <1>1, <1>2, <1>3, <1>4 DEF ReadResults, Calls, Flagged
  <2>3. QED BY <1>2, <2>1, <2>2, TypePartsNext
<1>6. ImageAtPc' /\ TriesOK' /\ ImageInPlace' /\ StubInPlace'
  BY <1>1, <1>3, <1>4 DEF ReadResults, ImageAtPc, TriesOK, ImageInPlace, StubInPlace, Running, StubPcs, Requests
<1>7. StageOneOK' /\ HistoryOK' /\ RomSurvives'
  BY <1>1, <1>2, <1>3, <1>4 DEF ReadResults, StageOneOK, HistoryOK, RomSurvives, Running, Spoiled, romVars
<1>8. CleanBootSucceeds'
  BY <1>1, <1>2, <1>3, <1>4 DEF ReadResults, CleanBootSucceeds, StageOneOK, HistoryOK, ImageAtPc, Spoiled, romVars
<1>9. QED BY <1>5, <1>6, <1>7, <1>8

\* An interruption leaves the ROM as it is, and nothing of the run.
LEMMA InterruptKeeps == IInv /\ Interrupt => IInv'
<1>1. SUFFICES ASSUME IInv, Interrupt PROVE IInv'
  OBVIOUS
<1> USE DEF IInv
<1>0. RomTypeOK /\ Ranges /\ Flagged
  BY <1>1, TypeParts
<1>2. UNCHANGED romVars /\ RomTypeOK'
  BY <1>0, <1>1 DEF Interrupt, RomTypeOK, romVars
<1>3. TypeOK'
  <2>1. Ranges'
    BY <1>0, <1>1, <1>2, HostAssumption DEF Interrupt, Forgotten, Calls, Ranges
  <2>2. Flagged'
    BY <1>0, <1>1, <1>2, HostAssumption DEF Interrupt, Forgotten, Calls, Flagged
  <2>3. QED BY <1>2, <2>1, <2>2, TypePartsNext
<1>4. ImageAtPc' /\ TriesOK' /\ ImageInPlace' /\ StubInPlace'
  BY <1>1 DEF Interrupt, Forgotten, ImageAtPc, TriesOK, ImageInPlace, StubInPlace, Running, Requests
<1>5. StageOneOK' /\ HistoryOK' /\ RomSurvives' /\ CleanBootSucceeds'
  BY <1>1, <1>2 DEF Interrupt, Forgotten, StageOneOK, HistoryOK, RomSurvives, CleanBootSucceeds, Running,
              Spoiled, romVars
<1>6. QED BY <1>3, <1>4, <1>5

\* Power takes everything from the ROM but what it is.
LEMMA PowerCycleKeeps == IInv /\ PowerCycle => IInv'
<1>1. SUFFICES ASSUME IInv, PowerCycle PROVE IInv'
  OBVIOUS
<1> USE DEF IInv
<1>0. RomTypeOK /\ Ranges /\ Flagged
  BY <1>1, TypeParts
<1>2. RomTypeOK' /\ mode' = "rom" /\ used' = FALSE
  <2>1. << >> \in Seq(Int)
    OBVIOUS
  <2>2. QED BY <1>0, <1>1, <2>1 DEF PowerCycle, PoweredUp, RomTypeOK
<1>3. TypeOK'
  <2>1. Ranges'
    BY <1>0, <1>1, <1>2, HostAssumption DEF PowerCycle, Forgotten, Calls, Ranges
  <2>2. Flagged'
    BY <1>0, <1>1, <1>2, HostAssumption DEF PowerCycle, Forgotten, Calls, Flagged
  <2>3. QED BY <1>2, <2>1, <2>2, TypePartsNext
<1>4. ImageAtPc' /\ TriesOK' /\ ImageInPlace' /\ StubInPlace'
  BY <1>1 DEF PowerCycle, Forgotten, ImageAtPc, TriesOK, ImageInPlace, StubInPlace, Running, Requests
<1>5. StageOneOK' /\ HistoryOK' /\ RomSurvives' /\ CleanBootSucceeds'
  BY <1>1, <1>2 DEF PowerCycle, Forgotten, StageOneOK, HistoryOK, RomSurvives, CleanBootSucceeds, Running
<1>6. QED BY <1>3, <1>4, <1>5

-----------------------------------------------------------------------------
(* Vendor requests.                                                        *)

\* What a step may do to the ROM at any time: its one run of stage 1 stays accounted
\* for, and it is not sent into anything broken.
RomKept ==
  /\ RomTypeOK'
  /\ soc' = soc
  /\ used' => ddr' \/ Spoiled'
  /\ RomSurvives'

\* Nothing but the request changes the host.
Asking == UNCHANGED <<front, how, seen, size, offset, left, runs, partial, unpadded>>

\* A run that fails at a request is over, or goes on to the files, as the app's does when
\* detection fails.
LEMMA FailsKeeps ==
  ASSUME IInv, Running, RomKept, Asking, mode' # "uboot",
         tries' = 0, image' = image,
         NEW err \in {"PROTOCOL", "TRANSFER_FAILED"}, FailWith(err),
         faulty' \in BOOLEAN, stubbed' \in BOOLEAN,
         faulty => faulty', faulty' \/ mode' = "hung"
  PROVE  IInv'
<1> USE DEF IInv
<1>0. RomTypeOK /\ Ranges /\ Flagged
  BY TypeParts
<1>1. \/ pc' = "done" /\ result' \in {"PROTOCOL", "TRANSFER_FAILED"}
      \/ pc' = "files" /\ result' = result /\ image = "stub"
  BY DEF FailWith, Finish
<1>2. TypeOK'
  <2>1. Ranges'
    BY <1>0, <1>1, HostAssumption DEF Asking, Ranges, Calls
  <2>2. Flagged'
    BY <1>0 DEF Asking, Flagged
  <2>3. QED BY <2>1, <2>2, TypePartsNext DEF RomKept
<1>3. ImageAtPc' /\ TriesOK' /\ ImageInPlace' /\ StubInPlace'
  BY <1>1, HostAssumption DEF Asking, ImageAtPc, TriesOK, ImageInPlace, StubInPlace, Running, StubPcs, Requests
<1>4. StageOneOK' /\ RomSurvives'
  BY <1>1 DEF RomKept, StageOneOK, Running
<1>5. HistoryOK'
  BY <1>0, <1>1 DEF Asking, HistoryOK, Running, Flagged
<1>6. CleanBootSucceeds'
  BY <1>0, <1>1, <1>5 DEF RomKept, RomSurvives, CleanBootSucceeds, HistoryOK
<1>7. QED BY <1>2, <1>3, <1>4, <1>5, <1>6

\* A run goes on if what it relies on next is in place.
LEMMA GoesOnKeeps ==
  ASSUME IInv, Running, RomKept, Asking,
         pc' \in Calls \ {"idle", "done"}, image' \in {"stub", "spl", "uboot"}, result' = result,
         pc' = "data" => offset + left <= size,
         tries' \in 0 .. BulkTries + VendorTries,
         faulty' \in BOOLEAN, stubbed' \in BOOLEAN, faulty => faulty',
         mode' = "uboot" => pc' = "stage2",
         image' = "uboot" => ddr' \/ Spoiled' \/ mode' = "hung",
         ImageAtPc', TriesOK', ImageInPlace', StubInPlace'
  PROVE  IInv'
<1> USE DEF IInv
<1>0. RomTypeOK /\ Ranges /\ Flagged
  BY TypeParts
<1>1. TypeOK'
  <2>1. Ranges'
    BY <1>0 DEF Asking, Ranges
  <2>2. Flagged'
    BY <1>0 DEF Asking, Flagged
  <2>3. QED BY <2>1, <2>2, TypePartsNext DEF RomKept
<1>2. StageOneOK' /\ RomSurvives'
  BY DEF RomKept, StageOneOK, Running
<1>3. HistoryOK'
  BY <1>0 DEF Asking, HistoryOK, Running, Flagged
<1>4. CleanBootSucceeds'
  BY DEF CleanBootSucceeds
<1>5. QED BY <1>1, <1>2, <1>3, <1>4

\* A request that is not answered may be made again.
Stays ==
  /\ RomKept
  /\ mode' = "uboot" => pc = "stage2"
  /\ image = "uboot" => ddr' \/ Spoiled' \/ mode' = "hung"
  /\ pc' = pc /\ image' = image => ImageInPlace' /\ StubInPlace'

\* Until its attempts are used up, that is all that happens.
LEMMA AgainKeeps ==
  ASSUME IInv, pc \in Requests, Stays, Asking, tries + 1 < VendorTries, tries' = tries + 1,
         UNCHANGED <<pc, image, result>>,
         faulty' \in BOOLEAN, stubbed' \in BOOLEAN, faulty => faulty'
  PROVE  IInv'
<1> USE DEF IInv
<1>0. Ranges
  BY TypeParts
<1>1. Running /\ pc' \in Calls \ {"idle", "done"} /\ pc' # "data"
  BY DEF Requests, Calls, Running
<1>2. ImageAtPc'
  BY DEF Asking, ImageAtPc, Running
<1>3. TriesOK' /\ tries' \in 0 .. BulkTries + VendorTries
  BY <1>0, <1>1, HostAssumption DEF TriesOK, Ranges
<1>4. image' \in {"stub", "spl", "uboot"}
  BY <1>0 DEF Ranges
<1>5. QED BY <1>1, <1>2, <1>3, <1>4, GoesOnKeeps DEF Stays

\* A request that the ROM does not execute changes nothing there.
LEMMA UnexecutedStays ==
  ASSUME IInv, pc \in Requests, UNCHANGED romVars, Asking, stubbed => stubbed',
         stubbed \in BOOLEAN, stubbed' \in BOOLEAN
  PROVE  Stays
<1> USE DEF IInv
<1>0. RomTypeOK /\ Ranges /\ Flagged
  BY TypeParts
<1>1. RomTypeOK' /\ soc' = soc /\ mode' = mode /\ used' = used /\ ddr' = ddr /\ marker' = marker
      /\ mem' = mem /\ len' = len /\ addr' = addr
  BY <1>0 DEF RomTypeOK, romVars
<1>2. Spoiled => Spoiled'
  BY <1>1 DEF Spoiled
<1>3. RomKept
  BY <1>1, <1>2 DEF RomKept, StageOneOK, RomSurvives, Asking
<1>4. mode' = "uboot" => pc = "stage2"
  BY <1>1 DEF StageOneOK, Requests
<1>5. image = "uboot" => ddr' \/ Spoiled' \/ mode' = "hung"
  BY <1>1, <1>2 DEF StageOneOK, Running, Requests
<1>6. ASSUME pc' = pc, image' = image PROVE ImageInPlace' /\ StubInPlace'
  BY <1>1, <1>6 DEF Asking, ImageInPlace, StubInPlace, Area
<1>7. QED BY <1>3, <1>4, <1>5, <1>6 DEF Stays

\* So a request keeps the invariant if it is safe to make again and goes on well.
LEMMA RequestKeeps ==
  ASSUME IInv, Vendor, pc \notin FailureIgnored,
         mode = "rom" /\ Executed => Stays,
         mode = "rom" /\ Executed /\ GoesOn /\ faulty' = faulty => IInv'
  PROVE  IInv'
<1> USE DEF IInv
<1>0. RomTypeOK /\ Ranges /\ Flagged
  BY TypeParts
<1>1. pc \in Requests /\ Asking /\ Running /\ stubbed' \in BOOLEAN /\ (stubbed => stubbed')
  BY <1>0 DEF Vendor, Asking, Running, Requests, Flagged
<1>2. ASSUME GivesUp PROVE tries' = 0 /\ image' = image /\ FailWith("TRANSFER_FAILED")
  BY <1>2 DEF GivesUp
<1>3. ASSUME NoReply
      PROVE  \/ tries + 1 < VendorTries /\ tries' = tries + 1 /\ UNCHANGED <<pc, image, result>>
             \/ GivesUp
  BY <1>3 DEF NoReply
<1>4. ASSUME Stays, NoReply \/ GivesUp, faulty' \in BOOLEAN, faulty => faulty',
             faulty' \/ mode' = "hung"
      PROVE  IInv'
  <2>1. CASE GivesUp
    <3>1. mode' # "uboot"
      BY <1>4 DEF Stays, FailureIgnored
    <3>2. QED BY <1>1, <1>2, <1>4, <2>1, <3>1, FailsKeeps DEF Stays
  <2>2. CASE ~GivesUp
    BY <1>1, <1>3, <1>4, <2>2, AgainKeeps
  <2>3. QED BY <2>1, <2>2
<1>5. CASE mode = "rom" /\ Executed /\ NoReply /\ faulty' = (faulty \/ mode' = "rom")
  <2>1. mode' \in {"rom", "uboot", "hung"} /\ mode' # "uboot"
    BY <1>5 DEF Stays, RomKept, RomTypeOK, FailureIgnored
  <2>2. faulty' \in BOOLEAN /\ (faulty => faulty') /\ (faulty' \/ mode' = "hung")
    BY <1>5, <2>1
  <2>3. QED BY <1>4, <1>5, <2>2
<1>6. CASE UNCHANGED romVars /\ (NoReply \/ GivesUp) /\ faulty' = (faulty \/ mode = "rom")
  <2>1. mode' = mode /\ mode \in {"rom", "uboot", "hung"} /\ mode # "uboot"
    BY <1>0, <1>1, <1>6 DEF RomTypeOK, StageOneOK, FailureIgnored, Requests, romVars
  <2>2. faulty' \in BOOLEAN /\ (faulty => faulty') /\ (faulty' \/ mode' = "hung")
    BY <1>6, <2>1
  <2>3. Stays
    BY <1>0, <1>1, <1>6, UnexecutedStays DEF Flagged
  <2>4. QED BY <1>4, <1>6, <2>2, <2>3
<1>7. QED BY <1>5, <1>6 DEF Vendor

\* What a request asks for changes; the rest of the ROM does not.
LEMMA QuietRequest ==
  ASSUME IInv, pc \in Requests, Asking, RomTypeOK', UNCHANGED <<soc, mode, used, ddr>>,
         stubbed => stubbed', stubbed \in BOOLEAN, stubbed' \in BOOLEAN
  PROVE  /\ RomKept
         /\ mode' = "uboot" => pc = "stage2"
         /\ image = "uboot" => ddr' \/ Spoiled' \/ mode' = "hung"
<1> USE DEF IInv
<1>1. Spoiled => Spoiled'
  BY DEF Spoiled
<1>2. RomKept
  BY <1>1 DEF RomKept, StageOneOK, RomSurvives, Asking
<1>3. QED BY <1>1, <1>2 DEF StageOneOK, Running, Requests

\* Setting an address empties the area there.
LEMMA SetAddrIs ==
  ASSUME RomTypeOK, NEW a \in Areas \union {"result"}, SetAddr(a)
  PROVE  /\ RomTypeOK' /\ addr' = a /\ UNCHANGED <<soc, mode, len, marker, used, ddr>>
         /\ a \in Areas => mem'[a] = << >>
         /\ \A b \in Areas \ {a} : mem'[b] = mem[b]
<1>1. << >> \in Seq(Int)
  OBVIOUS
<1>2. mem' \in [Areas -> Seq(Int)]
  BY <1>1 DEF SetAddr, RomTypeOK
<1>3. QED BY <1>2 DEF SetAddr, RomTypeOK

\* A length is all that setting a length changes.
LEMMA SetLenIs ==
  ASSUME RomTypeOK, NEW n \in Nat, SetLen(n)
  PROVE  RomTypeOK' /\ len' = n /\ UNCHANGED <<soc, mode, addr, mem, marker, used, ddr>>
BY DEF SetLen, RomTypeOK

\* Before an image is sent its address is set, and the area is empty.
LEMMA AddrKeeps == ASSUME IInv, Vendor, pc = "addr" PROVE IInv'
<1> USE DEF IInv
<1>0. RomTypeOK /\ Ranges /\ Flagged
  BY TypeParts
<1>1. Asking /\ stubbed' = stubbed /\ Running /\ pc \in Requests
  BY <1>0 DEF Vendor, Asking, Running, Requests, Flagged
<1>2. Area \in Areas /\ Area # "result" /\ (image # "uboot" => Area = "sram")
  BY DEF Area, Areas
<1>3. ASSUME Executed
      PROVE  /\ RomTypeOK' /\ addr' = Area /\ UNCHANGED <<soc, mode, len, marker, used, ddr>>
             /\ mem'[Area] = << >>
  <2>1. SetAddr(Area)
    BY <1>3 DEF Executed
  <2>2. QED BY <1>0, <1>2, <2>1, SetAddrIs
<1>4. ASSUME Executed PROVE Stays
  <2>1. pc' = pc /\ image' = image => ImageInPlace' /\ StubInPlace'
    BY <1>1 DEF Asking, ImageInPlace, StubInPlace
  <2>2. QED BY <1>0, <1>1, <1>3, <1>4, <2>1, QuietRequest DEF Stays, Flagged
<1>5. ASSUME Executed, GoesOn, faulty' = faulty PROVE IInv'
  <2>1. pc' = "len" /\ image' = image /\ result' = result /\ tries' = 0
    BY <1>5 DEF GoesOn, Follows
  <2>2. ImageAtPc' /\ TriesOK'
    BY <1>1, <2>1, HostAssumption DEF Asking, ImageAtPc, TriesOK, Running, StubPcs, SplPcs, UbootPcs, Requests
  <2>3. Area' = Area
    BY <2>1 DEF Area
  <2>4. Prefix(ImageSize[image], 0) = << >> /\ << >> # <<Stub>>
    BY DEF Prefix
  <2>5. ImageInPlace'
    BY <1>1, <1>2, <1>3, <1>5, <2>1, <2>3, <2>4 DEF Asking, ImageInPlace
  <2>6. StubInPlace'
    BY <1>1, <1>2, <1>3, <1>5, <2>1, <2>3 DEF Asking, StubInPlace
  <2>7. QED
    BY <1>0, <1>1, <1>4, <1>5, <2>1, <2>2, <2>5, <2>6, GoesOnKeeps, HostAssumption
       DEF Stays, Flagged, Ranges, Calls, Requests
<1>6. QED BY <1>4, <1>5, RequestKeeps DEF FailureIgnored

\* Lengths change nothing else, for an image as for the detection program.
LEMMA LenKeeps == ASSUME IInv, Vendor, pc = "len" PROVE IInv'
<1> USE DEF IInv
<1>0. RomTypeOK /\ Ranges /\ Flagged
  BY TypeParts
<1>1. Asking /\ stubbed' = stubbed /\ Running /\ pc \in Requests
  BY <1>0 DEF Vendor, Asking, Running, Requests, Flagged
<1>2. ASSUME Executed
      PROVE  RomTypeOK' /\ UNCHANGED <<soc, mode, addr, mem, marker, used, ddr>>
  <2>1. SetLen(size) /\ size \in Nat
    BY <1>0, <1>2 DEF Executed, Ranges
  <2>2. QED BY <1>0, <2>1, SetLenIs
<1>3. ASSUME Executed PROVE Stays
  <2>1. pc' = pc /\ image' = image => ImageInPlace' /\ StubInPlace'
    BY <1>1, <1>2, <1>3 DEF Asking, ImageInPlace, StubInPlace, Area
  <2>2. QED BY <1>0, <1>1, <1>2, <1>3, <2>1, QuietRequest DEF Stays, Flagged
<1>4. ASSUME Executed, GoesOn, faulty' = faulty PROVE IInv'
  <2>1. /\ pc' = IF image = "stub" THEN "data" ELSE "claim"
        /\ image' = image /\ result' = result /\ tries' = 0
    BY <1>4 DEF GoesOn, Follows
  <2>2. ImageAtPc' /\ TriesOK'
    BY <1>0, <1>1, <2>1, HostAssumption
       DEF Asking, ImageAtPc, TriesOK, Running, StubPcs, SplPcs, UbootPcs, Requests, Ranges
  <2>3. ImageInPlace' /\ StubInPlace'
    BY <1>1, <1>2, <1>4, <2>1 DEF Asking, ImageInPlace, StubInPlace, Area
  <2>4. pc' = "data" => offset + left <= size
    BY <1>0, <2>1 DEF ImageAtPc, Ranges
  <2>5. QED
    BY <1>0, <1>1, <1>3, <1>4, <2>1, <2>2, <2>3, <2>4, GoesOnKeeps, HostAssumption
       DEF Stays, Flagged, Ranges, Calls, Requests
<1>5. QED BY <1>3, <1>4, RequestKeeps DEF FailureIgnored

\* The window that makes the ROM flush the detection program, before it runs.
LEMMA WindowKeeps == ASSUME IInv, Vendor, pc = "window" PROVE IInv'
<1> USE DEF IInv
<1>0. RomTypeOK /\ Ranges /\ Flagged
  BY TypeParts
<1>1. Asking /\ stubbed' = stubbed /\ Running /\ pc \in Requests /\ image = "stub"
  BY <1>0 DEF Vendor, Asking, Running, Requests, Flagged, ImageAtPc, Ranges, SplPcs, UbootPcs
<1>2. ASSUME Executed
      PROVE  RomTypeOK' /\ len' = Window /\ UNCHANGED <<soc, mode, addr, mem, marker, used, ddr>>
  <2>1. SetLen(Window) /\ Window \in Nat
    BY <1>2, ImageAssumption DEF Executed
  <2>2. QED BY <1>0, <2>1, SetLenIs
<1>3. ASSUME Executed PROVE Stays
  <2>1. pc' = pc /\ image' = image => ImageInPlace' /\ StubInPlace'
    BY <1>1, <1>2, <1>3 DEF Asking, ImageInPlace, StubInPlace
  <2>2. QED BY <1>0, <1>1, <1>2, <1>3, <2>1, QuietRequest DEF Stays, Flagged
<1>4. ASSUME Executed, GoesOn, faulty' = faulty PROVE IInv'
  <2>1. pc' = "exec" /\ image' = "stub" /\ result' = result /\ tries' = 0
    BY <1>1, <1>4 DEF GoesOn, Follows
  <2>2. ImageAtPc' /\ TriesOK'
    BY <1>0, <1>1, <2>1, HostAssumption
       DEF Asking, ImageAtPc, TriesOK, Running, StubPcs, Requests, Ranges
  <2>3. ImageInPlace' /\ StubInPlace'
    BY <1>1, <1>2, <1>4, <2>1 DEF Asking, ImageInPlace, StubInPlace
  <2>4. QED
    BY <1>0, <1>1, <1>3, <1>4, <2>1, <2>2, <2>3, GoesOnKeeps, HostAssumption
       DEF Stays, Flagged, Ranges, Calls, Requests
<1>5. QED BY <1>3, <1>4, RequestKeeps DEF FailureIgnored

\* Where the results are read, and how many.
LEMMA ResultsKeep == ASSUME IInv, Vendor, pc \in {"readAddr", "readLen"} PROVE IInv'
<1> USE DEF IInv
<1>0. RomTypeOK /\ Ranges /\ Flagged
  BY TypeParts
<1>1. Asking /\ stubbed' = stubbed /\ Running /\ pc \in Requests /\ image = "stub"
  BY <1>0 DEF Vendor, Asking, Running, Requests, Flagged, ImageAtPc, Ranges, SplPcs, UbootPcs
<1>2. ASSUME Executed
      PROVE  RomTypeOK' /\ UNCHANGED <<soc, mode, marker, used, ddr>>
  <2>1. CASE pc = "readAddr"
    <3>1. SetAddr("result")
      BY <1>2, <2>1 DEF Executed
    <3>2. QED BY <1>0, <3>1, SetAddrIs
  <2>2. CASE pc = "readLen"
    <3>1. SetLen(1)
      BY <1>2, <2>2 DEF Executed
    <3>2. QED BY <1>0, <3>1, SetLenIs
  <2>3. QED BY <2>1, <2>2
<1>3. ASSUME Executed PROVE Stays
  <2>1. pc' = pc /\ image' = image => ImageInPlace' /\ StubInPlace'
    BY <1>1, <1>2, <1>3 DEF Asking, ImageInPlace, StubInPlace
  <2>2. QED BY <1>0, <1>1, <1>2, <1>3, <2>1, QuietRequest DEF Stays, Flagged
<1>4. ASSUME Executed, GoesOn, faulty' = faulty PROVE IInv'
  <2>1. pc' \in {"readLen", "read"} /\ image' = "stub" /\ result' = result /\ tries' = 0
    BY <1>1, <1>4 DEF GoesOn, Follows
  <2>2. ImageAtPc' /\ TriesOK'
    BY <1>0, <1>1, <2>1, HostAssumption
       DEF Asking, ImageAtPc, TriesOK, Running, StubPcs, Requests, Ranges
  <2>3. ImageInPlace' /\ StubInPlace'
    BY <1>1, <1>2, <1>4, <2>1 DEF Asking, ImageInPlace, StubInPlace
  <2>4. QED
    BY <1>0, <1>1, <1>3, <1>4, <2>1, <2>2, <2>3, GoesOnKeeps, HostAssumption
       DEF Stays, Flagged, Ranges, Calls, Requests
<1>5. QED BY <1>3, <1>4, RequestKeeps DEF FailureIgnored

\* Running stage 1: the detection program leaves its results or spoils a T10, a whole
\* first stage brings up the DRAM, and the ROM hangs only on one that is not whole.
LEMMA ProgStage1Is ==
  ASSUME IInv, pc = "exec", image \in {"stub", "spl"}, Asking, mode = "rom", ProgStage1,
         stubbed' = (stubbed \/ image = "stub")
  PROVE  /\ RomKept /\ mode' # "uboot"
         /\ UNCHANGED <<len, mem>>
         /\ image = "stub" => marker' \/ used'
         /\ image = "spl" => ddr' \/ Spoiled' \/ mode' = "hung"
<1> USE DEF IInv
<1>0. RomTypeOK /\ Ranges /\ Flagged
  BY TypeParts
<1>1. UNCHANGED <<soc, addr, len, mem, partial, unpadded>>
  BY DEF ProgStage1, Asking
<1>2. Spoiled => Spoiled'
  BY <1>1 DEF Spoiled
<1>3. mode # "uboot" /\ (mode = "hung" => RomSurvives')
  OBVIOUS
<1>4. CASE used /\ UNCHANGED <<mode, marker, used, ddr>>
  <2>1. RomTypeOK' /\ RomSurvives'
    BY <1>0, <1>1, <1>4 DEF RomTypeOK, RomSurvives
  <2>2. ddr' \/ Spoiled'
    BY <1>2, <1>4 DEF StageOneOK
  <2>3. QED BY <1>1, <1>3, <1>4, <2>1, <2>2 DEF RomKept
<1>5. CASE /\ ~used /\ mem["sram"] = <<Stub>>
           /\ marker' = (len = Window) /\ used' = (soc = "t10" \/ len # Window)
           /\ UNCHANGED <<mode, ddr>>
  <2>1. image = "stub" /\ len = Window
    BY <1>5 DEF ImageInPlace, StubInPlace
  <2>2. marker' = TRUE /\ used' \in BOOLEAN /\ (used' => soc' = "t10") /\ stubbed' = TRUE
    BY <1>1, <1>5, <2>1
  <2>3. used' => Spoiled'
    BY <2>2 DEF Spoiled
  <2>4. RomTypeOK' /\ RomSurvives'
    BY <1>0, <1>1, <1>5, <2>2 DEF RomTypeOK, RomSurvives
  <2>5. QED BY <1>1, <1>5, <2>1, <2>2, <2>3, <2>4 DEF RomKept
<1>6. CASE /\ ~used /\ Holds("sram", SplSize)
           /\ ddr' = TRUE /\ used' \in {TRUE, soc = "t10"}
           /\ UNCHANGED <<mode, marker>>
  <2>1. RomTypeOK' /\ RomSurvives'
    BY <1>0, <1>1, <1>6 DEF RomTypeOK, RomSurvives
  <2>2. image # "stub"
    <3>1. SUFFICES ASSUME mem["sram"] = <<Stub>> PROVE FALSE
      BY DEF StubInPlace
    <3>2. SplSize \in Nat /\ SplSize > 0 /\ Padded(SplSize) \in Nat /\ SplSize <= Padded(SplSize)
      BY ImageAssumption, PaddedIs
    <3>3. Units(SplSize)[1] = 1 /\ PaddedUnits(SplSize)[1] = 1 /\ <<Stub>>[1] = -2
      BY <3>2 DEF Units, PaddedUnits, Stub
    <3>4. QED BY <1>6, <3>1, <3>3 DEF Holds
  <2>3. QED BY <1>1, <1>6, <2>1, <2>2 DEF RomKept
<1>7. CASE /\ ~used /\ mem["sram"] # <<Stub>>
           /\ ~(Holds("sram", SplSize) /\ Len(mem["sram"]) % Align = 0)
           /\ mode' = "hung"
           /\ UNCHANGED <<marker, used, ddr>>
  <2>1. image = "spl"
    BY <1>7 DEF StubInPlace
  <2>2. partial \/ unpadded
    <3>1. SUFFICES ASSUME ~partial, ~unpadded PROVE FALSE
      OBVIOUS
    <3>2. size = Padded(SplSize) /\ offset = size /\ mem["sram"] = Prefix(SplSize, offset)
      BY <2>1, <3>1 DEF ImageInPlace, Area, ImageSize
    <3>3. Holds("sram", SplSize) /\ Len(mem["sram"]) % Align = 0
      BY <3>2, WholeHolds, ImageAssumption DEF Areas
    <3>4. QED BY <1>7, <3>3
  <2>3. RomTypeOK' /\ RomSurvives'
    BY <1>0, <1>1, <1>7, <2>2 DEF RomTypeOK, RomSurvives
  <2>4. QED BY <1>1, <1>7, <2>1, <2>3 DEF RomKept
<1>8. QED BY <1>4, <1>5, <1>6, <1>7 DEF ProgStage1

\* The run of stage 1.
LEMMA ExecKeeps == ASSUME IInv, Vendor, pc = "exec" PROVE IInv'
<1> USE DEF IInv
<1>0. RomTypeOK /\ Ranges /\ Flagged
  BY TypeParts
<1>1. /\ Asking /\ Running /\ pc \in Requests /\ image \in {"stub", "spl"}
      /\ stubbed' = (stubbed \/ image = "stub") /\ stubbed' \in BOOLEAN
  BY <1>0 DEF Vendor, Asking, Running, Requests, Flagged, ImageAtPc, Ranges, UbootPcs
<1>2. ASSUME mode = "rom", Executed
      PROVE  /\ RomKept /\ mode' # "uboot"
             /\ UNCHANGED <<len, mem>>
             /\ image = "stub" => marker' \/ used'
             /\ image = "spl" => ddr' \/ Spoiled' \/ mode' = "hung"
  <2>1. ProgStage1
    BY <1>2 DEF Executed
  <2>2. QED BY <1>1, <1>2, <2>1, ProgStage1Is
<1>3. ASSUME mode = "rom", Executed PROVE Stays
  <2>1. pc' = pc /\ image' = image => ImageInPlace' /\ StubInPlace'
    BY <1>1, <1>2, <1>3 DEF Asking, ImageInPlace, StubInPlace, Area
  <2>2. QED BY <1>1, <1>2, <1>3, <2>1 DEF Stays
<1>4. ASSUME mode = "rom", Executed, GoesOn, faulty' = faulty PROVE IInv'
  <2>1. /\ pc' = IF image = "stub" THEN "readAddr" ELSE "pad"
        /\ image' = IF image = "stub" THEN "stub" ELSE "uboot"
        /\ result' = result /\ tries' = 0
    BY <1>1, <1>4 DEF GoesOn, Follows
  <2>2. ImageAtPc' /\ TriesOK'
    BY <1>0, <1>1, <2>1, HostAssumption
       DEF Asking, ImageAtPc, TriesOK, Running, StubPcs, UbootPcs, Requests, Ranges
  <2>3. ImageInPlace' /\ StubInPlace'
    BY <1>1, <1>2, <1>4, <2>1 DEF Asking, ImageInPlace, StubInPlace
  <2>4. image' = "uboot" => ddr' \/ Spoiled' \/ mode' = "hung"
    BY <1>1, <1>2, <1>4, <2>1
  <2>5. QED
    BY <1>0, <1>1, <1>2, <1>4, <2>1, <2>2, <2>3, <2>4, GoesOnKeeps, HostAssumption
       DEF Flagged, Ranges, Calls, Requests
<1>5. QED BY <1>3, <1>4, RequestKeeps DEF FailureIgnored

\* The flush of the caches changes nothing, and whether it went well is not looked at.
LEMMA FlushKeeps == ASSUME IInv, Vendor, pc = "flush" PROVE IInv'
<1> USE DEF IInv
<1>0. RomTypeOK /\ Ranges /\ Flagged
  BY TypeParts
<1>1. /\ Asking /\ Running /\ pc \in Requests /\ image = "uboot"
      /\ UNCHANGED <<romVars, stubbed>>
  BY <1>0 DEF Vendor, Executed, Asking, Running, Requests, Flagged, ImageAtPc, Ranges, StubPcs, SplPcs
<1>2. faulty' \in BOOLEAN /\ (faulty => faulty') /\ stubbed \in BOOLEAN /\ stubbed' \in BOOLEAN
      /\ (stubbed => stubbed')
  <2>1. CASE faulty' = faulty
    BY <1>0, <1>1, <2>1 DEF Flagged
  <2>2. CASE faulty' = (faulty \/ mode' = "rom") \/ faulty' = (faulty \/ mode = "rom")
    BY <1>0, <1>1, <2>2 DEF Flagged
  <2>3. QED BY <2>1, <2>2 DEF Vendor
<1>3. Stays
  BY <1>1, <1>2, UnexecutedStays
<1>4. CASE GoesOn
  <2>1. pc' = "stage2" /\ image' = image /\ result' = result /\ tries' = 0
    BY <1>4 DEF GoesOn, Follows
  <2>2. ImageAtPc' /\ TriesOK'
    BY <1>0, <1>1, <2>1, HostAssumption
       DEF Asking, ImageAtPc, TriesOK, Running, UbootPcs, Requests, Ranges
  <2>3. ImageInPlace' /\ StubInPlace'
    BY <1>1, <2>1 DEF Asking, ImageInPlace, StubInPlace, Area, romVars
  <2>4. QED
    BY <1>0, <1>1, <1>2, <1>3, <2>1, <2>2, <2>3, GoesOnKeeps, HostAssumption
       DEF Stays, Ranges, Calls, Requests
<1>5. CASE ~GoesOn
  <2>1. tries + 1 < VendorTries /\ tries' = tries + 1 /\ UNCHANGED <<pc, image, result>>
    BY <1>5 DEF Vendor, NoReply, GivesUp, FailureIgnored
  <2>2. QED BY <1>1, <1>2, <1>3, <2>1, AgainKeeps
<1>6. QED BY <1>4, <1>5

\* Stage 2 starts a whole U-Boot that has DRAM behind it; anything else hangs the ROM.
LEMMA ProgStage2Is ==
  ASSUME IInv, pc = "stage2", image = "uboot", Asking, mode = "rom", ProgStage2,
         stubbed' = stubbed
  PROVE  RomKept /\ mode' # "rom" /\ UNCHANGED <<ddr, addr, mem>>
<1> USE DEF IInv
<1>0. RomTypeOK /\ Ranges /\ Flagged
  BY TypeParts
<1>1. /\ UNCHANGED <<soc, addr, len, mem, marker, used, ddr, partial, unpadded, stubbed>>
      /\ mode' \in {"uboot", "hung"}
      /\ mode' = "hung" => ~(ddr /\ Holds("dram", UbootSize))
  BY DEF ProgStage2, Asking
<1>2. Spoiled' = Spoiled
  BY <1>1 DEF Spoiled
<1>3. RomTypeOK'
  BY <1>0, <1>1 DEF RomTypeOK
<1>4. ASSUME mode' = "hung" PROVE partial \/ unpadded \/ Spoiled
  <2>1. SUFFICES ASSUME ~partial, ~unpadded, ~Spoiled PROVE FALSE
    OBVIOUS
  <2>2. ddr
    BY <2>1 DEF StageOneOK, Running
  <2>3. size = Padded(UbootSize) /\ offset = size /\ mem["dram"] = Prefix(UbootSize, offset)
    BY <2>1, <2>2 DEF ImageInPlace, Area, ImageSize
  <2>4. Holds("dram", UbootSize)
    BY <2>3, WholeHolds, ImageAssumption DEF Areas
  <2>5. QED BY <1>1, <1>4, <2>2, <2>4
<1>5. RomSurvives'
  BY <1>1, <1>2, <1>4 DEF RomSurvives
<1>6. used' => ddr' \/ Spoiled'
  BY <1>1, <1>2 DEF StageOneOK
<1>7. QED BY <1>1, <1>3, <1>5, <1>6 DEF RomKept

\* However stage 2 is answered, the run ends as a success; and if nothing went wrong,
\* U-Boot runs.
LEMMA Stage2Keeps == ASSUME IInv, Vendor, pc = "stage2" PROVE IInv'
<1> USE DEF IInv
<1>0. RomTypeOK /\ Ranges /\ Flagged
  BY TypeParts
<1>1. /\ Asking /\ Running /\ pc \in Requests /\ image = "uboot" /\ stubbed' = stubbed
      /\ stubbed' \in BOOLEAN
  BY <1>0 DEF Vendor, Asking, Running, Requests, Flagged, ImageAtPc, Ranges, StubPcs, SplPcs
<1>2. \/ mode = "rom" /\ ProgStage2
      \/ UNCHANGED romVars
  BY DEF Vendor, Executed
<1>3. RomKept /\ UNCHANGED <<ddr, addr, mem>>
  <2>1. CASE mode = "rom" /\ ProgStage2
    BY <1>1, <2>1, ProgStage2Is
  <2>2. CASE UNCHANGED romVars
    <3>1. Stays
      BY <1>0, <1>1, <2>2, UnexecutedStays DEF Flagged
    <3>2. QED BY <2>2, <3>1 DEF Stays, romVars
  <2>3. QED BY <1>2, <2>1, <2>2
<1>4. faulty' \in BOOLEAN /\ (faulty => faulty') /\ (mode' = "rom" => faulty')
  <2>1. CASE mode = "rom" /\ ProgStage2
    <3>1. mode' # "rom"
      BY <1>1, <2>1, ProgStage2Is
    <3>2. faulty' = faulty \/ faulty' = (faulty \/ mode' = "rom") \/ faulty' = (faulty \/ mode = "rom")
      BY DEF Vendor
    <3>3. CASE faulty' = faulty
      BY <1>0, <3>1, <3>3 DEF Flagged
    <3>4. CASE faulty' = (faulty \/ mode' = "rom") \/ faulty' = (faulty \/ mode = "rom")
      BY <1>0, <3>1, <3>4 DEF Flagged
    <3>5. QED BY <3>2, <3>3, <3>4
  <2>2. CASE UNCHANGED romVars /\ ~ProgStage2
    <3>1. faulty' = (faulty \/ mode = "rom") /\ mode' = mode
      BY <2>2 DEF Vendor, Executed, romVars
    <3>2. QED BY <1>0, <3>1 DEF Flagged
  <2>3. CASE UNCHANGED romVars /\ ProgStage2 /\ mode # "rom"
    <3>1. faulty' = (faulty \/ mode = "rom") /\ mode' = mode
      BY <2>3 DEF Vendor, romVars
    <3>2. QED BY <1>0, <3>1 DEF Flagged
  <2>4. QED BY <1>2, <2>1, <2>2, <2>3
<1>5. image = "uboot" => ddr' \/ Spoiled' \/ mode' = "hung"
  <2>1. Spoiled' = Spoiled
    BY <1>1, <1>3 DEF Spoiled, RomKept
  <2>2. CASE mode = "hung"
    <3>1. mode' = mode
      BY <1>2, <2>2 DEF romVars
    <3>2. QED BY <2>2, <3>1
  <2>3. QED BY <1>1, <1>3, <2>1, <2>2 DEF StageOneOK
<1>6. CASE GoesOn
  <2>1. pc' = "done" /\ image' = image /\ result' = "SUCCESS" /\ tries' = 0
    BY <1>6 DEF GoesOn, Follows
  <2>2. TypeOK'
    <3>1. Ranges'
      BY <1>0, <1>1, <2>1, HostAssumption DEF Asking, Ranges, Calls
    <3>2. Flagged'
      BY <1>0, <1>1, <1>4 DEF Asking, Flagged
    <3>3. QED BY <1>3, <3>1, <3>2, TypePartsNext DEF RomKept
  <2>3. ImageAtPc' /\ TriesOK' /\ ImageInPlace' /\ StubInPlace'
    BY <1>1, <2>1, HostAssumption DEF ImageAtPc, TriesOK, ImageInPlace, StubInPlace, Running, Requests
  <2>4. StageOneOK' /\ RomSurvives'
    BY <1>3, <2>1 DEF RomKept, StageOneOK, Running
  <2>5. HistoryOK'
    BY <1>0, <1>1, <1>4, <2>1 DEF Asking, HistoryOK, Running, Flagged
  <2>6. CleanBootSucceeds'
    <3>1. mode' \in {"rom", "uboot", "hung"}
      BY <1>3 DEF RomKept, RomTypeOK
    <3>2. mode' = "hung" => faulty' \/ unpadded' \/ Spoiled'
      BY <2>1, <2>4, <2>5 DEF RomSurvives, HistoryOK
    <3>3. QED BY <1>4, <2>1, <3>1, <3>2 DEF CleanBootSucceeds
  <2>7. QED BY <2>2, <2>3, <2>4, <2>5, <2>6
<1>7. CASE ~GoesOn
  <2>1. tries + 1 < VendorTries /\ tries' = tries + 1 /\ UNCHANGED <<pc, image, result>>
    BY <1>7 DEF Vendor, NoReply, GivesUp, FailureIgnored
  <2>2. Stays
    BY <1>1, <1>3, <1>5, <2>1 DEF Stays, Asking, ImageInPlace, StubInPlace, Area
  <2>3. QED BY <1>1, <1>4, <2>1, <2>2, AgainKeeps
<1>8. QED BY <1>6, <1>7

\* Every vendor request keeps the invariant.
LEMMA VendorKeeps == IInv /\ Vendor => IInv'
<1>1. SUFFICES ASSUME IInv, Vendor PROVE IInv'
  OBVIOUS
<1>2. pc \in {"addr", "len", "window", "exec", "readAddr", "readLen", "flush", "stage2"}
  BY <1>1 DEF Vendor, Requests
<1>3. QED
  BY <1>1, <1>2, AddrKeeps, LenKeeps, WindowKeeps, ExecKeeps, ResultsKeep, FlushKeeps, Stage2Keeps

-----------------------------------------------------------------------------
(* Bulk transfers.                                                         *)

\* The program that detects the SoC is alone in its area, or detection has failed.
LEMMA SendStubKeeps == ASSUME IInv, SendStub PROVE IInv'
<1> USE DEF IInv
<1>0. RomTypeOK /\ Ranges /\ Flagged
  BY TypeParts
<1>1. /\ pc = "data" /\ image = "stub" /\ image' = image /\ Running /\ Asking
      /\ tries = 0 /\ tries' = 0 /\ stubbed' = stubbed
      /\ addr = "sram" /\ mem["sram"] = << >>
  BY DEF SendStub, Running, Asking, TriesOK, StubInPlace
<1>2. Joined(<< >>, <<Stub>>) = <<Stub>> /\ <<Stub>> \in Seq(Int)
  BY DEF Joined, Stub
<1>3. UNCHANGED romVars \/ TakeUnits(<<Stub>>)
  BY DEF SendStub
<1>4. /\ UNCHANGED <<soc, mode, used, ddr>> /\ RomTypeOK'
      /\ TakeUnits(<<Stub>>) => mem'["sram"] = <<Stub>>
  <2>1. CASE UNCHANGED romVars /\ ~TakeUnits(<<Stub>>)
    BY <1>0, <2>1 DEF romVars, RomTypeOK
  <2>2. CASE TakeUnits(<<Stub>>)
    <3>1. mem' = [mem EXCEPT !["sram"] = <<Stub>>] /\ mem \in [Areas -> Seq(Int)]
      BY <1>0, <1>1, <1>2, <2>2 DEF TakeUnits, RomTypeOK
    <3>2. mem' \in [Areas -> Seq(Int)] /\ mem'["sram"] = <<Stub>>
      BY <1>2, <3>1 DEF Areas
    <3>3. marker' = FALSE
      BY <1>1, <2>2 DEF TakeUnits
    <3>4. QED BY <1>0, <2>2, <3>2, <3>3 DEF TakeUnits, RomTypeOK
  <2>3. QED BY <1>3, <2>1, <2>2
<1>5. Spoiled' = Spoiled /\ RomKept /\ mode' # "uboot"
  <2>1. Spoiled' = Spoiled
    BY <1>1, <1>4 DEF Spoiled
  <2>2. QED BY <1>1, <1>4, <2>1 DEF RomKept, StageOneOK, RomSurvives, Asking
<1>6. CASE TakeUnits(<<Stub>>) /\ pc' = "window" /\ UNCHANGED <<result, faulty>>
  <2>1. ImageAtPc' /\ TriesOK'
    BY <1>1, <1>6, HostAssumption DEF Asking, ImageAtPc, TriesOK, Running, StubPcs, Requests
  <2>2. ImageInPlace' /\ StubInPlace'
    BY <1>1, <1>4, <1>6 DEF ImageInPlace, StubInPlace
  <2>3. QED
    BY <1>0, <1>1, <1>5, <1>6, <2>1, <2>2, GoesOnKeeps, HostAssumption
       DEF Calls, Requests, Flagged, Ranges
<1>7. CASE FailWith("PROTOCOL") /\ faulty' = TRUE
  BY <1>0, <1>1, <1>5, <1>7, FailsKeeps DEF Flagged
<1>8. QED BY <1>6, <1>7 DEF SendStub

\* k units of a chunk of an image, on their way.
Moving(k) ==
  /\ pc = "data" /\ image \in {"spl", "uboot"} /\ k \in 0 .. left
  /\ mode = "rom" \/ k = 0
  /\ TakeUnits(Slice(k))
  /\ UNCHANGED <<front, how, seen, image, size, runs, unpadded, stubbed>>

\* What the ROM holds after them is the image up to where they end, if it was the image
\* up to where they begin.
LEMMA MovingIs ==
  ASSUME IInv, NEW k, Moving(k)
  PROVE  /\ UNCHANGED <<soc, mode, addr, len, used, ddr>> /\ RomTypeOK' /\ mode' # "uboot"
         /\ k \in Nat /\ offset \in Nat /\ left \in Nat /\ size \in Nat
         /\ k <= left /\ offset + left <= size
         /\ addr = Area /\ Area' = Area
         /\ \/ partial
            \/ image = "uboot" /\ ~ddr
            \/ mem'[Area] = Prefix(ImageSize[image], offset + k)
         /\ image = "spl" => mem'["sram"] # <<Stub>>
<1> USE DEF IInv
<1> DEFINE m == ImageSize[image]
<1>0. RomTypeOK /\ Ranges /\ Flagged
  BY TypeParts
<1>1. /\ pc = "data" /\ image \in {"spl", "uboot"} /\ image' = image
      /\ UNCHANGED <<soc, mode, addr, len, used, ddr>>
  BY DEF Moving, TakeUnits
<1>2. /\ k \in Nat /\ offset \in Nat /\ left \in Nat /\ size \in Nat
      /\ k <= left /\ offset + left <= size
  BY <1>0, <1>1, HostAssumption DEF Moving, Ranges
<1>3. m \in Nat /\ m \in {SplSize, UbootSize} /\ Padded(m) \in Nat /\ m <= Padded(m)
  BY <1>1, ImageAssumption, PaddedIs DEF ImageSize
<1>4. addr = Area /\ Area' = Area /\ Area \in Areas /\ (image = "spl" => Area = "sram")
      /\ (Area = "dram" => image = "uboot") /\ mode # "uboot"
  BY <1>1 DEF ImageInPlace, Area, Areas, StageOneOK
<1>5. offset + k \in Nat /\ offset + k <= Padded(m)
  BY <1>1, <1>2, <1>3 DEF ImageInPlace
<1> HIDE DEF m
<1>6. Slice(k) = Cut(m, offset, k)
  BY <1>1 DEF Slice, Cut, m
<1>7. Slice(k) \in Seq(Int) /\ Len(Slice(k)) = k
      /\ Prefix(m, offset) \o Slice(k) = Prefix(m, offset + k)
  <2>1. \A a, n, j \in Nat :
          /\ Cut(a, n, j) \in Seq(Int) /\ Len(Cut(a, n, j)) = j
          /\ Prefix(a, n) \o Cut(a, n, j) = Prefix(a, n + j)
    BY PrefixGrows, Zenon
  <2>2. m \in Nat /\ offset \in Nat /\ k \in Nat
    BY <1>2, <1>3
  <2>3. /\ Cut(m, offset, k) \in Seq(Int) /\ Len(Cut(m, offset, k)) = k
        /\ Prefix(m, offset) \o Cut(m, offset, k) = Prefix(m, offset + k)
    BY <2>1, <2>2, Zenon
  <2>4. QED BY <1>6, <2>3, Zenon
<1>8. \A i \in 1 .. Len(Slice(k)) : Slice(k)[i] # Stub
  BY <1>2, <1>6, <1>7 DEF Cut, Pad, Stub
<1>9. mem \in [Areas -> Seq(Int)] /\ mem[Area] \in Seq(Int)
  BY <1>0, <1>4 DEF RomTypeOK
<1>10. /\ Joined(mem[Area], Slice(k)) \in Seq(Int)
       /\ mem[Area] # <<Stub>> => Joined(mem[Area], Slice(k)) # <<Stub>>
  BY <1>7, <1>8, <1>9, JoinedIs
<1>11. mem' = IF Area = "dram" /\ ~ddr THEN mem
              ELSE [mem EXCEPT ![Area] = Joined(mem[Area], Slice(k))]
  BY <1>4 DEF Moving, TakeUnits
<1>12. mem' \in [Areas -> Seq(Int)]
       /\ (~(Area = "dram" /\ ~ddr) => mem'[Area] = Joined(mem[Area], Slice(k)))
  BY <1>4, <1>9, <1>10, <1>11
<1>13. marker' \in BOOLEAN
  BY DEF Moving, TakeUnits
<1>14. RomTypeOK'
  BY <1>0, <1>1, <1>12, <1>13 DEF RomTypeOK
<1>15. ASSUME ~partial, ~(image = "uboot" /\ ~ddr) PROVE mem'[Area] = Prefix(m, offset + k)
  <2>1. mem[Area] = Prefix(m, offset)
    BY <1>1, <1>15 DEF ImageInPlace, m
  <2>2. mem[Area] \o Slice(k) = Prefix(m, offset + k)
    BY <1>7, <2>1
  <2>3. Joined(mem[Area], Slice(k)) = Prefix(m, offset + k)
    <3> DEFINE held == mem[Area]
               data == Slice(k)
               n == offset + k
    <3>1. held \o data = Prefix(m, n) /\ n \in Nat /\ n <= Padded(m) /\ m \in {SplSize, UbootSize}
      BY <1>3, <1>5, <2>2
    <3> HIDE DEF held, data, n
    <3>2. Joined(held, data) = Prefix(m, n)
      BY <3>1, JoinedKeeps
    <3>3. QED BY <3>2 DEF held, data, n
  <2>4. QED BY <1>4, <1>12, <1>15, <2>3
<1>16. image = "spl" => mem'["sram"] # <<Stub>>
  BY <1>1, <1>4, <1>10, <1>12 DEF ImageInPlace
<1>17. QED BY <1>1, <1>2, <1>4, <1>14, <1>15, <1>16 DEF m

\* A bulk transfer keeps the invariant, whatever part of the chunk arrives and is
\* reported.
LEMMA TransferKeeps == IInv /\ Transfer => IInv'
<1>1. SUFFICES ASSUME IInv, Transfer PROVE IInv'
  OBVIOUS
<1> USE DEF IInv
<1>0. RomTypeOK /\ Ranges /\ Flagged
  BY <1>1, TypeParts
<1>2. pc = "data" /\ image \in {"spl", "uboot"} /\ Running
  BY <1>0, <1>1 DEF Transfer, Ranges, Running
<1>3. PICK k \in 0 .. left :
        /\ Moving(k)
        /\ \/ k > 0 /\ Sent(k) /\ faulty' = (faulty \/ k < left) /\ UNCHANGED partial
           \/ NotSent /\ faulty' = TRUE /\ partial' = (partial \/ k > 0)
  BY <1>1, <1>2, Zenon DEF Transfer, Moving, Sent, NotSent
<1>4. /\ UNCHANGED <<soc, mode, addr, len, used, ddr>> /\ RomTypeOK' /\ mode' # "uboot"
      /\ k \in Nat /\ offset \in Nat /\ left \in Nat /\ size \in Nat
      /\ k <= left /\ offset + left <= size
      /\ addr = Area /\ Area' = Area
      /\ \/ partial
         \/ image = "uboot" /\ ~ddr
         \/ mem'[Area] = Prefix(ImageSize[image], offset + k)
      /\ image = "spl" => mem'["sram"] # <<Stub>>
  BY <1>1, <1>3, MovingIs
<1>5. UNCHANGED <<front, how, seen, image, size, runs, unpadded, stubbed>>
  BY <1>3 DEF Moving
<1>6. faulty' \in BOOLEAN /\ partial' \in BOOLEAN /\ (partial => partial') /\ (faulty => faulty')
      /\ (partial' => faulty')
  <2>1. CASE faulty' = (faulty \/ k < left) /\ partial' = partial
    BY <1>0, <1>1, <1>2, <2>1 DEF Flagged, HistoryOK
  <2>2. CASE faulty' = TRUE /\ partial' = (partial \/ k > 0)
    BY <1>0, <2>2 DEF Flagged
  <2>3. QED BY <1>3, <2>1, <2>2
<1>7. CASE Sent(k)
  <2> DEFINE o == offset + k
  <2>1. /\ offset' = o /\ o \in 0 .. size /\ result' = result
        /\ \/ pc' = "data" /\ o < size
           \/ pc' = "exec" /\ image = "spl" /\ o = size
           \/ pc' = "flush" /\ image = "uboot" /\ o = size
    BY <1>2, <1>4, <1>7 DEF Sent
  <2>2. /\ left' \in 0 .. Chunk /\ offset' + left' <= size
        /\ tries' \in Nat /\ tries' < BulkTries /\ (o = size => tries' = 0)
    <3>1. CASE k = left \/ tries + 1 = BulkTries
      <4>1. tries' = 0 /\ left' = Least(Chunk, size - o)
        BY <1>7, <3>1 DEF Sent
      <4>2. size - o \in Nat
        BY <1>4
      <4>3. left' \in 0 .. Chunk /\ left' <= size - o
        BY <4>1, <4>2, HostAssumption DEF Least
      <4>4. QED BY <1>4, <2>1, <4>1, <4>3, HostAssumption
    <3>2. CASE k # left /\ tries + 1 # BulkTries
      <4>1. tries' = tries + 1 /\ left' = left - k
        BY <1>7, <3>2 DEF Sent
      <4>2. tries \in Nat /\ tries < BulkTries /\ left <= Chunk
        BY <1>0, <1>1, <1>2, HostAssumption DEF Ranges, TriesOK
      <4>3. QED BY <1>4, <2>1, <3>2, <4>1, <4>2, HostAssumption
    <3>3. QED BY <3>1, <3>2
  <2>3. TypeOK'
    <3>1. Ranges'
      <4>1. tries' \in 0 .. BulkTries + VendorTries
        BY <2>2, HostAssumption
      <4>2. offset' + left' <= size /\ offset' \in 0 .. size /\ left' \in 0 .. Chunk
        BY <2>1, <2>2
      <4>3. pc' \in Calls /\ result' = result
        BY <2>1 DEF Calls, Requests
      <4>4. QED BY <1>0, <1>4, <1>5, <4>1, <4>2, <4>3 DEF Ranges
    <3>2. Flagged'
      BY <1>0, <1>5, <1>6 DEF Flagged
    <3>3. QED BY <1>4, <3>1, <3>2, TypePartsNext
  <2> HIDE DEF o
  <2>4. ImageAtPc' /\ TriesOK'
    BY <1>2, <1>5, <2>1, <2>2, HostAssumption
       DEF ImageAtPc, TriesOK, Running, SplPcs, UbootPcs, Requests
  <2>5. ImageInPlace'
    <3>1. \/ size = Padded(ImageSize[image])
          \/ unpadded /\ size = ImageSize[image]
      BY <1>1, <1>2 DEF ImageInPlace
    <3>2. partial => partial'
      BY <1>6
    <3>3. addr' = Area'
      BY <1>4
    <3>4. QED BY <1>2, <1>4, <1>5, <2>1, <3>1, <3>2, <3>3 DEF ImageInPlace, o
  <2>6. StubInPlace'
    BY <1>2, <1>5 DEF StubInPlace
  <2>7. StageOneOK' /\ HistoryOK' /\ RomSurvives' /\ CleanBootSucceeds'
    BY <1>1, <1>2, <1>4, <1>5, <1>6, <2>1
       DEF StageOneOK, HistoryOK, RomSurvives, CleanBootSucceeds, Running, Spoiled
  <2>8. QED BY <2>3, <2>4, <2>5, <2>6, <2>7
<1>8. CASE /\ NotSent /\ faulty' = TRUE /\ partial' = (partial \/ k > 0)
  <2>1. /\ UNCHANGED <<offset, left>>
        /\ \/ pc' = "data" /\ result' = result /\ tries' = tries + 1 /\ tries + 1 < BulkTries
           \/ pc' = "done" /\ result' \in {"TIMEOUT", "TRANSFER_FAILED"} /\ tries' = 0
    BY <1>2, <1>8 DEF NotSent, Finish
  <2>2. TypeOK'
    <3>1. Ranges'
      BY <1>0, <1>4, <1>5, <2>1, HostAssumption DEF Ranges, Calls
    <3>2. Flagged'
      BY <1>0, <1>5, <1>6 DEF Flagged
    <3>3. QED BY <1>4, <3>1, <3>2, TypePartsNext
  <2>3. ImageAtPc' /\ TriesOK'
    BY <1>1, <1>2, <1>5, <2>1, HostAssumption
       DEF ImageAtPc, TriesOK, Running, SplPcs, UbootPcs, Requests
  <2>4. ImageInPlace'
    <3>1. \/ size = Padded(ImageSize[image])
          \/ unpadded /\ size = ImageSize[image]
      BY <1>1, <1>2 DEF ImageInPlace
    <3>2. \/ partial'
          \/ image = "uboot" /\ ~ddr
          \/ mem'[Area] = Prefix(ImageSize[image], offset)
      <4>1. CASE k = 0
        <5>1. offset + k = offset
          BY <1>4, <4>1
        <5>2. QED BY <1>4, <1>6, <5>1
      <4>2. CASE k > 0
        BY <1>8, <4>2
      <4>3. QED BY <1>4, <4>1, <4>2
    <3>3. addr' = Area'
      BY <1>4
    <3>4. QED BY <1>2, <1>4, <1>5, <2>1, <3>1, <3>2, <3>3 DEF ImageInPlace
  <2>5. StubInPlace'
    BY <1>2, <1>5 DEF StubInPlace
  <2>6. StageOneOK' /\ HistoryOK' /\ RomSurvives' /\ CleanBootSucceeds'
    BY <1>1, <1>2, <1>4, <1>5, <1>6, <1>8, <2>1
       DEF StageOneOK, HistoryOK, RomSurvives, CleanBootSucceeds, Running, Spoiled
  <2>7. QED BY <2>2, <2>3, <2>4, <2>5, <2>6
<1>9. QED BY <1>3, <1>7, <1>8

-----------------------------------------------------------------------------
(* The theorems.                                                           *)

\* Power is on and nothing is loaded.
LEMMA InitHolds == Init => IInv
<1>1. SUFFICES ASSUME Init PROVE IInv
  OBVIOUS
<1>2. RomTypeOK
  <2>1. << >> \in Seq(Int)
    OBVIOUS
  <2>2. QED BY <1>1, <2>1 DEF Init, RomTypeOK, Areas
<1>3. Ranges /\ Flagged
  <2>1. Ranges
    BY <1>1, HostAssumption DEF Init, Ranges, Calls
  <2>2. Flagged
    BY <1>1 DEF Init, Flagged
  <2>3. QED BY <2>1, <2>2
<1>4. ImageAtPc /\ TriesOK /\ ImageInPlace /\ StubInPlace
  BY <1>1 DEF Init, ImageAtPc, TriesOK, ImageInPlace, StubInPlace, Running, Requests
<1>5. StageOneOK /\ HistoryOK /\ RomSurvives /\ CleanBootSucceeds
  BY <1>1 DEF Init, StageOneOK, HistoryOK, RomSurvives, CleanBootSucceeds, Running
<1>6. QED BY <1>2, <1>3, <1>4, <1>5, TypeParts DEF IInv

\* Nothing happens in a step that changes no variable.
LEMMA StutterKeeps == IInv /\ UNCHANGED vars => IInv'
<1>1. SUFFICES ASSUME IInv, UNCHANGED vars PROVE IInv'
  OBVIOUS
<1> USE DEF vars, romVars, hostVars, IInv
<1>2. TypeOK' /\ ImageAtPc' /\ TriesOK'
  <2>1. RomTypeOK' /\ Ranges' /\ Flagged'
    <3>1. RomTypeOK /\ Ranges /\ Flagged
      BY <1>1, TypeParts
    <3>2. RomTypeOK'
      BY <1>1, <3>1 DEF RomTypeOK
    <3>3. Ranges'
      BY <1>1, <3>1 DEF Ranges
    <3>4. Flagged'
      BY <1>1, <3>1 DEF Flagged
    <3>5. QED BY <3>2, <3>3, <3>4
  <2>2. QED BY <1>1, <2>1, TypePartsNext DEF ImageAtPc, TriesOK, Running
<1>3. ImageInPlace' /\ StubInPlace' /\ StageOneOK' /\ HistoryOK'
  BY <1>1 DEF ImageInPlace, StubInPlace, StageOneOK, HistoryOK, Area, Running, Spoiled
<1>4. RomSurvives' /\ CleanBootSucceeds'
  BY <1>1 DEF RomSurvives, CleanBootSucceeds, Spoiled
<1>5. QED BY <1>2, <1>3, <1>4

\* Every step of the host, the bus and the world keeps the invariant.
LEMMA NextKeeps == IInv /\ [Next]_vars => IInv'
<1>1. SUFFICES ASSUME IInv, [Next]_vars PROVE IInv'
  OBVIOUS
<1>2. CASE HostStep
  BY <1>1, <1>2, DetectKeeps, LoadFilesKeeps, PadsKeeps, VendorKeeps, ClaimKeeps, TransferKeeps,
     SendStubKeeps, ReadResultsKeeps DEF HostStep
<1>3. CASE Begin \/ Interrupt \/ PowerCycle
  BY <1>1, <1>3, BeginKeeps, InterruptKeeps, PowerCycleKeeps
<1>4. CASE UNCHANGED vars
  BY <1>1, <1>4, StutterKeeps
<1>5. QED BY <1>1, <1>2, <1>3, <1>4 DEF Next

\* Every reachable state satisfies the inductive invariant.
THEOREM BootInvariant == Spec => []IInv
BY InitHolds, NextKeeps, PTL DEF Spec

\* The host's and the ROM's variables keep to their ranges for images, chunks and
\* numbers of attempts of any size; no chunk reaches past the end of its image.
THEOREM BootTypeOK == Spec => []TypeOK
<1>1. IInv => TypeOK
  BY DEF IInv
<1>2. QED BY <1>1, BootInvariant, PTL

\* What bootstrap_transfer_data counts as written is what the memory holds, in order and
\* without a gap, however chunks were cut and repeated.
THEOREM BootSentIsStored == Spec => []SentIsStored
<1>1. IInv => SentIsStored
  <2>1. SUFFICES ASSUME IInv, pc = "data", image # "stub", ~partial, image = "uboot" => ddr
                 PROVE  mem[Area] = [i \in 1 .. offset |-> IF i <= ImageSize[image] THEN i ELSE Pad]
    BY DEF SentIsStored
  <2>2. mem[Area] = Prefix(ImageSize[image], offset)
    BY <2>1 DEF IInv, ImageInPlace
  <2>3. QED BY <2>2 DEF Prefix
<1>2. QED BY <1>1, BootInvariant, PTL

\* The ROM is sent into a first stage or a U-Boot only if that is whole, under any loss,
\* retry, interruption or number of runs, but for the three exceptions the code has.
THEOREM BootRomSurvives == Spec => []RomSurvives
<1>1. IInv => RomSurvives
  BY DEF IInv
<1>2. QED BY <1>1, BootInvariant, PTL

\* A run in which nothing goes wrong starts U-Boot, whatever earlier runs left in the ROM.
THEOREM BootCleanBootSucceeds == Spec => []CleanBootSucceeds
<1>1. IInv => CleanBootSucceeds
  BY DEF IInv
<1>2. QED BY <1>1, BootInvariant, PTL
=============================================================================
