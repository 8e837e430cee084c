--------------------------- MODULE NodeDescriptor ---------------------------
(***************************************************************************)
(* The node descriptor: what the host survey reads (survey.rs), how every  *)
(* reading is scrubbed, redacted and cut to the pallet's bounds, and the   *)
(* payload build_descriptor_payload files, or its refusal (readiness.rs).  *)
(*                                                                         *)
(* A text is the widths in bytes of its characters, 0 for one that scrub   *)
(* drops (control, white space, invisible), with the shape of a credential *)
(* it may carry.                                                           *)
(***************************************************************************)
EXTENDS Integers, Sequences, FiniteSets, SequencesExt, FiniteSetsExt, Listing

CONSTANTS
  Hosts,             \* hosts the survey may find
  Operators,         \* the operator's part of the descriptor
  MaxBytes,          \* the pallet's bound on a string field
  MAX_GPUS, MAX_RPC_ENDPOINTS,
  MaxU32             \* u32::MAX

None == [none |-> TRUE]
NoNumber == -1
Ones(n) == [i \in 1 .. n |-> 1]
Text(chars) == [chars |-> chars, shape |-> "plain", run |-> 0]
UNKNOWN == Text(Ones(7))
REDACTED == Text(Ones(8))
PYTHON_UNKNOWN == Text(Ones(6))

(***************************************************************************)
(* What the survey may find, each reading a text or nothing, each count a  *)
(* number or nothing.                                                      *)
(***************************************************************************)
Texts == [chars : Seq(Nat), shape : {"plain", "needle", "assigned", "AKIA", "token"}, run : Nat]
Readings == Texts \union {None}
Counts == Nat \union {NoNumber}
Gpus == [vendor : Texts, name : Texts, utilization : Counts]

ASSUME DescriptorConstants ==
  /\ Hosts \subseteq [thread : {"answers", "not_started", "late", "panicked"},
                     macos : BOOLEAN, apple : BOOLEAN, os : Texts, release : Readings,
                     machine : Readings, brand : Readings, board : Readings, arch : Texts,
                     logical : Counts, cpu_dirs : Nat, physical : Counts, memory : Counts,
                     gpus : Seq(Gpus), displays : Seq(Gpus), python : Seq(Readings),
                     image : Readings]
  /\ Operators \subseteq [node_name : Readings, node_id : Readings, public_host : Readings,
                         port : Nat, endpoints : Seq(Texts), miners : Nat]
  /\ MaxBytes \in Nat /\ MaxBytes >= Len(REDACTED.chars)
  /\ MAX_GPUS \in Nat /\ MAX_RPC_ENDPOINTS \in Nat /\ MaxU32 \in Nat

\* where a character may end: the widths up to each one
Offsets(chars) ==
  LET upto[k \in 0 .. Len(chars)] == IF k = 0 THEN 0 ELSE upto[k - 1] + chars[k] IN upto

Bytes(chars) == Offsets(chars)[Len(chars)]
Boundaries(chars) == {Offsets(chars)[k] : k \in 0 .. Len(chars)}

\* gaps collapse to one space between two characters, none at either end
scrub(chars) ==
  LET out[k \in 0 .. Len(chars)] ==
        IF k = 0 THEN <<>>
        ELSE IF chars[k] = 0 THEN out[k - 1]
        ELSE out[k - 1] \o (IF k > 1 /\ chars[k - 1] = 0 /\ out[k - 1] # <<>> THEN <<1>> ELSE <<>>)
               \o <<chars[k]>>
  IN  out[Len(chars)]

\* a secret's name, a name with a value of 8 bytes or more, or a long token body
looks_like_credential(text) ==
  \/ text.shape = "needle"
  \/ text.shape = "assigned" /\ text.run >= 8
  \/ text.shape = "AKIA" /\ text.run >= 16
  \/ text.shape = "token" /\ text.run >= 20

\* the cut in bytes: a byte count that splits a character
clamp_bytes(chars, max) == Min({Bytes(chars), max})

\* the cut in bytes, walked back to the last character boundary
clamp_utf8(chars, max) == Max({b \in Boundaries(chars) : b <= max})

Field(chars, bytes, text) ==
  [bytes |-> bytes, whole |-> bytes \in Boundaries(chars), secret |-> looks_like_credential(text)]

bounded(text) ==
  LET chars == scrub(text.chars) IN
  IF looks_like_credential(text) THEN Field(REDACTED.chars, Len(REDACTED.chars), REDACTED)
  ELSE Field(chars, clamp_utf8(chars, MaxBytes), text)

bounded_nonempty(text) ==
  IF bounded(text).bytes = 0 THEN Field(UNKNOWN.chars, Len(UNKNOWN.chars), UNKNOWN)
  ELSE bounded(text)
-----------------------------------------------------------------------------
(***************************************************************************)
(* The probes. Each reading of a host may be missing.                      *)
(***************************************************************************)
\* white space is cut at both ends only, and every character counts at least a byte
trim(chars) ==
  LET kept == {i \in DOMAIN chars : chars[i] # 0} IN
  IF kept = {} THEN <<>>
  ELSE [i \in 1 .. Max(kept) - Min(kept) + 1 |-> Max({1, chars[Min(kept) + i - 1]})]

OrEmpty(reading) == IF reading = None THEN Text(<<>>) ELSE reading
FitsU32(n) == IF n > MaxU32 THEN NoNumber ELSE n
NonZero(n) == IF n = 0 THEN NoNumber ELSE n
Taken(s, n) == SubSeq(s, 1, Min({Len(s), n}))

\* the first reading that is there
FirstOf(readings) ==
  LET there == {i \in DOMAIN readings : readings[i] # None}
  IN  IF there = {} THEN None ELSE readings[Min(there)]

\* a file, or None when it is missing or blank
read_trimmed(reading) ==
  IF reading = None \/ trim(reading.chars) = <<>> THEN None
  ELSE [reading EXCEPT !.chars = trim(@)]

os_release(host) == IF host.macos THEN host.release ELSE read_trimmed(host.release)

\* the OS's spelling on macOS, the build's elsewhere
os_machine(host) == IF host.macos /\ host.machine # None THEN host.machine ELSE host.arch

\* cpuinfo names no model on ARM: then the board of the device tree
cpu_brand(host) ==
  IF host.macos THEN host.brand ELSE FirstOf(<<read_trimmed(host.brand), read_trimmed(host.board)>>)

\* the cores the process may use, or the CPU directories when nobody says
logical_cores(host) ==
  IF host.logical # NoNumber THEN FitsU32(host.logical) ELSE NonZero(host.cpu_dirs)

\* on Linux the distinct sibling groups, none when no CPU lists its own
physical_cores(host) == IF host.macos THEN host.physical ELSE NonZero(host.physical)

memory_mb(host) == FitsU32(host.memory)

\* the first interpreter that answers with a version
python_version(host) ==
  IF FirstOf(host.python) = None THEN PYTHON_UNKNOWN ELSE FirstOf(host.python)

\* a line without a name is skipped
nvidia_gpus(host) ==
  Picked(host.gpus, {i \in DOMAIN host.gpus : trim(host.gpus[i].name.chars) # <<>>})

\* the profiler's devices, or on Apple silicon the die itself
macos_gpus(host) ==
  LET listed == Picked(host.displays, {i \in DOMAIN host.displays : host.displays[i].name.chars # <<>>})
      die == [vendor |-> Text(Ones(5)), utilization |-> NoNumber,
              name |-> [OrEmpty(host.brand) EXCEPT !.chars = @ \o <<0, 1, 1, 1>>]]
  IN  IF ~host.macos THEN <<>>
      ELSE IF listed # <<>> THEN listed
      ELSE IF host.apple /\ host.brand # None THEN <<die>> ELSE <<>>

docker_image(host) == read_trimmed(host.image)

probe(host) ==
  [os |-> host.os, arch |-> host.arch, release |-> OrEmpty(os_release(host)),
   machine |-> os_machine(host), brand |-> OrEmpty(cpu_brand(host)),
   logical |-> logical_cores(host), physical |-> physical_cores(host),
   memory |-> memory_mb(host),
   gpus |-> Taken(nvidia_gpus(host) \o macos_gpus(host), MAX_GPUS),
   python |-> python_version(host), image |-> docker_image(host)]

sanitize_gpu(gpu) ==
  [vendor |-> bounded_nonempty(gpu.vendor), name |-> bounded_nonempty(gpu.name),
   utilization |-> Min({gpu.utilization, 100})]

sanitize(raw) ==
  [system |->
     [os |-> bounded_nonempty(raw.os), release |-> bounded(raw.release),
      machine |-> bounded(raw.machine), brand |-> bounded_nonempty(raw.brand),
      arch |-> bounded_nonempty(raw.arch), memory |-> raw.memory, logical |-> raw.logical,
      physical |-> IF NoNumber \in {raw.physical, raw.logical} THEN raw.physical
                   ELSE Min({raw.physical, raw.logical}),
      gpus |-> [i \in DOMAIN Taken(raw.gpus, MAX_GPUS) |-> sanitize_gpu(raw.gpus[i])]],
   runtime |->
     [python |-> bounded_nonempty(raw.python),
      image |-> IF raw.image = None \/ bounded(raw.image).bytes = 0 THEN None
                ELSE bounded(raw.image)]]

\* the probe thread does not start, misses the budget, unwinds, or answers
collect(host) == IF host.thread = "answers" THEN sanitize(probe(host)) ELSE None
-----------------------------------------------------------------------------
InBound(field) == field.bytes <= MaxBytes
Required(field) == field.bytes > 0 /\ InBound(field)

fits_pallet_bounds(info) ==
  /\ \A f \in {info.os, info.brand, info.arch} : Required(f)
  /\ \A f \in {info.release, info.machine} : InBound(f)
  /\ Len(info.gpus) <= MAX_GPUS
  /\ \A i \in DOMAIN info.gpus :
       /\ Required(info.gpus[i].vendor) /\ Required(info.gpus[i].name)
       /\ info.gpus[i].utilization <= 100

runtime_fits_pallet_bounds(info) ==
  Required(info.python) /\ (info.image # None => Required(info.image))

\* an operator's string is trimmed; a blank one counts as missing, and its default fits
Trimmed(text) == IF text = None THEN 0 ELSE Bytes(trim(text.chars))

\* the values build_descriptor_payload refuses to file
TooLong(op) == \E text \in {op.node_name, op.node_id, op.public_host} : Trimmed(text) > MaxBytes
Describable(op) == ~TooLong(op) /\ op.miners > 0

\* the first MAX_RPC_ENDPOINTS of the list, less the blank and the long ones
Endpoints(op) ==
  LET sizes == [i \in DOMAIN Taken(op.endpoints, MAX_RPC_ENDPOINTS) |-> Trimmed(op.endpoints[i])]
  IN  Picked(sizes, {i \in DOMAIN sizes : sizes[i] > 0 /\ sizes[i] <= MaxBytes})

build_descriptor_payload(op, survey) ==
  IF ~Describable(op) THEN None
  ELSE [endpoints |-> Endpoints(op), miners |-> op.miners,
        port |-> NonZero(op.port),
        system |-> IF survey # None /\ fits_pallet_bounds(survey.system)
                   THEN survey.system ELSE None,
        runtime |-> IF survey # None /\ runtime_fits_pallet_bounds(survey.runtime)
                    THEN survey.runtime ELSE None]
-----------------------------------------------------------------------------
\* every text field of a survey
TextFields(survey) ==
  {survey.system.os, survey.system.release, survey.system.machine, survey.system.brand,
   survey.system.arch, survey.runtime.python}
  \union (IF survey.runtime.image = None THEN {} ELSE {survey.runtime.image})
  \union UNION {{g.vendor, g.name} : g \in ToSet(survey.system.gpus)}

(***************************************************************************)
(* Whatever the host answers, the survey costs at most itself: a           *)
(* descriptor is filed whenever the operator's own values can be, it       *)
(* carries the hardware block exactly when the probe thread answered       *)
(* (sanitize never yields a block that the last gate drops, so one odd     *)
(* reading does not cost the rest), and no text in it splits a character   *)
(* or has the shape of a credential. One payload the pallet cannot decode  *)
(* latches the descriptor off for the whole process.                       *)
(***************************************************************************)
DescriptorFits ==
  \A host \in Hosts :
    LET survey == collect(host) IN
    /\ survey # None =>
         /\ \A f \in TextFields(survey) : f.whole /\ ~f.secret
         /\ NoNumber \notin {survey.system.physical, survey.system.logical}
              => survey.system.physical <= survey.system.logical
    /\ \A op \in Operators :
         LET payload == build_descriptor_payload(op, survey) IN
         /\ (payload # None) = Describable(op)
         /\ payload # None =>
              /\ (payload.system # None) = (host.thread = "answers")
              /\ (payload.runtime # None) = (host.thread = "answers")
              /\ Len(payload.endpoints) <= MAX_RPC_ENDPOINTS
=============================================================================
