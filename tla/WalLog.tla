------------------------------- MODULE WalLog -------------------------------
(***************************************************************************)
(* The write-ahead log as a file of bytes (src/wal/record.rs, writer.rs    *)
(* and reader.rs): the writer appends encoded records, a crash or a failed *)
(* append leaves any prefix of them, and the reader decodes whatever it    *)
(* finds.  Module Lsm takes from here that a log is a sequence of records  *)
(* some of which are torn (ReplayExact and RefusedOnlyIfDamaged below).    *)
(*                                                                         *)
(* A cell is a field of the format or one byte of a key or value.  A cell  *)
(* knows the record it was written for, and a CRC matches exactly when the *)
(* cells behind it are the ones it was computed from.  A length field that *)
(* is read from other bytes than a length of its kind may be any number.   *)
(*                                                                         *)
(* LimitExcluded, AnyCrc, OneTooFar and NoSync are deliberately wrong      *)
(* variants of the operators they stand above; PROJECT.json pairs each     *)
(* with the property that must notice the difference.                      *)
(***************************************************************************)
EXTENDS Naturals, Sequences, FiniteSetsExt, Functions

CONSTANTS
    MAX_KEY_LEN, MAX_VALUE_LEN,
    KeyLens, ValueLens,  \* the lengths clients use
    ZeroFill,            \* may a crash leave zeros where unsynced bytes were?
    MaxOps, MaxCrashes, MaxFails   \* bounds of the instance

Kinds == {"Put", "Vector", "Delete"}
FILE_HEADER_LEN == 2  \* magic, version
HEADER_LEN == 4       \* CRC, kind, key_len, value_len

Record(kind, kl, vl, id) == [kind |-> kind, key_len |-> kl, value_len |-> vl, id |-> id]
Records == [kind : Kinds, key_len : Nat, value_len : Nat, id : Nat]
NoRecord == [kind |-> "none", key_len |-> 0, value_len |-> 0, id |-> 0]
Cell(type, rec, n) == [type |-> type, rec |-> rec, n |-> n]
Cells == [type : {"magic", "version", "crc", "kind", "key_len", "value_len", "byte", "zero"},
          rec : Records \cup {NoRecord}, n : Nat]
Chunks == [rec : Records \cup {NoRecord}, at : Nat, size : Nat, ok : BOOLEAN]
Steps == {"Down", "Header", "HeaderSync", "HeaderDir", "Reading", "Done", "Up", "Corrupt"}

ASSUME WalAssumption ==
    /\ MAX_KEY_LEN \in Nat /\ MAX_VALUE_LEN \in Nat
    /\ KeyLens \subseteq Nat /\ ValueLens \subseteq Nat
    /\ ZeroFill \in BOOLEAN
    /\ MaxOps \in Nat /\ MaxCrashes \in Nat /\ MaxFails \in Nat

VARIABLES
    pc,
    exists, file,  \* wal.log as the process sees it
    synced,        \* the number of its cells that are durable
    offset, out,   \* WalReader: next cell to read; the records yielded so far
    log,           \* ghost: what each append left in the file, in order
    acked,         \* ghost: the records whose sync has returned
    ops, crashes, fails

disk == <<exists, file, synced>>
reader == <<offset, out>>
ghosts == <<log, acked>>
bounds == <<ops, crashes, fails>>
vars == <<pc, disk, reader, ghosts, bounds>>

-----------------------------------------------------------------------------
(* The record codec                                                        *)

Header == <<Cell("magic", NoRecord, 0), Cell("version", NoRecord, 0)>>

\* encode refuses an empty key, a length above its maximum, and a delete
\* with a value.
Encodable(kind, kl, vl) == /\ kl > 0 /\ kl <= MAX_KEY_LEN /\ vl <= MAX_VALUE_LEN
                           /\ kind = "Delete" => vl = 0

encode(r) == <<Cell("crc", r, 0), Cell("kind", r, 0),
               Cell("key_len", r, r.key_len), Cell("value_len", r, r.value_len)>>
               \o [i \in 1 .. r.key_len + r.value_len |-> Cell("byte", r, i)]

\* What a u32 length field may read as, when the given cell is in its place.
Lengths(cell, field, max) ==
    CASE cell.type = field -> {cell.n}
      [] cell.type = "zero" -> {0}
      [] OTHER -> 0 .. max + 1

AnyCrc(off, total) == TRUE
CrcMatches(off, total) ==
    /\ file[off + 1].type = "crc"
    /\ SubSeq(file, off + 2, off + total) = Tail(encode(file[off + 1].rec))

LimitExcluded(kl, vl) == kl < MAX_KEY_LEN /\ vl < MAX_VALUE_LEN
WithinLimits(kl, vl) == kl <= MAX_KEY_LEN /\ vl <= MAX_VALUE_LEN

\* decode at off, whose length fields read kl and vl, in the code's order.
decode(off, kl, vl) ==
    LET total == HEADER_LEN + kl + vl
    IN  CASE kl = 0 -> "EmptyKey"
          [] kl > 0 /\ ~WithinLimits(kl, vl) -> "LengthExceedsMax"
          [] kl > 0 /\ WithinLimits(kl, vl) /\ off + total > Len(file) -> "Truncated"
          [] OTHER -> CASE ~CrcMatches(off, total) -> "BadCrc"
                        [] CrcMatches(off, total) /\ file[off + 2].type # "kind" -> "BadKind"
                        [] OTHER -> IF file[off + 2].rec.kind = "Delete" /\ vl > 0
                                    THEN "UnexpectedDeleteValue" ELSE "Ok"

-----------------------------------------------------------------------------
(* WalWriter                                                               *)

Goto(step) == pc' = step

\* WalWriter::open on a missing or empty file: create, write the header,
\* sync, sync the directory.  An error leaves no writer.
Create ==
    /\ pc = "Down" /\ ~exists
    /\ exists' = TRUE
    /\ Goto("Header")
    /\ UNCHANGED <<file, synced, reader, ghosts, bounds>>

WriteHeader ==
    /\ pc = "Header"
    /\ \/ file' = Header /\ Goto("HeaderSync") /\ UNCHANGED fails
       \/ /\ fails < MaxFails /\ fails' = fails + 1
          /\ \E n \in 0 .. FILE_HEADER_LEN : file' = SubSeq(Header, 1, n)
          /\ Goto("Down")
    /\ UNCHANGED <<exists, synced, reader, ghosts, ops, crashes>>

SyncHeader ==
    /\ pc = "HeaderSync"
    /\ synced' = Len(file)
    /\ Goto("HeaderDir")
    /\ UNCHANGED <<exists, file, reader, ghosts, bounds>>

SyncParent ==
    /\ pc = "HeaderDir"
    /\ Goto("Up")
    /\ UNCHANGED <<disk, reader, ghosts, bounds>>

\* On an existing file the writer appends behind whatever is there.
OpenWriter ==
    /\ pc = "Done"
    /\ Goto("Up")
    /\ offset' = 0 /\ out' = <<>>
    /\ UNCHANGED <<disk, ghosts, bounds>>

\* append: n cells of the encoded record reach the file; less than all of
\* them is an error, after which the writer goes on being used.
append(kind, kl, vl) ==
    LET r == Record(kind, kl, vl, ops + 1)
        whole == Len(encode(r))
    IN  /\ pc = "Up" /\ ops < MaxOps /\ Encodable(kind, kl, vl)
        /\ \E n \in 0 .. whole :
              /\ file' = file \o SubSeq(encode(r), 1, n)
              /\ n = whole \/ fails < MaxFails
              /\ fails' = IF n = whole THEN fails ELSE fails + 1
              /\ log' = IF n = 0 THEN log
                        ELSE Append(log, [rec |-> r, at |-> Len(file), size |-> n, ok |-> n = whole])
        /\ ops' = ops + 1
        /\ UNCHANGED <<pc, exists, synced, reader, acked, crashes>>

NoSync == synced
SyncedLen == Len(file)

sync ==
    /\ pc = "Up"
    /\ synced' = SyncedLen
    /\ acked' = acked \cup {log[i].rec : i \in {j \in DOMAIN log : log[j].ok}}
    /\ UNCHANGED <<pc, exists, file, reader, log, bounds>>

-----------------------------------------------------------------------------
(* WalReader, as replay_wal drives it                                      *)

HeaderValid == Len(file) >= FILE_HEADER_LEN /\ SubSeq(file, 1, FILE_HEADER_LEN) = Header

OpenReader ==
    /\ pc = "Down" /\ exists
    /\ Goto(IF HeaderValid THEN "Reading" ELSE "Corrupt")
    /\ offset' = FILE_HEADER_LEN /\ out' = <<>>
    /\ UNCHANGED <<disk, ghosts, bounds>>

OneTooFar(off, total) == off + total + 1
Advanced(off, total) == off + total

\* next_record: the end of the file and a tail too short for its record are
\* the end of the log; any other failure to decode ends the open.
next_record ==
    /\ pc = "Reading"
    /\ \/ Len(file) - offset < HEADER_LEN /\ Goto("Done") /\ UNCHANGED reader
       \/ /\ Len(file) - offset >= HEADER_LEN
          /\ \E kl \in Lengths(file[offset + 3], "key_len", MAX_KEY_LEN),
                vl \in Lengths(file[offset + 4], "value_len", MAX_VALUE_LEN) :
               CASE decode(offset, kl, vl) = "Ok" ->
                      /\ out' = Append(out, file[offset + 1].rec)
                      /\ offset' = Advanced(offset, HEADER_LEN + kl + vl)
                      /\ UNCHANGED pc
                 [] decode(offset, kl, vl) = "Truncated" -> Goto("Done") /\ UNCHANGED reader
                 [] OTHER -> Goto("Corrupt") /\ UNCHANGED reader
    /\ UNCHANGED <<disk, ghosts, bounds>>

-----------------------------------------------------------------------------
(* Crashes                                                                 *)

Dies == /\ pc \notin {"Down", "Corrupt"} /\ crashes < MaxCrashes
        /\ crashes' = crashes + 1
        /\ Goto("Down")
        /\ offset' = 0 /\ out' = <<>>
        /\ UNCHANGED <<acked, ops, fails>>

\* What is left of the appends when the file is cut behind its nth cell.
CutLog(n) ==
    LET cut(c) == IF c.at + c.size <= n THEN c ELSE [c EXCEPT !.size = n - c.at, !.ok = FALSE]
    IN  [i \in {j \in DOMAIN log : log[j].at < n} |-> cut(log[i])]
Zeros(n) == [i \in 1 .. n |-> Cell("zero", NoRecord, 0)]
ZeroChunk(n, z) == [rec |-> NoRecord, at |-> n, size |-> z, ok |-> FALSE]

\* Power fails: any unsynced suffix is gone, or reads as zeros; a file whose
\* directory entry was not synced may be gone altogether.
Crash ==
    /\ Dies
    /\ \/ \E n \in synced .. Len(file) :
             /\ file' = SubSeq(file, 1, n)
             /\ log' = CutLog(n)
             /\ UNCHANGED exists
       \/ \E n \in synced .. Len(file) - 1 :
             /\ ZeroFill
             /\ file' = SubSeq(file, 1, n) \o Zeros(Len(file) - n)
             /\ log' = Append(CutLog(n), ZeroChunk(n, Len(file) - n))
             /\ UNCHANGED exists
       \/ /\ pc \in {"Header", "HeaderSync", "HeaderDir"}
          /\ exists' = FALSE /\ file' = <<>> /\ log' = <<>>
    /\ synced' = Len(file')

\* Only the process dies: the file stays as it is, synced or not.
Kill == Dies /\ UNCHANGED <<disk, log>>

Init ==
    /\ pc = "Down"
    /\ exists = FALSE /\ file = <<>> /\ synced = 0
    /\ offset = 0 /\ out = <<>>
    /\ log = <<>> /\ acked = {}
    /\ ops = 0 /\ crashes = 0 /\ fails = 0

Next == \/ Create \/ WriteHeader \/ SyncHeader \/ SyncParent \/ OpenWriter
        \/ \E kind \in Kinds, kl \in KeyLens, vl \in ValueLens : append(kind, kl, vl)
        \/ sync \/ OpenReader \/ next_record
        \/ Crash \/ Kill

Spec == Init /\ [][Next]_vars

-----------------------------------------------------------------------------
(* Properties                                                              *)

\* Every variable has a value of its type; the reader and the durable length
\* never pass the end of the file.
TypeOK ==
    /\ pc \in Steps /\ exists \in BOOLEAN
    /\ file \in Seq(Cells) /\ synced \in 0 .. Len(file)
    /\ offset \in Nat /\ out \in Seq(Records)
    /\ pc \in {"Reading", "Done"} => offset <= Len(file)
    /\ log \in Seq(Chunks) /\ acked \subseteq Records
    /\ ops \in Nat /\ crashes \in Nat /\ fails \in Nat

\* The records in front of the first append that did not wholly survive.
Readable ==
    LET torn == {i \in DOMAIN log : ~log[i].ok}
    IN  [i \in 1 .. (IF torn = {} THEN Len(log) ELSE Min(torn) - 1) |-> log[i].rec]

\* Replay yields what was appended, in order and nothing else, whatever was
\* torn, zeroed or written behind a torn record; it never stops before the
\* first damaged record (WalReader::next_record, record::decode).
ReplayExact ==
    /\ pc \in {"Reading", "Corrupt"} =>
          Len(out) <= Len(Readable) /\ out = SubSeq(Readable, 1, Len(out))
    /\ pc = "Done" => out = Readable

\* A log is refused only when its header was never finished, or at a torn
\* record with bytes behind it or a tail of zeros, once all records in front
\* have been yielded: no record that encode accepted and that is wholly there
\* is ever the one refused.
RefusedOnlyIfDamaged ==
    LET next == Len(out) + 1
    IN  pc = "Corrupt" =>
            \/ ~HeaderValid
            \/ /\ next \in DOMAIN log /\ ~log[next].ok
               /\ next < Len(log) \/ log[next].rec = NoRecord

\* The record is in the file, whole, behind a damaged one.
BehindTear(r) == \E i, j \in DOMAIN log :
                     i < j /\ ~log[i].ok /\ log[j].ok /\ log[j].rec = r

\* A replay that comes to its end yields every record whose sync returned
\* (put's durability, WalWriter::sync), whatever crashes and failed appends
\* came after it, but for those appended behind a torn record; and these are
\* still in the file.
AckedReplayed ==
    pc = "Done" => \A r \in acked : r \in Range(out) \/ BehindTear(r)
=============================================================================
