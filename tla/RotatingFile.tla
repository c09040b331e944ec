---------------------------- MODULE RotatingFile -----------------------------
(***************************************************************************)
(* logging/rotating_file_sink.hpp: a log file that is moved aside to a     *)
(* numbered backup before a record would take it past its limit, the older *)
(* backups moving up by one and the oldest being deleted.                  *)
(*                                                                         *)
(* The sink's mutex makes each call one step for other threads, but not    *)
(* for a crash: every remove, rename and fopen of a rotation is a step, it *)
(* may fail, and the process may stop before the next one.  A record is    *)
(* its number, in the order of the calls of write; what fwrite was given   *)
(* and did not write through yet is in the buffer and dies with the        *)
(* process.                                                                *)
(***************************************************************************)
EXTENDS Naturals, Sequences, FiniteSets

Ext == INSTANCE SequencesExt

CONSTANTS MaxBackups,    \* bound: the largest max_files
          MaxBytes,      \* max_bytes
          Lengths,       \* the lengths that a formatted record may have
          MaxRecords,    \* bound: how many records are written
          MaxRotations,  \* bound: how many calls of force_rotate
          MaxFaults      \* bound: how many file operations fail and how often the process stops

\* What the constants must be; the modules that give them values assume it.
RotatingFileAssumption ==
  /\ MaxBackups \in Nat /\ MaxBytes \in Nat /\ Lengths \subseteq Nat \ {0}
  /\ MaxRecords \in Nat /\ MaxRotations \in Nat /\ MaxFaults \in Nat

VARIABLES
  maxFiles,   \* m_max_files
  disk,       \* the files on disk, 0 for the active file and n for backup n, or NoFile
  buffer,     \* the records that stdio holds for the active file
  open,       \* m_file is not null
  size,       \* m_current_size
  pc,         \* what the sink does next
  shift,      \* the backup that the next rename of a rotation makes
  incoming,   \* the record whose write made the sink rotate, or NoRecord
  lengths,    \* history: the length of each record
  failed,     \* history: a file operation failed in the last rotation
  rotations, faults   \* how many of each there were

config == <<maxFiles, lengths, rotations>>
handle == <<buffer, open, size>>
rotation == <<pc, shift, incoming, failed>>
vars == <<config, handle, rotation, disk, faults>>

NoRecord == 0
NoFile == << NoRecord >>
Files == 0..maxFiles

\* The size of records, one after the other: a byte is a place in one of them.
Bytes(records) ==
  Cardinality(UNION {{i} \X (1..lengths[records[i]]) : i \in 1..Len(records)})
Content(n) == IF disk[n] = NoFile THEN << >> ELSE disk[n]

Init ==
  /\ maxFiles \in 0..MaxBackups
  /\ disk = [n \in Files |-> NoFile]
  /\ buffer = << >> /\ open = FALSE /\ size = 0
  /\ pc = "down" /\ shift = 0 /\ incoming = NoRecord
  /\ lengths = << >>
  /\ failed = FALSE /\ rotations = 0 /\ faults = 0

\* A file operation does `done' or fails and changes nothing; both are one step.
Attempt(done) ==
  \/ disk' = done /\ UNCHANGED <<failed, faults>>
  \/ /\ faults < MaxFaults
     /\ faults' = faults + 1 /\ failed' = TRUE
     /\ UNCHANGED disk

(***************************************************************************)
(* Wrong variants, for checking that the properties below watch the code;  *)
(* no specification uses them.                                             *)
(***************************************************************************)
\* The backups are moved from the active file upwards, one onto the next.
Ascending(k) == maxFiles + 1 - k

\* The reopened file is counted from zero.
Unmeasured(records) == 0

-----------------------------------------------------------------------------
(***************************************************************************)
(* The constructor, the destructor and the end of the process.             *)
(***************************************************************************)
\* The size that open_current finds at the end of the file.
Measured(records) == Bytes(records)

\* open_current: the file is opened for append, and made where there is none.
OpenCurrent ==
  \/ /\ disk' = [disk EXCEPT ![0] = Content(0)]
     /\ open' = TRUE
     /\ size' = Measured(Content(0))
     /\ UNCHANGED <<failed, faults>>
  \/ /\ faults < MaxFaults
     /\ faults' = faults + 1 /\ failed' = TRUE
     /\ open' = FALSE /\ size' = 0
     /\ UNCHANGED disk

Construct ==
  /\ pc = "down"
  /\ OpenCurrent
  /\ pc' = "idle"
  /\ UNCHANGED <<config, buffer, shift, incoming>>

\* close_current: what is buffered reaches the file.
Closed == [disk EXCEPT ![0] = IF open THEN @ \o buffer ELSE @]

CloseCurrent ==
  /\ disk' = Closed
  /\ open' = FALSE
  /\ buffer' = << >>
  /\ UNCHANGED <<size, faults>>

Destroy ==
  /\ pc = "idle"
  /\ CloseCurrent
  /\ pc' = "down"
  /\ UNCHANGED <<config, shift, incoming, failed>>

Crash ==
  /\ pc # "down" /\ faults < MaxFaults
  /\ faults' = faults + 1
  /\ buffer' = << >> /\ open' = FALSE
  /\ pc' = "down"
  /\ UNCHANGED <<config, size, shift, incoming, failed, disk>>

(***************************************************************************)
(* write_out, flush_out and force_rotate.                                  *)
(***************************************************************************)
\* The record that would cross the limit goes to a fresh file; one that is longer than
\* the limit by itself does not make an empty file rotate.
Crosses(length) == size > 0 /\ size + length > MaxBytes

\* fwrite: stdio writes through as much of what it holds as it likes.
Put(r, length) ==
  /\ \E n \in 0..Len(buffer) + 1 :
       LET held == Append(buffer, r)
       IN  /\ disk' = [disk EXCEPT ![0] = @ \o SubSeq(held, 1, n)]
           /\ buffer' = SubSeq(held, n + 1, Len(held))
  /\ size' = size + length
  /\ UNCHANGED <<open, faults>>

BeginRotation(r) ==
  /\ CloseCurrent
  /\ pc' = "remove" /\ incoming' = r /\ failed' = FALSE
  /\ UNCHANGED shift

\* A write to a sink that has no file is dropped, and no step.
Write(length) ==
  /\ pc = "idle" /\ open
  /\ Len(lengths) < MaxRecords
  /\ lengths' = Append(lengths, length)
  /\ IF Crosses(length)
       THEN BeginRotation(Len(lengths'))
       ELSE Put(Len(lengths'), length) /\ UNCHANGED rotation
  /\ UNCHANGED <<maxFiles, rotations>>

\* The write goes on after its rotation; a failed open drops the record.
WriteRotated ==
  /\ pc = "written"
  /\ IF open
       THEN Put(incoming, lengths[incoming])
       ELSE UNCHANGED <<disk, handle, faults>>
  /\ pc' = "idle" /\ incoming' = NoRecord
  /\ UNCHANGED <<config, shift, failed>>

Flush ==
  /\ pc = "idle" /\ open /\ buffer # << >>
  /\ disk' = [disk EXCEPT ![0] = @ \o buffer]
  /\ buffer' = << >>
  /\ UNCHANGED <<config, open, size, rotation, faults>>

ForceRotate ==
  /\ pc = "idle"
  /\ rotations < MaxRotations
  /\ rotations' = rotations + 1
  /\ BeginRotation(NoRecord)
  /\ UNCHANGED <<maxFiles, lengths>>

(***************************************************************************)
(* rotate, after close_current.                                            *)
(***************************************************************************)
\* The oldest backup is deleted; with no backups at all, the active file is.
RemoveOldest ==
  /\ pc = "remove"
  /\ Attempt([disk EXCEPT ![maxFiles] = NoFile])
  /\ shift' = maxFiles
  /\ pc' = IF maxFiles > 0 THEN "shift" ELSE "reopen"
  /\ UNCHANGED <<config, handle, incoming>>

\* The order of the renames: from the oldest backup down to the active file.
Descending(k) == k

\* One rename; a file that is not there is left out.
Shift ==
  /\ pc = "shift"
  /\ LET dst == Descending(shift)
         src == dst - 1
     IN  IF disk[src] = NoFile
           THEN UNCHANGED <<disk, failed, faults>>
           ELSE Attempt([disk EXCEPT ![dst] = disk[src], ![src] = NoFile])
  /\ shift' = shift - 1
  /\ pc' = IF shift > 1 THEN "shift" ELSE "reopen"
  /\ UNCHANGED <<config, handle, incoming>>

Reopen ==
  /\ pc = "reopen"
  /\ OpenCurrent
  /\ pc' = IF incoming = NoRecord THEN "idle" ELSE "written"
  /\ UNCHANGED <<config, buffer, shift, incoming>>

Next ==
  \/ Construct \/ Destroy \/ Crash
  \/ \E length \in Lengths : Write(length)
  \/ WriteRotated \/ Flush \/ ForceRotate
  \/ RemoveOldest \/ Shift \/ Reopen

Spec == Init /\ [][Next]_vars

-----------------------------------------------------------------------------
(***************************************************************************)
(* Properties.                                                             *)
(***************************************************************************)

TypeOK ==
  /\ maxFiles \in 0..MaxBackups
  /\ lengths \in Seq(Lengths) /\ Len(lengths) <= MaxRecords
  /\ \A n \in Files : disk[n] = NoFile \/ disk[n] \in Seq(1..Len(lengths))
  /\ buffer \in Seq(1..Len(lengths)) /\ (buffer # << >> => open)
  /\ open \in BOOLEAN /\ size \in Nat
  /\ pc \in {"down", "idle", "remove", "shift", "reopen", "written"}
  /\ shift \in Files /\ incoming \in 0..Len(lengths)
  /\ failed \in BOOLEAN /\ rotations \in 0..MaxRotations /\ faults \in 0..MaxFaults

\* The log is all files one after the other, the oldest backup first, and the buffer.
Logged == (UNION {Ext!ToSet(Content(n)) : n \in Files}) \cup Ext!ToSet(buffer)

Before(records, others) ==
  \A i \in 1..Len(records), j \in 1..Len(others) : records[i] < others[j]
Ascend(records) == \A i, j \in 1..Len(records) : i < j => records[i] < records[j]

Chronological ==
  /\ \A n \in Files : Ascend(Content(n)) /\ Before(Content(n), buffer)
  /\ \A m, n \in Files : m < n => Before(Content(n), Content(m))
  /\ Ascend(buffer)

\* Every variable has its type, and m_current_size is the size of the active file, after
\* failed operations and restarts too; so that, as long as nothing failed, no file is
\* larger than max_bytes but for one that holds a single record.
WithinBudget ==
  /\ TypeOK
  /\ open => size = Bytes(Content(0) \o buffer)
  /\ faults = 0 => \A n \in Files : Bytes(Content(n)) <= MaxBytes \/ Len(Content(n)) = 1

\* Read from the oldest backup to the active file the records are in the order of their
\* writes, none twice, whichever removes and renames failed and wherever in a rotation
\* the process stopped; and unless an operation of this rotation failed, no record is
\* lost but those of the last file and, in a crash, those still in the buffer.
RollsForward ==
  [][ /\ Chronological'
      /\ failed' \/ Logged \ Logged' \subseteq
                      Ext!ToSet(Content(maxFiles)) \cup (IF Crash THEN Ext!ToSet(buffer) ELSE {}) ]_vars
=============================================================================
