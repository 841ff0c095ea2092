---------------------------- MODULE LogRotation -----------------------------
(***************************************************************************)
(* TFileHandler (lib/common/logging): one log file with numbered backups,  *)
(* rotated by size, through crashes of the process and failures of the     *)
(* file system.  The disk maps the suffix of each existing file to its     *)
(* messages, 0 being the file without a suffix; what a process has flushed *)
(* survives its crash.                                                     *)
(*                                                                         *)
(* Handle and RotateLogFile run under TLogManager's mutex_, one at a time; *)
(* pc is the next system call:                                             *)
(*   idle      outside Handle                                              *)
(*   remove    the oldest backup is about to be removed                    *)
(*   shift     in the loop that renames the backups, at index i            *)
(*   rename    the live file is about to become .1                         *)
(*   reopen    a new live file is about to be opened                       *)
(*   write     the message is about to be written                          *)
(*   down      the process is not running                                  *)
(***************************************************************************)
EXTENDS Integers, Sequences, SequencesExt

CONSTANTS
    MaxFileSize,    \* maxFileSize_
    BackupCounts,   \* values of maxBackupCount_
    Sizes,          \* sizes of formatted messages
    MaxMessages     \* bound on the messages of one behaviour

ASSUME RotationAssumption ==
    /\ MaxFileSize \in Nat
    /\ BackupCounts \subseteq Nat
    /\ Sizes \subseteq Nat \ {0}
    /\ MaxMessages \in Nat

VARIABLES
    disk,           \* the files
    maxBackupCount, \* maxBackupCount_
    size,           \* currentFileSize_
    open,           \* whether file_ is open and no write to it has failed
    pc,             \* the next system call
    index,          \* i of the loop
    message,        \* the message being handled
    benign,         \* no system call fails and every message fits a file
    count,          \* messages handled so far
    written         \* messages that reached a file, in order

vars == <<disk, maxBackupCount, size, open, pc, index, message, benign, count,
          written>>

\* Of a message whose write failed a part may be in a file.
Messages == [id : 1..MaxMessages, size : Nat \ {0}]

NoMessage == [id |-> 0, size |-> 0]

TypeOK ==
    /\ DOMAIN disk \subseteq Nat
    /\ \A s \in DOMAIN disk : disk[s] \in Seq(Messages)
    /\ maxBackupCount \in BackupCounts
    /\ size \in Nat
    /\ open \in BOOLEAN
    /\ pc \in {"idle", "remove", "shift", "rename", "reopen", "write", "down"}
    /\ index \in Int
    /\ message \in Messages \cup {NoMessage}
    /\ benign \in BOOLEAN
    /\ count \in 0..MaxMessages
    /\ written \in Seq(Messages)

SizeOf(file) ==
    LET total[n \in 0..Len(file)] ==
            IF n = 0 THEN 0 ELSE total[n - 1] + file[n].size
    IN total[Len(file)]

Without(d, s) == [r \in DOMAIN d \ {s} |-> d[r]]

With(d, s, file) == [r \in DOMAIN d \cup {s} |-> IF r = s THEN file ELSE d[r]]

Renamed(d, from, to) ==
    IF from \in DOMAIN d THEN Without(With(d, to, d[from]), from) ELSE d

\* The constructor on an empty directory.
Init ==
    /\ disk = [s \in {0} |-> <<>>]
    /\ maxBackupCount \in BackupCounts
    /\ size = 0
    /\ open = TRUE
    /\ pc = "idle"
    /\ index = 0
    /\ message = NoMessage
    /\ benign \in BOOLEAN
    /\ count = 0
    /\ written = <<>>

-----------------------------------------------------------------------------
(* TFileHandler::Handle and RotateLogFile.                                 *)

Handle(n) ==
    /\ pc = "idle"
    /\ count < MaxMessages
    /\ benign => n <= MaxFileSize
    /\ count' = count + 1
    /\ message' = [id |-> count + 1, size |-> n]
    /\ pc' = IF size + n > MaxFileSize THEN "remove" ELSE "write"
    /\ open' = (open /\ size + n <= MaxFileSize)
    /\ UNCHANGED <<disk, maxBackupCount, size, index, written, benign>>

\* With a count of zero the backup to remove is .0, which nothing ever creates.
RemoveOldest ==
    /\ pc = "remove"
    /\ disk' = IF maxBackupCount = 0 THEN disk ELSE Without(disk, maxBackupCount)
    /\ index' = maxBackupCount - 1
    /\ pc' = "shift"
    /\ UNCHANGED <<maxBackupCount, size, open, message, count, written,
                   benign>>

\* Faulty: the loop ends one index early, and .1 stays where it is.
ShiftShort ==
    /\ pc = "shift"
    /\ \/ /\ index > 1
          /\ index' = index - 1
          /\ disk' = Renamed(disk, index, index + 1)
          /\ UNCHANGED pc
       \/ /\ index <= 1
          /\ pc' = "rename"
          /\ UNCHANGED <<disk, index>>
    /\ UNCHANGED <<maxBackupCount, size, open, message, count, written,
                   benign>>

Shift ==
    /\ pc = "shift"
    /\ \/ /\ index > 0
          /\ index' = index - 1
          /\ disk' = Renamed(disk, index, index + 1)
          /\ UNCHANGED pc
       \/ /\ index <= 0
          /\ pc' = "rename"
          /\ UNCHANGED <<disk, index>>
    /\ UNCHANGED <<maxBackupCount, size, open, message, count, written,
                   benign>>

RenameLive ==
    /\ pc = "rename"
    /\ 0 \in DOMAIN disk
    /\ disk' = Renamed(disk, 0, 1)
    /\ pc' = "reopen"
    /\ UNCHANGED <<maxBackupCount, size, open, index, message, count, written,
                   benign>>

Reopen ==
    /\ pc = "reopen"
    /\ disk' = With(disk, 0, <<>>)
    /\ open' = TRUE
    /\ size' = 0
    /\ pc' = "write"
    /\ UNCHANGED <<maxBackupCount, index, message, count, written, benign>>

\* The exception of a rename, of the live file or of a backup, or of an open
\* that fails: Handle is left, file_ stays closed and the size as it was.
Throw ==
    /\ \/ ~benign /\ pc \in {"remove", "shift", "rename", "reopen"}
       \/ pc = "rename" /\ 0 \notin DOMAIN disk
    /\ pc' = "idle"
    /\ message' = NoMessage
    /\ UNCHANGED <<disk, maxBackupCount, size, open, index, count, written,
                   benign>>

Put(m) ==
    /\ disk' = With(disk, 0, Append(disk[0], m))
    /\ written' = Append(written, m)

\* A stream that is not open, or has failed, swallows the message.
Write ==
    /\ pc = "write"
    /\ IF open THEN Put(message) ELSE UNCHANGED <<disk, written>>
    /\ size' = size + message.size
    /\ message' = NoMessage
    /\ pc' = "idle"
    /\ UNCHANGED <<maxBackupCount, open, index, count, benign>>

\* The file system takes nothing or a part.  Nobody looks at the state of the
\* stream, which takes no more until it is opened again.
WriteFails ==
    /\ pc = "write" /\ open /\ ~benign
    /\ \/ UNCHANGED <<disk, written>>
       \/ \E n \in 1..(message.size - 1) : Put([message EXCEPT !.size = n])
    /\ open' = FALSE
    /\ size' = size + message.size
    /\ message' = NoMessage
    /\ pc' = "idle"
    /\ UNCHANGED <<maxBackupCount, index, count, benign>>

-----------------------------------------------------------------------------
(* The process dies at any point and is started again.                     *)

Crash ==
    /\ pc # "down"
    /\ pc' = "down"
    /\ open' = FALSE
    /\ message' = NoMessage
    /\ UNCHANGED <<disk, maxBackupCount, size, index, count, written, benign>>

\* Faulty: the size is counted from zero in every process.
RestartFromZero ==
    /\ pc = "down"
    /\ disk' = IF 0 \in DOMAIN disk THEN disk ELSE With(disk, 0, <<>>)
    /\ size' = 0
    /\ open' = TRUE
    /\ pc' = "idle"
    /\ UNCHANGED <<maxBackupCount, index, message, count, written, benign>>

\* Faulty: the file is opened without append.
RestartTruncates ==
    /\ pc = "down"
    /\ disk' = With(disk, 0, <<>>)
    /\ size' = 0
    /\ open' = TRUE
    /\ pc' = "idle"
    /\ UNCHANGED <<maxBackupCount, index, message, count, written, benign>>

\* The constructor: open with append, and the size from tellp.
Restart ==
    /\ pc = "down"
    /\ disk' = IF 0 \in DOMAIN disk THEN disk ELSE With(disk, 0, <<>>)
    /\ size' = SizeOf(disk'[0])
    /\ open' = TRUE
    /\ pc' = "idle"
    /\ UNCHANGED <<maxBackupCount, index, message, count, written, benign>>

-----------------------------------------------------------------------------
Next ==
    \/ \E n \in Sizes : Handle(n)
    \/ RemoveOldest \/ Shift \/ RenameLive \/ Reopen \/ Throw \/ Write
    \/ WriteFails \/ Crash \/ Restart

Spec == Init /\ [][Next]_vars

-----------------------------------------------------------------------------
(* Properties.                                                             *)

\* currentFileSize_ is the size of the live file between two messages, unless
\* an exception has left the file closed or a write has failed (logging.cpp:46-48,
\* 92-94, 122).
SizeInv == pc \in {"idle", "write"} /\ open => size = SizeOf(disk[0])

\* Where Handle is goes with the files: the live file is there while it is open
\* and has room for the message, and the next rename finds its target free.
HandleInv ==
    /\ open => pc \in {"idle", "write"} /\ 0 \in DOMAIN disk
    /\ pc = "write" /\ open =>
           disk[0] = <<>> \/ size + message.size <= MaxFileSize
    /\ message \in Messages \/ pc \in {"idle", "down"}
    /\ pc = "shift" => index \in -1..(maxBackupCount - 1)
    /\ pc = "shift" /\ maxBackupCount > 0 =>
           index >= 0 /\ (index + 1) \notin DOMAIN disk
    /\ pc = "rename" => maxBackupCount = 0 \/ 1 \notin DOMAIN disk
    /\ pc = "reopen" => 0 \notin DOMAIN disk

\* Without a backup allowed, .1 may be there nevertheless.
Top == IF maxBackupCount = 0 THEN 1 ELSE maxBackupCount

\* Each file is a piece of what was written, and the pieces are adjacent: ends[k] is
\* where the file with suffix k ends, and where the next older one begins to.
Pieces ==
    \E ends \in [0..(Top + 1) -> 0..Len(written)] :
        /\ ends[0] = Len(written)
        /\ \A k \in 0..Top :
               /\ ends[k] = ends[k + 1] + IF k \in DOMAIN disk THEN Len(disk[k]) ELSE 0
               /\ k \in DOMAIN disk =>
                      \A i \in 1..Len(disk[k]) : disk[k][i] = written[ends[k + 1] + i]

\* When the file system obeys, the live file is only renamed with something in it.
LiveInv ==
    benign =>
        /\ pc \in {"remove", "shift", "rename"} =>
               0 \in DOMAIN disk /\ disk[0] # <<>>
        /\ pc \in {"idle", "write"} => open
        /\ written # <<>> =>
               \/ 0 \in DOMAIN disk /\ disk[0] # <<>>
               \/ 1 \in DOMAIN disk /\ disk[1] # <<>>

\* All that is on disk, the oldest backup first.
Oldest == IF DOMAIN disk = {} THEN -1
          ELSE CHOOSE s \in DOMAIN disk : \A r \in DOMAIN disk : r <= s

File(s) == IF s \in DOMAIN disk THEN disk[s] ELSE <<>>

Files == [k \in 1..(Oldest + 1) |-> File((Oldest + 1) - k)]

OnDisk == FlattenSeq(Files)

\* The newest message is on disk, when the file system obeys and every message
\* fits a file.
NewestKept ==
    benign /\ written # <<>> => OnDisk # <<>> /\ Last(OnDisk) = Last(written)

\* The files, read from the oldest to the newest, hold the latest messages in
\* order and without a gap, the newest one among them, also when a rotation was
\* cut short by a crash or an exception and started again (logging.cpp:97-123).
DiskIsSuffix == Pieces /\ LiveInv /\ IsSuffix(OnDisk, written) /\ NewestKept

\* No system call destroys a message that is not in the oldest backup allowed:
\* a rename never lands on a file that is still wanted (logging.cpp:100-115).
OnlyOldestLost ==
    [][\A s \in DOMAIN disk :
          \/ s >= maxBackupCount /\ s > 0
          \/ \E r \in DOMAIN disk' : IsPrefix(disk[s], disk'[r])]_vars

\* No file outgrows the limit, unless one message alone does, also when a
\* restarted process goes on counting where the last one stopped; and there are
\* never more backups than allowed, a count of zero still keeping one
\* (logging.cpp:46-48, 88-94, 100-115).
FilesBounded ==
    /\ TypeOK /\ SizeInv /\ HandleInv
    /\ \A s \in DOMAIN disk :
          /\ SizeOf(disk[s]) <= MaxFileSize \/ Len(disk[s]) = 1
          /\ s <= maxBackupCount \/ s = 1

\* What makes the above inductive.
IInv == FilesBounded /\ Pieces /\ LiveInv

=============================================================================
