------------------------------ MODULE Quarantine ------------------------------
(***************************************************************************)
(* Moving a corrupt database out of the way: the copies of its sidecars    *)
(* taken before the open, their return after the open failed, and the move *)
(* of the three files under one free suffix, rolled back when a rename     *)
(* fails (src/eventd-core/src/quarantine.rs, shard.rs).  Whatever became   *)
(* of a start, the daemon is started again on what the directory holds.    *)
(*                                                                         *)
(* The directory is a function from names to contents: "db", "wal" and     *)
(* "shm" are the contents to be kept, "earlier" is an earlier quarantine,  *)
(* anything else is disposable.  A file system call fails as often as the  *)
(* budget allows.  SQLite, on an open that finds corruption, makes,        *)
(* rebuilds or deletes sidecars and leaves the database as it is; one that *)
(* fails otherwise keeps the WAL; over an empty database it deletes a      *)
(* left-over WAL.                                                          *)
(***************************************************************************)
EXTENDS Integers, Sequences, FiniteSets, FiniteSetsExt, SequencesExt, TLC

CONSTANTS Directories,      \* the directories that a recovery may meet
          FileFaults,       \* how many file system calls fail
          Restarts          \* how often the daemon is started again

VARIABLES files,        \* what each name holds
          original,     \* the directory at the start
          at,           \* where the recovery is
          saved,        \* Preserved::sidecars
          lacking,      \* Preserved::failure: a copy failed
          present,      \* the files to be renamed
          suffix,       \* the suffix chosen for them
          renamed,      \* how many of them are
          faults,       \* calls that may still fail
          starts,       \* starts that may still happen
          stranded      \* history: a rename could not be taken back since the start

quarantineVars == <<files, original, at, saved, lacking, present, suffix, renamed, faults, starts, stranded>>

Sidecars == <<"wal", "shm">>
Parts == <<"db", "wal", "shm">>
CorruptNames == <<"corrupt", "corrupt.1", "corrupt.2">>

Name(part, place) == <<part, place>>
Names == ToSet(Parts) \X ({"live", "copy"} \union ToSet(CorruptNames))
Exists(part, place) == files[Name(part, place)] # "none"

\* rename replaces what the target held.
Renamed(part, from, to) ==
    [files EXCEPT ![Name(part, to)] = files[Name(part, from)], ![Name(part, from)] = "none"]
Written(part, place, content) == [files EXCEPT ![Name(part, place)] = content]

QuarantineBegin(directory, start, budget, again) ==
    /\ files = directory /\ original = directory
    /\ at = start
    /\ saved = <<>>
    /\ lacking = FALSE
    /\ present = <<>> /\ suffix = "" /\ renamed = 0
    /\ faults = budget /\ starts = again
    /\ stranded = FALSE

\* open_recovering takes copies first; replace_corrupt does not.
QuarantineInit ==
    \E directory \in Directories, start \in {"take", "find"} :
        QuarantineBegin(directory, start, FileFaults, Restarts)
QuarantineIdle == QuarantineBegin([n \in Names |-> "none"], "done", 0, 0)

Fail == faults > 0 /\ faults' = faults - 1

(***************************************************************************)
(* Preserved::take, one sidecar at a time.                                 *)
(***************************************************************************)
TakeSidecar ==
    /\ at = "take" /\ Len(saved) < 2
    /\ LET part == Sidecars[Len(saved) + 1]
       IN  \/ /\ Exists(part, "live")
              /\ files' = Written(part, "copy", files[Name(part, "live")])
              /\ saved' = Append(saved, "taken")
              /\ UNCHANGED <<faults, lacking>>
           \/ /\ ~Exists(part, "live")
              /\ saved' = Append(saved, "absent")
              /\ UNCHANGED <<files, faults, lacking>>
           \* A failed copy is removed; it may stay when that fails too.
           \/ /\ Exists(part, "live") /\ Fail
              /\ \E left \in {"none", "partial"} : files' = Written(part, "copy", left)
              /\ saved' = Append(saved, "failed")
              /\ lacking' = TRUE
    /\ UNCHANGED <<original, at, present, suffix, renamed, starts, stranded>>

\* What a failed open may make of a sidecar.
AfterOpen(part) ==
    IF Exists(part, "live") THEN {files[Name(part, "live")], "none"} \union (IF part = "shm" THEN {"rebuilt"} ELSE {})
    ELSE {"none", "made"}

\* The open reports corruption, as long as the corrupt database is there.
FailedOpen ==
    /\ at = "take" /\ Len(saved) = 2 /\ files[Name("db", "live")] = "db"
    /\ \E wal \in AfterOpen("wal"), shm \in AfterOpen("shm") :
           files' = [files EXCEPT ![Name("wal", "live")] = wal, ![Name("shm", "live")] = shm]
    /\ at' = "restore"
    /\ UNCHANGED <<original, saved, lacking, present, suffix, renamed, faults, starts, stranded>>

\* Dropping Preserved removes the copies it still holds; a failure leaves them.
Dropped(directory, states) ==
    {[n \in Names |-> IF n[2] = "copy" /\ n[1] \in gone THEN "none" ELSE directory[n]] :
        gone \in SUBSET {Sidecars[i] : i \in {j \in DOMAIN states : states[j] = "taken"}}}

\* Any other error is returned, and the copies are dropped.
OtherError ==
    /\ at = "take" /\ Len(saved) = 2 /\ Fail
    /\ files' \in Dropped(files, saved)
    /\ at' = "error"
    /\ UNCHANGED <<original, saved, lacking, present, suffix, renamed, starts, stranded>>

\* What a daemon leaves that ran on a database of its own.
AfterRun == {[files EXCEPT ![Name("db", "live")] = "new", ![Name("wal", "live")] = wal,
                           ![Name("shm", "live")] = "none"] : wal \in {"none", "made"}}

\* A new database is opened, or made and an orphaned WAL deleted; the copies are
\* dropped and the daemon runs.
FreshOpen ==
    /\ at = "take" /\ Len(saved) = 2 /\ files[Name("db", "live")] # "db"
    /\ \E after \in AfterRun : files' \in Dropped(after, saved)
    /\ at' = "done"
    /\ UNCHANGED <<original, saved, lacking, present, suffix, renamed, faults, starts, stranded>>

(***************************************************************************)
(* Preserved::quarantine: the sidecars go back, then all three are moved.  *)
(***************************************************************************)
\* Mutation: a sidecar that the failed open made is moved along.
RestoreSidecarKept(i) ==
    /\ saved' = [saved EXCEPT ![i] = "absent"]
    /\ \/ /\ saved[i] = "taken"
          /\ files' = Renamed(Sidecars[i], "copy", "live")
          /\ UNCHANGED <<at, faults>>
       \/ /\ saved[i] # "taken"
          /\ UNCHANGED <<files, at, faults>>

\* Mutation: the state still holds the copy when putting it back fails.
RestoreSidecarHeld(i) ==
    \/ /\ saved[i] = "taken"
       /\ files' = Renamed(Sidecars[i], "copy", "live")
       /\ saved' = [saved EXCEPT ![i] = "absent"]
       /\ UNCHANGED <<at, faults>>
    \/ /\ saved[i] = "taken" /\ Fail
       /\ at' = "error"
       /\ files' \in Dropped(files, saved)
       /\ UNCHANGED saved

\* The state is taken out before the call that may fail.
RestoreSidecar(i) ==
    /\ saved' = [saved EXCEPT ![i] = "absent"]
    /\ \/ /\ saved[i] = "taken"
          /\ files' = Renamed(Sidecars[i], "copy", "live")
          /\ UNCHANGED <<at, faults>>
       \/ /\ saved[i] = "absent"
          /\ files' = Written(Sidecars[i], "live", "none")
          /\ UNCHANGED <<at, faults>>
       \/ /\ saved[i] = "failed"
          /\ UNCHANGED <<files, at, faults>>
       \/ /\ saved[i] = "taken" \/ (saved[i] = "absent" /\ Exists(Sidecars[i], "live"))
          /\ Fail
          /\ at' = "error"
          /\ files' \in Dropped(files, saved')

RestoreWal ==
    /\ at = "restore" /\ renamed = 0
    /\ RestoreSidecar(1)
    /\ renamed' = 1
    /\ UNCHANGED <<original, lacking, present, suffix, starts, stranded>>

RestoreShm ==
    /\ at = "restore" /\ renamed = 1
    /\ RestoreSidecar(2)
    /\ renamed' = 2
    /\ UNCHANGED <<original, lacking, present, suffix, starts, stranded>>

(***************************************************************************)
(* database_at                                                             *)
(***************************************************************************)
Present == SelectSeq(Parts, LAMBDA part : Exists(part, "live"))

\* Mutation: only the database's own target is looked at.
FreeOfDatabase(parts, s) == ~Exists("db", s)

Free(parts, s) == \A i \in DOMAIN parts : ~Exists(parts[i], s)

\* The lowest suffix under which none of the targets exists.
FindSuffix ==
    /\ at = "find" \/ (at = "restore" /\ renamed = 2)
    /\ present' = Present
    /\ LET free == {i \in DOMAIN CorruptNames : Free(Present, CorruptNames[i])}
       IN  IF Present = <<>> \/ free = {}
           THEN at' = "error" /\ UNCHANGED suffix
           ELSE at' = "move" /\ suffix' = CorruptNames[Min(free)]
    /\ renamed' = 0
    /\ UNCHANGED <<files, original, saved, lacking, faults, starts, stranded>>

MoveFile ==
    /\ at = "move" /\ renamed < Len(present)
    /\ \/ /\ files' = Renamed(present[renamed + 1], "live", suffix)
          /\ renamed' = renamed + 1
          /\ UNCHANGED <<at, faults>>
       \/ /\ Fail
          /\ at' = "rollback"
          /\ UNCHANGED <<files, renamed>>
    /\ UNCHANGED <<original, saved, lacking, present, suffix, starts, stranded>>

\* Mutation: the files renamed already stay where they are.
RollBackNot ==
    /\ at = "rollback" /\ renamed > 0
    /\ renamed' = renamed - 1
    /\ UNCHANGED <<files, faults, stranded>>
    /\ UNCHANGED <<original, at, saved, lacking, present, suffix, starts>>

\* In reverse order, going on when a rename fails.
RollBack ==
    /\ at = "rollback" /\ renamed > 0
    /\ renamed' = renamed - 1
    /\ \/ /\ files' = Renamed(present[renamed], suffix, "live")
          /\ UNCHANGED <<faults, stranded>>
       \/ /\ Fail
          /\ stranded' = TRUE
          /\ UNCHANGED files
    /\ UNCHANGED <<original, at, saved, lacking, present, suffix, starts>>

RolledBack ==
    /\ at = "rollback" /\ renamed = 0
    /\ at' = "error"
    /\ UNCHANGED <<files, original, saved, lacking, present, suffix, renamed, faults, starts, stranded>>

Moved ==
    /\ at = "move" /\ renamed = Len(present)
    /\ at' = "moved"
    /\ UNCHANGED <<files, original, saved, lacking, present, suffix, renamed, faults, starts, stranded>>

\* The second open, over nothing; the daemon runs, or the error is returned.
Reopen ==
    /\ at = "moved"
    /\ \/ files' \in AfterRun /\ at' = "done" /\ UNCHANGED faults
       \/ UNCHANGED files /\ at' = "stopped" /\ Fail
    /\ UNCHANGED <<original, saved, lacking, present, suffix, renamed, starts, stranded>>

\* The daemon stops or dies, wherever it is, and is started again.
Restart ==
    /\ starts > 0
    /\ starts' = starts - 1
    /\ at' = "take" /\ saved' = <<>> /\ lacking' = FALSE
    /\ present' = <<>> /\ suffix' = "" /\ renamed' = 0 /\ stranded' = FALSE
    /\ UNCHANGED <<files, original, faults>>

QuarantineNext ==
    TakeSidecar \/ FailedOpen \/ OtherError \/ FreshOpen \/ RestoreWal \/ RestoreShm
    \/ FindSuffix \/ MoveFile \/ RollBack \/ RolledBack \/ Moved \/ Reopen \/ Restart

(***************************************************************************)
(* Properties                                                              *)
(***************************************************************************)
Held(part) == original[Name(part, "live")]

\* ALL OR NONE.  When the move of a first start succeeds and no copy failed, the
\* files under the chosen suffix are the ones that were there before the open, byte
\* for byte and no others, whatever the failed open made of them, and none is left
\* behind.  At any start, a move that fails puts back what it had renamed, unless
\* putting back failed too (quarantine.rs, database_at and Preserved).
QuarantineWhole ==
    /\ at = "moved" /\ ~lacking /\ starts = Restarts =>
           \A i \in DOMAIN Parts :
               /\ files[Name(Parts[i], "live")] = "none"
               /\ files[Name(Parts[i], suffix)] =
                      IF Held(Parts[i]) = "none" THEN original[Name(Parts[i], suffix)] ELSE Held(Parts[i])
    /\ at = "error" /\ ~stranded /\ present # <<>> /\ suffix # "" =>
           \A i \in DOMAIN present : Exists(present[i], "live") /\ ~Exists(present[i], suffix)

\* The part as it was at the start, wherever it is now.
Safe(part) == Held(part) # "none" => \E n \in Names : n[1] = part /\ files[n] = Held(part)

\* The database was moved and the WAL was not: a new one is made over it.
WalOrphaned == at = "take" /\ Len(saved) = 2 /\ ~Exists("db", "live")

\* The open deletes what could not be copied.
WalUncopied == at = "take" /\ Len(saved) = 2 /\ saved[1] = "failed"

\* A copy that was never put back is in the way of the next.
WalOverwritten ==
    /\ at = "take" /\ saved = <<>>
    /\ files[Name("wal", "live")] \notin {"none", Held("wal")}

\* NOTHING IS DESTROYED.  Whichever calls fail, however often the daemon is
\* started again and wherever it died before, the database is always somewhere in
\* the directory, under its own name or a quarantined one, and a file quarantined
\* before is never replaced.  The WAL is lost in three ways and no others: the
\* database was moved and the WAL was not, by a death between the renames or a
\* rename that was not taken back, and the next start makes a new database over
\* it; the open fails after a copy failed; or the WAL is in its copy alone,
\* because it was not put back, and a later start copies another over it
\* (quarantine.rs, database_at and Preserved; shard.rs, open_recovering).
NothingDestroyed ==
    [][/\ Safe("db") => Safe("db")'
       /\ \A n \in Names : original[n] = "earlier" => files'[n] = "earlier"
       /\ Safe("wal") => Safe("wal")' \/ WalOrphaned \/ WalUncopied \/ WalOverwritten
      ]_quarantineVars
=============================================================================
