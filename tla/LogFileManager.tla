--------------------------- MODULE LogFileManager ---------------------------
(***************************************************************************)
(* The manager of log files: open streams and their sizes under filesMutex_, *)
(* the files of the log directory, copies of them in the archive directory,  *)
(* and a maintenance thread that rotates what is too large. The mutex is not *)
(* recursive and is taken twice when a file is opened: initializeLogFile     *)
(* throws (resource_deadlock_would_occur) once the stream is in openFiles_,  *)
(* and a write that would open the file throws or fails before that. So     *)
(* currentLogFile_ is never set and the calls without a name do nothing.    *)
(***************************************************************************)
EXTENDS Naturals, FiniteSets, SequencesExt

CONSTANTS
    LogFile,      \* names of log files
    Writer,       \* threads that write
    rotateAt,     \* rotation.maxFileSize, in lines
    MaxWrites,    \* bound: writes
    MaxManage     \* bound: archive, restore, compress, delete and close calls

(* No log file has the extension of a compressed one as its name.           *)
ASSUME LogFileAssumption ==
    /\ rotateAt \in Nat \ {0} /\ MaxWrites \in Nat /\ MaxManage \in Nat
    /\ "gz" \notin LogFile

VARIABLES
    disk,        \* file name -> its lines, for the files of the log directory
    archive,     \* the same for the archive directory
    openFiles,   \* openFiles_
    fileSizes,   \* fileSizes_
    writer,      \* each writer: where it is in writeToFile, and in which file
    maintenance, \* where the maintenance thread is, with the files left to see
    stopping,    \* stopMaintenance_
    accepted,    \* history: the lines written to each file, in order
    replaced,    \* history: files deleted or overwritten by a copy
    managed      \* calls counted by MaxManage

mvars == <<disk, archive, openFiles, fileSizes, writer, maintenance, stopping,
           accepted, replaced, managed>>

(* A name is a sequence: the log file, and what was put behind it.          *)
Base(f) == <<f>>
generateBackupFileName(name) == Append(name, "1")
getCompressionExtension(name) == Append(name, "gz")
isCompressedFile(name) == Last(name) = "gz"

Put(files, name, lines) ==
    [x \in DOMAIN files \union {name} |-> IF x = name THEN lines ELSE files[x]]
Without(files, names) == [x \in DOMAIN files \ names |-> files[x]]

MInit ==
    /\ disk = <<>> /\ archive = <<>>
    /\ openFiles = {} /\ fileSizes = <<>>
    /\ writer = [w \in Writer |-> <<"idle">>]
    /\ maintenance = <<"out">> /\ stopping = FALSE
    /\ accepted = [f \in LogFile |-> <<>>] /\ replaced = {} /\ managed = 0

-----------------------------------------------------------------------------
(* The directory of a file must be new, or createDirectoryStructure fails.  *)
initializeLogFile(f) ==
    /\ Base(f) \notin DOMAIN disk /\ Base(f) \notin openFiles
    /\ f \notin replaced
    /\ openFiles' = openFiles \union {Base(f)}
    /\ disk' = Put(disk, Base(f), <<>>)
    /\ UNCHANGED <<archive, fileSizes, writer, maintenance, stopping, accepted, replaced,
                   managed>>

getFileSize(name) ==
    IF name \in DOMAIN fileSizes THEN fileSizes[name]
    ELSE IF name \in DOMAIN disk THEN Len(disk[name]) ELSE 0

(* The trigger is the size.                                                *)
needsRotation(name) == getFileSize(name) >= rotateAt

(* Mutant: the backup is a copy, and the file is opened to append.          *)
CopyToBackup(name) ==
    IF name \in openFiles
    THEN /\ disk' = Put(disk, generateBackupFileName(name), disk[name])
         /\ fileSizes' = Put(fileSizes, name, 0)
    ELSE UNCHANGED <<disk, fileSizes>>

(* The backup has number 1 each time: it replaces the one before.           *)
rotateManaged(name) ==
    IF name \in openFiles
    THEN /\ disk' = Put(Put(disk, generateBackupFileName(name), disk[name]), name, <<>>)
         /\ fileSizes' = Put(fileSizes, name, 0)
    ELSE UNCHANGED <<disk, fileSizes>>

(* writeToFile: the test, the rotation and the write take the lock anew.    *)
WriteTest(w, f) ==
    /\ writer[w] = <<"idle">>
    /\ MapThenSumSet(LAMBDA x : Len(accepted[x]), LogFile) < MaxWrites
    /\ writer' = [writer EXCEPT ![w] =
           <<IF needsRotation(Base(f)) THEN "rotate" ELSE "write", f>>]
    /\ UNCHANGED <<disk, archive, openFiles, fileSizes, maintenance, stopping, accepted,
                   replaced, managed>>

WriteRotates(w) ==
    /\ writer[w][1] = "rotate"
    /\ rotateManaged(Base(writer[w][2]))
    /\ writer' = [writer EXCEPT ![w][1] = "write"]
    /\ UNCHANGED <<archive, openFiles, maintenance, stopping, accepted, replaced, managed>>

writeToFile(w) ==
    /\ writer[w][1] = "write"
    /\ LET f == writer[w][2]  name == Base(f)  line == <<w, Len(accepted[f]) + 1>>
       IN  IF name \in openFiles
           THEN /\ disk' = [disk EXCEPT ![name] = Append(@, line)]
                /\ fileSizes' = Put(fileSizes, name,
                       (IF name \in DOMAIN fileSizes THEN fileSizes[name] ELSE 0) + 1)
                       /\ accepted' = [accepted EXCEPT ![f] = Append(@, line)]
           ELSE UNCHANGED <<disk, fileSizes, accepted>>
    /\ writer' = [writer EXCEPT ![w] = <<"idle">>]
    /\ UNCHANGED <<archive, openFiles, maintenance, stopping, replaced, managed>>

-----------------------------------------------------------------------------
(* Calls that manage the files; any of them may be old enough for the calls *)
(* that choose by age.                                                     *)

Manage ==
    /\ managed < MaxManage /\ managed' = managed + 1
    /\ UNCHANGED <<writer, maintenance, stopping, accepted>>

closeLogFile(f) ==
    /\ Manage /\ Base(f) \in openFiles
    /\ openFiles' = openFiles \ {Base(f)}
    /\ fileSizes' = Without(fileSizes, {Base(f)})
    /\ UNCHANGED <<disk, archive, replaced>>

(* The sizes of the files stay behind.                                     *)
closeAllFiles ==
    /\ Manage /\ openFiles' = {}
    /\ UNCHANGED <<disk, archive, fileSizes, replaced>>

(* The archiver copies, and keeps the file; a copy replaces an older one.   *)
archiveFile(name) == Put(archive, name, disk[name])

(* archiveFiles and archiveEligibleFiles                                   *)
archiveFiles(names) ==
    /\ names # {} /\ Manage
    /\ archive' = [x \in DOMAIN archive \union names |->
                      IF x \in names THEN archiveFile(x)[x] ELSE archive[x]]
    /\ UNCHANGED <<disk, openFiles, fileSizes, replaced>>

Overwrite(name, lines) ==
    /\ disk' = Put(disk, name, lines)
    /\ replaced' = replaced \union {name[1]}
    /\ UNCHANGED <<archive, openFiles, fileSizes>>

restoreArchivedFile(name) ==
    /\ Manage
    /\ Overwrite(IF isCompressedFile(name) THEN Front(name) ELSE name, archive[name])

compressEligibleFiles(old) ==
    LET names == {x \in old : ~isCompressedFile(x)}
    IN  /\ names # {} /\ Manage
        /\ disk' = [x \in DOMAIN disk \union {getCompressionExtension(y) : y \in names} |->
                       IF isCompressedFile(x) /\ Front(x) \in names THEN disk[Front(x)]
                       ELSE disk[x]]
        /\ UNCHANGED <<archive, openFiles, fileSizes, replaced>>

decompressLogFile(name) ==
    /\ isCompressedFile(name) /\ Manage
    /\ Overwrite(Front(name), disk[name])

(* deleteLogFile, deleteLogFiles, deleteOldLogFiles: the size stays behind. *)
deleteLogFiles(names) ==
    /\ names # {} /\ Manage
    /\ openFiles' = openFiles \ names
    /\ disk' = Without(disk, names)
    /\ replaced' = replaced \union {x[1] : x \in names}
    /\ UNCHANGED <<archive, fileSizes>>

-----------------------------------------------------------------------------
listLogFiles == DOMAIN disk

(* The maintenance thread: a pass each minute, over a list of files made    *)
(* without the lock. Of a file that is not open it changes nothing.         *)
startBackgroundMaintenance ==
    /\ maintenance = <<"out">>
    /\ maintenance' = <<"wait">> /\ stopping' = FALSE
    /\ UNCHANGED <<disk, archive, openFiles, fileSizes, writer, accepted, replaced, managed>>

maintenanceWorker ==
    /\ \/ /\ maintenance = <<"wait">>
          /\ maintenance' = IF stopping THEN <<"out">> ELSE <<"look", listLogFiles \intersect openFiles>>
       \/ /\ maintenance[1] = "look" /\ maintenance[2] = {}
          /\ maintenance' = <<"wait">>
       \/ /\ maintenance[1] = "look"
          /\ \E x \in maintenance[2] :
                 maintenance' = <<IF needsRotation(x) THEN "rotate" ELSE "look",
                                  maintenance[2] \ {x}, x>>
    /\ UNCHANGED <<disk, archive, openFiles, fileSizes, writer, stopping, accepted,
                   replaced, managed>>

performRotationMaintenance ==
    /\ maintenance[1] = "rotate"
    /\ rotateManaged(maintenance[3])
    /\ maintenance' = <<"look", maintenance[2]>>
    /\ UNCHANGED <<archive, openFiles, writer, stopping, accepted, replaced, managed>>

stopBackgroundMaintenance ==
    /\ maintenance # <<"out">> /\ ~stopping /\ stopping' = TRUE
    /\ UNCHANGED <<disk, archive, openFiles, fileSizes, writer, maintenance, accepted,
                   replaced, managed>>

MNext ==
    \/ \E f \in LogFile : initializeLogFile(f) \/ closeLogFile(f)
    \/ \E w \in Writer : WriteRotates(w) \/ writeToFile(w) \/ \E f \in LogFile : WriteTest(w, f)
    \/ closeAllFiles
    \/ \E old \in SUBSET DOMAIN disk :
           archiveFiles(old) \/ compressEligibleFiles(old) \/ deleteLogFiles(old)
    \/ \E x \in DOMAIN disk : decompressLogFile(x)
    \/ \E x \in DOMAIN archive : restoreArchivedFile(x)
    \/ startBackgroundMaintenance \/ maintenanceWorker \/ performRotationMaintenance
    \/ stopBackgroundMaintenance

MSpec == MInit /\ [][MNext]_mvars

-----------------------------------------------------------------------------
(* The backup of a log file and the file itself hold the last lines that    *)
(* were accepted for it, in order and without a gap, however writers and    *)
(* the maintenance thread rotate it at the same time; archiving and closing *)
(* change nothing of that.                                                 *)
LinesKeepOrder ==
    \A f \in LogFile \ replaced :
        Base(f) \in DOMAIN disk =>
            LET b == generateBackupFileName(Base(f))
            IN  IsSuffix((IF b \in DOMAIN disk THEN disk[b] ELSE <<>>) \o disk[Base(f)],
                         accepted[f])
=============================================================================
