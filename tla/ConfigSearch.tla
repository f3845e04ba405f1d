---------------------------- MODULE ConfigSearch ----------------------------
(***************************************************************************)
(* findConfigFile and CreateDefaultConfig (config/manager.go): which       *)
(* gateway.yaml a start of the gateway uses, and what the search leaves on *)
(* the disk.  A disk gives each search path the state of its file:         *)
(*   missing     no such file, and its directory can be made               *)
(*   unmakeable  no such file, and its directory or the file cannot be made*)
(*   writable    a file that opens for writing                             *)
(*   readonly    a file that does not, or a path that cannot be looked at  *)
(***************************************************************************)
EXTENDS Naturals, Sequences

CONSTANTS ConfigPaths,  \* the search paths, in order (DefaultConfigPaths)
          NoFile        \* the search failed

ASSUME PathsAssumption ==
    ConfigPaths \in Seq(STRING) /\ NoFile \notin DOMAIN ConfigPaths

FileStates == {"missing", "unmakeable", "writable", "readonly"}
Disks == [DOMAIN ConfigPaths -> FileStates]

(* The loop skips what it cannot write and returns at the first path that  *)
(* is left, whether its file exists, is created or cannot be created.      *)
Skipped(disk, i) == disk[i] = "readonly"

ReturnsAt(disk, i) == ~Skipped(disk, i) /\ \A j \in 1..(i - 1) : Skipped(disk, j)

(* The path that findConfigFile returns. *)
FindConfigFile(disk) ==
    IF \E i \in DOMAIN disk : ReturnsAt(disk, i) /\ disk[i] # "unmakeable"
    THEN CHOOSE i \in DOMAIN disk : ReturnsAt(disk, i)
    ELSE NoFile

(* Mutant: the default file is created without write permission. *)
CreateReadonly(disk) ==
    [i \in DOMAIN disk |->
        IF ReturnsAt(disk, i) /\ disk[i] = "missing" THEN "readonly" ELSE disk[i]]

(* CreateDefaultConfig creates the file that the search returns if it is   *)
(* missing, and no other.                                                  *)
CreateDefaultConfig(disk) ==
    [i \in DOMAIN disk |->
        IF ReturnsAt(disk, i) /\ disk[i] = "missing" THEN "writable" ELSE disk[i]]

============================================================================
