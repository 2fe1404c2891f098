---------------------------- MODULE LogmanContext ----------------------------
(***************************************************************************)
(* LogmanTrace._Context of tools/isolate/trace_inputs.py: the state        *)
(* machine that consumes the CSV lines tracerpt wrote from the ETW log.    *)
(*                                                                         *)
(* The context mirrors the Python object:                                  *)
(*   processes    the pids self._processes holds                          *)
(*   files        paths found to be files (self.files)                    *)
(*   non_existent the other paths (self.non_existent)                     *)
(*   first_line   self._first_line, the header row has been checked       *)
(*   drive_map    NT device -> drive letter (DosDriveMap._MAPPING)        *)
(*   err          "none", or the exception on_csv_line raised; parse_log  *)
(*                does not catch it.                                       *)
(*                                                                         *)
(* A CSV row is the record of the columns the handlers read:               *)
(*   [name (EVENT_NAME), type (TYPE), pid (PID, already int(.., 16)),      *)
(*    child (CHILD_PID), ppid (PARENT_PID), pname (PROC_NAME),             *)
(*    path (FILE_PATH), exp]                                               *)
(* The constant columns the code asserts on (Event ID, Version, Channel,  *)
(* ...) always hold the values tracerpt writes, so they are left out.      *)
(* path is an NT path [dev |-> "HarddiskVolumeN", comps]; a DOS path is   *)
(* its component sequence whose first component is the drive ("c:").      *)
(* Every name of the model is lower case, so .lower() leaves it as it is.  *)
(* exp is a ghost the handlers never read.                                 *)
(***************************************************************************)
EXTENDS Paths, FiniteSets

CONSTANTS
  Ignored,    \* LogmanTrace.IGNORED, as component sequences
  NoPid       \* an empty pid column

NoErr == "none"
Logman == "logman.exe"

\* The header row of the CSV file, which tracerpt writes first.
Header == "Event Name"

\* The event names that have a handle_<name>_Any fallback.
AnyHandled == {"EventTrace", "FileIo", "Image", "Process", "SystemConfig"}

\* DosDriveMap.__init__: QueryDosDevice of every letter C: to Z: that has a
\* device (mounts: letter -> device); the assert rejects two letters of
\* one device.
DuplicateDevice(mounts) ==
  \E l1, l2 \in DOMAIN mounts : l1 # l2 /\ mounts[l1] = mounts[l2]

\* The resulting _MAPPING, device -> letter, when no device repeats.
DosDriveMap(mounts) ==
  [d \in {mounts[l] : l \in DOMAIN mounts} |->
     CHOOSE l \in DOMAIN mounts : mounts[l] = d]

InitContext(map) ==
  [processes |-> {}, files |-> {}, non_existent |-> {},
   first_line |-> FALSE, drive_map |-> map, err |-> NoErr]

Fail(c, e) == [c EXCEPT !.err = e]

\* blacklist() of trace_inputs(): str.startswith on the IGNORED prefixes,
\* at the granularity of whole components.
Blacklisted(cs) == \E i \in Ignored : IsPrefix(i, cs)

\* Mutant: the drive letter is dropped from the converted path.
ToDosNoDrive(map, nt) ==
  IF nt.dev \notin DOMAIN map THEN NoPath ELSE nt.comps

\* Mutant: the first component after the device is lost with the separator.
ToDosOffByOne(map, nt) ==
  IF nt.dev \notin DOMAIN map THEN NoPath
  ELSE <<map[nt.dev]>> \o (IF nt.comps = <<>> THEN <<>> ELSE Tail(nt.comps))

\* DosDriveMap.to_dos: \Device\X\rest -> <letter of X>\rest; a device the
\* map does not hold fails the assert (NoPath).
ToDos(map, nt) ==
  IF nt.dev \notin DOMAIN map THEN NoPath ELSE <<map[nt.dev]>> \o nt.comps

(***************************************************************************)
(* _handle_file: blacklisted paths, directories and known paths are       *)
(* skipped; the rest is classified with os.path.isfile().                  *)
(***************************************************************************)
HandleFile(c, fp, dirs, fls) ==
  IF Blacklisted(fp) \/ IsDir(fp, dirs) \/ fp \in c.files \cup c.non_existent
    THEN c
  ELSE IF IsFile(fp, dirs, fls) THEN [c EXCEPT !.files = @ \cup {fp}]
  ELSE [c EXCEPT !.non_existent = @ \cup {fp}]

\* handle_FileIo_Create: the quoted NT path, to_dos(), lower().  No pid
\* test: every process's creates reach _handle_file.
HandleFileIoCreate(c, l, dirs, fls) ==
  LET fp == ToDos(c.drive_map, l.path) IN
  IF fp = NoPath THEN Fail(c, "AssertionError")
  ELSE HandleFile(c, fp, dirs, fls)

\* handle_Process_DCStart: the parent of logman.exe is the tracing process.
HandleProcessDCStart(c, l) ==
  IF l.pname = Logman THEN [c EXCEPT !.processes = @ \cup {l.ppid}] ELSE c

\* handle_Process_End.
HandleProcessEnd(c, l) ==
  IF l.pid \in c.processes THEN [c EXCEPT !.processes = @ \ {l.pid}] ELSE c

\* Mutant: the logman.exe shutdown call is not skipped.
HandleProcessStartNoSkip(c, l) ==
  IF l.pid \in c.processes THEN [c EXCEPT !.processes = @ \cup {l.child}]
  ELSE c

\* handle_Process_Start: a child of a known process is added, unless it is
\* logman.exe (the "logman stop" call).
HandleProcessStart(c, l) ==
  IF l.pid \in c.processes /\ l.pname # Logman
    THEN [c EXCEPT !.processes = @ \cup {l.child}]
  ELSE c

(***************************************************************************)
(* on_csv_line: the first row must be the header; then the handler        *)
(* handle_<name>_<type>, else handle_<name>_Any, else assert False.  The  *)
(* handlers for EventTrace, FileIo_Rename, FileIo_Any, Image_*, Process_Any *)
(* and SystemConfig_Any do nothing.                                        *)
(***************************************************************************)
OnCsvLine(c, l, dirs, fls) ==
  IF ~c.first_line
    THEN IF l.name = Header THEN [c EXCEPT !.first_line = TRUE]
         ELSE Fail(c, "AssertionError")
  ELSE CASE l.name = "FileIo" /\ l.type = "Create" ->
              HandleFileIoCreate(c, l, dirs, fls)
         [] l.name = "Process" /\ l.type = "DCStart" -> HandleProcessDCStart(c, l)
         [] l.name = "Process" /\ l.type = "End"     -> HandleProcessEnd(c, l)
         [] l.name = "Process" /\ l.type = "Start"   -> HandleProcessStart(c, l)
         [] l.name \in AnyHandled                    -> c
         [] OTHER                                    -> Fail(c, "AssertionError")

====
