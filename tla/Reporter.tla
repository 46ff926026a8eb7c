------------------------------ MODULE Reporter -------------------------------
(***************************************************************************)
(* Reporting the metrics (node/metrics/reporter.go and snapshot.go), as    *)
(* cmd/node runs it: a goroutine that logs a snapshot on every tick and    *)
(* appends it to a CSV file that outlives the process, a last one when the *)
(* program is told to stop, and the JSON file main writes after that.      *)
(* recvLoop keeps counting all the while, and the process may die at any   *)
(* step.  A snapshot is represented by its count of messages received.     *)
(***************************************************************************)
EXTENDS Collector

CONSTANTS
    MaxLines,   \* bound: no tick when the CSV file has as many lines
    MaxCrashes  \* bound: how often the process dies

ASSUME ReporterBounds == MaxLines \in Nat /\ MaxCrashes \in Nat

VARIABLES
    reporter,   \* the loop: "select", "log", "csv", "header", "row" or "done"
    final,      \* has it seen stopCh?
    snap,       \* the snapshot in hand
    csvFile,    \* is the CSV file open?
    stopCh,     \* has Stop closed it?
    logged,     \* the last snapshot logged
    json,       \* the snapshot of FlushToFile, or Nothing
    file,       \* the lines of the CSV file, which survives the process
    floor,      \* history: the messages counted when stopCh was closed
    missed,     \* history: was a header due and its Stat or Write failed?
    crashes

Nothing == -1
reporterVars == <<reporter, final, snap, csvFile, stopCh, logged, json, file,
                  floor, missed, crashes>>
vars == <<collectorVars, reporterVars>>

Init ==
    /\ CollectorInit
    /\ reporter = "select" /\ final = FALSE /\ snap = 0 /\ csvFile = FALSE
    /\ stopCh = FALSE /\ logged = 0 /\ json = Nothing /\ floor = 0
    /\ file = <<>> /\ missed = FALSE /\ crashes = 0

\* recvLoop and Reset; what a Reset clears is not expected in a last report.
Count ==
    /\ CollectorNext
    /\ floor' = IF arrived' < arrived THEN 0 ELSE floor
    /\ UNCHANGED <<reporter, final, snap, csvFile, stopCh, logged, json, file,
                   missed, crashes>>

\* What a report shows of the collector.
Snapshot == arrived

\* loop: a tick, or the end.  A select with both ready takes either.  The
\* mutant returns without a last report.
Tick ==
    /\ reporter = "select" /\ Len(file) < MaxLines
    /\ snap' = Snapshot
    /\ reporter' = "log"
    /\ UNCHANGED <<collectorVars, final, csvFile, stopCh, logged, json, file,
                   floor, missed, crashes>>

LastReportNone ==
    /\ reporter = "select" /\ stopCh
    /\ snap' = Snapshot /\ final' = TRUE
    /\ reporter' = "done"
    /\ UNCHANGED <<collectorVars, csvFile, stopCh, logged, json, file, floor,
                   missed, crashes>>
LastReport ==
    /\ reporter = "select" /\ stopCh
    /\ snap' = Snapshot /\ final' = TRUE
    /\ reporter' = "log"
    /\ UNCHANGED <<collectorVars, csvFile, stopCh, logged, json, file, floor,
                   missed, crashes>>

\* output: the log line first.
Log ==
    /\ reporter = "log"
    /\ logged' = snap
    /\ reporter' = "csv"
    /\ UNCHANGED <<collectorVars, final, snap, csvFile, stopCh, json, file,
                   floor, missed, crashes>>

AfterOutput == IF final THEN "done" ELSE "select"

\* appendCSV: the file is opened with the first row, or with a later one when
\* that failed, and gets a header if Stat shows it empty.  Stat and the writes
\* may fail, and their errors are ignored.  The mutant does not look at the
\* size.
NeedsHeaderAlways(lines) == TRUE
NeedsHeader(lines) == lines = <<>>

OpenCSV ==
    /\ reporter = "csv"
    /\ \/ csvFile /\ reporter' = "row" /\ UNCHANGED <<csvFile, missed>>
       \/ ~csvFile /\ reporter' = AfterOutput /\ UNCHANGED <<csvFile, missed>>
       \/ /\ ~csvFile
          /\ csvFile' = TRUE
          /\ \E statted \in BOOLEAN :
                /\ reporter' = IF statted /\ NeedsHeader(file) THEN "header" ELSE "row"
                /\ missed' = (missed \/ (~statted /\ file = <<>>))
    /\ UNCHANGED <<collectorVars, final, snap, stopCh, logged, json, file, floor,
                   crashes>>

WriteCSVHeader(written) ==
    /\ reporter = "header"
    /\ file' = IF written THEN Append(file, "header") ELSE file
    /\ missed' = (missed \/ ~written)
    /\ reporter' = "row"
    /\ UNCHANGED <<collectorVars, final, snap, csvFile, stopCh, logged, json,
                   floor, crashes>>

WriteCSVRow(written) ==
    /\ reporter = "row"
    /\ file' = IF written THEN Append(file, "row") ELSE file
    /\ reporter' = AfterOutput
    /\ UNCHANGED <<collectorVars, final, snap, csvFile, stopCh, logged, json,
                   floor, missed, crashes>>

\* main: after a signal Stop closes stopCh and waits for the loop, and then
\* FlushToFile takes a snapshot of its own.
Stop ==
    /\ ~stopCh
    /\ stopCh' = TRUE /\ floor' = arrived
    /\ UNCHANGED <<collectorVars, reporter, final, snap, csvFile, logged, json,
                   file, missed, crashes>>

FlushToFile ==
    /\ reporter = "done" /\ json = Nothing
    /\ json' = Snapshot
    /\ UNCHANGED <<collectorVars, reporter, final, snap, csvFile, stopCh, logged,
                   file, floor, missed, crashes>>

\* The process dies and is started again with the same CSV file.
Crash ==
    /\ crashes < MaxCrashes
    /\ arrived' = 0 /\ dropped' = 0 /\ latPos' = 0 /\ latFull' = FALSE
    /\ latBuf' = [i \in 0..RingSize - 1 |-> 0]
    /\ recvLoop' = "idle" /\ resetting' = "idle"
    /\ reporter' = "select" /\ final' = FALSE /\ snap' = 0 /\ csvFile' = FALSE
    /\ stopCh' = FALSE /\ logged' = 0 /\ json' = Nothing /\ floor' = 0
    /\ crashes' = crashes + 1
    /\ UNCHANGED <<file, missed>>

Next ==
    \/ Count \/ Tick \/ LastReport \/ Log \/ Stop \/ FlushToFile \/ Crash
    \/ OpenCSV
    \/ \E written \in BOOLEAN : WriteCSVHeader(written) \/ WriteCSVRow(written)

Spec == Init /\ [][Next]_vars

-----------------------------------------------------------------------------
\* The collector and the reporter keep values of their types.
TypeOK ==
    /\ CollectorTypeOK
    /\ reporter \in {"select", "log", "csv", "header", "row", "done"}
    /\ final \in BOOLEAN /\ csvFile \in BOOLEAN /\ stopCh \in BOOLEAN
    /\ snap \in 0..MaxArrived /\ logged \in 0..MaxArrived /\ floor \in 0..MaxArrived
    /\ json \in 0..MaxArrived \union {Nothing}
    /\ file \in Seq({"header", "row"}) /\ missed \in BOOLEAN
    /\ crashes \in 0..MaxCrashes

\* "Stop terminates reporting and flushes output": when the loop has ended,
\* the last line logged and the JSON file show every message that had been
\* counted when Stop was called, whatever the loop was doing then.
FinalReport ==
    /\ reporter = "done" => logged >= floor
    /\ json # Nothing => json >= floor

\* A CSV file that has lines starts with its one header, however often the
\* process dies between creating the file, the header and the rows and is
\* started again with the same file: the only way to a file of rows alone is a
\* header whose Stat or Write failed, which appendCSV never tries again once a
\* row is written.
HeaderUnlessMissed ==
    \A i \in 1..Len(file) :
        IF i = 1 THEN file[i] = "row" => missed ELSE file[i] = "row"
==============================================================================
