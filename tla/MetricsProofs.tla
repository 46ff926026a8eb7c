---------------------------- MODULE MetricsProofs ----------------------------
(***************************************************************************)
(* Proofs about Collector and Reporter, for every size of the ring, every  *)
(* set of latencies and any number of messages, lines and crashes.         *)
(***************************************************************************)
EXTENDS Reporter, SequenceTheorems, TLAPS

\* What FinalReport needs of the steps that lead to it: until the counters are
\* reset they hold what they held when Stop was called, and so does the last
\* snapshot, which only moves on from the select once stopCh is closed.
FinalInv ==
    /\ floor <= arrived
    /\ final => stopCh
    /\ reporter = "done" => final
    /\ json # Nothing => final
    /\ reporter = "log" /\ final => snap >= floor
    /\ reporter \in {"csv", "header", "row", "done"} /\ final => logged >= floor
    /\ json # Nothing => json >= floor

MetricsInv == TypeOK /\ SkewBounded /\ FinalInv

\* What HeaderUnlessMissed needs: a file that is open and still empty is about
\* to get its header or has missed it, and rows only go into an open file.
HeaderInv ==
    /\ reporter = "header" => csvFile /\ file = <<>>
    /\ reporter = "row" => csvFile
    /\ csvFile /\ file = <<>> /\ reporter # "header" => missed
    /\ HeaderUnlessMissed

\* The values of a new collector and a new reporter are of their types.
LEMMA NewValues ==
  /\ [i \in 0..RingSize - 1 |-> 0] \in [0..RingSize - 1 -> Latency \union {0}]
  /\ 0 \in 0..RingSize - 1 /\ 0 \in 0..MaxArrived /\ 0 \in 0..MaxCrashes /\ 0 \in Nat
  /\ <<>> \in Seq({"header", "row"})
  BY RingSizePositive, MaxArrivedNat, ReporterBounds

LEMMA MetricsInit == Init => MetricsInv
<1> SUFFICES ASSUME Init PROVE MetricsInv
  OBVIOUS
<1>1. CollectorTypeOK
  BY NewValues, Zenon DEF Init, CollectorInit, CollectorTypeOK
<1>2. SkewBounded BY DEF Init, CollectorInit, SkewBounded
<1>3. TypeOK BY <1>1, NewValues, Zenon DEF Init, TypeOK
<1>4. FinalInv
  BY DEF Init, CollectorInit, FinalInv, Nothing
<1> QED BY <1>2, <1>3, <1>4 DEF MetricsInv

\* A step of recvLoop or of Reset keeps the collector's part.
LEMMA CollectorStep ==
  ASSUME CollectorTypeOK, SkewBounded, CollectorNext
  PROVE  CollectorTypeOK' /\ SkewBounded'
<1> USE RingSizePositive, LatencyNat, MaxArrivedNat
<1>1. CASE RecordRecv
  BY <1>1 DEF RecordRecv, ring, CollectorTypeOK, SkewBounded
<1>2. CASE NoLatency
  BY <1>2 DEF NoLatency, ring, CollectorTypeOK, SkewBounded
<1>3. CASE ResetCounters
  BY <1>3 DEF ResetCounters, ring, CollectorTypeOK, SkewBounded
<1>4. CASE ResetRing
  <2>1. 0 \in 0..RingSize - 1 OBVIOUS
  <2> QED BY <1>4, <2>1 DEF ResetRing, CollectorTypeOK, SkewBounded
<1>5. ASSUME NEW ms \in Latency, RecordLatency(ms)
      PROVE  CollectorTypeOK' /\ SkewBounded'
  BY <1>5 DEF RecordLatency, CollectorTypeOK, SkewBounded
<1>6. ASSUME NEW drop \in BOOLEAN, Dispatch(drop)
      PROVE  CollectorTypeOK' /\ SkewBounded'
  BY <1>6 DEF Dispatch, ring, CollectorTypeOK, SkewBounded
<1> QED BY <1>1, <1>2, <1>3, <1>4, <1>5, <1>6 DEF CollectorNext

\* The steps of the reporter leave the collector alone.
LEMMA CollectorKept ==
  ASSUME CollectorTypeOK, SkewBounded, UNCHANGED collectorVars
  PROVE  CollectorTypeOK' /\ SkewBounded'
  BY DEF collectorVars, ring, CollectorTypeOK, SkewBounded

LEMMA MetricsStep == MetricsInv /\ [Next]_vars => MetricsInv'
<1> SUFFICES ASSUME MetricsInv, [Next]_vars PROVE MetricsInv'
  OBVIOUS
<1> USE MaxArrivedNat DEF MetricsInv, TypeOK, FinalInv, Nothing
<1>1. CASE Count
  <2>1. CollectorTypeOK' /\ SkewBounded' BY <1>1, CollectorStep DEF Count
  <2>2. arrived \in Nat /\ arrived' \in 0..MaxArrived
    BY <2>1 DEF CollectorTypeOK
  <2> QED BY <1>1, <2>1, <2>2 DEF Count
<1>2. CASE Crash
  <2>1. CollectorTypeOK' BY <1>2, NewValues, Zenon DEF Crash, CollectorTypeOK
  <2>2. SkewBounded' BY <1>2 DEF Crash, SkewBounded
  <2>3. crashes' \in 0..MaxCrashes BY <1>2, ReporterBounds DEF Crash
  <2>4. TypeOK' BY <1>2, <2>1, <2>3, NewValues, Zenon DEF Crash
  <2> QED BY <1>2, <2>2, <2>4 DEF Crash
<1>3. ASSUME UNCHANGED collectorVars
      PROVE  CollectorTypeOK' /\ SkewBounded' /\ arrived' = arrived
  BY <1>3, CollectorKept DEF collectorVars
<1>4. arrived \in 0..MaxArrived BY DEF CollectorTypeOK
<1>5. CASE Tick BY <1>3, <1>4, <1>5 DEF Tick, Snapshot
<1>6. CASE LastReport BY <1>3, <1>4, <1>6 DEF LastReport, Snapshot
<1>7. CASE Log BY <1>3, <1>4, <1>7 DEF Log
<1>8. CASE Stop BY <1>3, <1>4, <1>8 DEF Stop
<1>9. CASE FlushToFile BY <1>3, <1>4, <1>9 DEF FlushToFile, Snapshot
<1>10. CASE OpenCSV
  <2>1. /\ reporter' \in {"header", "row", AfterOutput}
        /\ AfterOutput \in {"select", "done"} /\ csvFile' \in BOOLEAN
        /\ missed' \in BOOLEAN
    BY <1>10 DEF OpenCSV, AfterOutput
  <2> QED BY <1>3, <1>4, <1>10, <2>1 DEF OpenCSV, AfterOutput
<1>11. ASSUME NEW written \in BOOLEAN,
              WriteCSVHeader(written) \/ WriteCSVRow(written)
       PROVE  MetricsInv'
  <2>1. file' \in Seq({"header", "row"})
    <3>1. file' = file \/ \E x \in {"header", "row"} : file' = Append(file, x)
      BY <1>11 DEF WriteCSVHeader, WriteCSVRow
    <3>2. file \in Seq({"header", "row"}) OBVIOUS
    <3>3. ASSUME NEW x \in {"header", "row"}, file' = Append(file, x)
          PROVE  file' \in Seq({"header", "row"})
      <4> DEFINE Line == {"header", "row"}
      <4>1. file \in Seq(Line) /\ x \in Line BY <3>2
      <4> HIDE DEF Line
      <4>2. Append(file, x) \in Seq(Line) BY <4>1, AppendProperties
      <4> QED BY <3>3, <4>2 DEF Line
    <3> QED BY <3>1, <3>2, <3>3
  <2>2. missed' \in BOOLEAN
    <3>1. CASE WriteCSVHeader(written)
      <4>1. missed' = (missed \/ ~written) BY <3>1 DEF WriteCSVHeader
      <4> QED BY <4>1, Zenon
    <3>2. CASE WriteCSVRow(written) BY <3>2 DEF WriteCSVRow
    <3> QED BY <1>11, <3>1, <3>2
  <2> QED BY <1>3, <1>4, <1>11, <2>1, <2>2 DEF WriteCSVHeader, WriteCSVRow, AfterOutput
<1>12. CASE UNCHANGED vars
  BY <1>3, <1>4, <1>12 DEF vars, reporterVars
<1> QED
  BY <1>1, <1>2, <1>5, <1>6, <1>7, <1>8, <1>9, <1>10, <1>11, <1>12 DEF Next

\* The collector and the reporter keep their types.
THEOREM MetricsTypes == Spec => []TypeOK
<1>1. MetricsInv => TypeOK BY DEF MetricsInv
<1> QED BY <1>1, MetricsInit, MetricsStep, PTL DEF Spec

\* Whatever a Reset met half way, no more drops are counted than arrivals, but
\* for the message that recvLoop had in hand.
THEOREM SkewStaysBounded == Spec => []SkewBounded
<1>1. MetricsInv => SkewBounded BY DEF MetricsInv
<1> QED BY <1>1, MetricsInit, MetricsStep, PTL DEF Spec

\* When the reporter has ended, its last line and the JSON file show all that
\* had been counted when Stop was called.
THEOREM LastReportIsComplete == Spec => []FinalReport
<1>1. MetricsInv => FinalReport BY DEF MetricsInv, FinalInv, FinalReport
<1> QED BY <1>1, MetricsInit, MetricsStep, PTL DEF Spec

LEMMA HeaderStep ==
  ASSUME TypeOK, HeaderInv, [Next]_vars
  PROVE  HeaderInv'
<1> USE DEF HeaderInv, HeaderUnlessMissed
<1>1. file \in Seq({"header", "row"}) /\ Len(file) \in Nat BY DEF TypeOK
<1>2. ASSUME UNCHANGED <<reporter, csvFile, file, missed>> PROVE HeaderInv'
  BY <1>2
<1>3. CASE UNCHANGED <<csvFile, file, missed>> /\ reporter # "header"
           /\ reporter' \in {"select", "log", "csv", "done"}
  BY <1>3
<1>4. CASE OpenCSV
  <2>1. UNCHANGED file BY <1>4 DEF OpenCSV
  <2>2. CASE /\ csvFile /\ reporter' = "row" /\ UNCHANGED <<csvFile, missed>>
             /\ reporter = "csv"
    BY <2>1, <2>2
  <2>3. CASE /\ ~csvFile /\ reporter' = AfterOutput /\ UNCHANGED <<csvFile, missed>>
    BY <2>1, <2>3 DEF AfterOutput
  <2>4. ASSUME NEW statted \in BOOLEAN, csvFile' = TRUE,
               reporter' = IF statted /\ NeedsHeader(file) THEN "header" ELSE "row",
               missed' = (missed \/ (~statted /\ file = <<>>))
        PROVE  HeaderInv'
    <3>1. missed => missed' BY <2>4
    <3>2. reporter' = "header" => file = <<>> BY <2>4 DEF NeedsHeader
    <3>3. file = <<>> /\ reporter' # "header" => missed' BY <2>4 DEF NeedsHeader
    <3> QED BY <2>1, <2>4, <3>1, <3>2, <3>3
  <2> QED BY <1>4, <2>2, <2>3, <2>4, Zenon DEF OpenCSV
<1>5. ASSUME NEW written \in BOOLEAN, WriteCSVHeader(written) PROVE HeaderInv'
  <2>1. CASE written
    <3>1. file' = <<"header">> BY <1>5, <2>1 DEF WriteCSVHeader
    <3>2. Len(file') = 1 /\ file'[1] = "header" /\ file' # <<>> BY <3>1
    <3>3. reporter' = "row" /\ csvFile' = csvFile /\ csvFile BY <1>5 DEF WriteCSVHeader
    <3> QED BY <3>2, <3>3
  <2>2. CASE ~written
    <3>1. missed' = TRUE BY <1>5, <2>2, Zenon DEF WriteCSVHeader
    <3> QED BY <1>5, <2>2, <3>1 DEF WriteCSVHeader
  <2> QED BY <2>1, <2>2
<1>6. ASSUME NEW written \in BOOLEAN, WriteCSVRow(written) PROVE HeaderInv'
  <2>1. reporter' \in {"select", "done"} /\ csvFile /\ UNCHANGED <<csvFile, missed>>
    BY <1>6 DEF WriteCSVRow, AfterOutput
  <2>2. CASE written
    <3>1. file' = Append(file, "row") BY <1>6, <2>2 DEF WriteCSVRow
    <3>2. /\ Len(file') = Len(file) + 1 /\ file'[Len(file) + 1] = "row"
          /\ \A i \in 1..Len(file) : file'[i] = file[i]
      BY <1>1, <3>1
    <3>3. file = <<>> <=> Len(file) = 0 BY <1>1
    <3>4. Len(file) = 0 => missed BY <1>6, <2>1, <3>3 DEF WriteCSVRow
    <3>5. HeaderUnlessMissed' BY <1>1, <2>1, <3>2, <3>4
    <3>6. file' # <<>> BY <1>1, <3>2
    <3> QED BY <2>1, <3>5, <3>6
  <2>3. CASE ~written BY <1>6, <2>1, <2>3 DEF WriteCSVRow
  <2> QED BY <2>2, <2>3
<1>7. CASE Crash BY <1>7 DEF Crash
<1>8. CASE Count \/ Stop \/ FlushToFile \/ UNCHANGED vars
  BY <1>2, <1>8 DEF Count, Stop, FlushToFile, vars, reporterVars
<1>9. CASE Tick \/ LastReport \/ Log
  BY <1>3, <1>9 DEF Tick, LastReport, Log
<1> QED BY <1>4, <1>5, <1>6, <1>7, <1>8, <1>9 DEF Next

\* However often the process dies and is started again, a CSV file starts with
\* its one header unless the attempt to write it failed.
THEOREM HeaderComesFirst == Spec => []HeaderUnlessMissed
<1>1. Init => HeaderInv BY DEF Init, HeaderInv, HeaderUnlessMissed
<1>2. MetricsInv => TypeOK BY DEF MetricsInv
<1>3. HeaderInv => HeaderUnlessMissed BY DEF HeaderInv
<1> QED
  BY <1>1, <1>2, <1>3, HeaderStep, MetricsInit, MetricsStep, PTL DEF Spec

-----------------------------------------------------------------------------
(* The ring is a window: what latencies() makes of a buffer, a position    *)
(* and a flag, and what a sample more makes of it.                         *)

Samples == Latency \union {0}

Window(buf, pos, full) ==
    [i \in 1..(IF full = 1 THEN RingSize ELSE pos) |->
        IF full = 0 THEN buf[i - 1]
        ELSE IF pos + i - 1 < RingSize THEN buf[pos + i - 1]
        ELSE buf[pos + i - 1 - RingSize]]

LEMMA WindowIsSeq ==
  ASSUME NEW buf \in [0..RingSize - 1 -> Samples], NEW pos \in 0..RingSize - 1,
         NEW full \in {0, 1}
  PROVE  /\ Window(buf, pos, full) \in Seq(Samples)
         /\ Len(Window(buf, pos, full)) = IF full = 1 THEN RingSize ELSE pos
<1>1. (IF full = 1 THEN RingSize ELSE pos) \in 0..RingSize BY RingSizePositive
<1>2. ASSUME NEW i \in 1..(IF full = 1 THEN RingSize ELSE pos)
      PROVE  Window(buf, pos, full)[i] \in Samples
  BY <1>1, RingSizePositive DEF Window
<1> QED BY <1>1, <1>2, RingSizePositive DEF Window

Full == IF latFull THEN 1 ELSE 0

LEMMA LatenciesAre == Latencies = Window(latBuf, latPos, Full)
  BY DEF Latencies, Window, Full

LEMMA LatenciesAreNext == Latencies' = Window(latBuf', latPos', Full')
  BY DEF Latencies, Window, Full

LEMMA WindowAt ==
  ASSUME NEW buf, NEW pos \in 0..RingSize - 1, NEW full \in {0, 1},
         NEW i \in 1..(IF full = 1 THEN RingSize ELSE pos)
  PROVE  Window(buf, pos, full)[i]
           = IF full = 0 THEN buf[i - 1]
             ELSE IF pos + i - 1 < RingSize THEN buf[pos + i - 1]
             ELSE buf[pos + i - 1 - RingSize]
  BY DEF Window

\* A sample more, when the ring has not wrapped yet and when it has.
LEMMA RingAdds ==
  ASSUME CollectorTypeOK, CollectorTypeOK', NEW ms \in Latency, RecordLatency(ms)
  PROVE  RingIsWindow!Add(ms)
<1> DEFINE w == Window(latBuf, latPos, Full)
           w2 == Window(latBuf', latPos', Full')
<1> USE RingSizePositive
<1>1. /\ latBuf \in [0..RingSize - 1 -> Samples] /\ latPos \in 0..RingSize - 1
      /\ Full \in {0, 1} /\ ms \in Samples
  BY DEF CollectorTypeOK, Full, Samples
<1>2. /\ latBuf' \in [0..RingSize - 1 -> Samples]
      /\ latPos' \in 0..RingSize - 1 /\ Full' \in {0, 1}
  BY DEF CollectorTypeOK, Full, Samples
<1>3. \A j \in 0..RingSize - 1 : latBuf'[j] = IF j = latPos THEN ms ELSE latBuf[j]
  BY <1>1 DEF RecordLatency
<1>4. /\ latPos + 1 >= RingSize => latPos' = 0 /\ Full' = 1
      /\ latPos + 1 < RingSize => latPos' = latPos + 1 /\ Full' = Full
  <2>1. latPos' = IF latPos + 1 >= RingSize THEN 0 ELSE latPos + 1
    BY DEF RecordLatency
  <2>2. latPos + 1 >= RingSize => latFull' BY DEF RecordLatency
  <2>3. latPos + 1 < RingSize => (latFull' <=> latFull)
    <3>1. ASSUME latPos + 1 < RingSize PROVE ~(latPos + 1 >= RingSize) BY <1>1, <3>1
    <3> QED BY <3>1 DEF RecordLatency
  <2>4. latPos + 1 >= RingSize => Full' = 1 BY <2>2 DEF Full
  <2>5. latPos + 1 < RingSize => Full' = Full BY <2>3, Zenon DEF Full
  <2> QED BY <1>1, <2>1, <2>4, <2>5
<1>5. w \in Seq(Samples) /\ Len(w) = IF Full = 1 THEN RingSize ELSE latPos
  BY <1>1, WindowIsSeq
<1>6. w2 \in Seq(Samples) /\ Len(w2) = IF Full' = 1 THEN RingSize ELSE latPos'
  BY <1>2, WindowIsSeq
<1>7. ASSUME Full = 0 PROVE Len(w) < RingSize /\ w2 = Append(w, ms)
  <2>1. Len(w) < RingSize BY <1>1, <1>5, <1>7
  <2>2. /\ Append(w, ms) \in Seq(Samples) /\ Len(Append(w, ms)) = latPos + 1
        /\ \A i \in 1..latPos : Append(w, ms)[i] = w[i]
        /\ Append(w, ms)[latPos + 1] = ms
    <3> HIDE DEF w
    <3> QED BY <1>1, <1>5, <1>7, AppendProperties
  <2>3. Len(w2) = latPos + 1
    <3> HIDE DEF w2
    <3>1. CASE latPos + 1 >= RingSize
      <4>1. Full' = 1 BY <1>4, <3>1
      <4> QED BY <1>1, <1>6, <3>1, <4>1
    <3>2. CASE latPos + 1 < RingSize
      <4>1. Full' = 0 /\ latPos' = latPos + 1 BY <1>4, <1>7, <3>2
      <4> QED BY <1>6, <4>1
    <3> QED BY <1>1, <3>1, <3>2
  <2>4. ASSUME NEW i \in 1..latPos + 1 PROVE w2[i] = latBuf'[i - 1]
    <3>1. CASE latPos + 1 >= RingSize
      <4>1. latPos' = 0 /\ Full' = 1 BY <1>4, <3>1
      <4>2. latPos + 1 = RingSize BY <1>1, <3>1
      <4>3. i \in 1..(IF Full' = 1 THEN RingSize ELSE latPos') BY <4>1, <4>2
      <4> QED BY <1>1, <1>2, <4>1, <4>2, <4>3, WindowAt
    <3>2. CASE latPos + 1 < RingSize
      <4>1. latPos' = latPos + 1 /\ Full' = 0 BY <1>4, <1>7, <3>2
      <4>2. i \in 1..(IF Full' = 1 THEN RingSize ELSE latPos') BY <4>1
      <4> QED BY <1>2, <4>1, <4>2, WindowAt
    <3> QED BY <1>1, <3>1, <3>2
  <2>5. ASSUME NEW i \in 1..latPos PROVE w2[i] = w[i]
    <3>1. w[i] = latBuf[i - 1] BY <1>1, <1>7, WindowAt
    <3>2. w2[i] = latBuf'[i - 1] BY <1>1, <2>4
    <3>3. latBuf'[i - 1] = latBuf[i - 1] BY <1>1, <1>3
    <3> QED BY <3>1, <3>2, <3>3, Zenon
  <2>6. w2[latPos + 1] = ms
    <3>1. w2[latPos + 1] = latBuf'[latPos + 1 - 1] BY <1>1, <2>4
    <3>2. latBuf'[latPos + 1 - 1] = ms BY <1>1, <1>3
    <3> QED BY <3>1, <3>2, Zenon
  <2>7. ASSUME NEW i \in 1..Len(w2) PROVE w2[i] = Append(w, ms)[i]
    <3> HIDE DEF w, w2
    <3>1. CASE i \in 1..latPos BY <2>2, <2>5, <3>1
    <3>2. CASE i = latPos + 1 BY <2>2, <2>6, <3>2
    <3>3. i \in 1..latPos \/ i = latPos + 1 BY <1>1, <2>3
    <3> QED BY <3>1, <3>2, <3>3
  <2>8. w2 = Append(w, ms)
    <3> HIDE DEF w, w2
    <3> QED BY <1>6, <2>2, <2>3, <2>7, SeqEqual
  <2> QED BY <2>1, <2>8, Zenon
<1>8. ASSUME Full = 1 PROVE ~(Len(w) < RingSize) /\ w2 = Append(Tail(w), ms)
  <2> DEFINE t == Append(Tail(w), ms)
  <2>1. w # <<>> /\ Len(w) = RingSize
    <3> HIDE DEF w
    <3> QED BY <1>5, <1>8
  <2>2. /\ Tail(w) \in Seq(Samples) /\ Len(Tail(w)) = RingSize - 1
        /\ \A i \in 1..RingSize - 1 : Tail(w)[i] = w[i + 1]
    <3> HIDE DEF w
    <3> QED BY <1>5, <2>1, HeadTailProperties
  <2>3. /\ t \in Seq(Samples) /\ Len(t) = RingSize
        /\ \A i \in 1..RingSize - 1 : t[i] = w[i + 1]
        /\ t[RingSize] = ms
    <3> HIDE DEF w
    <3> QED BY <1>1, <2>2, AppendProperties
  <2>4. Full' = 1 /\ Len(w2) = RingSize
    <3> HIDE DEF w2
    <3> QED BY <1>1, <1>4, <1>6, <1>8
  <2>5. ASSUME NEW i \in 1..RingSize
        PROVE  w2[i] = IF latPos' + i - 1 < RingSize
                       THEN latBuf'[latPos' + i - 1]
                       ELSE latBuf'[latPos' + i - 1 - RingSize]
    <3>1. Full' = 1 BY <2>4
    <3>2. i \in 1..(IF Full' = 1 THEN RingSize ELSE latPos') BY <3>1
    <3>3. w2[i] = IF Full' = 0 THEN latBuf'[i - 1]
                  ELSE IF latPos' + i - 1 < RingSize
                       THEN latBuf'[latPos' + i - 1]
                       ELSE latBuf'[latPos' + i - 1 - RingSize]
      BY <1>2, <3>1, <3>2, WindowAt, ZenonT(30)
    <3> HIDE DEF w2
    <3> QED BY <3>1, <3>3
  <2>6. ASSUME NEW i \in 1..RingSize - 1 PROVE w2[i] = w[i + 1]
    <3>1. w[i + 1] = IF latPos + i < RingSize THEN latBuf[latPos + i]
                                              ELSE latBuf[latPos + i - RingSize]
      <4>1. i + 1 \in 1..RingSize /\ latPos + (i + 1) - 1 = latPos + i BY <1>1
      <4> QED BY <1>1, <1>8, <4>1, WindowAt
    <3>2. w2[i] = IF latPos' + i - 1 < RingSize
                  THEN latBuf'[latPos' + i - 1]
                  ELSE latBuf'[latPos' + i - 1 - RingSize]
      <4>1. i \in 1..RingSize OBVIOUS
      <4> QED BY <2>5, <4>1, Zenon
    <3> HIDE DEF w, w2
    <3>3. CASE latPos + i < RingSize
      <4>1. latPos' = latPos + 1 BY <1>1, <1>4, <3>3
      <4>2. w2[i] = latBuf'[latPos + i] BY <1>1, <3>2, <3>3, <4>1
      <4>3. latBuf'[latPos + i] = latBuf[latPos + i] BY <1>1, <1>3, <3>3
      <4> QED BY <3>1, <3>3, <4>2, <4>3
    <3>4. CASE latPos + i >= RingSize
      <4>1. w2[i] = latBuf'[latPos + i - RingSize] BY <1>1, <1>4, <3>2, <3>4
      <4>2. latBuf'[latPos + i - RingSize] = latBuf[latPos + i - RingSize]
        BY <1>1, <1>3, <3>4
      <4> QED BY <1>1, <3>1, <3>4, <4>1, <4>2
    <3> QED BY <1>1, <3>3, <3>4
  <2>7. w2[RingSize] = ms
    <3>1. RingSize \in 1..RingSize OBVIOUS
    <3>2. w2[RingSize] = IF latPos' + RingSize - 1 < RingSize
                         THEN latBuf'[latPos' + RingSize - 1]
                         ELSE latBuf'[latPos' + RingSize - 1 - RingSize]
      BY <2>5, <3>1, Zenon
    <3> HIDE DEF w2
    <3>3. w2[RingSize] = latBuf'[latPos] BY <1>1, <1>4, <3>2
    <3>4. latBuf'[latPos] = ms BY <1>1, <1>3
    <3> QED BY <3>3, <3>4
  <2>8. ASSUME NEW i \in 1..Len(w2) PROVE w2[i] = t[i]
    <3> HIDE DEF w, w2, t
    <3>1. CASE i \in 1..RingSize - 1 BY <2>3, <2>6, <3>1
    <3>2. CASE i = RingSize BY <2>3, <2>7, <3>2
    <3>3. i \in 1..RingSize - 1 \/ i = RingSize BY <2>4
    <3> QED BY <3>1, <3>2, <3>3
  <2>9. w2 = t
    <3> HIDE DEF w, w2, t
    <3> QED BY <1>6, <2>3, <2>4, <2>8, SeqEqual
  <2>10. ~(Len(w) < RingSize)
    <3> HIDE DEF w
    <3> QED BY <2>1
  <2> QED BY <2>9, <2>10, Zenon
<1>9. w2 = IF Len(w) < RingSize THEN Append(w, ms) ELSE Append(Tail(w), ms)
  BY <1>1, <1>7, <1>8
<1>10. w = Latencies /\ w2 = Latencies' BY LatenciesAre, LatenciesAreNext
<1> HIDE DEF w, w2
<1> QED BY <1>9, <1>10 DEF RingIsWindow!Add

\* The steps of the collector are steps of the window.
LEMMA RingStep ==
  ASSUME CollectorTypeOK, CollectorTypeOK', CollectorNext
  PROVE  [RingIsWindow!Next]_Latencies
<1>1. ASSUME UNCHANGED ring PROVE UNCHANGED Latencies
  BY <1>1 DEF ring, Latencies
<1>2. CASE RecordRecv BY <1>1, <1>2 DEF RecordRecv
<1>3. CASE NoLatency BY <1>1, <1>3 DEF NoLatency
<1>4. CASE ResetCounters BY <1>1, <1>4 DEF ResetCounters
<1>5. ASSUME NEW drop \in BOOLEAN, Dispatch(drop) PROVE UNCHANGED Latencies
  BY <1>1, <1>5 DEF Dispatch
<1>6. CASE ResetRing
  <2>1. Latencies' = <<>> BY <1>6 DEF ResetRing, Latencies
  <2> QED BY <2>1 DEF RingIsWindow!Next, RingIsWindow!Clear
<1>7. ASSUME NEW ms \in Latency, RecordLatency(ms) PROVE RingIsWindow!Add(ms)
  BY <1>7, RingAdds
<1> QED
  BY <1>2, <1>3, <1>4, <1>5, <1>6, <1>7 DEF CollectorNext, RingIsWindow!Next

\* The ring implements SlidingWindow: through wrapping, resets that leave old
\* samples in the buffer, and new processes, latencies() returns the latest
\* samples in their order.
THEOREM RingImplementsWindow == Spec => RingShowsLatest
<1>1. Init => RingIsWindow!Init
  BY DEF Init, CollectorInit, Latencies, RingIsWindow!Init
<1>2. MetricsInv /\ MetricsInv' /\ [Next]_vars => [RingIsWindow!Next]_Latencies
  <2> SUFFICES ASSUME MetricsInv, MetricsInv', [Next]_vars
               PROVE  [RingIsWindow!Next]_Latencies
    OBVIOUS
  <2>1. CollectorTypeOK /\ CollectorTypeOK' BY DEF MetricsInv, TypeOK
  <2>2. CASE Count BY <2>1, <2>2, RingStep DEF Count
  <2>3. CASE Crash
    <3>1. Latencies' = <<>> BY <2>3 DEF Crash, Latencies
    <3> QED BY <3>1 DEF RingIsWindow!Next, RingIsWindow!Clear
  <2>4. CASE UNCHANGED collectorVars
    BY <2>4 DEF collectorVars, ring, Latencies
  <2> QED
    BY <2>2, <2>3, <2>4
    DEF Next, vars, Tick, LastReport, Log, Stop, FlushToFile, OpenCSV,
        WriteCSVHeader, WriteCSVRow
<1> QED
  BY <1>1, <1>2, MetricsInit, MetricsStep, PTL
  DEF Spec, RingShowsLatest, RingIsWindow!Spec
==============================================================================
