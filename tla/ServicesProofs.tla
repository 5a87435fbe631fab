--------------------------- MODULE ServicesProofs ---------------------------
(* The components MCServices checks side by side. Imports that return Ok are *)
(* complete. Exports write and remove no file but their own, and one that    *)
(* returns Ok is complete. Requests are carried out at most once, renewed    *)
(* tokens hold and every method meets its own response. For every number of  *)
(* attempts, every file, every content of the database and any number of     *)
(* concurrent requests and of tokens.                                        *)
EXTENDS DatabaseImport, DatabaseExport, ImportFileReader, RpcStub, NumberLemmas,
        SequenceTheorems, TLAPS

-----------------------------------------------------------------------------
(* Export.                                                                   *)
(* The record and the functions keep their shape; their contents are free.   *)
Shape ==
    /\ disk = [p \in Paths |-> disk[p]]
    /\ given = [p \in Paths |-> given[p]]
    /\ export = [pc |-> export.pc, attempt |-> export.attempt, offset |-> export.offset,
                 result |-> export.result, met |-> export.met]

(* Where the call is says which files are its own: both once it has created  *)
(* the second, none before it has created the first.                         *)
OwnFiles ==
    /\ export.pc \in {"idle", "schema", "data", "open", "next", "left", "returned"}
    /\ export.pc \in {"idle", "schema"} => disk = given
    /\ export.pc = "data" => given["schema"] = Absent /\ disk["data"] = given["data"]
    /\ export.pc \in {"open", "next", "left"} => \A p \in Paths : given[p] = Absent

FilesInv == Shape /\ OwnFiles /\ ExportFilesKept

-----------------------------------------------------------------------------
LEMMA FilesInit == ExportInit => FilesInv
  <1> SUFFICES ASSUME ExportInit PROVE FilesInv
    OBVIOUS
  <1>1. Shape
    BY DEF ExportInit, Shape
  <1>2. OwnFiles
    BY DEF ExportInit, OwnFiles
  <1>3. ExportFilesKept
    BY DEF ExportInit, ExportFilesKept, ExportAt
  <1> QED
    BY <1>1, <1>2, <1>3 DEF FilesInv

(* Until the files are created the call can still leave them as they were.   *)
LEMMA CreatingKeepsFiles ==
  ASSUME FilesInv, ComparePaths \/ CreateSchemaFile \/ CreateDataFile
  PROVE  FilesInv'
  <1> USE DEF FilesInv, Shape, OwnFiles, ExportFilesKept, ExportAt, Paths
  <1>1. CASE ComparePaths
    BY <1>1 DEF ComparePaths, ExportReturn
  <1>2. CASE CreateSchemaFile
    <2>1. CASE Creatable("schema") /\ export' = [export EXCEPT !.pc = "data"]
               /\ disk' = [disk EXCEPT !["schema"] = <<>>]
      BY <1>2, <2>1 DEF CreateSchemaFile, Creatable
    <2>2. CASE export' = ExportReturn("err") /\ UNCHANGED disk
      BY <1>2, <2>2 DEF CreateSchemaFile, ExportReturn
    <2> QED
      BY <1>2, <2>1, <2>2 DEF CreateSchemaFile
  <1>3. CASE CreateDataFile
    <2>1. CASE Creatable("data") /\ export' = [export EXCEPT !.pc = "open"]
               /\ disk' = [disk EXCEPT !["data"] = <<>>]
      BY <1>3, <2>1 DEF CreateDataFile, Creatable
    <2>2. CASE disk' = [disk EXCEPT !["schema"] = Absent] /\ export' = ExportReturn("err")
      BY <1>3, <2>2 DEF CreateDataFile, ExportReturn
    <2> QED
      BY <1>3, <2>1, <2>2 DEF CreateDataFile
  <1> QED
    BY <1>1, <1>2, <1>3

(* While attempts run both files are the call's own, whatever is in them.    *)
LEMMA WritingKeepsFiles ==
  ASSUME FilesInv, OpenExport \/ NextAnswer
  PROVE  FilesInv'
  <1>1. /\ export.pc \in {"open", "next"}
        /\ UNCHANGED given
        /\ export'.pc \in {"next", "left"}
        /\ disk' = [p \in Paths |-> disk'[p]]
        /\ export' = [pc |-> export'.pc, attempt |-> export'.attempt, offset |-> export'.offset,
                      result |-> export'.result, met |-> export'.met]
    <2>1. CASE OpenExport
      BY <2>1 DEF OpenExport, ExportAt, ExportLeave, FilesInv, Shape
    <2>2. CASE NextAnswer
      <3>1. ASSUME NEW result, LeaveStream(result)
            PROVE  /\ export'.pc = "left"
                   /\ disk' = disk
                   /\ export' = [pc |-> export'.pc, attempt |-> export'.attempt,
                                 offset |-> export'.offset, result |-> export'.result,
                                 met |-> export'.met]
        BY <3>1 DEF LeaveStream, ExportLeave, FilesInv, Shape
      <3>2. ASSUME NEW q \in Paths, NEW x, Write(q, x), export.pc = "next"
            PROVE  /\ export'.pc \in {"next", "left"}
                   /\ disk' = [p \in Paths |-> disk'[p]]
                   /\ export' = [pc |-> export'.pc, attempt |-> export'.attempt,
                                 offset |-> export'.offset, result |-> export'.result,
                                 met |-> export'.met]
        <4>1. CASE LeaveStream("io")
          BY <4>1, <3>1 DEF FilesInv, Shape
        <4>2. CASE /\ disk' = [disk EXCEPT ![q] = Written(@, export.offset[q], x)]
                   /\ export' = [export EXCEPT !.offset[q] = @ + 1]
          BY <4>2, <3>2 DEF FilesInv, Shape
        <4> QED
          BY <3>2, <4>1, <4>2 DEF Write
      <3>3. export.pc = "next" /\ UNCHANGED given
        BY <2>2 DEF NextAnswer, ExportAt
      <3>4. \/ \E result : LeaveStream(result)
            \/ \E q \in Paths : \E x : Write(q, x)
        BY <2>2 DEF NextAnswer, Paths
      <3> QED
        BY <3>1, <3>2, <3>3, <3>4 DEF FilesInv, Shape
    <2> QED
      BY <2>1, <2>2
  <1> QED
    BY <1>1 DEF FilesInv, Shape, OwnFiles, ExportFilesKept, ExportAt

(* A call that gives up removes the two files it made.                       *)
LEMMA ReturningKeepsFiles ==
  ASSUME FilesInv, ExportReturns
  PROVE  FilesInv'
  <1> USE DEF FilesInv, Shape, OwnFiles, ExportFilesKept, ExportAt
  <1>1. CASE export' = [export EXCEPT !.pc = "open", !.attempt = @ + 1] /\ UNCHANGED disk
    BY <1>1 DEF ExportReturns
  <1>2. CASE /\ export' = [export EXCEPT !.pc = "returned"]
             /\ disk' = IF export.result = "ok" THEN disk ELSE Cleaned
    BY <1>2 DEF ExportReturns, Cleaned
  <1> QED
    BY <1>1, <1>2 DEF ExportReturns

(* Exports keep the files of others: a file that existed before the call is  *)
(* never touched, and a call that fails at any step, after any number of     *)
(* attempts, leaves the disk as it found it.                                 *)
THEOREM ExportKeepsFiles == ExportSpec => []ExportFilesKept
  <1>1. ExportInit => FilesInv
    BY FilesInit
  <1>2. FilesInv /\ [ExportNext]_exportVars => FilesInv'
    <2> SUFFICES ASSUME FilesInv, [ExportNext]_exportVars PROVE FilesInv'
      OBVIOUS
    <2>1. CASE ComparePaths \/ CreateSchemaFile \/ CreateDataFile
      BY <2>1, CreatingKeepsFiles
    <2>2. CASE OpenExport \/ NextAnswer
      BY <2>2, WritingKeepsFiles
    <2>3. CASE ExportReturns
      BY <2>3, ReturningKeepsFiles
    <2>4. CASE UNCHANGED <<disk, given, export>>
      BY <2>4, Zenon DEF FilesInv, Shape, OwnFiles, ExportFilesKept, ExportAt
    <2>5. ASSUME NEW a \in ExportAttempts, Listen(a) \/ ListenEnds(a) PROVE FilesInv'
      BY <2>4, <2>5, Zenon DEF Listen, ListenEnds
    <2> QED
      BY <2>1, <2>2, <2>3, <2>4, <2>5, Zenon DEF ExportNext, exportVars
  <1>3. FilesInv => ExportFilesKept
    BY DEF FilesInv
  <1> QED
    BY <1>1, <1>2, <1>3, PTL DEF ExportSpec

-----------------------------------------------------------------------------
(* Complete exports. The messages of an attempt are numbered: the schema is  *)
(* the first, the items of the database follow, the end is the last. While   *)
(* the attempt runs, what is in the channel goes on where the files end, and *)
(* what the server has left goes on where the channel ends; errors replace a *)
(* message and are the last thing the client reads.                          *)

Values == {Schema} \cup Ending \cup UNION {Range(db) : db \in Databases}
Feeds == [left : Seq(Values), channel : Seq(Values),
          listener : {"none", "running", "ended", "panicked"}, open : BOOLEAN]
Locals == [pc : {"idle", "schema", "data", "open", "next", "left", "returned"},
           attempt : ExportAttempts, offset : [Paths -> Nat],
           result : {"none", "ok", "io", "err"}, met : Databases \cup {<<>>}]
Texts == Seq(Values \cup {"mine", "absent"})

ExportTypes ==
    /\ disk \in [Paths -> Texts] /\ given \in [Paths -> Texts]
    /\ export \in Locals
    /\ feed \in [ExportAttempts -> Feeds]

(* Message i of the database db is x.                                        *)
Comes(db, i, x) ==
    /\ i \in 1..(Len(db) + 2)
    /\ x = IF i = 1 THEN Schema ELSE IF i = Len(db) + 2 THEN "Done" ELSE db[i - 1]

(* How many messages the client has written to its files.                    *)
Count == export.offset["schema"] + export.offset["data"]

ChannelGoesOn(c, n, db) ==
    \A i \in DOMAIN c : c[i] \in {"malformed", "err"} \/ Comes(db, n + i, c[i])
LeftGoesOn(l, n, db) == \A i \in DOMAIN l : Comes(db, n + i, l[i])

Begins(db, n, text) == /\ n <= Len(db) /\ n <= Len(text)
                       /\ \A i \in 1..n : text[i] = db[i]

Streaming ==
    /\ export.met \in Databases
    /\ export.offset["schema"] \in {0, 1}
    /\ export.offset["data"] > 0 => export.offset["schema"] = 1
    /\ export.offset["schema"] = 1 => disk["schema"] = <<Schema>>
    /\ Begins(export.met, export.offset["data"], disk["data"])
    /\ ChannelGoesOn(Here.channel, Count, export.met)
    /\ Here.listener = "running" =>
         LeftGoesOn(Here.left, Count + Len(Here.channel), export.met)

CompleteInv ==
    /\ export.pc = "data" => disk["schema"] = <<>>
    /\ export.pc \in {"open", "next", "left"} => disk["schema"] \in {<<>>, <<Schema>>}
    /\ export.pc = "next" => Streaming
    /\ export.pc \in {"left", "returned"} /\ export.result = "ok" =>
         /\ disk["schema"] = <<Schema>>
         /\ export.met \in Databases
         /\ Begins(export.met, Len(export.met), disk["data"])

LEMMA ContentsAre ==
  ASSUME NEW db \in Databases
  PROVE  /\ db \in Seq(Values) /\ Len(db) \in Nat
         /\ \A i \in 1..Len(db) : db[i] \notin {Schema} \cup Ending
  <1>1. db \in Seq(Range(db)) /\ Range(db) \subseteq Values
    BY ContentsAssumption DEF Values
  <1>2. Len(db) \in Nat /\ DOMAIN db = 1..Len(db) /\ \A i \in 1..Len(db) : db[i] \in Range(db)
    BY <1>1 DEF Range
  <1>3. db \in Seq(Values)
    BY <1>1
  <1> QED
    BY <1>2, <1>3, ContentsAssumption

LEMMA MessagesAre ==
  ASSUME NEW db \in Databases
  PROVE  /\ Messages(db) \in Seq(Values) /\ LeftGoesOn(Messages(db), 0, db)
  <1> DEFINE first == <<Schema>>
             last == <<"Done">>
             s == first \o db
  <1>1. db \in Seq(Values) /\ first \in Seq(Values) /\ last \in Seq(Values)
        /\ Len(first) = 1 /\ first[1] = Schema /\ Len(last) = 1 /\ last[1] = "Done"
    BY ContentsAre DEF Values, Ending
  <1> HIDE DEF first, last
  <1>2. /\ s \in Seq(Values) /\ Len(s) = 1 + Len(db)
        /\ \A i \in 1..(1 + Len(db)) : s[i] = IF i <= 1 THEN first[i] ELSE db[i - 1]
    <2>1. /\ first \o db \in Seq(Values) /\ Len(first \o db) = Len(first) + Len(db)
          /\ \A i \in 1..(Len(first) + Len(db)) :
               (first \o db)[i] = IF i <= Len(first) THEN first[i] ELSE db[i - Len(first)]
      BY <1>1, ConcatProperties
    <2> QED
      BY <1>1, <2>1
  <1> HIDE DEF s
  <1>3. /\ s \o last \in Seq(Values) /\ Len(s \o last) = Len(s) + 1
        /\ \A i \in 1..(Len(s) + 1) : (s \o last)[i] = IF i <= Len(s) THEN s[i] ELSE last[i - Len(s)]
    <2>1. s \in Seq(Values) /\ last \in Seq(Values) /\ Len(last) = 1
      BY <1>1, <1>2
    <2>2. /\ s \o last \in Seq(Values) /\ Len(s \o last) = Len(s) + Len(last)
          /\ \A i \in 1..(Len(s) + Len(last)) :
               (s \o last)[i] = IF i <= Len(s) THEN s[i] ELSE last[i - Len(s)]
      BY <2>1, ConcatProperties
    <2> QED
      BY <2>1, <2>2
  <1> DEFINE m == s \o last
  <1>4. m = Messages(db)
    BY DEF s, first, last, Messages
  <1> HIDE DEF m
  <1>5. Len(db) \in Nat /\ m \in Seq(Values) /\ Len(m) = Len(db) + 2 /\ DOMAIN m = 1..(Len(db) + 2)
    BY <1>1, <1>2, <1>3 DEF m
  <1>6. ASSUME NEW i \in 1..(Len(db) + 2)
        PROVE  m[i] = IF i = 1 THEN Schema ELSE IF i = Len(db) + 2 THEN "Done" ELSE db[i - 1]
    <2>1. CASE i = Len(db) + 2
      BY <1>1, <1>2, <1>3, <1>5, <2>1 DEF m
    <2>2. CASE i # Len(db) + 2
      BY <1>1, <1>2, <1>3, <1>5, <2>2 DEF m
    <2> QED
      BY <2>1, <2>2, <1>5
  <1>7. \A i \in 1..(Len(db) + 2) : 0 + i = i
    BY <1>5
  <1> QED
    BY <1>4, <1>5, <1>6, <1>7 DEF LeftGoesOn, Comes

LEMMA TakesHead ==
  ASSUME NEW S, NEW c \in Seq(S), c # <<>>
  PROVE  /\ Len(c) \in Nat /\ Len(c) > 0 /\ Head(c) = c[1] /\ Head(c) \in S /\ 1 \in DOMAIN c
         /\ Tail(c) \in Seq(S) /\ Len(Tail(c)) = Len(c) - 1
         /\ \A i \in DOMAIN Tail(c) : i \in Nat /\ i + 1 \in DOMAIN c /\ Tail(c)[i] = c[i + 1]
  <1>1. Len(c) \in Nat /\ Len(c) > 0 /\ DOMAIN c = 1..Len(c)
    BY EmptySeq, LenProperties
  <1>2. Tail(c) \in Seq(S) /\ Len(Tail(c)) = Len(c) - 1
        /\ \A i \in 1..Len(Tail(c)) : Tail(c)[i] = c[i + 1]
    BY HeadTailProperties
  <1>3. DOMAIN Tail(c) = 1..(Len(c) - 1)
    BY <1>1, <1>2, LenProperties
  <1> QED
    BY <1>1, <1>2, <1>3

LEMMA ChannelTakes ==
  ASSUME NEW c \in Seq(Values), c # <<>>, NEW n \in Nat, NEW db, ChannelGoesOn(c, n, db)
  PROVE  /\ Head(c) \in {"malformed", "err"} \/ Comes(db, n + 1, Head(c))
         /\ ChannelGoesOn(Tail(c), n + 1, db)
         /\ (n + 1) + Len(Tail(c)) = n + Len(c)
  <1>1. \A i \in DOMAIN Tail(c) : (n + 1) + i = n + (i + 1)
    BY TakesHead
  <1>2. ChannelGoesOn(Tail(c), n + 1, db)
    BY <1>1, TakesHead DEF ChannelGoesOn
  <1>3. (n + 1) + Len(Tail(c)) = n + Len(c)
    <2>1. \A x, y \in Nat : (x + 1) + (y - 1) = x + y
      OBVIOUS
    <2> QED
      BY <2>1, TakesHead
  <1> QED
    BY <1>2, <1>3, TakesHead DEF ChannelGoesOn

LEMMA LeftTakes ==
  ASSUME NEW l \in Seq(Values), l # <<>>, NEW n \in Nat, NEW db, LeftGoesOn(l, n, db)
  PROVE  Comes(db, n + 1, Head(l)) /\ LeftGoesOn(Tail(l), n + 1, db)
  <1>1. \A i \in DOMAIN Tail(l) : (n + 1) + i = n + (i + 1)
    BY TakesHead
  <1> QED
    BY <1>1, TakesHead DEF LeftGoesOn

LEMMA ChannelGets ==
  ASSUME NEW c \in Seq(Values), NEW n \in Nat, NEW db, NEW x \in Values,
         ChannelGoesOn(c, n, db), x \in {"malformed", "err"} \/ Comes(db, n + Len(c) + 1, x)
  PROVE  /\ Append(c, x) \in Seq(Values) /\ ChannelGoesOn(Append(c, x), n, db)
         /\ Len(c) \in Nat /\ n + Len(Append(c, x)) = n + Len(c) + 1
  <1>1. /\ Append(c, x) \in Seq(Values) /\ Len(Append(c, x)) = Len(c) + 1 /\ Len(c) \in Nat
        /\ \A i \in 1..Len(c) : Append(c, x)[i] = c[i]
        /\ Append(c, x)[Len(c) + 1] = x
    BY AppendProperties, LenProperties
  <1>2. DOMAIN c = 1..Len(c) /\ DOMAIN Append(c, x) = 1..(Len(c) + 1)
    BY <1>1, LenProperties
  <1>3. ASSUME NEW i \in DOMAIN Append(c, x)
        PROVE  Append(c, x)[i] \in {"malformed", "err"} \/ Comes(db, n + i, Append(c, x)[i])
    <2>1. CASE i = Len(c) + 1
      <3>1. n + i = n + Len(c) + 1
        BY <1>1, <2>1
      <3> QED
        BY <1>1, <2>1, <3>1
    <2>2. CASE i \in 1..Len(c)
      BY <1>1, <1>2, <2>2 DEF ChannelGoesOn
    <2> QED
      BY <1>1, <1>2, <2>1, <2>2
  <1> QED
    BY <1>1, <1>3 DEF ChannelGoesOn

LEMMA WrittenIs ==
  ASSUME NEW S, NEW old \in Seq(S), NEW n \in Nat, n <= Len(old), NEW x \in S
  PROVE  /\ Written(old, n, x) \in Seq(S) /\ Len(Written(old, n, x)) >= n + 1
         /\ \A i \in 1..n : Written(old, n, x)[i] = old[i]
         /\ Written(old, n, x)[n + 1] = x
  <1> DEFINE k == IF Len(old) > n THEN Len(old) ELSE n + 1
  <1>1. /\ k \in Nat /\ k >= n + 1 /\ \A i \in 1..k : i # n + 1 => i \in 1..Len(old)
        /\ Len(old) \in Nat /\ \A i \in 1..Len(old) : old[i] \in S
    BY LenProperties
  <1>2. Written(old, n, x) = [i \in 1..k |-> IF i = n + 1 THEN x ELSE old[i]]
    BY DEF Written
  <1> HIDE DEF k
  <1>3. \A i \in 1..k : (IF i = n + 1 THEN x ELSE old[i]) \in S
    BY <1>1
  <1>4. Written(old, n, x) \in Seq(S) /\ Len(Written(old, n, x)) = k
    BY <1>1, <1>2, <1>3
  <1>5. n + 1 \in 1..k /\ \A i \in 1..n : i \in 1..k /\ i # n + 1
    BY <1>1
  <1> QED
    BY <1>1, <1>2, <1>4, <1>5

-----------------------------------------------------------------------------
LEMMA CompleteInit == ExportInit => ExportTypes /\ CompleteInv
  <1> SUFFICES ASSUME ExportInit PROVE ExportTypes /\ CompleteInv
    OBVIOUS
  <1>1. <<"mine">> \in Texts /\ Absent \in Texts
    BY DEF Texts, Absent
  <1>2. export \in Locals
    BY ExportConstants DEF ExportInit, Locals
  <1>3. feed \in [ExportAttempts -> Feeds]
    BY DEF ExportInit, NoFeed, Feeds
  <1>4. disk \in [Paths -> Texts] /\ given \in [Paths -> Texts]
    BY <1>1 DEF ExportInit
  <1> QED
    BY <1>2, <1>3, <1>4 DEF ExportTypes, CompleteInv, ExportInit

LEMMA CreatingCompletes ==
  ASSUME ExportTypes, CompleteInv, ComparePaths \/ CreateSchemaFile \/ CreateDataFile
  PROVE  ExportTypes' /\ CompleteInv'
  <1>0. <<>> \in Texts /\ Absent \in Texts /\ "schema" \in Paths /\ "data" \in Paths
    BY DEF Texts, Absent, Paths
  <1>1. CASE ComparePaths
    BY <1>1 DEF ComparePaths, ExportAt, ExportReturn, ExportTypes, CompleteInv, Locals
  <1>2. CASE CreateSchemaFile
    <2>1. UNCHANGED <<given, feed>>
      BY <1>2 DEF CreateSchemaFile
    <2>2. CASE /\ disk' = [disk EXCEPT !["schema"] = <<>>]
               /\ export' = [export EXCEPT !.pc = "data"]
      <3>1. disk'["schema"] = <<>> /\ disk' \in [Paths -> Texts]
        BY <1>0, <2>2 DEF ExportTypes
      <3>2. export' \in Locals /\ export'.pc = "data"
        BY <2>2 DEF ExportTypes, Locals
      <3> QED
        BY <2>1, <3>1, <3>2 DEF ExportTypes, CompleteInv
    <2>3. CASE export' = ExportReturn("err") /\ UNCHANGED disk
      <3>1. export' \in Locals /\ export'.pc = "returned" /\ export'.result = "err"
        BY <2>3 DEF ExportTypes, Locals, ExportReturn
      <3> QED
        BY <2>1, <2>3, <3>1 DEF ExportTypes, CompleteInv
    <2> QED
      BY <1>2, <2>2, <2>3 DEF CreateSchemaFile
  <1>3. CASE CreateDataFile
    <2>1. disk["schema"] = <<>> /\ UNCHANGED <<given, feed>>
      BY <1>3 DEF CreateDataFile, ExportAt, CompleteInv
    <2>2. CASE /\ disk' = [disk EXCEPT !["data"] = <<>>]
               /\ export' = [export EXCEPT !.pc = "open"]
      <3>1. disk'["schema"] = <<>> /\ disk' \in [Paths -> Texts]
        BY <1>0, <2>1, <2>2 DEF ExportTypes
      <3>2. export' \in Locals /\ export'.pc = "open"
        BY <2>2 DEF ExportTypes, Locals
      <3> QED
        BY <2>1, <3>1, <3>2 DEF ExportTypes, CompleteInv
    <2>3. CASE disk' = [disk EXCEPT !["schema"] = Absent] /\ export' = ExportReturn("err")
      <3>1. disk' \in [Paths -> Texts]
        BY <1>0, <2>3 DEF ExportTypes
      <3>2. export' \in Locals /\ export'.pc = "returned" /\ export'.result = "err"
        BY <2>3 DEF ExportTypes, Locals, ExportReturn
      <3> QED
        BY <2>1, <3>1, <3>2 DEF ExportTypes, CompleteInv
    <2> QED
      BY <1>3, <2>2, <2>3 DEF CreateDataFile
  <1> QED
    BY <1>1, <1>2, <1>3

LEMMA OpenCompletes ==
  ASSUME ExportTypes, CompleteInv, OpenExport PROVE ExportTypes' /\ CompleteInv'
  <1>1. UNCHANGED <<disk, given>> /\ disk["schema"] \in {<<>>, <<Schema>>}
    BY DEF OpenExport, ExportAt, CompleteInv
  <1>2. CASE export' = ExportLeave("err") /\ UNCHANGED feed
    <2>1. export' \in Locals /\ export'.pc = "left" /\ export'.result = "err"
      BY <1>2 DEF ExportLeave, ExportTypes, Locals
    <2> QED
      BY <1>1, <1>2, <2>1 DEF ExportTypes, CompleteInv
  <1>3. ASSUME NEW db \in Databases,
               export' = [export EXCEPT !.pc = "next", !.met = db, !.offset = [p \in Paths |-> 0]],
               feed' = [feed EXCEPT ![export.attempt] =
                 [left |-> Messages(db), channel |-> <<>>, listener |-> "running", open |-> TRUE]]
        PROVE  ExportTypes' /\ CompleteInv'
    <2>1. /\ export' \in Locals /\ export'.pc = "next" /\ export'.met = db
          /\ export'.attempt = export.attempt /\ export.attempt \in ExportAttempts
          /\ export'.offset["schema"] = 0 /\ export'.offset["data"] = 0
      BY <1>3 DEF ExportTypes, Locals, Paths
    <2>2. feed' \in [ExportAttempts -> Feeds]
      BY <1>3, <2>1, MessagesAre DEF ExportTypes, Feeds
    <2>3. Here'.channel = <<>> /\ Here'.left = Messages(db)
      BY <1>3, <2>1 DEF ExportTypes, Here
    <2>4. Begins(db, 0, disk'["data"])
      <3>1. Len(db) \in Nat /\ Len(disk["data"]) \in Nat
        BY ContentsAre DEF ExportTypes, Paths, Texts
      <3> QED
        BY <1>1, <3>1 DEF Begins
    <2>5. ChannelGoesOn(<<>>, 0, db) /\ LeftGoesOn(Messages(db), 0 + Len(<<>>), db)
      BY MessagesAre DEF ChannelGoesOn
    <2>6. Count' = 0
      BY <2>1 DEF Count
    <2>7. Streaming'
      BY <2>1, <2>3, <2>4, <2>5, <2>6 DEF Streaming
    <2> QED
      BY <1>1, <2>1, <2>2, <2>7 DEF ExportTypes, CompleteInv
  <1> QED
    BY <1>2, <1>3 DEF OpenExport

(* The listener works for the attempt that runs, or for one that was left.   *)
LEMMA ListenCompletes ==
  ASSUME ExportTypes, CompleteInv, NEW a \in ExportAttempts, Listen(a) \/ ListenEnds(a)
  PROVE  ExportTypes' /\ CompleteInv'
  <1> DEFINE f == feed[a]
             g == feed'[a]
  <1>1. /\ UNCHANGED <<disk, given, export>> /\ f.listener = "running" /\ f \in Feeds
        /\ feed' = [feed EXCEPT ![a] = g] /\ feed \in [ExportAttempts -> Feeds]
    BY DEF Listen, ListenEnds, ExportTypes
  <1>2. CASE g.listener # "running" /\ g.channel = f.channel /\ g \in Feeds
    <2>1. feed' \in [ExportAttempts -> Feeds]
      BY <1>1, <1>2
    <2>2. Here'.channel = Here.channel /\ (Here'.listener = "running" =>
            Here.listener = "running" /\ Here'.left = Here.left)
      <3>1. export.attempt \in ExportAttempts
        BY DEF ExportTypes, Locals
      <3> QED
        BY <1>1, <1>2, <3>1 DEF Here
    <2>3. Streaming => Streaming'
      BY <1>1, <2>2 DEF Streaming, Count
    <2> QED
      BY <1>1, <2>1, <2>3 DEF ExportTypes, CompleteInv
  <1>3. CASE \E x \in {"err"} \cup (IF f.left = <<>> THEN {} ELSE {Head(f.left), "malformed"}) :
               g = [f EXCEPT !.channel = Append(@, x),
                             !.left = IF x = "err" THEN <<>> ELSE Tail(@),
                             !.listener = IF x = "err" THEN "ended" ELSE @]
    <2>1. PICK x \in {"err"} \cup (IF f.left = <<>> THEN {} ELSE {Head(f.left), "malformed"}) :
            g = [f EXCEPT !.channel = Append(@, x),
                          !.left = IF x = "err" THEN <<>> ELSE Tail(@),
                          !.listener = IF x = "err" THEN "ended" ELSE @]
      BY <1>3
    <2>2. f.left \in Seq(Values) /\ f.channel \in Seq(Values)
      BY <1>1 DEF Feeds
    <2>3. x \in Values /\ (x # "err" => f.left # <<>> /\ Tail(f.left) \in Seq(Values))
      BY <2>1, <2>2, TakesHead DEF Values, Ending
    <2>4. /\ g.channel = Append(f.channel, x) /\ g.left = (IF x = "err" THEN <<>> ELSE Tail(f.left))
          /\ g.listener = (IF x = "err" THEN "ended" ELSE "running") /\ g.open = f.open
      BY <1>1, <2>1 DEF Feeds
    <2>5. g \in Feeds
      <3>1. Append(f.channel, x) \in Seq(Values)
        BY <2>2, <2>3, AppendProperties
      <3>2. (IF x = "err" THEN <<>> ELSE Tail(f.left)) \in Seq(Values)
        BY <2>3
      <3> QED
        BY <1>1, <2>1, <3>1, <3>2 DEF Feeds
    <2>6. feed' \in [ExportAttempts -> Feeds]
      BY <1>1, <2>5
    <2>7. ASSUME Streaming PROVE Streaming'
      <3>1. CASE a # export.attempt
        <4>1. Here' = Here
          BY <1>1, <3>1 DEF Here, ExportTypes, Locals
        <4> QED
          BY <1>1, <2>7, <4>1 DEF Streaming, Count
      <3>2. CASE a = export.attempt
        <4> DEFINE c == f.channel
                   n == Count
                   db == export.met
        <4>1. Here = f /\ Here' = g
          BY <1>1, <3>2 DEF Here
        <4>2. n \in Nat /\ ChannelGoesOn(c, n, db) /\ LeftGoesOn(f.left, n + Len(c), db)
              /\ n + Len(c) \in Nat
          BY <1>1, <2>2, <2>7, <4>1 DEF Streaming, Count, ExportTypes, Locals, Paths
        <4>3. x # "err" => /\ Comes(db, n + Len(c) + 1, Head(f.left))
                           /\ LeftGoesOn(Tail(f.left), n + Len(c) + 1, db)
          BY <2>2, <2>3, <4>2, LeftTakes
        <4>4. x \in {"malformed", "err"} \/ Comes(db, n + Len(c) + 1, x)
          BY <2>1, <4>3
        <4>5. ChannelGoesOn(Append(c, x), n, db) /\ n + Len(Append(c, x)) = n + Len(c) + 1
          BY <2>2, <2>3, <4>2, <4>4, ChannelGets
        <4>6. Count' = n
          BY <1>1 DEF Count
        <4>7. g.listener = "running" => LeftGoesOn(g.left, n + Len(g.channel), db)
          BY <2>4, <4>3, <4>5
        <4> HIDE DEF f, g, n, db
        <4> QED
          BY <1>1, <2>4, <2>7, <4>1, <4>5, <4>6, <4>7 DEF Streaming, db
      <3> QED
        BY <3>1, <3>2
    <2> QED
      BY <1>1, <2>6, <2>7 DEF ExportTypes, CompleteInv
  <1>4. \/ g.listener # "running" /\ g.channel = f.channel /\ g \in Feeds
        \/ \E x \in {"err"} \cup (IF f.left = <<>> THEN {} ELSE {Head(f.left), "malformed"}) :
             g = [f EXCEPT !.channel = Append(@, x),
                           !.left = IF x = "err" THEN <<>> ELSE Tail(@),
                           !.listener = IF x = "err" THEN "ended" ELSE @]
    <2>1. CASE ListenEnds(a)
      BY <1>1, <2>1 DEF ListenEnds, Feeds
    <2>2. CASE Listen(a)
      <3>1. CASE ~f.open
        <4>1. feed' = [feed EXCEPT ![a].listener = "panicked"]
          BY <2>2, <3>1 DEF Listen
        <4> QED
          BY <1>1, <4>1 DEF Feeds
      <3>2. CASE f.open
        <4>1. PICK x \in {"err"} \cup (IF f.left = <<>> THEN {} ELSE {Head(f.left), "malformed"}) :
                feed' = [feed EXCEPT ![a].channel = Append(@, x),
                                     ![a].left = IF x = "err" THEN <<>> ELSE Tail(@),
                                     ![a].listener = IF x = "err" THEN "ended" ELSE @]
          BY <2>2, <3>2, Zenon DEF Listen
        <4>2. g = [f EXCEPT !.channel = Append(@, x),
                            !.left = IF x = "err" THEN <<>> ELSE Tail(@),
                            !.listener = IF x = "err" THEN "ended" ELSE @]
          BY <1>1, <4>1 DEF Feeds
        <4> QED
          BY <4>2
      <3> QED
        BY <3>1, <3>2
    <2> QED
      BY <2>1, <2>2
  <1> QED
    BY <1>2, <1>3, <1>4

LEMMA ReturningCompletes ==
  ASSUME ExportTypes, CompleteInv, ExportReturns PROVE ExportTypes' /\ CompleteInv'
  <1>1. /\ UNCHANGED <<given, feed>> /\ export.pc = "left" /\ disk["schema"] \in {<<>>, <<Schema>>}
        /\ export \in Locals
    BY DEF ExportReturns, ExportAt, CompleteInv, ExportTypes
  <1>2. CASE /\ export.attempt + 1 \in ExportAttempts /\ UNCHANGED disk
             /\ export' = [export EXCEPT !.pc = "open", !.attempt = @ + 1]
    <2>1. export' \in Locals /\ export'.pc = "open"
      BY <1>1, <1>2 DEF Locals
    <2> QED
      BY <1>1, <1>2, <2>1 DEF ExportTypes, CompleteInv
  <1>3. CASE /\ export' = [export EXCEPT !.pc = "returned"]
             /\ disk' = IF export.result = "ok" THEN disk ELSE Cleaned
    <2>1. /\ export' \in Locals /\ export'.pc = "returned" /\ export'.result = export.result
          /\ export'.met = export.met
      BY <1>1, <1>3 DEF Locals
    <2>2. Cleaned \in [Paths -> Texts]
      BY DEF Cleaned, Absent, Texts
    <2> QED
      BY <1>1, <1>3, <2>1, <2>2 DEF ExportTypes, CompleteInv
  <1> QED
    BY <1>2, <1>3 DEF ExportReturns

LEMMA ComesAre ==
  ASSUME NEW db \in Databases, NEW n \in Nat, NEW x, Comes(db, n + 1, x)
  PROVE  /\ x = Schema => n = 0
         /\ x = "Done" => n = Len(db) + 1
         /\ x \notin {Schema, "Done"} => n >= 1 /\ n <= Len(db) /\ x = db[n]
  <1>1. Len(db) \in Nat /\ \A i \in 1..Len(db) : db[i] \notin {Schema, "Done"}
    BY ContentsAre DEF Ending
  <1>2. n # 0 /\ n # Len(db) + 1 => n \in 1..Len(db) /\ x = db[n]
    BY <1>1 DEF Comes
  <1>3. Schema # "Done" /\ (n = 0 => x = Schema) /\ (n = Len(db) + 1 => x = "Done")
    BY <1>1 DEF Comes, Schema
  <1> QED
    BY <1>1, <1>2, <1>3

LEMMA LeavingCompletes ==
  ASSUME ExportTypes, CompleteInv, export.pc = "next", UNCHANGED given,
         NEW result \in {"ok", "io", "err"}, LeaveStream(result),
         result = "ok" => /\ disk["schema"] = <<Schema>>
                          /\ Begins(export.met, Len(export.met), disk["data"])
  PROVE  ExportTypes' /\ CompleteInv'
  <1>1. UNCHANGED disk /\ export.met \in Databases
    BY DEF LeaveStream, CompleteInv, Streaming
  <1>2. /\ export' \in Locals /\ export'.pc = "left" /\ export'.result = result
        /\ export'.met = export.met
    BY DEF LeaveStream, ExportLeave, ExportTypes, Locals
  <1>3. feed' \in [ExportAttempts -> Feeds]
    <2> DEFINE a == export.attempt
    <2>1. a \in ExportAttempts /\ feed \in [ExportAttempts -> Feeds]
      BY DEF ExportTypes, Locals
    <2>2. feed' = [feed EXCEPT ![a].open = FALSE]
      BY DEF LeaveStream
    <2> HIDE DEF a
    <2> QED
      BY <2>1, <2>2 DEF Feeds
  <1> QED
    BY <1>1, <1>2, <1>3 DEF ExportTypes, CompleteInv

(* What a write leaves to be shown: that the file it went to is as the rest  *)
(* of the invariant says.                                                    *)
LEMMA WritingCompletes ==
  ASSUME ExportTypes, CompleteInv, export.pc = "next", UNCHANGED given, Here.channel # <<>>,
         NEW p \in Paths,
         Comes(export.met, Count + 1, Head(Here.channel)),
         Head(Here.channel) # "Done", Head(Here.channel) = Schema <=> p = "schema",
         Write(p, Head(Here.channel))
  PROVE  ExportTypes' /\ CompleteInv'
  <1> DEFINE x == Head(Here.channel)
             db == export.met
             n == Count
             o == export.offset
             f == Here
             a == export.attempt
  <1>1. CASE LeaveStream("io")
    BY <1>1, LeavingCompletes
  <1>2. CASE /\ disk' = [disk EXCEPT ![p] = Written(@, o[p], x)]
             /\ export' = [export EXCEPT !.offset[p] = @ + 1]
             /\ feed' = [feed EXCEPT ![a].channel = Tail(@)]
    <2>1. /\ Streaming /\ db \in Databases /\ f \in Feeds /\ a \in ExportAttempts
          /\ feed \in [ExportAttempts -> Feeds]
          /\ o \in [Paths -> Nat] /\ "schema" \in Paths /\ "data" \in Paths
          /\ n = o["schema"] + o["data"] /\ n \in Nat /\ Len(db) \in Nat
          /\ f.channel \in Seq(Values)
      BY ContentsAre DEF CompleteInv, Streaming, ExportTypes, Locals, Here, Feeds, Paths, Count
    <2>2. /\ Tail(f.channel) \in Seq(Values) /\ x \in Values
          /\ ChannelGoesOn(Tail(f.channel), n + 1, db)
          /\ (n + 1) + Len(Tail(f.channel)) = n + Len(f.channel)
      <3>1. f.channel # <<>> /\ ChannelGoesOn(f.channel, n, db)
        BY <2>1 DEF Streaming
      <3> HIDE DEF n, db, f
      <3>2. /\ Tail(f.channel) \in Seq(Values) /\ Head(f.channel) \in Values
        BY <2>1, <3>1, TakesHead
      <3>3. /\ ChannelGoesOn(Tail(f.channel), n + 1, db)
            /\ (n + 1) + Len(Tail(f.channel)) = n + Len(f.channel)
        BY <2>1, <3>1, ChannelTakes
      <3> QED
        BY <3>2, <3>3 DEF f
    <2>3. /\ export' \in Locals /\ export'.pc = "next" /\ export'.met = db
          /\ export'.attempt = a
          /\ export'.offset = [o EXCEPT ![p] = @ + 1]
      <3> DEFINE moved == [o EXCEPT ![p] = o[p] + 1]
      <3>1. moved \in [Paths -> Nat]
        <4>1. o \in [Paths -> Nat]
          BY <2>1
        <4> HIDE DEF o
        <4>2. o[p] + 1 \in Nat
          BY <4>1
        <4> QED
          BY <4>1, <4>2
      <3>2. export' = [export EXCEPT !.offset = moved] /\ export \in Locals
        BY <1>2 DEF ExportTypes
      <3> HIDE DEF moved
      <3>3. export' \in Locals /\ export'.pc = "next" /\ export'.met = export.met
            /\ export'.attempt = export.attempt /\ export'.offset = moved
        BY <3>1, <3>2 DEF Locals
      <3> QED
        BY <3>3 DEF moved
    <2>4. /\ feed' \in [ExportAttempts -> Feeds] /\ Here'.channel = Tail(f.channel)
          /\ Here'.left = f.left /\ Here'.listener = f.listener
      BY <1>2, <2>1, <2>2, <2>3 DEF Here, Feeds
    <2>5. Count' = n + 1
      BY <2>1, <2>3 DEF Count, Paths
    <2>6. disk[p] \in Texts /\ o[p] \in Nat /\ o[p] <= Len(disk[p]) /\ x \in Values \cup {"mine", "absent"}
      <3>1. disk["schema"] \in Texts /\ disk["data"] \in Texts
        BY <2>1 DEF ExportTypes
      <3>2. p = "schema" => o[p] = 0
        BY <2>1, ComesAre
      <3>3. Len(disk["schema"]) \in Nat /\ Len(disk["data"]) \in Nat
        BY <3>1 DEF Texts
      <3>4. p = "data" => o[p] <= Len(disk["data"])
        BY <2>1 DEF Streaming, Begins
      <3> QED
        <4>1. CASE p = "schema"
          BY <2>1, <2>2, <3>1, <3>2, <3>3, <4>1
        <4>2. CASE p = "data"
          BY <2>1, <2>2, <3>1, <3>4, <4>2
        <4> QED
          BY <4>1, <4>2 DEF Paths
    <2> DEFINE w == Written(disk[p], o[p], x)
    <2>7. /\ w \in Texts /\ Len(w) >= o[p] + 1 /\ w[o[p] + 1] = x
          /\ \A i \in 1..o[p] : w[i] = disk[p][i]
      <3> DEFINE S == Values \cup {"mine", "absent"}
                 old == disk[p]
                 at == o[p]
      <3>1. old \in Seq(S) /\ at \in Nat /\ at <= Len(old) /\ x \in S
        BY <2>6 DEF Texts
      <3> HIDE DEF S, old, at, x
      <3>2. LET v == Written(old, at, x)
            IN  /\ v \in Seq(S) /\ Len(v) >= at + 1 /\ v[at + 1] = x
                /\ \A i \in 1..at : v[i] = old[i]
        BY <3>1, WrittenIs
      <3> QED
        BY <3>2 DEF S, old, at, Texts
    <2>8. disk' \in [Paths -> Texts] /\ disk' = [disk EXCEPT ![p] = w] /\ disk \in [Paths -> Texts]
      BY <1>2, <2>7 DEF ExportTypes
    <2>9. CASE p = "schema"
      <3>1. x = Schema /\ n = 0 /\ o["schema"] = 0 /\ o["data"] = 0
        BY <2>1, <2>9, ComesAre
      <3>2. w = <<Schema>>
        <4>1. disk["schema"] \in {<<>>, <<Schema>>}
          BY DEF CompleteInv
        <4>2. Len(disk["schema"]) \in {0, 1}
          BY <4>1
        <4>3. o[p] = 0 /\ Len(disk[p]) \in {0, 1} /\ x = Schema
          BY <2>9, <3>1, <4>2
        <4>4. \A i \in 1..1 : i = 1
          OBVIOUS
        <4> DEFINE k == IF Len(disk[p]) > o[p] THEN Len(disk[p]) ELSE o[p] + 1
                   item(i) == IF i = o[p] + 1 THEN x ELSE disk[p][i]
        <4>5. k = 1 /\ \A i \in 1..1 : item(i) = Schema
          BY <4>3, <4>4
        <4>6. w = [i \in 1..k |-> item(i)]
          BY DEF Written
        <4> HIDE DEF k, item, w
        <4>7. w = [i \in 1..1 |-> Schema]
          BY <4>5, <4>6
        <4> QED
          BY <4>7
      <3>3. disk'["schema"] = <<Schema>> /\ disk'["data"] = disk["data"]
        BY <2>1, <2>8, <2>9, <3>2
      <3>4. export'.offset["schema"] = 1 /\ export'.offset["data"] = 0
        BY <2>1, <2>3, <2>9, <3>1
      <3>5. Begins(db, 0, disk'["data"])
        <4>1. Len(disk["data"]) \in Nat
          BY <2>1, <2>8 DEF Texts
        <4> QED
          BY <2>1, <3>3, <4>1 DEF Begins
      <3> HIDE DEF x, db, n, o, f, a, w
      <3>6. Streaming'
        BY <2>1, <2>2, <2>3, <2>4, <2>5, <3>3, <3>4, <3>5 DEF Streaming, n, db, f
      <3> QED
        BY <2>3, <2>4, <2>8, <3>3, <3>6 DEF ExportTypes, CompleteInv
    <2>10. CASE p = "data"
      <3>1. n >= 1 /\ n <= Len(db) /\ x = db[n]
        <4>1. db \in Databases /\ n \in Nat /\ x \notin {Schema, "Done"} /\ Comes(db, n + 1, x)
          BY <2>1, <2>10
        <4> HIDE DEF x, db, n
        <4> QED
          BY <4>1, ComesAre
      <3>2. o["schema"] = 1 /\ o["data"] = n - 1 /\ disk["schema"] = <<Schema>>
        <4>1. /\ o["schema"] \in {0, 1} /\ (o["data"] > 0 => o["schema"] = 1)
              /\ (o["schema"] = 1 => disk["schema"] = <<Schema>>)
          BY <2>1 DEF Streaming
        <4>2. o["data"] \in Nat /\ o["data"] >= n - o["schema"]
          BY <2>1, <4>1
        <4>3. o["schema"] = 1
          BY <2>1, <3>1, <4>1, <4>2
        <4>4. o["data"] = n - 1
          BY <2>1, <4>2, <4>3
        <4> QED
          BY <4>1, <4>3, <4>4
      <3>3. disk'["schema"] = <<Schema>> /\ disk'["data"] = w
        BY <2>1, <2>8, <2>10, <3>2
      <3>4. export'.offset["schema"] = 1 /\ export'.offset["data"] = n
        <4>1. o["data"] + 1 = n
          BY <2>1, <3>2
        <4> QED
          BY <2>1, <2>3, <2>10, <3>2, <4>1
      <3>5. Begins(db, n, w)
        <4>1. n <= Len(w) /\ w[n] = x /\ \A i \in 1..(n - 1) : w[i] = disk["data"][i]
          <5>1. o[p] + 1 = n /\ o[p] = n - 1
            BY <2>1, <2>10, <3>2
          <5>2. Len(w) >= n /\ w[n] = x /\ \A i \in 1..(n - 1) : w[i] = disk[p][i]
            BY <2>7, <5>1
          <5>3. Len(w) \in Nat
            BY <2>7 DEF Texts
          <5> QED
            BY <2>1, <2>10, <5>2, <5>3
        <4>2. \A i \in 1..(n - 1) : disk["data"][i] = db[i]
          BY <2>1, <3>2 DEF Streaming, Begins
        <4>3. \A i \in 1..n : i = n \/ i \in 1..(n - 1)
          BY <2>1
        <4> HIDE DEF w, x, n, db
        <4> QED
          BY <3>1, <4>1, <4>2, <4>3 DEF Begins
      <3> HIDE DEF x, db, n, o, f, a, w
      <3>6. Streaming'
        BY <2>1, <2>2, <2>3, <2>4, <2>5, <3>3, <3>4, <3>5 DEF Streaming, n, db, f
      <3> QED
        BY <2>3, <2>4, <2>8, <3>3, <3>6 DEF ExportTypes, CompleteInv
    <2> QED
      BY <2>9, <2>10 DEF Paths
  <1> QED
    BY <1>1, <1>2 DEF Write

LEMMA AnswerCompletes ==
  ASSUME ExportTypes, CompleteInv, NextAnswer PROVE ExportTypes' /\ CompleteInv'
  <1> DEFINE x == Head(Here.channel)
             db == export.met
             n == Count
  <1>1. /\ export.pc = "next" /\ UNCHANGED given
        /\ Streaming /\ db \in Databases /\ n \in Nat /\ Here.channel \in Seq(Values)
        /\ export.offset \in [Paths -> Nat] /\ "schema" \in Paths /\ "data" \in Paths
        /\ n = export.offset["schema"] + export.offset["data"]
    BY DEF NextAnswer, ExportAt, CompleteInv, Streaming, ExportTypes, Locals, Here, Feeds, Paths, Count
  <1>2. ASSUME LeaveStream("err") \/ LeaveStream("io") PROVE ExportTypes' /\ CompleteInv'
    BY <1>1, <1>2, LeavingCompletes
  <1>3. ASSUME Here.channel # <<>>
        PROVE  x \in {"malformed", "err"} \/ Comes(db, n + 1, x)
    <2>1. ChannelGoesOn(Here.channel, n, db)
      BY <1>1 DEF Streaming
    <2> HIDE DEF n, db
    <2> QED
      BY <1>1, <1>3, <2>1, ChannelTakes
  <1>4. ASSUME NEW p \in Paths, Here.channel # <<>>, x \notin Ending, x = Schema <=> p = "schema",
               Write(p, x)
        PROVE  ExportTypes' /\ CompleteInv'
    BY <1>1, <1>3, <1>4, WritingCompletes DEF Ending
  <1>5. ASSUME Here.channel # <<>>, x = "Done", LeaveStream("ok")
        PROVE  ExportTypes' /\ CompleteInv'
    <2>1. Comes(db, n + 1, x)
      BY <1>3, <1>5
    <2>2. n = Len(db) + 1 /\ Len(db) \in Nat
      <3> HIDE DEF n, db
      <3> QED
        BY <1>1, <1>5, <2>1, ComesAre, ContentsAre
    <2>3. export.offset["data"] = Len(db) /\ export.offset["schema"] = 1
      BY <1>1, <2>2 DEF Streaming
    <2>4. disk["schema"] = <<Schema>> /\ Begins(db, Len(db), disk["data"])
      BY <1>1, <2>3 DEF Streaming
    <2> QED
      BY <1>1, <1>5, <2>4, LeavingCompletes
  <1>6. Schema \notin Ending
    BY DEF Schema, Ending
  <1>7. \/ LeaveStream("err") \/ LeaveStream("io")
        \/ Here.channel # <<>> /\ x = "Done" /\ LeaveStream("ok")
        \/ \E p \in Paths : Here.channel # <<>> /\ x \notin Ending /\ (x = Schema <=> p = "schema")
                            /\ Write(p, x)
    BY <1>1, <1>6 DEF NextAnswer, NoResponse
  <1> QED
    BY <1>2, <1>4, <1>5, <1>7

LEMMA ExportInvariant == ExportSpec => [](ExportTypes /\ CompleteInv)
  <1>1. (ExportTypes /\ CompleteInv) /\ [ExportNext]_exportVars => (ExportTypes /\ CompleteInv)'
    <2> SUFFICES ASSUME ExportTypes, CompleteInv, [ExportNext]_exportVars
                 PROVE  (ExportTypes /\ CompleteInv)'
      OBVIOUS
    <2>1. CASE UNCHANGED exportVars
      <3>1. ExportTypes'
        BY <2>1 DEF exportVars, ExportTypes
      <3>2. CompleteInv'
        BY <2>1 DEF exportVars, CompleteInv, Streaming, Count, Here
      <3> QED
        BY <3>1, <3>2
    <2> QED
      BY <2>1, CreatingCompletes, OpenCompletes, AnswerCompletes, ReturningCompletes,
         ListenCompletes, Zenon DEF ExportNext
  <1> QED
    BY <1>1, CompleteInit, PTL DEF ExportSpec

(* An export that returns Ok is complete: the schema file holds the schema   *)
(* and the data file begins with all items of the database that the          *)
(* successful attempt met, whichever attempts failed before and wherever     *)
(* their streams were cut.                                                   *)
THEOREM ExportsComplete == ExportSpec => []ExportComplete
  <1>1. ExportTypes /\ CompleteInv => ExportComplete
    <2> SUFFICES ASSUME ExportTypes, CompleteInv, export.pc = "returned", export.result = "ok"
                 PROVE  /\ disk["schema"] = <<Schema>>
                        /\ IsPrefix(export.met, disk["data"])
      BY DEF ExportComplete, ExportAt
    <2> DEFINE db == export.met
               text == disk["data"]
    <2>1. /\ disk["schema"] = <<Schema>> /\ db \in Databases /\ Begins(db, Len(db), text)
          /\ db \in Seq(Values) /\ text \in Texts /\ Len(db) \in Nat /\ Len(text) \in Nat
      BY ContentsAre DEF CompleteInv, ExportTypes, Paths, Texts
    <2>2. Len(db) <= Len(text) /\ \A i \in 1..Len(db) : text[i] = db[i]
      BY <2>1 DEF Begins
    <2> HIDE DEF db, text
    <2>3. SubSeq(db, 1, Len(db)) = SubSeq(text, 1, Len(db))
      BY <2>1, <2>2
    <2> QED
      BY <2>1, <2>2, <2>3 DEF IsPrefix, db, text
  <1> QED
    BY <1>1, ExportInvariant, PTL

-----------------------------------------------------------------------------
(* Complete imports. The items of a file are numbered by their place in it,  *)
(* and Done comes after the last one. What the server received begins at the *)
(* first item; while the dispatcher runs and the server has not answered,    *)
(* the queue goes on where that ends, and the buffer where the queue ends.   *)

Links == [queue : Seq(Seq(Nat)), dispatcher : {"none", "spawned", "running", "ended"},
          signal : BOOLEAN, listener : {"none", "spawned", "running", "ended"},
          result : {"empty", "ok", "err", "closed"}, received : Seq(Seq(Nat)),
          answer : {"none", "ok", "err", "closed"}]
Filling == {"read", "check", "checkDone", "send", "sendDone"}
Begun == Filling \cup {"wait", "left", "returned"}
Importers == [pc : Begun \cup {"idle", "retry"}, attempt : Attempts, pos : Nat,
              buffer : Seq(Nat),
              result : {"none", "ok", "err", "closed", "decode", "unexpected"}]

ImportTypes ==
    /\ file.items \in Seq(Nat) /\ \A i \in 1..Len(file.items) : file.items[i] = i
    /\ import \in Importers
    /\ link \in [Attempts -> Links]

(* r may be sent when the items up to m have been.                           *)
Sendable(f, r, m) ==
    \/ r = Done /\ m = Len(f.items) /\ f.whole
    \/ /\ r # <<>> /\ Len(r) <= BatchSize /\ m + Len(r) <= Len(f.items)
       /\ \A j \in DOMAIN r : r[j] = m + j

(* The place r goes up to; nothing comes after Done.                         *)
UpTo(f, r) == IF r = Done THEN Len(f.items) + 1 ELSE r[Len(r)]
EndOf(f, s, m) == IF s = <<>> THEN m ELSE UpTo(f, s[Len(s)])

Chain(f, s, m) ==
    \A k \in DOMAIN s : Sendable(f, s[k], IF k = 1 THEN m ELSE UpTo(f, s[k - 1]))

Flows(l) == l.dispatcher # "ended" /\ l.answer = "none"

LinkSound(f, l) ==
    /\ Chain(f, l.received, 0)
    /\ Flows(l) => Chain(f, l.queue, EndOf(f, l.received, 0))
    /\ l.answer = "ok" => Done \in Range(l.received)
    /\ l.result = "ok" => l.answer = "ok"

BufferSound(f, i) ==
    LET sent == i.pos - Len(i.buffer)
    IN  /\ i.pos <= Len(f.items)
        /\ 0 <= sent /\ Len(i.buffer) <= BatchSize
        /\ \A j \in DOMAIN i.buffer : i.buffer[j] = sent + j
        /\ i.pc = "read" => Len(i.buffer) < BatchSize
        /\ i.pc \in {"check", "send"} => i.buffer # <<>>
        /\ i.pc \in {"checkDone", "sendDone"} => i.buffer = <<>> /\ i.pos = Len(f.items) /\ f.whole

Reached(f, l, i) ==
    Flows(l) => EndOf(f, l.queue, EndOf(f, l.received, 0)) = i.pos - Len(i.buffer)

ImportInv ==
    /\ import.pc \in Begun => LinkSound(file, Current)
    /\ import.pc \in Filling => BufferSound(file, import) /\ Reached(file, Current, import)
    /\ import.result = "ok" => import.pc \in {"left", "returned"} /\ Current.answer = "ok"

LEMMA AppendIs ==
  ASSUME NEW S, NEW c \in Seq(S), NEW x \in S
  PROVE  /\ Len(c) \in Nat /\ DOMAIN c = 1..Len(c)
         /\ Append(c, x) \in Seq(S) /\ Len(Append(c, x)) = Len(c) + 1 /\ Append(c, x) # <<>>
         /\ DOMAIN Append(c, x) = 1..(Len(c) + 1)
         /\ \A i \in 1..Len(c) : Append(c, x)[i] = c[i]
         /\ Append(c, x)[Len(c) + 1] = x
  <1> DEFINE t == Append(c, x)
             n == Len(c)
  <1>1. n \in Nat /\ DOMAIN c = 1..n
    BY LenProperties
  <1>2. t \in Seq(S) /\ Len(t) = n + 1 /\ (\A i \in 1..n : t[i] = c[i]) /\ t[n + 1] = x
    BY AppendProperties
  <1> HIDE DEF t, n
  <1>3. DOMAIN t = 1..Len(t) /\ (t = <<>> <=> Len(t) = 0) /\ n + 1 # 0
    BY <1>1, <1>2, LenProperties, EmptySeq
  <1> QED
    BY <1>1, <1>2, <1>3 DEF t, n

LEMMA Places ==
  ASSUME NEW n \in Nat, NEW k \in 1..n
  PROVE  /\ k \in Nat /\ k >= 1 /\ k + 1 # 1 /\ (k + 1) - 1 = k /\ n >= 1 /\ n \in 1..n
         /\ k # n => k + 1 \in 1..n /\ k \in 1..(n - 1)
         /\ k # 1 => k - 1 \in 1..n /\ k - 1 \in 1..(n - 1) /\ (k - 1) + 1 = k /\ k \in 2..n
  OBVIOUS

LEMMA UpToIs ==
  ASSUME NEW f, f.items \in Seq(Nat), NEW m \in Nat, NEW r \in Seq(Nat), Sendable(f, r, m)
  PROVE  /\ Len(r) \in Nat /\ Len(r) >= 1 /\ Len(r) <= BatchSize
         /\ UpTo(f, r) \in Nat /\ UpTo(f, r) = m + Len(r)
  <1>1. Len(f.items) \in Nat /\ BatchSize \in Nat /\ BatchSize >= 1
    BY ImportConstants
  <1>2. CASE r = Done
    <2>1. Len(r) = 1
      BY <1>2 DEF Done
    <2>2. m = Len(f.items)
      <3>1. 1 \in DOMAIN Done /\ Done[1] = 0 /\ m + 1 # 0
        BY DEF Done
      <3> QED
        BY <1>2, <3>1 DEF Sendable
    <2> QED
      BY <1>1, <1>2, <2>1, <2>2 DEF UpTo
  <1>3. CASE r # Done
    <2>1. r # <<>> /\ Len(r) <= BatchSize /\ \A j \in DOMAIN r : r[j] = m + j
      BY <1>3 DEF Sendable
    <2>2. Len(r) \in Nat /\ Len(r) >= 1 /\ DOMAIN r = 1..Len(r)
      BY <2>1, EmptySeq, LenProperties
    <2>3. r[Len(r)] = m + Len(r) /\ m + Len(r) \in Nat
      BY <2>1, <2>2
    <2> QED
      BY <1>3, <2>1, <2>2, <2>3 DEF UpTo
  <1> QED
    BY <1>2, <1>3

(* What is in a chain is sendable, from a place that is a number.            *)
LEMMA ChainHas ==
  ASSUME NEW f, f.items \in Seq(Nat), NEW m \in Nat, NEW s \in Seq(Seq(Nat)), Chain(f, s, m)
  PROVE  /\ Len(s) \in Nat /\ DOMAIN s = 1..Len(s)
         /\ \A k \in 1..Len(s) : s[k] \in Seq(Nat) /\ UpTo(f, s[k]) \in Nat
         /\ EndOf(f, s, m) \in Nat
  <1>1. Len(s) \in Nat /\ DOMAIN s = 1..Len(s) /\ \A k \in 1..Len(s) : s[k] \in Seq(Nat)
    BY LenProperties
  <1>2. ASSUME NEW k \in 1..Len(s) PROVE UpTo(f, s[k]) \in Nat
    <2>1. CASE s[k] = Done
      BY <2>1 DEF UpTo
    <2>2. CASE s[k] # Done
      <3>1. s[k] # <<>>
        BY <1>1, <2>2 DEF Chain, Sendable
      <3>2. Len(s[k]) \in 1..Len(s[k])
        BY <1>1, <3>1, EmptySeq, LenProperties
      <3>3. s[k][Len(s[k])] \in Nat
        BY <1>1, <3>2
      <3> QED
        BY <2>2, <3>3 DEF UpTo
    <2> QED
      BY <2>1, <2>2
  <1>3. EndOf(f, s, m) \in Nat
    <2>1. s # <<>> => Len(s) \in 1..Len(s)
      BY <1>1, EmptySeq
    <2> QED
      BY <1>2, <2>1 DEF EndOf
  <1> QED
    BY <1>1, <1>2, <1>3

LEMMA ChainGrows ==
  ASSUME NEW f, f.items \in Seq(Nat), NEW m \in Nat, NEW s \in Seq(Seq(Nat)), Chain(f, s, m),
         NEW r \in Seq(Nat), Sendable(f, r, EndOf(f, s, m))
  PROVE  /\ Append(s, r) \in Seq(Seq(Nat)) /\ Chain(f, Append(s, r), m)
         /\ EndOf(f, Append(s, r), m) = UpTo(f, r)
  <1> DEFINE t == Append(s, r)
             n == Len(s)
  <1>1. /\ t \in Seq(Seq(Nat)) /\ Len(t) = n + 1 /\ n \in Nat
        /\ \A i \in 1..n : t[i] = s[i]
        /\ t[n + 1] = r /\ DOMAIN t = 1..(n + 1) /\ t # <<>>
    <2> DEFINE T == Seq(Nat)
    <2>1. s \in Seq(T) /\ r \in T
      OBVIOUS
    <2> HIDE DEF T
    <2>2. /\ t \in Seq(T) /\ Len(t) = n + 1 /\ n \in Nat
          /\ \A i \in 1..n : t[i] = s[i]
          /\ t[n + 1] = r /\ DOMAIN t = 1..(n + 1) /\ t # <<>>
      BY <2>1, AppendIs
    <2> QED
      BY <2>2 DEF T
  <1>2. DOMAIN s = 1..n /\ DOMAIN t = 1..(n + 1) /\ (s = <<>> <=> n = 0) /\ t # <<>>
    BY <1>1, LenProperties, EmptySeq
  <1> HIDE DEF t
  <1>3. ASSUME NEW k \in DOMAIN t
        PROVE  Sendable(f, t[k], IF k = 1 THEN m ELSE UpTo(f, t[k - 1]))
    <2>1. CASE k = n + 1
      <3>1. EndOf(f, s, m) = IF k = 1 THEN m ELSE UpTo(f, t[k - 1])
        <4>1. CASE n = 0
          BY <1>2, <2>1, <4>1 DEF EndOf
        <4>2. CASE n # 0
          <5>1. k # 1 /\ k - 1 = n /\ t[n] = s[n]
            <6> HIDE DEF n
            <6>1. k # 1 /\ k - 1 = n /\ n \in 1..n
              BY <1>1, <2>1, <4>2
            <6> QED
              BY <1>1, <6>1
          <5> QED
            BY <1>2, <4>2, <5>1 DEF EndOf
        <4> QED
          BY <4>1, <4>2
      <3> QED
        BY <1>1, <2>1, <3>1
    <2>2. CASE k # n + 1
      <3>1. k \in DOMAIN s /\ t[k] = s[k] /\ (k # 1 => t[k - 1] = s[k - 1])
        <4> HIDE DEF n
        <4>1. k \in 1..n /\ t[k] = s[k]
          BY <1>1, <1>2, <2>2
        <4>2. k # 1 => k - 1 \in 1..n
          BY <1>1, <4>1, Places
        <4> QED
          BY <1>1, <1>2, <4>1, <4>2
      <3> QED
        BY <3>1 DEF Chain
    <2> QED
      BY <2>1, <2>2
  <1>4. EndOf(f, t, m) = UpTo(f, r)
    BY <1>1, <1>2 DEF EndOf
  <1> QED
    BY <1>1, <1>3, <1>4 DEF Chain, t

LEMMA ChainShrinks ==
  ASSUME NEW f, f.items \in Seq(Nat), NEW m \in Nat, NEW s \in Seq(Seq(Nat)), Chain(f, s, m), s # <<>>
  PROVE  /\ Head(s) \in Seq(Nat) /\ Tail(s) \in Seq(Seq(Nat)) /\ Sendable(f, Head(s), m)
         /\ Chain(f, Tail(s), UpTo(f, Head(s)))
         /\ EndOf(f, Tail(s), UpTo(f, Head(s))) = EndOf(f, s, m)
  <1> DEFINE t == Tail(s)
             n == Len(s)
  <1>1. /\ n \in Nat /\ n > 0 /\ Head(s) = s[1] /\ Head(s) \in Seq(Nat) /\ 1 \in DOMAIN s
        /\ t \in Seq(Seq(Nat)) /\ Len(t) = n - 1
        /\ \A i \in DOMAIN t : i \in Nat /\ i + 1 \in DOMAIN s /\ t[i] = s[i + 1]
    BY TakesHead
  <1>2. DOMAIN s = 1..n /\ DOMAIN t = 1..(n - 1) /\ (t = <<>> <=> n = 1)
    <2>1. DOMAIN s = 1..n /\ DOMAIN t = 1..Len(t) /\ (t = <<>> <=> Len(t) = 0)
      BY <1>1, LenProperties, EmptySeq
    <2>2. n - 1 = 0 <=> n = 1
      BY <1>1
    <2> HIDE DEF n, t
    <2> QED
      BY <1>1, <2>1, <2>2
  <1> HIDE DEF t
  <1>3. Sendable(f, Head(s), m)
    BY <1>1 DEF Chain
  <1>4. ASSUME NEW k \in DOMAIN t
        PROVE  Sendable(f, t[k], IF k = 1 THEN UpTo(f, Head(s)) ELSE UpTo(f, t[k - 1]))
    <2>1. k + 1 \in DOMAIN s /\ k + 1 # 1 /\ (k + 1) - 1 = k /\ t[k] = s[k + 1]
      <3>1. n - 1 \in Nat /\ k \in 1..(n - 1)
        BY <1>1, <1>2
      <3>2. k + 1 # 1 /\ (k + 1) - 1 = k
        BY <3>1, Places
      <3> QED
        BY <1>1, <3>2
    <2>2. Sendable(f, s[k + 1], UpTo(f, s[k]))
      BY <2>1 DEF Chain
    <2>3. CASE k = 1
      BY <1>1, <2>1, <2>2, <2>3
    <2>4. CASE k # 1
      <3>1. k - 1 \in DOMAIN t /\ (k - 1) + 1 = k
        <4>1. n - 1 \in Nat /\ k \in 1..(n - 1)
          BY <1>1, <1>2
        <4> QED
          BY <1>2, <2>4, <4>1, Places
      <3>2. t[k - 1] = s[k]
        BY <1>1, <3>1
      <3> QED
        BY <2>1, <2>2, <2>4, <3>2
    <2> QED
      BY <2>3, <2>4
  <1>5. EndOf(f, t, UpTo(f, Head(s))) = EndOf(f, s, m)
    <2>1. CASE n = 1
      BY <1>1, <1>2, <2>1 DEF EndOf
    <2>2. CASE n # 1
      <3>1. n - 1 \in DOMAIN t /\ (n - 1) + 1 = n
        BY <1>1, <1>2, <2>2
      <3>2. t[Len(t)] = s[n]
        BY <1>1, <3>1
      <3> QED
        BY <1>2, <2>2, <3>2 DEF EndOf
    <2> QED
      BY <2>1, <2>2
  <1> QED
    BY <1>1, <1>3, <1>4, <1>5 DEF Chain, t

(* A chain from the first item with Done in it is a complete import.         *)
LEMMA ChainEnds ==
  ASSUME NEW f, f.items \in Seq(Nat), NEW s \in Seq(Seq(Nat)), Chain(f, s, 0), Done \in Range(s)
  PROVE  /\ f.whole /\ Last(s) = Done /\ InOrder(Front(s), Len(f.items))
         /\ \A r \in Range(s) : Len(r) <= BatchSize
  <1> DEFINE n == Len(s)
             N == Len(f.items)
             from(k) == IF k = 1 THEN 0 ELSE UpTo(f, s[k - 1])
  <1>1. /\ n \in Nat /\ DOMAIN s = 1..n /\ N \in Nat
        /\ \A k \in 1..n : s[k] \in Seq(Nat) /\ UpTo(f, s[k]) \in Nat
    BY ChainHas
  <1>2. ASSUME NEW k \in 1..n PROVE from(k) \in Nat /\ Sendable(f, s[k], from(k))
    <2>1. k # 1 => k - 1 \in 1..n
      <3> HIDE DEF n
      <3> QED
        BY <1>1, Places
    <2>2. Sendable(f, s[k], from(k))
      BY <1>1 DEF Chain
    <2> QED
      BY <1>1, <2>1, <2>2
  <1>3. ASSUME NEW k \in 1..n, s[k] = Done PROVE from(k) = N /\ f.whole
    <2>1. 1 \in DOMAIN Done /\ Done[1] = 0 /\ from(k) + 1 # 0
      BY <1>2 DEF Done
    <2> QED
      BY <1>2, <1>3, <2>1 DEF Sendable
  <1> HIDE DEF N
  <1>4. ASSUME NEW k \in 1..n, s[k] = Done PROVE k = n
    <2> SUFFICES ASSUME k # n PROVE FALSE
      OBVIOUS
    <2>1. k + 1 \in 1..n /\ k + 1 # 1 /\ (k + 1) - 1 = k
      <3> HIDE DEF n
      <3> QED
        BY <1>1, Places
    <2>2. from(k + 1) = N + 1
      BY <1>4, <2>1 DEF UpTo, N
    <2>3. Len(s[k + 1]) >= 1 /\ Len(s[k + 1]) \in Nat
      BY <1>1, <1>2, <2>1, UpToIs
    <2>4. N + 1 # N /\ ~(N + 1 + Len(s[k + 1]) <= N)
      <3>1. \A x, y \in Nat : y >= 1 => x + 1 # x /\ ~(x + 1 + y <= x)
        OBVIOUS
      <3> QED
        BY <1>1, <2>3, <3>1
    <2> QED
      BY <1>2, <2>1, <2>2, <2>4 DEF Sendable, N
  <1>5. n >= 1 /\ s[n] = Done
    <2>1. PICK k \in 1..n : s[k] = Done
      BY <1>1 DEF Range
    <2> HIDE DEF n
    <2> QED
      BY <1>1, <1>4, <2>1, Places
  <1>6. f.whole /\ from(n) = N
    <2>1. n \in 1..n
      BY <1>1, <1>5
    <2> HIDE DEF n, from
    <2> QED
      BY <1>3, <1>5, <2>1
  <1>7. Last(s) = Done
    BY <1>5 DEF Last
  <1>8. \A r \in Range(s) : Len(r) <= BatchSize
    <2>1. \A k \in 1..n : Len(s[k]) <= BatchSize
      BY <1>1, <1>2, UpToIs
    <2> QED
      BY <1>1, <2>1 DEF Range
  <1>9. InOrder(Front(s), N)
    <2> DEFINE b == Front(s)
    <2>1. b = [i \in 1..(n - 1) |-> s[i]] /\ n - 1 \in Nat
      BY <1>1, <1>5 DEF Front
    <2> HIDE DEF b
    <2>2. DOMAIN b = 1..(n - 1) /\ Len(b) = n - 1 /\ (b = <<>> <=> n = 1)
          /\ \A k \in 1..(n - 1) : b[k] = s[k]
      <3>1. b \in Seq(Seq(Nat))
        BY <1>1, <2>1
      <3>2. DOMAIN b = 1..(n - 1) /\ Len(b) = n - 1 /\ \A k \in 1..(n - 1) : b[k] = s[k]
        BY <2>1
      <3>3. b = <<>> <=> Len(b) = 0
        BY <3>1, EmptySeq
      <3> QED
        BY <1>1, <3>2, <3>3
    <2>3. \A k \in 1..(n - 1) : k \in 1..n /\ s[k] # Done
      <3> HIDE DEF n
      <3>1. \A k \in 1..(n - 1) : k \in 1..n /\ k # n
        BY <1>1
      <3> QED
        BY <1>4, <3>1
    <2>4. ASSUME NEW k \in 2..n PROVE UpTo(f, s[k - 1]) = Last(b[k - 1]) /\ k - 1 \in 1..(n - 1)
      <3>1. k - 1 \in 1..(n - 1)
        BY <1>1
      <3> QED
        BY <2>2, <2>3, <3>1 DEF UpTo, Last
    <2>5. ASSUME NEW k \in DOMAIN b
          PROVE  LET before == IF k = 1 THEN 0 ELSE Last(b[k - 1])
                 IN  /\ b[k] # <<>>
                     /\ \A j \in DOMAIN b[k] : b[k][j] = before + j
      <3>1. k \in 1..n /\ b[k] = s[k] /\ s[k] # Done /\ (k # 1 => k \in 2..n)
        <4>1. k \in 1..n /\ b[k] = s[k] /\ s[k] # Done
          BY <2>2, <2>3
        <4> HIDE DEF n
        <4> QED
          BY <1>1, <4>1, Places
      <3>2. s[k] # <<>> /\ \A j \in DOMAIN s[k] : s[k][j] = from(k) + j
        BY <1>2, <3>1 DEF Sendable
      <3>3. from(k) = IF k = 1 THEN 0 ELSE Last(b[k - 1])
        BY <2>4, <3>1
      <3> HIDE DEF from
      <3> QED
        BY <3>1, <3>2, <3>3
    <2>6. N = IF b = <<>> THEN 0 ELSE Last(Last(b))
      <3>1. CASE n = 1
        BY <1>6, <2>2, <3>1
      <3>2. CASE n # 1
        <4>1. n \in 2..n
          BY <1>1, <1>5, <3>2
        <4>2. Last(b) = b[n - 1]
          BY <2>2 DEF Last
        <4> QED
          BY <1>6, <2>2, <2>4, <3>2, <4>1, <4>2
      <3> QED
        BY <3>1, <3>2
    <2> QED
      BY <2>5, <2>6 DEF InOrder, b
  <1> QED
    BY <1>6, <1>7, <1>8, <1>9 DEF N

-----------------------------------------------------------------------------
(* What a worker may do to the link of an attempt while its client stands.   *)
Goes(l, k) ==
    /\ k.answer = l.answer \/ l.answer = "none"
    /\ LinkSound(file, l) =>
         /\ LinkSound(file, k)
         /\ Reached(file, l, import) => Reached(file, k, import)

LEMMA WorkersKeep ==
  ASSUME ImportTypes, ImportInv, UNCHANGED <<file, import>>,
         link' \in [Attempts -> Links], \A b \in Attempts : Goes(link[b], link'[b])
  PROVE  ImportTypes' /\ ImportInv'
  <1>1. ImportTypes'
    BY DEF ImportTypes
  <1>2. import.attempt \in Attempts /\ Goes(Current, Current')
    BY DEF ImportTypes, Importers, Current
  <1>3. import.pc \in Begun => LinkSound(file, Current')
    BY <1>2 DEF ImportInv, Goes
  <1>4. import.pc \in Filling => Reached(file, Current', import)
    BY <1>2 DEF ImportInv, Goes, Begun
  <1>5. import.result = "ok" => Current'.answer = "ok"
    BY <1>2 DEF ImportInv, Goes
  <1> QED
    BY <1>1, <1>3, <1>4, <1>5 DEF ImportInv

(* Nothing is read of a link but this.                                       *)
LEMMA GoesIf ==
  ASSUME NEW l \in Links, NEW k \in Links,
         k.received = l.received, k.answer = l.answer \/ l.answer = "none",
         Flows(k) => Flows(l) /\ k.queue = l.queue,
         k.answer = "ok" /\ l.answer # "ok" => Done \in Range(l.received),
         k.result = "ok" => l.result = "ok" \/ k.answer = "ok"
  PROVE  Goes(l, k)
  <1> SUFFICES ASSUME LinkSound(file, l)
               PROVE  /\ LinkSound(file, k)
                      /\ Reached(file, l, import) => Reached(file, k, import)
    BY DEF Goes
  <1>1. /\ Chain(file, k.received, 0)
        /\ Flows(k) => Chain(file, k.queue, EndOf(file, k.received, 0))
    BY DEF LinkSound
  <1>2. k.answer = "ok" => Done \in Range(k.received)
    BY DEF LinkSound
  <1>3. k.result = "ok" => k.answer = "ok"
    BY DEF LinkSound
  <1>4. Reached(file, l, import) => Reached(file, k, import)
    BY DEF Reached
  <1> QED
    BY <1>1, <1>2, <1>3, <1>4 DEF LinkSound

LEMMA GoesSame == ASSUME NEW l PROVE Goes(l, l)
  BY DEF Goes

(* The server receives what was next in the queue.                           *)
LEMMA ForwardGoes ==
  ASSUME file.items \in Seq(Nat), NEW l \in Links, NEW k \in Links, l.queue # <<>>,
         l.dispatcher # "ended", k.queue = Tail(l.queue), k.dispatcher = l.dispatcher, k.answer = l.answer,
         k.result = l.result,
         k.received = IF l.answer = "none" THEN Append(l.received, Head(l.queue)) ELSE l.received
  PROVE  Goes(l, k)
  <1>1. CASE ~Flows(l)
    <2>1. l.answer # "none" /\ k.received = l.received /\ ~Flows(k)
      BY <1>1 DEF Flows
    <2> QED
      BY <2>1, GoesIf
  <1>2. CASE Flows(l)
    <2> SUFFICES ASSUME LinkSound(file, l)
                 PROVE  /\ LinkSound(file, k)
                        /\ Reached(file, l, import) => Reached(file, k, import)
      BY DEF Goes
    <2> DEFINE m == EndOf(file, l.received, 0)
               q == l.queue
               s == l.received
               r == Head(l.queue)
    <2>1. /\ q \in Seq(Seq(Nat)) /\ s \in Seq(Seq(Nat)) /\ q # <<>>
          /\ Chain(file, s, 0) /\ Chain(file, q, m)
      BY <1>2 DEF LinkSound, Links
    <2>2. m \in Nat
      BY <2>1, ChainHas
    <2> HIDE DEF m, q, s, r
    <2>3. /\ Head(q) \in Seq(Nat) /\ Sendable(file, Head(q), m)
          /\ Chain(file, Tail(q), UpTo(file, Head(q)))
          /\ EndOf(file, Tail(q), UpTo(file, Head(q))) = EndOf(file, q, m)
      BY <2>1, <2>2, ChainShrinks
    <2>4. r \in Seq(Nat) /\ Sendable(file, r, EndOf(file, s, 0))
      BY <2>3 DEF q, r, m, s
    <2>5. Chain(file, Append(s, r), 0) /\ EndOf(file, Append(s, r), 0) = UpTo(file, r)
      BY <2>1, <2>4, ChainGrows
    <2>6. k.received = Append(s, r) /\ k.queue = Tail(q) /\ Flows(k) /\ k.answer = "none"
          /\ l.answer = "none"
      BY <1>2 DEF Flows, s, r, q
    <2>7. LinkSound(file, k)
      BY <2>3, <2>5, <2>6 DEF LinkSound, q, r
    <2>8. EndOf(file, k.queue, EndOf(file, k.received, 0)) = EndOf(file, q, m)
      BY <2>3, <2>5, <2>6 DEF q, r
    <2> QED
      BY <1>2, <2>7, <2>8 DEF Reached, q, m
  <1> QED
    BY <1>1, <1>2

LEMMA WorkersStep ==
  ASSUME ImportTypes, ImportInv, NEW a \in Attempts, ImportWorkers(a) \/ ServerAnswers(a)
  PROVE  ImportTypes' /\ ImportInv'
  <1> DEFINE l == link[a]
             k == link'[a]
  <1>1. UNCHANGED <<file, import>> /\ link \in [Attempts -> Links] /\ l \in Links
    BY DEF ImportWorkers, StartImportWorkers, DispatchLoop, ListenImport, ServerAnswers, ImportTypes
  <1>2. SUFFICES /\ link' \in [Attempts -> Links]
                 /\ \A b \in Attempts : b # a => link'[b] = link[b]
                 /\ Goes(l, k)
    BY <1>1, WorkersKeep, GoesSame
  <1>3. CASE StartImportWorkers(a)
    <2>1. link' = [link EXCEPT ![a].dispatcher = "running", ![a].listener = "running"]
          /\ l.dispatcher = "spawned"
      BY <1>3 DEF StartImportWorkers
    <2>2. /\ link' \in [Attempts -> Links] /\ k \in Links
          /\ \A b \in Attempts : b # a => link'[b] = link[b]
          /\ k.received = l.received /\ k.answer = l.answer /\ k.queue = l.queue
          /\ k.result = l.result
      BY <1>1, <2>1 DEF Links
    <2>3. Flows(k) => Flows(l)
      BY <2>1, <2>2 DEF Flows
    <2> HIDE DEF l, k
    <2> QED
      BY <1>1, <2>2, <2>3, GoesIf
  <1>4. CASE DispatchLoop(a)
    <2>1. CASE link' = [link EXCEPT ![a].dispatcher = "ended", ![a].queue = <<>>]
      <3>1. /\ link' \in [Attempts -> Links] /\ k \in Links
            /\ \A b \in Attempts : b # a => link'[b] = link[b]
            /\ k.received = l.received /\ k.answer = l.answer /\ k.dispatcher = "ended"
            /\ k.result = l.result
        <4> DEFINE none == <<>>
        <4>1. none \in Seq(Seq(Nat)) /\ link' = [link EXCEPT ![a].dispatcher = "ended", ![a].queue = none]
          BY <2>1
        <4> HIDE DEF none
        <4> QED
          BY <1>1, <4>1 DEF Links
      <3> QED
        BY <1>1, <3>1, GoesIf DEF Flows
    <2>2. CASE /\ l.queue # <<>> /\ l.dispatcher # "ended"
               /\ link' = [link EXCEPT ![a].queue = Tail(@), ![a].received =
                    IF link[a].answer = "none" THEN Append(@, Head(link[a].queue)) ELSE @]
      <3> DEFINE q == Tail(l.queue)
                 s == IF l.answer = "none" THEN Append(l.received, Head(l.queue)) ELSE l.received
      <3>1. l.queue \in Seq(Seq(Nat)) /\ l.received \in Seq(Seq(Nat))
        BY <1>1 DEF Links
      <3>2. q \in Seq(Seq(Nat)) /\ Head(l.queue) \in Seq(Nat)
        BY <2>2, <3>1, TakesHead
      <3>3. s \in Seq(Seq(Nat))
        BY <3>1, <3>2
      <3>4. link' = [link EXCEPT ![a].queue = q, ![a].received = s]
        BY <1>1, <2>2
      <3> HIDE DEF q, s
      <3>5. /\ link' \in [Attempts -> Links] /\ k \in Links
            /\ \A b \in Attempts : b # a => link'[b] = link[b]
            /\ k.received = s /\ k.answer = l.answer /\ k.dispatcher = l.dispatcher
            /\ k.result = l.result /\ k.queue = q
        BY <1>1, <3>2, <3>3, <3>4 DEF Links
      <3>6. file.items \in Seq(Nat)
        BY DEF ImportTypes
      <3> QED
        BY <1>1, <2>2, <3>5, <3>6, ForwardGoes DEF q, s
    <2> QED
      BY <1>4, <2>1, <2>2 DEF DispatchLoop
  <1>5. CASE ListenImport(a)
    <2>1. link' = [link EXCEPT ![a].listener = "ended", ![a].result = link[a].answer, ![a].signal = TRUE]
          /\ l.answer # "none"
      BY <1>5 DEF ListenImport
    <2>2. /\ link' \in [Attempts -> Links] /\ k \in Links
          /\ \A b \in Attempts : b # a => link'[b] = link[b]
          /\ k.received = l.received /\ k.answer = l.answer /\ k.queue = l.queue
          /\ k.result = l.answer /\ k.dispatcher = l.dispatcher
      BY <1>1, <2>1 DEF Links
    <2> QED
      BY <1>1, <2>2, GoesIf DEF Flows
  <1>6. CASE ServerAnswers(a)
    <2>1. PICK answer \in {"ok", "err", "closed"} :
            /\ answer = "ok" => Done \in Range(l.received)
            /\ link' = [link EXCEPT ![a].answer = answer]
            /\ l.answer = "none"
      BY <1>6 DEF ServerAnswers
    <2>2. /\ link' \in [Attempts -> Links] /\ k \in Links
          /\ \A b \in Attempts : b # a => link'[b] = link[b]
          /\ k.received = l.received /\ k.answer = answer /\ k.result = l.result
      BY <1>1, <2>1 DEF Links
    <2> QED
      BY <1>1, <2>1, <2>2, GoesIf DEF Flows
  <1> QED
    BY <1>3, <1>4, <1>5, <1>6 DEF ImportWorkers

LEMMA HostStep ==
  ASSUME ImportTypes, ImportInv, CloseImports \/ StopImports
  PROVE  ImportTypes' /\ ImportInv'
  <1>1. UNCHANGED <<file, import>> /\ link \in [Attempts -> Links]
    BY DEF CloseImports, StopImports, ImportTypes
  <1>2. ASSUME NEW a \in Attempts
        PROVE  /\ DOMAIN link' = Attempts /\ link' = [b \in Attempts |-> link'[b]]
               /\ link'[a] \in Links /\ Goes(link[a], link'[a])
    <2> DEFINE l == link[a]
               k == link'[a]
    <2>1. l \in Links
      BY <1>1
    <2>2. CASE CloseImports
      <3>1. /\ k = [l EXCEPT !.signal = @ \/ l.dispatcher # "none"]
            /\ link' = [b \in Attempts |-> link'[b]]
        BY <2>2 DEF CloseImports
      <3>2. /\ k \in Links /\ k.received = l.received /\ k.answer = l.answer
            /\ k.queue = l.queue /\ k.result = l.result /\ k.dispatcher = l.dispatcher
        BY <2>1, <3>1 DEF Links
      <3>3. Flows(k) => Flows(l)
        BY <3>2 DEF Flows
      <3> HIDE DEF l, k
      <3>4. Goes(l, k)
        BY <2>1, <3>2, <3>3, GoesIf
      <3> QED
        BY <2>1, <3>1, <3>2, <3>4 DEF l, k
    <2>3. CASE StopImports
      <3>1. /\ k = [l EXCEPT !.dispatcher = IF @ = "spawned" THEN "ended" ELSE @,
                             !.listener = IF @ = "none" THEN @ ELSE "ended",
                             !.result = IF @ = "empty" /\ l.listener # "none" THEN "closed" ELSE @]
            /\ link' = [b \in Attempts |-> link'[b]]
        BY <2>3 DEF StopImports
      <3>2. /\ k \in Links /\ k.received = l.received /\ k.answer = l.answer
            /\ k.queue = l.queue /\ k.result \in {l.result, "closed"}
            /\ k.dispatcher \in {l.dispatcher, "ended"}
        BY <2>1, <3>1 DEF Links
      <3>3. Flows(k) => Flows(l)
        BY <3>2 DEF Flows
      <3> HIDE DEF l, k
      <3>4. Goes(l, k)
        BY <2>1, <3>2, <3>3, GoesIf
      <3> QED
        BY <2>1, <3>1, <3>2, <3>4 DEF l, k
    <2> QED
      BY <2>2, <2>3
  <1>3. link' \in [Attempts -> Links]
    <2>1. link' = [b \in Attempts |-> link'[b]]
      BY <1>2, ImportConstants
    <2> QED
      BY <1>2, <2>1
  <1> QED
    BY <1>1, <1>2, <1>3, WorkersKeep

-----------------------------------------------------------------------------
(* The client leaves an attempt with a result; if it is Ok, so was the answer.*)
LEMMA LeaveKeeps ==
  ASSUME ImportTypes, ImportInv, import.pc \in Begun,
         NEW result \in {"ok", "err", "closed", "decode", "unexpected"}, Leave(result),
         result = "ok" => Current.answer = "ok"
  PROVE  ImportTypes' /\ ImportInv'
  <1> DEFINE a == import.attempt
             l == link[a]
             k == link'[a]
  <1>1. /\ UNCHANGED file /\ a \in Attempts /\ l \in Links /\ link \in [Attempts -> Links]
        /\ l = Current /\ import \in Importers
    BY DEF Leave, ImportTypes, Importers, Current
  <1>2. /\ import' \in Importers /\ import'.pc = "left" /\ import'.result = result
        /\ import'.attempt = a
    BY <1>1 DEF Leave, Importers, Begun, Filling
  <1>3. /\ link' \in [Attempts -> Links] /\ k.received = l.received /\ k.answer = l.answer
        /\ k.queue = l.queue /\ k.result = l.result /\ k.dispatcher = l.dispatcher
    <2>1. link' = [link EXCEPT ![a].signal = TRUE]
      BY <1>1 DEF Leave, GuardSignals
    <2> QED
      BY <1>1, <2>1 DEF Links
  <1>4. k = Current'
    BY <1>2 DEF Current
  <1>5. LinkSound(file, l)
    BY <1>1 DEF ImportInv
  <1> HIDE DEF a, l, k
  <1>6. LinkSound(file, k)
    BY <1>3, <1>5 DEF LinkSound, Flows
  <1>7. import'.pc \notin Filling /\ import'.pc \in Begun
    BY <1>2 DEF Begun, Filling
  <1> QED
    BY <1>1, <1>2, <1>3, <1>4, <1>6, <1>7 DEF ImportTypes, ImportInv

LEMMA OpenKeeps ==
  ASSUME ImportTypes, ImportInv, OpenImport PROVE ImportTypes' /\ ImportInv'
  <1> DEFINE a == import.attempt
             none == <<>>
             fresh == IF host = "stopped"
                      THEN [NoLink EXCEPT !.dispatcher = "ended", !.listener = "ended", !.result = "closed"]
                      ELSE [NoLink EXCEPT !.dispatcher = "spawned", !.listener = "spawned"]
  <1>1. /\ UNCHANGED file /\ a \in Attempts /\ link \in [Attempts -> Links]
        /\ import \in Importers /\ import.result # "ok" /\ file.items \in Seq(Nat)
        /\ Len(file.items) \in Nat
    BY DEF OpenImport, ImportTypes, Importers, ImportInv
  <1>2. none \in Seq(Nat) /\ none \in Seq(Seq(Nat)) /\ Len(none) = 0 /\ DOMAIN none = {}
    OBVIOUS
  <1>3. /\ fresh \in Links /\ fresh.received = none /\ fresh.queue = none
        /\ fresh.answer = "none" /\ fresh.result # "ok"
    BY <1>2 DEF NoLink, Links
  <1>4. link' = [link EXCEPT ![a] = fresh]
    BY DEF OpenImport
  <1>5. import' = [import EXCEPT !.pc = "read", !.pos = 0, !.buffer = none]
    BY DEF OpenImport
  <1> HIDE DEF none, fresh
  <1>6. /\ import' \in Importers /\ import'.pc = "read" /\ import'.pos = 0
        /\ import'.buffer = none /\ import'.attempt = a /\ import'.result = import.result
    BY <1>1, <1>2, <1>5 DEF Importers, Begun, Filling
  <1>7. link' \in [Attempts -> Links] /\ Current' = fresh
    BY <1>1, <1>3, <1>4, <1>6 DEF Current
  <1>8. EndOf(file, none, EndOf(file, none, 0)) = 0
    BY DEF EndOf, none
  <1>9. LinkSound(file, fresh)
    BY <1>2, <1>3 DEF LinkSound, Chain
  <1>10. BufferSound(file, import')
    BY <1>1, <1>2, <1>6, ImportConstants DEF BufferSound
  <1>11. Reached(file, fresh, import')
    BY <1>2, <1>3, <1>6, <1>8 DEF Reached
  <1> QED
    BY <1>1, <1>6, <1>7, <1>9, <1>10, <1>11 DEF ImportTypes, ImportInv

(* Steps of a filling client that leave its link alone.                      *)
LEMMA FillingKeeps ==
  ASSUME ImportTypes, ImportInv, import.pc \in Filling, UNCHANGED <<file, link>>,
         import' \in Importers, import'.attempt = import.attempt, import'.pc \in Filling,
         import'.result = import.result, BufferSound(file, import'),
         import'.pos - Len(import'.buffer) = import.pos - Len(import.buffer)
  PROVE  ImportTypes' /\ ImportInv'
  <1>1. LinkSound(file, Current) /\ Reached(file, Current, import) /\ import.result # "ok"
    BY DEF ImportInv, Begun, Filling
  <1>2. Current' = Current
    BY DEF Current
  <1>3. Reached(file, Current, import')
    BY <1>1 DEF Reached
  <1> QED
    BY <1>1, <1>2, <1>3 DEF ImportTypes, ImportInv

LEMMA ReadKeeps ==
  ASSUME ImportTypes, ImportInv, ReadItem PROVE ImportTypes' /\ ImportInv'
  <1> DEFINE b == import.buffer
             p == import.pos
             x == file.items[p + 1]
             c == Append(b, x)
             n == Len(b)
             N == Len(file.items)
             s == p - n
  <1>1. /\ UNCHANGED <<file, link>> /\ import.pc = "read" /\ p < N
        /\ import \in Importers /\ file.items \in Seq(Nat) /\ b \in Seq(Nat) /\ p \in Nat
        /\ BufferSound(file, import) /\ N \in Nat
    BY DEF ReadItem, ImportAt, ImportTypes, Importers, ImportInv, Filling
  <1>2. p + 1 \in 1..N /\ x \in Nat /\ x = p + 1 /\ p + 1 <= N
    <2>1. p + 1 \in 1..N /\ p + 1 <= N
      <3> HIDE DEF N, p
      <3> QED
        BY <1>1
    <2> QED
      BY <1>1, <2>1 DEF ImportTypes
  <1>3. /\ n \in Nat /\ DOMAIN b = 1..n /\ 0 <= s /\ n < BatchSize
        /\ \A j \in 1..n : b[j] = s + j
    <2>1. n \in Nat /\ DOMAIN b = 1..n
      BY <1>1, LenProperties
    <2> QED
      BY <1>1, <2>1 DEF BufferSound
  <1> HIDE DEF x
  <1>4. /\ c \in Seq(Nat) /\ Len(c) = n + 1 /\ DOMAIN c = 1..(n + 1) /\ c # <<>>
        /\ \A j \in 1..n : c[j] = b[j]
        /\ c[n + 1] = x
    <2>1. b \in Seq(Nat) /\ x \in Nat
      BY <1>1, <1>2
    <2> HIDE DEF b
    <2> QED
      BY <2>1, AppendIs
  <1>5. import' = [import EXCEPT !.pos = p + 1, !.buffer = c, !.pc = IF Full THEN "check" ELSE "read"]
    BY <1>1 DEF ReadItem, x
  <1> HIDE DEF c
  <1>6. /\ import' \in Importers /\ import'.attempt = import.attempt
        /\ import'.pc = (IF n + 1 >= BatchSize THEN "check" ELSE "read")
        /\ import'.result = import.result /\ import'.pos = p + 1 /\ import'.buffer = c
    <2>1. Full <=> n + 1 >= BatchSize
      BY DEF Full
    <2> DEFINE next == IF Full THEN "check" ELSE "read"
               moved == p + 1
    <2>2. next \in {"check", "read"} /\ moved \in Nat
      BY <1>1
    <2> HIDE DEF next, moved
    <2>3. import' = [import EXCEPT !.pos = moved, !.buffer = c, !.pc = next]
      BY <1>5 DEF next, moved
    <2>4. /\ import' \in Importers /\ import'.attempt = import.attempt /\ import'.pc = next
          /\ import'.result = import.result /\ import'.pos = moved /\ import'.buffer = c
      BY <1>1, <1>4, <2>2, <2>3 DEF Importers, Begun, Filling
    <2> QED
      BY <2>1, <2>4 DEF next, moved
  <1> HIDE DEF b, n, N, p
  <1>7. (p + 1) - (n + 1) = s /\ n + 1 <= BatchSize
    BY <1>1, <1>3, ImportConstants
  <1>8. ASSUME NEW j \in DOMAIN c PROVE c[j] = s + j
    <2>1. CASE j = n + 1
      <3>1. p + 1 = (p - n) + (n + 1)
        BY <1>1, <1>3
      <3> QED
        BY <1>2, <1>4, <2>1, <3>1
    <2>2. CASE j # n + 1
      BY <1>3, <1>4, <2>2
    <2> QED
      BY <2>1, <2>2
  <1>9. n + 1 >= BatchSize \/ n + 1 < BatchSize
    BY <1>3, ImportConstants
  <1> HIDE DEF s
  <1>10. BufferSound(file, import')
    BY <1>2, <1>3, <1>4, <1>6, <1>7, <1>8, <1>9 DEF BufferSound, N
  <1>11. import'.pc \in Filling /\ import.pc \in Filling
    BY <1>1, <1>6 DEF Filling
  <1>12. import'.pos - Len(import'.buffer) = import.pos - Len(import.buffer)
    BY <1>4, <1>6, <1>7 DEF s, p, n, b
  <1> QED
    BY <1>1, <1>6, <1>10, <1>11, <1>12, FillingKeeps

LEMMA EndKeeps ==
  ASSUME ImportTypes, ImportInv, ReadEnd PROVE ImportTypes' /\ ImportInv'
  <1>1. /\ import.pc = "read" /\ import.pos = Len(file.items) /\ import \in Importers
        /\ BufferSound(file, import)
    BY DEF ReadEnd, ImportAt, ImportTypes, ImportInv, Filling
  <1>2. CASE file.whole
    <2>1. /\ UNCHANGED <<file, link>>
          /\ import' = [import EXCEPT !.pc = AtEnd]
      BY <1>2 DEF ReadEnd, ImportGoto
    <2>2. /\ import' \in Importers /\ import'.attempt = import.attempt
          /\ import'.pc = (IF import.buffer = <<>> THEN "checkDone" ELSE "check")
          /\ import'.result = import.result /\ import'.pos = import.pos
          /\ import'.buffer = import.buffer
      BY <1>1, <2>1 DEF Importers, Begun, Filling, AtEnd
    <2>3. BufferSound(file, import')
      BY <1>1, <1>2, <2>2 DEF BufferSound
    <2>4. import'.pc \in Filling /\ import.pc \in Filling
      BY <1>1, <2>2 DEF Filling
    <2> QED
      BY <2>1, <2>2, <2>3, <2>4, FillingKeeps
  <1>3. CASE ~file.whole
    BY <1>1, <1>3, LeaveKeeps DEF ReadEnd, Begun, Filling
  <1> QED
    BY <1>2, <1>3

LEMMA CheckKeeps ==
  ASSUME ImportTypes, ImportInv, CheckEarly PROVE ImportTypes' /\ ImportInv'
  <1>1. /\ import.pc \in {"check", "checkDone"} /\ import \in Importers /\ BufferSound(file, import)
        /\ import.pc \in Begun /\ import.pc \in Filling
    BY DEF CheckEarly, ImportTypes, ImportInv, Filling, Begun
  <1>2. CASE Current.result \in EarlyResult
    <2>1. Leave(IF Current.result = "ok" THEN "unexpected" ELSE Current.result)
      BY <1>2 DEF CheckEarly
    <2> QED
      BY <1>1, <1>2, <2>1, LeaveKeeps DEF EarlyResult
  <1>3. CASE Current.result \notin EarlyResult
    <2>1. /\ UNCHANGED <<file, link>>
          /\ import' = [import EXCEPT !.pc = IF import.pc = "check" THEN "send" ELSE "sendDone"]
      BY <1>3 DEF CheckEarly, ImportGoto, ImportAt
    <2>2. /\ import' \in Importers /\ import'.attempt = import.attempt
          /\ import'.pc = (IF import.pc = "check" THEN "send" ELSE "sendDone")
          /\ import'.result = import.result /\ import'.pos = import.pos
          /\ import'.buffer = import.buffer
      BY <1>1, <2>1 DEF Importers, Begun, Filling
    <2>3. BufferSound(file, import')
      BY <1>1, <2>2 DEF BufferSound
    <2>4. import'.pc \in Filling
      BY <2>2 DEF Filling
    <2> QED
      BY <1>1, <2>1, <2>2, <2>3, <2>4, FillingKeeps
  <1> QED
    BY <1>2, <1>3

(* What the client sends goes on where the queue ends.                       *)
LEMMA RequestIs ==
  ASSUME ImportTypes, ImportInv, import.pc \in {"send", "sendDone"}
  PROVE  /\ Request \in Seq(Nat)
         /\ Sendable(file, Request, import.pos - Len(import.buffer))
         /\ import.pc = "send" => UpTo(file, Request) = import.pos
         /\ import.pos - Len(import.buffer) \in Nat
  <1> DEFINE b == import.buffer
             p == import.pos
             n == Len(b)
             s == p - n
  <1>1. /\ b \in Seq(Nat) /\ p \in Nat /\ n \in Nat /\ file.items \in Seq(Nat)
        /\ 0 <= s /\ n <= BatchSize /\ p <= Len(file.items)
        /\ \A j \in DOMAIN b : b[j] = s + j
        /\ import.pc = "send" => b # <<>>
        /\ import.pc = "sendDone" => b = <<>> /\ p = Len(file.items) /\ file.whole
    BY DEF ImportTypes, Importers, ImportInv, Filling, BufferSound
  <1>2. s \in Nat /\ s + n = p
    <2>1. \A v, w \in Nat : 0 <= v - w => v - w \in Nat /\ (v - w) + w = v
      OBVIOUS
    <2> QED
      BY <1>1, <2>1
  <1>3. CASE import.pc = "send"
    <2>1. Request = b
      BY <1>3 DEF Request, ImportAt
    <2>2. Sendable(file, b, s)
      <3> HIDE DEF b, n, s, p
      <3> QED
        BY <1>1, <1>2, <1>3 DEF Sendable, n
    <2>3. UpTo(file, b) = s + Len(b)
      <3> HIDE DEF b, s
      <3> QED
        BY <1>1, <1>2, <2>2, UpToIs
    <2> QED
      BY <1>1, <1>2, <2>1, <2>2, <2>3
  <1>4. CASE import.pc = "sendDone"
    <2>1. Request = Done /\ Done \in Seq(Nat)
      BY <1>4 DEF Request, ImportAt, Done
    <2>2. s = Len(file.items)
      BY <1>1, <1>4
    <2> QED
      BY <1>1, <1>2, <1>4, <2>1, <2>2 DEF Sendable
  <1> QED
    BY <1>3, <1>4

LEMMA SendKeeps ==
  ASSUME ImportTypes, ImportInv, SendImport PROVE ImportTypes' /\ ImportInv'
  <1> DEFINE a == import.attempt
             l == link[a]
             k == link'[a]
             q == Append(l.queue, Request)
             none == <<>>
             s == import.pos - Len(import.buffer)
  <1>1. /\ import.pc \in {"send", "sendDone"} /\ import \in Importers /\ a \in Attempts
        /\ link \in [Attempts -> Links] /\ l \in Links /\ l = Current
        /\ import.pc \in Begun /\ import.pc \in Filling /\ file.items \in Seq(Nat)
        /\ BufferSound(file, import) /\ LinkSound(file, l) /\ Reached(file, l, import)
        /\ import.result # "ok" /\ import.pos \in Nat
    BY DEF SendImport, ImportTypes, ImportInv, Importers, Begun, Filling, Current
  <1>2. CASE Current.dispatcher = "ended"
    BY <1>1, <1>2, LeaveKeeps DEF SendImport
  <1>3. CASE Current.dispatcher # "ended"
    <2>1. /\ UNCHANGED file
          /\ link' = [link EXCEPT ![a].queue = q]
          /\ import' = [import EXCEPT !.pc = IF import.pc = "send" THEN "read" ELSE "wait",
                                      !.buffer = none]
      BY <1>1, <1>3 DEF SendImport
    <2>2. /\ Request \in Seq(Nat) /\ Sendable(file, Request, s) /\ s \in Nat
          /\ import.pc = "send" => UpTo(file, Request) = import.pos
      BY <1>1, RequestIs
    <2>3. /\ l.queue \in Seq(Seq(Nat)) /\ l.received \in Seq(Seq(Nat)) /\ q \in Seq(Seq(Nat))
          /\ none \in Seq(Nat) /\ Len(none) = 0 /\ DOMAIN none = {}
      BY <1>1, <2>2 DEF Links
    <2> HIDE DEF none, q, s
    <2>4. /\ link' \in [Attempts -> Links] /\ k.received = l.received /\ k.answer = l.answer
          /\ k.queue = q /\ k.result = l.result /\ k.dispatcher = l.dispatcher
      BY <1>1, <2>1, <2>3 DEF Links
    <2>5. /\ import' \in Importers /\ import'.attempt = a /\ import'.result = import.result
          /\ import'.pc = (IF import.pc = "send" THEN "read" ELSE "wait")
          /\ import'.pos = import.pos /\ import'.buffer = none
      BY <1>1, <2>1, <2>3 DEF Importers, Begun, Filling
    <2>6. k = Current'
      BY <2>5 DEF Current
    <2> DEFINE m == EndOf(file, l.received, 0)
               g == l.queue
               r == Request
    <2>7. ASSUME Flows(l)
          PROVE  Chain(file, q, m) /\ EndOf(file, q, m) = UpTo(file, r)
      <3>1. Chain(file, l.received, 0) /\ Chain(file, g, m) /\ EndOf(file, g, m) = s
        BY <1>1, <2>7 DEF LinkSound, Reached, s
      <3>2. m \in Nat
        BY <1>1, <2>3, <3>1, ChainHas
      <3>3. r \in Seq(Nat) /\ Sendable(file, r, EndOf(file, g, m)) /\ g \in Seq(Seq(Nat))
            /\ q = Append(g, r)
        BY <2>2, <2>3, <3>1 DEF q
      <3> HIDE DEF m, g, r
      <3> QED
        BY <1>1, <3>1, <3>2, <3>3, ChainGrows
    <2> HIDE DEF k, l, m, r
    <2>8. LinkSound(file, k)
      BY <1>1, <2>4, <2>7 DEF LinkSound, Flows, m
    <2>9. ASSUME import'.pc \in Filling PROVE Reached(file, k, import') /\ BufferSound(file, import')
      <3>1. import.pc = "send" /\ import'.pc = "read"
        BY <1>1, <2>5, <2>9 DEF Filling
      <3>2. import'.pos - Len(import'.buffer) = import.pos
        BY <1>1, <2>3, <2>5
      <3>3. Reached(file, k, import')
        BY <2>2, <2>4, <2>7, <3>1, <3>2 DEF Reached, Flows, m, r
      <3>4. BufferSound(file, import')
        BY <1>1, <2>3, <2>5, <3>1, <3>2, ImportConstants DEF BufferSound
      <3> QED
        BY <3>3, <3>4
    <2>10. ImportTypes'
      BY <2>1, <2>4, <2>5 DEF ImportTypes
    <2> QED
      BY <1>1, <2>1, <2>5, <2>6, <2>8, <2>9, <2>10 DEF ImportInv
  <1> QED
    BY <1>2, <1>3

LEMMA WaitKeeps ==
  ASSUME ImportTypes, ImportInv, WaitDone PROVE ImportTypes' /\ ImportInv'
  <1>1. /\ import.pc \in Begun /\ Current.result # "empty" /\ Leave(Current.result)
        /\ Current \in Links /\ LinkSound(file, Current)
    BY DEF WaitDone, ImportAt, Begun, Filling, ImportTypes, Importers, Current, ImportInv
  <1>2. Current.result \in {"ok", "err", "closed"} /\ (Current.result = "ok" => Current.answer = "ok")
    BY <1>1 DEF Links, LinkSound
  <1> QED
    BY <1>1, <1>2, LeaveKeeps

LEMMA ReturnKeeps ==
  ASSUME ImportTypes, ImportInv, ImportReturns PROVE ImportTypes' /\ ImportInv'
  <1>1. /\ import.pc = "left" /\ UNCHANGED <<file, link>> /\ import \in Importers
    BY DEF ImportReturns, ImportAt, ImportTypes
  <1>2. CASE /\ import.result \in {"err", "closed"} /\ import.attempt + 1 \in Attempts
             /\ import' = [import EXCEPT !.pc = "retry", !.attempt = @ + 1]
    <2>1. import' \in Importers /\ import'.pc = "retry" /\ import'.result # "ok"
      BY <1>1, <1>2 DEF Importers
    <2> QED
      BY <1>1, <2>1 DEF ImportTypes, ImportInv, Begun, Filling
  <1>3. CASE import' = [import EXCEPT !.pc = "returned"]
    <2>1. /\ import' \in Importers /\ import'.pc = "returned" /\ import'.result = import.result
          /\ import'.attempt = import.attempt
      BY <1>1, <1>3 DEF Importers, Begun
    <2>2. Current' = Current
      BY <1>1, <2>1 DEF Current
    <2>3. import.pc \in Begun /\ import'.pc \in Begun /\ import'.pc \notin Filling
      BY <1>1, <2>1 DEF Begun, Filling
    <2> QED
      BY <1>1, <2>1, <2>2, <2>3 DEF ImportTypes, ImportInv
  <1> QED
    BY <1>2, <1>3 DEF ImportReturns, ImportGoto

LEMMA ImportStarts == ImportInit => ImportTypes /\ ImportInv
  <1> SUFFICES ASSUME ImportInit PROVE ImportTypes /\ ImportInv
    OBVIOUS
  <1> DEFINE none == <<>>
  <1>1. none \in Seq(Nat) /\ none \in Seq(Seq(Nat))
    OBVIOUS
  <1>2. import = [pc |-> "idle", attempt |-> 1, pos |-> 0, buffer |-> none, result |-> "none"]
    BY DEF ImportInit
  <1>3. NoLink = [queue |-> none, dispatcher |-> "none", signal |-> FALSE, listener |-> "none",
                  result |-> "empty", received |-> none, answer |-> "none"]
    BY DEF NoLink
  <1> HIDE DEF none
  <1>4. NoLink \in Links
    BY <1>1, <1>3 DEF Links
  <1>5. link \in [Attempts -> Links]
    BY <1>4 DEF ImportInit
  <1>6. import \in Importers /\ import.pc \notin Begun /\ import.result # "ok"
    BY <1>1, <1>2, ImportConstants DEF Importers, Begun, Filling
  <1>7. file.items \in Seq(Nat) /\ \A i \in 1..Len(file.items) : file.items[i] = i
    <2>1. PICK n \in FileLens : file.items = [i \in 1..n |-> i]
      BY DEF ImportInit
    <2>2. n \in Nat
      BY ImportConstants
    <2> QED
      BY <2>1, <2>2
  <1> QED
    BY <1>5, <1>6, <1>7 DEF ImportTypes, ImportInv, Begun, Filling

LEMMA ImportInvariant == ImportSpec => [](ImportTypes /\ ImportInv)
  <1>1. ImportTypes /\ ImportInv /\ [ImportNext]_importVars => (ImportTypes /\ ImportInv)'
    <2> SUFFICES ASSUME ImportTypes, ImportInv, [ImportNext]_importVars
                 PROVE  ImportTypes' /\ ImportInv'
      OBVIOUS
    <2>1. CASE UNCHANGED importVars
      BY <2>1 DEF importVars, ImportTypes, ImportInv, Current
    <2> QED
      BY <2>1, OpenKeeps, ReadKeeps, EndKeeps, CheckKeeps, SendKeeps, WaitKeeps, ReturnKeeps,
         WorkersStep, HostStep, Zenon DEF ImportNext, ImportClient
  <1> QED
    BY <1>1, ImportStarts, PTL DEF ImportSpec

(* An import that returns Ok is complete: the server has received all items  *)
(* of a file that could be read to its end, each once and in order, in       *)
(* batches of at most ITEM_BATCH_SIZE, and then Done, however the dispatcher,*)
(* an early answer, the retries and force_close raced.                       *)
THEOREM ImportsComplete == ImportSpec => []ImportComplete
  <1>1. ImportTypes /\ ImportInv => ImportComplete
    <2> SUFFICES ASSUME ImportTypes, ImportInv, import.result = "ok"
                 PROVE  /\ file.whole
                        /\ InOrder(Front(Current.received), Len(file.items))
                        /\ Last(Current.received) = Done
                        /\ \A r \in Range(Current.received) : Len(r) <= BatchSize
      BY DEF ImportComplete
    <2> DEFINE s == Current.received
    <2>1. /\ LinkSound(file, Current) /\ Current.answer = "ok" /\ Current \in Links
          /\ file.items \in Seq(Nat)
      BY DEF ImportInv, ImportTypes, Importers, Current, Begun, Filling
    <2>2. Chain(file, s, 0) /\ Done \in Range(s) /\ s \in Seq(Seq(Nat))
      BY <2>1 DEF LinkSound, Links
    <2> HIDE DEF s
    <2>3. /\ file.whole /\ Last(s) = Done /\ InOrder(Front(s), Len(file.items))
          /\ \A r \in Range(s) : Len(r) <= BatchSize
      BY <2>1, <2>2, ChainEnds
    <2> QED
      BY <2>3 DEF s
  <1> QED
    BY <1>1, ImportInvariant, PTL

-----------------------------------------------------------------------------
(* The reader of import files. The ends of the frames add up their lengths,  *)
(* so the complete frames are the first ones of the file; the buffer starts  *)
(* where the last message ended.                                             *)
Frame == [delim : 1..MaxDelimiter, body : Nat]

ReaderInv ==
    /\ frames \in Files /\ size \in Nat /\ size <= End[Len(frames)]
    /\ reader = [pc |-> reader.pc, next |-> reader.next, at |-> reader.at,
                 loaded |-> reader.loaded]
    /\ reader.pc \in {"idle", "len", "body", "end", "err"}
    /\ reader.next \in 1..(Len(frames) + 1)
    /\ reader.loaded \in Nat /\ reader.loaded <= size
    /\ reader.at \in Nat /\ reader.at = End[reader.next - 1] /\ reader.at <= reader.loaded
    /\ reader.pc = "body" => Decodable
    /\ reader.pc \in {"end", "err"} /\ reader.next \in DOMAIN frames => size < End[reader.next]
    /\ reader.pc = "end" => reader.at = size
    /\ reader.pc = "err" => reader.at < size

LEMMA EndsAre ==
  ASSUME frames \in Files
  PROVE  /\ Len(frames) \in Nat /\ DOMAIN frames = 1..Len(frames)
         /\ \A i \in 1..Len(frames) : frames[i] \in Frame
         /\ \A i \in 0..Len(frames) : End[i] \in Nat
         /\ End[0] = 0 /\ \A i \in 1..Len(frames) : End[i] = End[i - 1] + FrameLen(frames[i])
  <1> DEFINE N == Len(frames)
             x == [i \in 1..N |-> FrameLen(frames[i])]
             Ends(f) == f = [i \in 0..N |-> IF i = 0 THEN 0 ELSE f[i - 1] + FrameLen(frames[i])]
  <1>1. N \in Nat /\ DOMAIN frames = 1..N /\ \A i \in 1..N : frames[i] \in Frame
    <2>1. frames \in Seq(Frame)
      BY ReaderConstants DEF Frame
    <2> QED
      BY <2>1
  <1>2. x \in [1..N -> Nat]
    BY <1>1, ReaderConstants DEF FrameLen, Frame
  <1>3. PICK f \in [0..N -> Nat] : f = [n \in 0..N |-> IF n = 0 THEN 0 ELSE f[n - 1] + x[n]]
    <2> HIDE DEF x, N
    <2> QED
      BY <1>1, <1>2, SumsExist
  <1>4. Ends(f)
    <2>1. ASSUME NEW n \in 0..N
          PROVE  f[n] = IF n = 0 THEN 0 ELSE f[n - 1] + FrameLen(frames[n])
      <3>1. f[n] = IF n = 0 THEN 0 ELSE f[n - 1] + x[n]
        BY <1>3
      <3> QED
        BY <1>1, <3>1
    <2>2. f = [n \in 0..N |-> f[n]]
      OBVIOUS
    <2> HIDE DEF N
    <2> QED
      BY <2>1, <2>2
  <1>5. End = CHOOSE g : Ends(g)
    BY DEF End
  <1>6. Ends(End)
    <2> HIDE DEF Ends
    <2> QED
      BY <1>4, <1>5
  <1>7. Adds(f, x, N) /\ Adds(End, x, N)
    <2>1. ASSUME NEW n \in 1..N
          PROVE  f[n] = f[n - 1] + x[n] /\ End[n] = End[n - 1] + x[n]
      <3>1. f[n] = f[n - 1] + x[n]
        <4> HIDE DEF x
        <4> QED
          BY <1>3
      <3>2. End[n] = IF n = 0 THEN 0 ELSE End[n - 1] + FrameLen(frames[n])
        <4> HIDE DEF N
        <4>1. n \in 0..N
          BY <1>1
        <4> QED
          BY <1>6, <4>1
      <3> QED
        BY <1>1, <3>1, <3>2
    <2>2. f[0] = 0 /\ End[0] = 0
      BY <1>1, <1>3, <1>6
    <2> QED
      BY <2>1, <2>2 DEF Adds
  <1>8. \A n \in 0..N : f[n] = End[n]
    <2>1. \A f1, g1 : Adds(f1, x, N) /\ Adds(g1, x, N) => \A n \in 0..N : f1[n] = g1[n]
      <3> HIDE DEF x, N
      <3> QED
        BY <1>1, SumsAgree
    <2> HIDE DEF x, N
    <2> QED
      BY <1>7, <2>1
  <1> QED
    BY <1>1, <1>3, <1>7, <1>8 DEF Adds

LEMMA EndsGrow ==
  ASSUME frames \in Files, NEW i \in 0..Len(frames), NEW j \in 0..Len(frames), i <= j
  PROVE  End[i] <= End[j]
  <1> DEFINE I == {k \in Nat : i + k <= Len(frames) => End[i] <= End[i + k]}
  <1>1. ASSUME NEW k \in Nat, i + (k + 1) <= Len(frames), End[i] <= End[i + k]
        PROVE  End[i] <= End[i + (k + 1)]
    <2>1. i + (k + 1) \in 1..Len(frames) /\ (i + (k + 1)) - 1 = i + k
      BY <1>1, EndsAre
    <2>2. End[i + (k + 1)] = End[i + k] + FrameLen(frames[i + (k + 1)])
      BY <2>1, EndsAre
    <2>3. FrameLen(frames[i + (k + 1)]) \in Nat
      BY <2>1, EndsAre, ReaderConstants DEF Frame, FrameLen
    <2>4. End[i] \in Nat /\ End[i + k] \in Nat
      BY <2>1, EndsAre
    <2> QED
      BY <1>1, <2>2, <2>3, <2>4
  <1>2. 0 \in I
    BY EndsAre
  <1>3. \A k \in Nat : k \in I => k + 1 \in I
    BY <1>1, EndsAre
  <1>4. Nat \subseteq I
    <2> HIDE DEF I
    <2> QED
      BY <1>2, <1>3, Induction
  <1>5. j - i \in I /\ i + (j - i) = j /\ j <= Len(frames)
    <2>1. j - i \in Nat /\ i + (j - i) = j /\ j <= Len(frames)
      BY EndsAre
    <2> HIDE DEF I
    <2> QED
      BY <1>4, <2>1
  <1> QED
    BY <1>5

LEMMA ReaderStarts == ReaderInit => ReaderInv
  <1> SUFFICES ASSUME ReaderInit PROVE ReaderInv
    OBVIOUS
  <1>1. frames \in Files /\ size \in 0..End[Len(frames)]
        /\ reader = [pc |-> "idle", next |-> 1, at |-> 0, loaded |-> 0]
    BY DEF ReaderInit
  <1>2. End[0] = 0 /\ Len(frames) \in Nat /\ End[Len(frames)] \in Nat
    BY <1>1, EndsAre
  <1> QED
    BY <1>1, <1>2 DEF ReaderInv

LEMMA EndsStay == frames' = frames => End' = End
  BY DEF End

(* A step that moves on without a message.                                   *)
LEMMA GotoReads ==
  ASSUME ReaderInv, NEW pc, ReaderGoto(pc), pc \in {"len", "body", "end", "err"},
         pc = "body" => Decodable,
         pc \in {"end", "err"} /\ reader.next \in DOMAIN frames => size < End[reader.next],
         pc = "end" => reader.at = size, pc = "err" => reader.at < size
  PROVE  ReaderInv'
  <1>1. reader' = [pc |-> pc, next |-> reader.next, at |-> reader.at, loaded |-> reader.loaded]
        /\ frames' = frames /\ size' = size /\ End' = End
    BY EndsStay DEF ReaderGoto, ReaderInv
  <1>2. /\ reader'.pc = pc /\ reader'.next = reader.next /\ reader'.at = reader.at
        /\ reader'.loaded = reader.loaded
        /\ reader' = [pc |-> reader'.pc, next |-> reader'.next, at |-> reader'.at,
                      loaded |-> reader'.loaded]
    BY <1>1
  <1>3. Decodable' = Decodable
    BY <1>1, <1>2 DEF Decodable, Buffered
  <1> QED
    BY <1>1, <1>2, <1>3 DEF ReaderInv

(* At the end of the file a delimiter or a body is left that is not complete.*)
LEMMA ReadsMore ==
  ASSUME ReaderInv, NEW n, NEW atEnd, ReadMore(n, atEnd), reader.pc \in {"len", "body"},
         n \in Nat,
         size = reader.loaded => ReaderInv' 
  PROVE  ReaderInv'
  <1> SUFFICES ASSUME size # reader.loaded PROVE ReaderInv'
    OBVIOUS
  <1>1. size \in Nat /\ reader.loaded \in Nat /\ reader.loaded <= size /\ size - reader.loaded # 0
    BY DEF ReaderInv
  <1>2. PICK k \in 1..Min2(Max2(n, 1), size - reader.loaded) :
            reader' = [reader EXCEPT !.loaded = @ + k] /\ UNCHANGED <<frames, size>>
    BY <1>1 DEF ReadMore
  <1>3. k \in Nat /\ k <= size - reader.loaded
    BY <1>1, <1>2 DEF Min2, Max2
  <1>4. reader' = [pc |-> reader.pc, next |-> reader.next, at |-> reader.at,
                  loaded |-> reader.loaded + k]
        /\ frames' = frames /\ size' = size /\ End' = End
    BY <1>2, EndsStay DEF ReaderInv
  <1>5. /\ reader'.pc = reader.pc /\ reader'.next = reader.next /\ reader'.at = reader.at
        /\ reader'.loaded = reader.loaded + k
        /\ reader' = [pc |-> reader'.pc, next |-> reader'.next, at |-> reader'.at,
                      loaded |-> reader'.loaded]
    BY <1>4
  <1>6. reader.loaded + k \in Nat /\ reader.loaded + k <= size /\ reader.at <= reader.loaded + k
    BY <1>1, <1>3 DEF ReaderInv
  <1>7. Decodable => Decodable'
    <2> SUFFICES ASSUME Decodable PROVE Decodable'
      OBVIOUS
    <2>1. reader.next \in DOMAIN frames /\ frames[reader.next].delim \in Nat
      BY EndsAre, ReaderConstants DEF Decodable, ReaderInv, Frame
    <2> QED
      BY <1>1, <1>3, <1>4, <1>5, <2>1 DEF Decodable, Buffered, ReaderInv
  <1> QED
    BY <1>4, <1>5, <1>6, <1>7 DEF ReaderInv

(* Where the buffer stands in the file.                                      *)
LEMMA ReaderStands ==
  ASSUME ReaderInv
  PROVE  /\ Buffered \in Nat /\ reader.at + Buffered = reader.loaded
         /\ size \in Nat /\ MaxDelimiter \in Nat \ {0}
         /\ reader.next \in DOMAIN frames =>
              /\ frames[reader.next].delim \in 1..MaxDelimiter
              /\ frames[reader.next].body \in Nat
              /\ End[reader.next] = reader.at + FrameLen(frames[reader.next])
         /\ reader.next \notin DOMAIN frames => reader.at = size /\ Buffered = 0
  <1>1. Buffered \in Nat /\ reader.at + Buffered = reader.loaded
    BY DEF ReaderInv, Buffered
  <1>2. ASSUME reader.next \in DOMAIN frames
        PROVE  /\ frames[reader.next] \in Frame
               /\ End[reader.next] = reader.at + FrameLen(frames[reader.next])
    <2>1. reader.next \in 1..Len(frames)
      BY <1>2, EndsAre DEF ReaderInv
    <2> QED
      BY <2>1, EndsAre DEF ReaderInv
  <1>3. ASSUME reader.next \notin DOMAIN frames PROVE reader.at = size /\ Buffered = 0
    <2>1. reader.next = Len(frames) + 1 /\ Len(frames) \in Nat
      BY <1>3, EndsAre DEF ReaderInv
    <2>2. reader.next - 1 = Len(frames)
      BY <2>1
    <2> QED
      BY <2>2 DEF ReaderInv, Buffered
  <1> QED
    BY <1>1, <1>2, <1>3, ReaderConstants DEF ReaderInv, Frame

LEMMA DecodeReads == ASSUME ReaderInv, DecodeNextLen PROVE ReaderInv'
  <1> USE ReaderStands
  <1>1. reader.pc = "len"
    BY DEF DecodeNextLen
  <1>2. CASE Decodable
    <2>1. ReaderGoto("body")
      BY <1>2 DEF DecodeNextLen
    <2> QED
      BY <1>2, <2>1, GotoReads
  <1>3. CASE ~Decodable /\ Buffered >= MaxDelimiter
    <2>1. FALSE
      BY <1>3 DEF Decodable
    <2> QED
      BY <2>1
  <1>4. CASE ~Decodable /\ ~(Buffered >= MaxDelimiter)
    <2>1. ReadMore(MaxDelimiter - Buffered, AtEndOfFile) /\ MaxDelimiter - Buffered \in Nat
      BY <1>4 DEF DecodeNextLen
    <2>2. ASSUME size = reader.loaded PROVE ReaderInv'
      <3>1. ReaderGoto(AtEndOfFile)
        <4>1. size - reader.loaded = 0
          BY <2>2
        <4> QED
          BY <2>1, <4>1 DEF ReadMore
      <3>2. reader.at + Buffered = size
        BY <2>2
      <3>3. reader.next \in DOMAIN frames => size < End[reader.next]
        BY <1>4, <3>2 DEF Decodable, FrameLen, ReaderInv
      <3>4. CASE Buffered = 0
        <4>1. AtEndOfFile = "end" /\ reader.at = size
          BY <3>2, <3>4 DEF AtEndOfFile, ReaderInv
        <4> QED
          BY <3>1, <3>3, <4>1, GotoReads
      <3>5. CASE Buffered # 0
        <4>1. AtEndOfFile = "err" /\ reader.at < size
          BY <3>2, <3>5 DEF AtEndOfFile, ReaderInv
        <4> QED
          BY <3>1, <3>3, <4>1, GotoReads
      <3> QED
        BY <3>4, <3>5
    <2> QED
      BY <1>1, <2>1, <2>2, ReadsMore
  <1> QED
    BY <1>2, <1>3, <1>4

LEMMA BodyReads == ASSUME ReaderInv, ReadBody PROVE ReaderInv'
  <1>1. /\ reader.pc = "body" /\ Decodable /\ reader.next \in DOMAIN frames
        /\ Buffered >= frames[reader.next].delim
    BY DEF ReadBody, ReaderInv, Decodable
  <1>2. Required \in Nat /\ Required = FrameLen(frames[reader.next])
    BY <1>1, ReaderStands DEF Required, FrameLen
  <1>3. CASE Buffered < Required
    <2> DEFINE n == Max2(Required - Buffered, BufCapacity)
    <2>1. ReadMore(n, "err") /\ n \in Nat
      BY <1>2, <1>3, ReaderStands, ReaderConstants DEF ReadBody, Max2
    <2>2. ASSUME size = reader.loaded PROVE ReaderInv'
      <3>1. ReaderGoto("err")
        <4>1. size - reader.loaded = 0
          BY <2>2, ReaderStands
        <4> QED
          BY <2>1, <4>1 DEF ReadMore
      <3>2. reader.at < size /\ size < End[reader.next]
        <4>1. /\ reader.at + Buffered = size /\ Buffered \in Nat
              /\ End[reader.next] = reader.at + Required
              /\ frames[reader.next].delim \in 1..MaxDelimiter
          BY <1>1, <1>2, <2>2, ReaderStands
        <4>2. reader.at \in Nat /\ MaxDelimiter \in Nat
          BY ReaderConstants DEF ReaderInv
        <4>3. Buffered >= 1
          BY <1>1, <4>1, <4>2
        <4> QED
          BY <1>2, <1>3, <4>1, <4>2, <4>3
      <3> QED
        BY <3>1, <3>2, GotoReads
    <2> QED
      BY <1>1, <2>1, <2>2, ReadsMore
  <1>4. CASE ~(Buffered < Required)
    <2>1. /\ reader' = [pc |-> "idle", next |-> reader.next + 1,
                        at |-> reader.at + FrameLen(frames[reader.next]),
                        loaded |-> reader.loaded]
          /\ frames' = frames /\ size' = size /\ End' = End
      BY <1>4, EndsStay DEF ReadBody, ReaderInv
    <2>2. /\ reader'.pc = "idle" /\ reader'.next = reader.next + 1
          /\ reader'.at = reader.at + FrameLen(frames[reader.next])
          /\ reader'.loaded = reader.loaded
          /\ reader' = [pc |-> reader'.pc, next |-> reader'.next, at |-> reader'.at,
                        loaded |-> reader'.loaded]
      BY <2>1
    <2>3. reader.next \in 1..Len(frames) /\ Len(frames) \in Nat
      BY <1>1, EndsAre DEF ReaderInv
    <2>4. reader'.next \in 1..(Len(frames) + 1) /\ reader'.next - 1 = reader.next
      BY <2>2, <2>3
    <2>5. reader'.at \in Nat /\ reader'.at = End[reader.next] /\ reader'.at <= reader.loaded
      <3>1. /\ reader.at + Buffered = reader.loaded /\ Buffered \in Nat
            /\ End[reader.next] = reader.at + Required
        BY <1>1, <1>2, ReaderStands
      <3>2. reader.at \in Nat
        BY DEF ReaderInv
      <3> QED
        BY <1>2, <1>4, <2>2, <3>1, <3>2
    <2> QED
      BY <2>1, <2>2, <2>4, <2>5 DEF ReaderInv
  <1> QED
    BY <1>3, <1>4

LEMMA ReaderInvariant == ReaderSpec => []ReaderInv
  <1>1. ReaderInv /\ [ReaderNext]_readerVars => ReaderInv'
    <2> SUFFICES ASSUME ReaderInv, [ReaderNext]_readerVars PROVE ReaderInv'
      OBVIOUS
    <2>1. CASE CallNext
      <3>1. ReaderGoto("len")
        BY <2>1 DEF CallNext
      <3> QED
        BY <3>1, GotoReads
    <2>2. CASE UNCHANGED readerVars
      <3>1. reader' = reader /\ frames' = frames /\ size' = size /\ End' = End
        BY <2>2, EndsStay DEF readerVars
      <3> QED
        BY <3>1 DEF ReaderInv, Decodable, Buffered
    <2> QED
      BY <2>1, <2>2, DecodeReads, BodyReads DEF ReaderNext
  <1> QED
    BY <1>1, ReaderStarts, PTL DEF ReaderSpec

(* The complete messages are the ones before the next.                       *)
LEMMA WholeCounts ==
  ASSUME ReaderInv, reader.next \in DOMAIN frames => size < End[reader.next]
  PROVE  Cardinality(Whole) = reader.next - 1
  <1> DEFINE n == reader.next - 1
  <1>1. /\ frames \in Files /\ Len(frames) \in Nat /\ DOMAIN frames = 1..Len(frames)
        /\ reader.next \in 1..(Len(frames) + 1) /\ n \in 0..Len(frames) /\ reader.next = n + 1
        /\ End[n] <= size /\ size \in Nat
    BY EndsAre DEF ReaderInv
  <1> HIDE DEF n
  <1>2. ASSUME NEW i \in 1..Len(frames) PROVE End[i] <= size <=> i <= n
    <2>1. End[i] \in Nat /\ End[n] \in Nat
      BY <1>1, EndsAre
    <2>2. CASE i <= n
      <3>1. End[i] <= End[n]
        BY <1>1, <2>2, EndsGrow
      <3> QED
        BY <1>1, <2>1, <2>2, <3>1
    <2>3. CASE ~(i <= n)
      <3>1. reader.next \in 1..Len(frames) /\ reader.next <= i
        BY <1>1, <2>3
      <3>2. End[reader.next] <= End[i] /\ End[reader.next] \in Nat
        BY <1>1, <3>1, EndsGrow, EndsAre
      <3>3. size < End[reader.next]
        BY <1>1, <3>1
      <3> QED
        BY <1>1, <2>1, <2>3, <3>2, <3>3
    <2> QED
      BY <2>2, <2>3
  <1>3. Whole = 1..n
    BY <1>1, <1>2 DEF Whole
  <1> QED
    <2>1. Cardinality(1..n) = IF 1 > n THEN 0 ELSE n - 1 + 1
      BY <1>1, FS_Interval
    <2>2. Cardinality(1..n) = n
      BY <1>1, <2>1
    <2> QED
      BY <1>3, <2>2 DEF n

(* Whatever the sizes of the frames, of the buffer and of the reads are,     *)
(* messages are cut out of the file where they lie, and reading ends after   *)
(* the complete ones.                                                        *)
THEOREM MessagesRead == ReaderSpec => []ReadsWhatIsThere
  <1>1. ReaderInv => ReadsWhatIsThere
    <2> SUFFICES ASSUME ReaderInv PROVE ReadsWhatIsThere
      OBVIOUS
    <2>1. ASSUME reader.pc \in {"end", "err"} PROVE reader.next = 1 + Cardinality(Whole)
      <3>1. Cardinality(Whole) = reader.next - 1
        BY <2>1, WholeCounts DEF ReaderInv
      <3> QED
        BY <3>1, EndsAre DEF ReaderInv
    <2> QED
      BY <2>1 DEF ReadsWhatIsThere, ReaderInv
  <1> QED
    BY <1>1, ReaderInvariant, PTL

-----------------------------------------------------------------------------
(* Requests of a connection.                                                 *)

AllMethods == {"open_connection", "version"} \cup UNION {MethodsOf[r] : r \in Requests}
Answers == {"none", "full", "partial", "lost", "denied", "invalid"}
Results == Answers \cup {"ok", "unexpected", "missing field", "dropped", "timeout"}
Tokens == 1..MaxTokens \cup {NoToken}
Requesting == [pc : {"idle", "ready", "called", "renewing", "returned"}, method : AllMethods,
               with : Tokens, answer : Answers, result : Results, renewed : BOOLEAN]

(* One request, carried out n times: not yet while it may still be.          *)
Good(q, n) ==
    /\ q \in Requesting
    /\ n \in {0, 1}
    /\ q.pc \in {"idle", "ready", "renewing"} => n = 0
    /\ q.pc = "called" /\ q.answer \in {"none", "invalid"} => n = 0

StubInv ==
    /\ DOMAIN rpcs = Requests /\ rpcs = [r \in Requests |-> rpcs[r]]
    /\ DOMAIN executed = Requests /\ executed = [r \in Requests |-> executed[r]]
    /\ issued \in 0..MaxTokens
    /\ token \in Tokens
    /\ \A r \in Requests : Good(rpcs[r], executed[r])

(* A request nobody disturbed, when the shared token is t and those in v are *)
(* accepted: once it has renewed, it works with a token that is accepted.    *)
Calm(q, t, v) ==
    /\ q.result # "invalid"
    /\ q.pc = "renewing" /\ q.answer = "full" => q.with \in v
    /\ q.pc = "ready" /\ q.renewed => t \in v
    /\ q.pc = "called" /\ q.renewed => q.with \in v /\ q.answer # "invalid"

CalmInv == \A r \in calm : Calm(rpcs[r], token, valid)

-----------------------------------------------------------------------------
(* A step of one request keeps the invariant when it leaves that one good.   *)
LEMMA OneMoves ==
  ASSUME StubInv, NEW r \in Requests, NEW q, NEW n,
         rpcs' = [rpcs EXCEPT ![r] = q], executed' = [executed EXCEPT ![r] = n],
         issued' \in 0..MaxTokens, token' \in Tokens, Good(q, n)
  PROVE  StubInv'
  <1>1. ASSUME NEW s \in Requests PROVE Good(rpcs'[s], executed'[s])
    BY DEF StubInv
  <1>2. /\ DOMAIN rpcs' = Requests /\ rpcs' = [s \in Requests |-> rpcs'[s]]
        /\ DOMAIN executed' = Requests /\ executed' = [s \in Requests |-> executed'[s]]
    BY DEF StubInv
  <1> QED
    BY <1>1, <1>2 DEF StubInv

LEMMA NotCarriedOut ==
  ASSUME StubInv, UNCHANGED executed, NEW r \in Requests
  PROVE  executed' = [executed EXCEPT ![r] = executed[r]]
  BY DEF StubInv

(* The request leaves the others calm: it touches neither the token nor what *)
(* is accepted, or none of the others counts as calm any more.               *)
LEMMA CalmMoves ==
  ASSUME StubInv, CalmInv, NEW r \in Requests, NEW q, rpcs' = [rpcs EXCEPT ![r] = q],
         \/ calm' \subseteq {r}
         \/ calm' \subseteq calm \cup {r} /\ token' = token /\ valid \subseteq valid',
         r \in calm' => Calm(q, token', valid')
  PROVE  CalmInv'
  <1> SUFFICES ASSUME NEW s \in calm' PROVE Calm(rpcs'[s], token', valid')
    BY DEF CalmInv
  <1>1. CASE s = r
    BY <1>1 DEF StubInv
  <1>2. CASE s # r
    <2>1. s \in calm /\ token' = token /\ valid \subseteq valid' /\ rpcs'[s] = rpcs[s]
      BY <1>2 DEF StubInv
    <2> QED
      BY <2>1 DEF CalmInv, Calm
  <1> QED
    BY <1>1, <1>2

-----------------------------------------------------------------------------
LEMMA IdleIsRequest == Idle \in Requesting
  BY DEF Idle, Requesting, AllMethods, Answers, Results, Tokens

(* A call is made, for the first or the second time.                         *)
LEMMA CallKept ==
  ASSUME StubInv, CalmInv, NEW r \in Requests, NEW m \in AllMethods, NEW b \in BOOLEAN,
         Calls(r, m, b), executed[r] = 0, UNCHANGED <<issued, executed, valid>>, token' \in Tokens,
         \/ calm' \subseteq {r}
         \/ calm' \subseteq calm \cup {r} /\ token' = token,
         r \in calm' /\ b => token' \in valid
  PROVE  StubInv' /\ CalmInv'
  <1> DEFINE q == [Idle EXCEPT !.pc = "ready", !.method = m, !.renewed = b]
  <1>1. q \in Requesting /\ q.pc = "ready" /\ q.renewed = b
    BY IdleIsRequest DEF Requesting
  <1>2. q.result = "none"
    BY DEF Idle
  <1>3. rpcs' = [rpcs EXCEPT ![r] = q]
    BY DEF Calls
  <1> HIDE DEF q
  <1>4. Good(q, executed[r])
    BY <1>1 DEF Good
  <1>5. issued' \in 0..MaxTokens
    BY DEF StubInv
  <1>6. r \in calm' => Calm(q, token', valid')
    BY <1>1, <1>2 DEF Calm
  <1>7. valid \subseteq valid'
    OBVIOUS
  <1>8. StubInv'
    BY <1>3, <1>4, <1>5, OneMoves, NotCarriedOut
  <1>9. CalmInv'
    BY <1>3, <1>6, <1>7, CalmMoves
  <1> QED
    BY <1>8, <1>9

(* The request returns.                                                      *)
LEMMA ReturnKept ==
  ASSUME StubInv, CalmInv, NEW r \in Requests, NEW m \in AllMethods, NEW result \in Results,
         rpcs' = [rpcs EXCEPT ![r] = Returned(m, result)],
         UNCHANGED <<issued, executed, valid>>, token' \in Tokens,
         \/ calm' \subseteq {r}
         \/ calm' \subseteq calm \cup {r} /\ token' = token,
         r \in calm' => result # "invalid"
  PROVE  StubInv' /\ CalmInv'
  <1> DEFINE q == Returned(m, result)
  <1>1. q \in Requesting /\ q.pc = "returned" /\ q.result = result
    BY IdleIsRequest DEF Requesting, Returned
  <1>2. rpcs' = [rpcs EXCEPT ![r] = q]
    OBVIOUS
  <1> HIDE DEF q
  <1>3. Good(q, executed[r])
    BY <1>1 DEF Good, StubInv
  <1>4. issued' \in 0..MaxTokens
    BY DEF StubInv
  <1>5. r \in calm' => Calm(q, token', valid')
    BY <1>1 DEF Calm
  <1>6. valid \subseteq valid'
    OBVIOUS
  <1>7. StubInv'
    BY <1>2, <1>3, <1>4, OneMoves, NotCarriedOut
  <1>8. CalmInv'
    BY <1>2, <1>5, <1>6, CalmMoves
  <1> QED
    BY <1>7, <1>8

LEMMA SubmitKeeps ==
  ASSUME StubInv, CalmInv, NEW r \in Requests, Submit(r)
  PROVE  StubInv' /\ CalmInv'
  <1>1. /\ UNCHANGED <<token, issued, executed, valid>> /\ executed[r] = 0
        /\ token' \in Tokens /\ calm' \subseteq calm \cup {r} /\ token' = token
    BY DEF Submit, serverVars, StubInv, Good, Pc
  <1>2. PICK m \in AllMethods :
          \/ Calls(r, m, FALSE)
          \/ rpcs' = [rpcs EXCEPT ![r] = Returned(m, "unexpected")]
    BY Zenon DEF Submit, AllMethods
  <1>3. CASE Calls(r, m, FALSE)
    BY <1>1, <1>3, CallKept, Zenon
  <1>4. CASE rpcs' = [rpcs EXCEPT ![r] = Returned(m, "unexpected")]
    <2>1. "unexpected" \in Results /\ "unexpected" # "invalid"
      BY DEF Results
    <2> QED
      BY <1>1, <1>4, <2>1, ReturnKept, Zenon
  <1> QED
    BY <1>2, <1>3, <1>4

(* The token that is put in is the shared one: after a renewal, the one the  *)
(* request stored, if nobody touched it since.                               *)
LEMMA InjectKeeps ==
  ASSUME StubInv, CalmInv, NEW r \in Requests, Inject(r)
  PROVE  StubInv' /\ CalmInv'
  <1>1. /\ rpcs[r].pc = "ready" /\ UNCHANGED <<token, calm, issued, executed, valid>>
        /\ token' \in Tokens /\ issued' \in 0..MaxTokens
    BY DEF Inject, Pc, serverVars, StubInv
  <1>2. PICK answer \in {"none", "lost"} :
          rpcs' = [rpcs EXCEPT ![r].pc = "called", ![r].with = token, ![r].answer = answer]
    BY DEF Inject
  <1> DEFINE q == [rpcs[r] EXCEPT !.pc = "called", !.with = token, !.answer = answer]
  <1>3. Good(rpcs[r], executed[r]) /\ rpcs' = [rpcs EXCEPT ![r] = q]
    BY <1>2 DEF StubInv
  <1>4. /\ q \in Requesting /\ q.pc = "called" /\ q.with = token /\ q.answer = answer
        /\ q.renewed = rpcs[r].renewed /\ q.result = rpcs[r].result
    BY <1>1, <1>3 DEF Good, Requesting, Answers
  <1> HIDE DEF q
  <1>5. Good(q, executed[r])
    BY <1>1, <1>3, <1>4 DEF Good
  <1>6. ASSUME r \in calm' PROVE Calm(q, token', valid')
    <2>1. Calm(rpcs[r], token, valid)
      BY <1>1, <1>6 DEF CalmInv
    <2> QED
      BY <1>1, <1>4, <2>1 DEF Calm
  <1> QED
    BY <1>1, <1>3, <1>5, <1>6, OneMoves, NotCarriedOut, CalmMoves

(* A request that renewed is not refused while it is calm.                   *)
LEMMA DeliverKeeps ==
  ASSUME StubInv, CalmInv, NEW r \in Requests, Deliver(r)
  PROVE  StubInv' /\ CalmInv'
  <1>1. /\ rpcs[r].pc = "called" /\ (rpcs[r].answer # "invalid" \/ rpcs[r].renewed)
        /\ UNCHANGED <<issued, executed, valid>> /\ token' \in {token, rpcs[r].with}
        /\ calm' \subseteq {r} \/ (calm' = calm /\ token' = token)
        /\ calm' \subseteq calm
    BY DEF Deliver, RenewsOn, Pc, serverVars
  <1>2. rpcs[r] \in Requesting
    BY DEF StubInv, Good
  <1>3. PICK result \in Results :
          /\ Return(r, result)
          /\ result \in {"ok", "unexpected", "missing field", "dropped", rpcs[r].answer}
    <2>1. rpcs[r].answer \in Results
      BY <1>2 DEF Requesting, Results
    <2> QED
      BY <2>1, Zenon DEF Deliver, Results
  <1>4. token' \in Tokens
    BY <1>1, <1>2 DEF StubInv, Requesting
  <1>5. rpcs' = [rpcs EXCEPT ![r] = Returned(rpcs[r].method, result)]
    BY <1>3, Zenon DEF Return
  <1>6. rpcs[r].method \in AllMethods
    BY <1>2 DEF Requesting
  <1>7. ASSUME r \in calm' PROVE result # "invalid"
    <2>1. Calm(rpcs[r], token, valid)
      BY <1>1, <1>7 DEF CalmInv
    <2> QED
      BY <1>1, <1>3, <2>1 DEF Calm
  <1>8. \/ calm' \subseteq {r}
        \/ calm' \subseteq calm \cup {r} /\ token' = token
    BY <1>1
  <1> QED
    BY <1>1, <1>4, <1>5, <1>6, <1>7, <1>8, ReturnKept, Zenon

LEMMA TimeoutKeeps ==
  ASSUME StubInv, CalmInv, NEW r \in Requests, Timeout(r)
  PROVE  StubInv' /\ CalmInv'
  <1>1. /\ UNCHANGED <<token, calm, issued, executed, valid>>
        /\ token' \in Tokens /\ rpcs[r].method \in AllMethods
        /\ calm' \subseteq calm \cup {r} /\ token' = token
    BY DEF Timeout, serverVars, StubInv, Good, Requesting
  <1>2. rpcs' = [rpcs EXCEPT ![r] = Returned(rpcs[r].method, "timeout")]
    BY Zenon DEF Timeout, Return
  <1>3. "timeout" \in Results /\ "timeout" # "invalid"
    BY DEF Results
  <1> QED
    BY <1>1, <1>2, <1>3, ReturnKept, Zenon

(* The server carries a request out, or refuses it.                          *)
LEMMA ServeKeeps ==
  ASSUME StubInv, CalmInv, NEW r \in Requests, Serve(r)
  PROVE  StubInv' /\ CalmInv'
  <1>1. /\ rpcs[r].pc = "called" /\ rpcs[r].answer = "none" /\ UNCHANGED <<token, calm>>
        /\ executed[r] = 0 /\ token' \in Tokens
    BY DEF Serve, Pc, StubInv, Good
  <1>2. Good(rpcs[r], executed[r]) /\ issued \in Nat /\ MaxTokens \in Nat
    BY StubConstants DEF StubInv
  <1>3. ASSUME NEW answer \in {"full", "lost", "partial"},
               rpcs' = [rpcs EXCEPT ![r].answer = answer,
                                    ![r].with = IF r = Opener THEN issued + 1 ELSE @],
               executed' = [executed EXCEPT ![r] = @ + 1],
               IF r = Opener THEN Issue(r) ELSE UNCHANGED <<issued, valid>>
        PROVE  StubInv' /\ CalmInv'
    <2> DEFINE with == IF r = Opener THEN issued + 1 ELSE rpcs[r].with
               q == [rpcs[r] EXCEPT !.answer = answer, !.with = with]
    <2>0. rpcs' = [rpcs EXCEPT ![r] = q]
      BY <1>3 DEF StubInv
    <2>1. executed' = [executed EXCEPT ![r] = 1]
      BY <1>1, <1>3 DEF StubInv
    <2>2. /\ valid \subseteq valid' /\ issued' \in 0..MaxTokens
          /\ r = Opener => issued + 1 \in 1..MaxTokens /\ issued + 1 \in valid'
      BY <1>2, <1>3 DEF Issue, StubInv
    <2>3. with \in Tokens /\ with \in valid' \cup {rpcs[r].with}
      BY <1>2, <2>2 DEF Good, Requesting, Tokens
    <2> HIDE DEF with
    <2>4. /\ q \in Requesting /\ q.pc = "called" /\ q.answer = answer
          /\ q.renewed = rpcs[r].renewed /\ q.with = with /\ q.result = rpcs[r].result
      BY <1>1, <1>2, <1>3, <2>3 DEF Good, Requesting, Answers
    <2> HIDE DEF q
    <2>5. Good(q, 1)
      BY <2>4 DEF Good
    <2>6. ASSUME r \in calm' PROVE Calm(q, token', valid')
      <3>1. Calm(rpcs[r], token, valid)
        BY <1>1, <2>6 DEF CalmInv
      <3> QED
        BY <1>1, <2>2, <2>3, <2>4, <3>1 DEF Calm
    <2> QED
      BY <1>1, <2>0, <2>1, <2>2, <2>5, <2>6, OneMoves, CalmMoves
  <1>4. ASSUME ~Authorised(r), UNCHANGED serverVars,
               rpcs' = [rpcs EXCEPT ![r].answer = IF r = Opener THEN "denied" ELSE "invalid"]
        PROVE  StubInv' /\ CalmInv'
    <2> DEFINE answer == IF r = Opener THEN "denied" ELSE "invalid"
               q == [rpcs[r] EXCEPT !.answer = answer]
    <2>1. rpcs' = [rpcs EXCEPT ![r] = q] /\ UNCHANGED <<issued, valid, executed>>
      BY <1>4 DEF serverVars
    <2>2. answer \in {"denied", "invalid"} /\ (answer = "invalid" => rpcs[r].with \notin valid)
      BY <1>4 DEF Authorised
    <2> HIDE DEF answer
    <2>3. /\ q \in Requesting /\ q.pc = "called" /\ q.answer = answer /\ q.with = rpcs[r].with
          /\ q.renewed = rpcs[r].renewed /\ q.result = rpcs[r].result
      BY <1>1, <1>2, <2>2 DEF Good, Requesting, Answers
    <2> HIDE DEF q
    <2>4. Good(q, executed[r])
      BY <1>1, <2>3 DEF Good
    <2>5. ASSUME r \in calm' PROVE Calm(q, token', valid')
      <3>1. Calm(rpcs[r], token, valid)
        BY <1>1, <2>5 DEF CalmInv
      <3> QED
        BY <1>1, <2>1, <2>2, <2>3, <3>1 DEF Calm
    <2>6. issued' \in 0..MaxTokens
      BY <2>1 DEF StubInv
    <2> QED
      BY <1>1, <2>1, <2>4, <2>5, <2>6, OneMoves, NotCarriedOut, CalmMoves
  <1> QED
    BY <1>3, <1>4 DEF Serve

(* The token the renewal gets is accepted.                                   *)
LEMMA AuthenticateKeeps ==
  ASSUME StubInv, CalmInv, NEW r \in Requests, Authenticate(r)
  PROVE  StubInv' /\ CalmInv'
  <1>1. /\ rpcs[r].pc = "renewing" /\ UNCHANGED <<token, calm, executed>> /\ executed[r] = 0
        /\ token' \in Tokens /\ issued \in Nat /\ MaxTokens \in Nat
    BY StubConstants DEF Authenticate, Pc, StubInv, Good
  <1>2. Good(rpcs[r], executed[r])
    BY DEF StubInv
  <1>3. CASE Issue(r) /\ rpcs' = [rpcs EXCEPT ![r].answer = "full", ![r].with = issued + 1]
    <2> DEFINE q == [rpcs[r] EXCEPT !.answer = "full", !.with = issued + 1]
    <2>1. rpcs' = [rpcs EXCEPT ![r] = q]
      BY <1>3 DEF StubInv
    <2>2. /\ issued' \in 0..MaxTokens /\ issued + 1 \in 1..MaxTokens
          /\ valid \subseteq valid' /\ issued + 1 \in valid'
      BY <1>1, <1>3 DEF Issue
    <2>3. /\ q \in Requesting /\ q.pc = "renewing" /\ q.with = issued + 1
          /\ q.result = rpcs[r].result
      BY <1>1, <1>2, <2>2 DEF Good, Requesting, Answers, Tokens
    <2> HIDE DEF q
    <2>4. Good(q, executed[r])
      BY <1>1, <2>3 DEF Good
    <2>5. ASSUME r \in calm' PROVE Calm(q, token', valid')
      BY <1>1, <2>2, <2>3, <2>5 DEF CalmInv, Calm
    <2> QED
      BY <1>1, <2>1, <2>2, <2>4, <2>5, OneMoves, NotCarriedOut, CalmMoves
  <1>4. CASE rpcs' = [rpcs EXCEPT ![r].answer = "denied"] /\ UNCHANGED <<issued, valid>>
    <2> DEFINE q == [rpcs[r] EXCEPT !.answer = "denied"]
    <2>1. rpcs' = [rpcs EXCEPT ![r] = q] /\ issued' \in 0..MaxTokens
      BY <1>4 DEF StubInv
    <2>2. /\ q \in Requesting /\ q.pc = "renewing" /\ q.answer = "denied"
          /\ q.result = rpcs[r].result
      BY <1>1, <1>2 DEF Good, Requesting, Answers
    <2> HIDE DEF q
    <2>3. Good(q, executed[r])
      BY <1>1, <2>2 DEF Good
    <2>4. ASSUME r \in calm' PROVE Calm(q, token', valid')
      BY <1>1, <2>2, <2>4 DEF CalmInv, Calm
    <2> QED
      BY <1>1, <1>4, <2>1, <2>3, <2>4, OneMoves, NotCarriedOut, CalmMoves
  <1> QED
    BY <1>3, <1>4 DEF Authenticate

(* The reset of the token disturbs every other request.                      *)
LEMMA RenewKeeps ==
  ASSUME StubInv, CalmInv, NEW r \in Requests, Renew(r)
  PROVE  StubInv' /\ CalmInv'
  <1> DEFINE q == [rpcs[r] EXCEPT !.pc = "renewing", !.answer = "none"]
  <1>1. /\ rpcs[r].pc = "called" /\ rpcs[r].answer = "invalid" /\ token' = NoToken
        /\ UNCHANGED <<issued, valid, executed>> /\ calm' = calm \cap {r}
        /\ rpcs' = [rpcs EXCEPT ![r] = q]
    BY DEF Renew, RenewsOn, Pc, serverVars
  <1>2. Good(rpcs[r], executed[r]) /\ issued' \in 0..MaxTokens
    BY <1>1 DEF StubInv
  <1>3. q \in Requesting /\ q.pc = "renewing" /\ q.answer = "none" /\ q.result = rpcs[r].result
    BY <1>2 DEF Good, Requesting, Answers
  <1> HIDE DEF q
  <1>4. Good(q, executed[r])
    BY <1>1, <1>2, <1>3 DEF Good
  <1>5. ASSUME r \in calm' PROVE Calm(q, token', valid')
    BY <1>1, <1>3, <1>5 DEF CalmInv, Calm
  <1>6. token' \in Tokens
    BY <1>1 DEF Tokens
  <1> QED
    BY <1>1, <1>2, <1>4, <1>5, <1>6, OneMoves, NotCarriedOut, CalmMoves

(* The new token is stored before the call is repeated.                      *)
LEMMA RenewedKeeps ==
  ASSUME StubInv, CalmInv, NEW r \in Requests, Renewed(r)
  PROVE  StubInv' /\ CalmInv'
  <1>1. rpcs[r].pc = "renewing" /\ UNCHANGED <<issued, valid, executed>> /\ executed[r] = 0
    BY DEF Renewed, Pc, serverVars, StubInv, Good
  <1>2. rpcs[r].with \in Tokens /\ rpcs[r].method \in AllMethods /\ token \in Tokens
    BY DEF StubInv, Good, Requesting
  <1>3. CASE rpcs[r].answer = "full"
    <2>1. token' = rpcs[r].with /\ Calls(r, rpcs[r].method, TRUE) /\ calm' = calm \cap {r}
      BY <1>3, Zenon DEF Renewed, Stored
    <2>2. token' \in Tokens /\ calm' \subseteq {r}
      BY <1>2, <2>1
    <2>3. ASSUME r \in calm' PROVE token' \in valid
      <3>1. Calm(rpcs[r], token, valid)
        BY <2>1, <2>3 DEF CalmInv
      <3> QED
        BY <1>1, <1>3, <2>1, <3>1 DEF Calm
    <2> QED
      BY <1>1, <1>2, <2>1, <2>2, <2>3, CallKept, Zenon
  <1>4. CASE rpcs[r].answer # "full"
    <2>1. /\ rpcs' = [rpcs EXCEPT ![r] = Returned(rpcs[r].method, "denied")]
          /\ UNCHANGED <<token, calm>>
      BY <1>4, Zenon DEF Renewed, Return
    <2>2. "denied" \in Results /\ "denied" # "invalid"
      BY DEF Results, Answers
    <2>3. token' \in Tokens /\ calm' \subseteq calm \cup {r} /\ token' = token
      BY <1>2, <2>1
    <2> QED
      BY <1>1, <1>2, <2>1, <2>2, <2>3, ReturnKept, Zenon
  <1> QED
    BY <1>3, <1>4

LEMMA ExpireKeeps ==
  ASSUME StubInv, CalmInv, Expire
  PROVE  StubInv' /\ CalmInv'
  <1>1. UNCHANGED <<rpcs, token, issued, executed>> /\ calm' = {}
    BY DEF Expire
  <1>2. StubInv'
    BY <1>1 DEF StubInv
  <1> QED
    BY <1>1, <1>2 DEF CalmInv

-----------------------------------------------------------------------------
LEMMA StubInvariant == StubSpec => [](StubInv /\ CalmInv)
  <1>1. StubInit => StubInv /\ CalmInv
    <2> SUFFICES ASSUME StubInit PROVE StubInv /\ CalmInv
      OBVIOUS
    <2>1. ASSUME NEW r \in Requests PROVE Good(rpcs[r], executed[r])
      <3>1. rpcs[r] = Idle /\ executed[r] = 0
        BY DEF StubInit
      <3> QED
        BY <3>1, IdleIsRequest DEF Idle, Good
    <2> QED
      BY <2>1, StubConstants DEF StubInit, StubInv, CalmInv, Tokens
  <1>2. StubInv /\ CalmInv /\ [StubNext]_rpcVars => (StubInv /\ CalmInv)'
    <2> SUFFICES ASSUME StubInv, CalmInv, [StubNext]_rpcVars PROVE StubInv' /\ CalmInv'
      OBVIOUS
    <2>1. CASE UNCHANGED rpcVars
      BY <2>1, Zenon DEF rpcVars, StubInv, CalmInv
    <2> QED
      BY <2>1, SubmitKeeps, InjectKeeps, ServeKeeps, AuthenticateKeeps, RenewKeeps, RenewedKeeps,
         DeliverKeeps, TimeoutKeeps, ExpireKeeps, Zenon DEF StubNext
  <1> QED
    BY <1>1, <1>2, PTL DEF StubSpec

(* No request is carried out twice, although call_with_auto_renew_token()    *)
(* sends it twice: it is repeated only after the server refused it.          *)
THEOREM RequestsExecutedOnce == StubSpec => []ExecutedOnce
  <1>1. StubInv => ExecutedOnce
    BY DEF StubInv, Good, ExecutedOnce
  <1> QED
    BY <1>1, StubInvariant, PTL

(* One renewal is enough: whatever token a request finds in the shared       *)
(* credentials, it does not end with an invalid token, unless a token        *)
(* expires or another request touches the shared one while it is under way.  *)
THEOREM OneRenewalIsEnough == StubSpec => []OneRenewalSuffices
  <1>1. CalmInv => OneRenewalSuffices
    BY DEF CalmInv, Calm, OneRenewalSuffices
  <1> QED
    BY <1>1, StubInvariant, PTL

-----------------------------------------------------------------------------
(* The tables of the conversions agree on every method: send_request() makes *)
(* the call of the request, the call its message from that request, and its  *)
(* answer becomes the response that the method matches on.                   *)
LEMMA MethodNames ==
  DOMAIN Methods =
    {"open_connection", "servers_all", "servers_get", "version", "all_databases",
     "contains_database", "get_database", "create_database", "import_database",
     "delete_database", "database_schema", "database_type_schema", "database_export",
     "open_transaction", "all_users", "get_user", "contains_user", "create_user",
     "update_password", "delete_user"}
  BY DEF Methods, Joined, ServerMethods, DatabaseMethods, UserMethods

LEMMA TablesAgree ==
  ASSUME NEW m \in DOMAIN Methods
  PROVE  /\ MadeFrom[SendRequest(Methods[m][1])] = Methods[m][1]
         /\ Accepts(m, ConvertedTo[SendRequest(Methods[m][1])])
  <1> DEFINE Agrees(x) == /\ Methods[m] = x
                          /\ MadeFrom[SendRequest(x[1])] = x[1]
                          /\ ConvertedTo[SendRequest(x[1])] = x[2]
  <1>1. ASSUME m \in DOMAIN ServerMethods PROVE Agrees(ServerMethods[m])
    <2>1. Methods[m] = ServerMethods[m]
      BY <1>1 DEF Methods, Joined
    <2>2. MadeFrom[SendRequest(ServerMethods[m][1])] = ServerMethods[m][1]
      BY <1>1 DEF Joined, ServerMethods, MadeFrom, SendRequest, DatabaseRequests, UserRequests
    <2>3. ConvertedTo[SendRequest(ServerMethods[m][1])] = ServerMethods[m][2]
      <3>1. DatabaseResponses[SendRequest(ServerMethods[m][1])] = ServerMethods[m][2]
            /\ SendRequest(ServerMethods[m][1]) \in DOMAIN DatabaseResponses
        BY <1>1 DEF ServerMethods, SendRequest, DatabaseResponses
      <3> QED
        BY <3>1 DEF ConvertedTo, Joined
    <2> QED
      BY <2>1, <2>2, <2>3
  <1>2. ASSUME m \in DOMAIN DatabaseMethods PROVE Agrees(DatabaseMethods[m])
    <2>1. Methods[m] = DatabaseMethods[m]
      BY <1>2 DEF Methods, Joined, ServerMethods, DatabaseMethods
    <2>2. MadeFrom[SendRequest(DatabaseMethods[m][1])] = DatabaseMethods[m][1]
      BY <1>2 DEF Joined, DatabaseMethods, MadeFrom, SendRequest, DatabaseRequests, UserRequests
    <2>3. ConvertedTo[SendRequest(DatabaseMethods[m][1])] = DatabaseMethods[m][2]
      <3> DEFINE call == SendRequest(DatabaseMethods[m][1])
      <3>1. \/ /\ call \in DOMAIN DatabaseResponses
               /\ DatabaseResponses[call] = DatabaseMethods[m][2]
            \/ /\ call \in DOMAIN StreamResponses
               /\ StreamResponses[call] = DatabaseMethods[m][2]
        BY <1>2 DEF DatabaseMethods, SendRequest, DatabaseResponses, StreamResponses
      <3>2. DOMAIN DatabaseResponses \cap DOMAIN StreamResponses = {}
        BY DEF DatabaseResponses, StreamResponses
      <3> QED
        BY <3>1, <3>2 DEF ConvertedTo, Joined
    <2> QED
      BY <2>1, <2>2, <2>3
  <1>3. ASSUME m \in DOMAIN UserMethods PROVE Agrees(UserMethods[m])
    <2>1. Methods[m] = UserMethods[m]
      BY <1>3 DEF Methods, Joined, ServerMethods, DatabaseMethods, UserMethods
    <2>2. MadeFrom[SendRequest(UserMethods[m][1])] = UserMethods[m][1]
      BY <1>3 DEF Joined, UserMethods, MadeFrom, SendRequest, DatabaseRequests, UserRequests
    <2>3. ConvertedTo[SendRequest(UserMethods[m][1])] = UserMethods[m][2]
      <3>1. /\ SendRequest(UserMethods[m][1]) \in DOMAIN UserResponses
            /\ UserResponses[SendRequest(UserMethods[m][1])] = UserMethods[m][2]
        BY <1>3 DEF UserMethods, SendRequest, UserResponses
      <3>2. DOMAIN UserResponses \cap (DOMAIN DatabaseResponses \cup DOMAIN StreamResponses) = {}
        BY DEF DatabaseResponses, StreamResponses, UserResponses
      <3> QED
        BY <3>1, <3>2 DEF ConvertedTo, Joined
    <2> QED
      BY <2>1, <2>2, <2>3
  <1>4. \E x : Agrees(x)
    <2>1. m \in DOMAIN ServerMethods \cup DOMAIN DatabaseMethods \cup DOMAIN UserMethods
      BY DEF Methods, Joined
    <2> QED
      BY <1>1, <1>2, <1>3, <2>1
  <1> QED
    BY <1>4 DEF Accepts

MatchInv == \A r \in Requests : rpcs[r].method \in DOMAIN Methods /\ rpcs[r].result # "unexpected"

(* A step of one request that keeps its method and returns something else.   *)
LEMMA OneMatches ==
  ASSUME StubInv, MatchInv, NEW r \in Requests, NEW q, rpcs' = [rpcs EXCEPT ![r] = q],
         q.method \in DOMAIN Methods, q.result # "unexpected"
  PROVE  MatchInv'
  BY DEF StubInv, MatchInv

LEMMA CallMatches ==
  ASSUME StubInv, MatchInv, NEW r \in Requests, NEW m \in DOMAIN Methods, NEW b,
         Calls(r, m, b)
  PROVE  MatchInv'
  <1> DEFINE q == [Idle EXCEPT !.pc = "ready", !.method = m, !.renewed = b]
  <1>1. q.method = m /\ q.result = "none" /\ rpcs' = [rpcs EXCEPT ![r] = q]
    BY DEF Idle, Calls
  <1> HIDE DEF q
  <1> QED
    BY <1>1, OneMatches

LEMMA ReturnMatches ==
  ASSUME StubInv, MatchInv, NEW r \in Requests, NEW result, result # "unexpected",
         Return(r, result)
  PROVE  MatchInv'
  <1> DEFINE q == Returned(rpcs[r].method, result)
  <1>1. q.method = rpcs[r].method /\ q.result = result /\ rpcs' = [rpcs EXCEPT ![r] = q]
    BY DEF Returned, Idle, Return
  <1> HIDE DEF q
  <1> QED
    BY <1>1, OneMatches DEF MatchInv

LEMMA SubmitMatches ==
  ASSUME StubInv, MatchInv, NEW r \in Requests, Submit(r)
  PROVE  MatchInv'
  <1>1. PICK m \in IF r = Opener THEN {"open_connection"} ELSE MethodsOf[r] :
          MadeFrom[SendRequest(Methods[m][1])] = Methods[m][1] => Calls(r, m, FALSE)
    BY Zenon DEF Submit
  <1>2. m \in DOMAIN Methods
    BY MethodsAssumption, MethodNames
  <1>3. Calls(r, m, FALSE)
    BY <1>1, <1>2, TablesAgree
  <1> QED
    BY <1>2, <1>3, CallMatches

(* The steps between the call and its return.                                *)
LEMMA WaitingMatches ==
  ASSUME StubInv, MatchInv, NEW r \in Requests,
         Inject(r) \/ Serve(r) \/ Authenticate(r) \/ Renew(r)
  PROVE  MatchInv'
  <1>1. rpcs[r] \in Requesting /\ rpcs[r].method \in DOMAIN Methods /\ rpcs[r].result # "unexpected"
    BY DEF StubInv, Good, MatchInv
  <1>2. /\ rpcs' = [rpcs EXCEPT ![r] = rpcs'[r]]
        /\ rpcs'[r].method = rpcs[r].method /\ rpcs'[r].result = rpcs[r].result
    <2>1. CASE Serve(r)
      <3>1. ASSUME NEW answer,
                   rpcs' = [rpcs EXCEPT ![r].answer = answer,
                                        ![r].with = IF r = Opener THEN issued + 1 ELSE @]
            PROVE  /\ rpcs' = [rpcs EXCEPT ![r] = rpcs'[r]]
                   /\ rpcs'[r].method = rpcs[r].method /\ rpcs'[r].result = rpcs[r].result
        BY <1>1, <3>1 DEF Requesting, StubInv
      <3>2. ASSUME NEW answer, rpcs' = [rpcs EXCEPT ![r].answer = answer]
            PROVE  /\ rpcs' = [rpcs EXCEPT ![r] = rpcs'[r]]
                   /\ rpcs'[r].method = rpcs[r].method /\ rpcs'[r].result = rpcs[r].result
        BY <1>1, <3>2 DEF Requesting, StubInv
      <3> QED
        BY <2>1, <3>1, <3>2 DEF Serve
    <2>2. CASE Authenticate(r)
      BY <1>1, <2>2 DEF Authenticate, Requesting, StubInv
    <2>3. CASE Renew(r)
      BY <1>1, <2>3 DEF Renew, Requesting, StubInv
    <2>4. CASE Inject(r)
      <3>1. PICK answer \in {"none", "lost"} :
              rpcs' = [rpcs EXCEPT ![r].pc = "called", ![r].with = token, ![r].answer = answer]
        BY <2>4 DEF Inject
      <3> QED
        BY <1>1, <3>1 DEF Requesting, StubInv
    <2> QED
      BY <2>1, <2>2, <2>3, <2>4
  <1> QED
    BY <1>1, <1>2, OneMatches

LEMMA DeliverMatches ==
  ASSUME StubInv, MatchInv, NEW r \in Requests, Deliver(r)
  PROVE  MatchInv'
  <1>1. rpcs[r].method \in DOMAIN Methods /\ rpcs[r].answer # "unexpected"
    BY DEF StubInv, Good, Requesting, Answers, MatchInv
  <1>2. Accepts(rpcs[r].method, ConvertedTo[CallOf(r)])
    BY <1>1, TablesAgree DEF CallOf
  <1>3. \/ Return(r, IF Accepts(rpcs[r].method, ConvertedTo[CallOf(r)]) THEN "ok" ELSE "unexpected")
        \/ Return(r, "missing field") \/ Return(r, "dropped") \/ Return(r, rpcs[r].answer)
    BY Zenon DEF Deliver
  <1>4. CASE Return(r, IF Accepts(rpcs[r].method, ConvertedTo[CallOf(r)]) THEN "ok" ELSE "unexpected")
    <2>1. Return(r, "ok")
      BY <1>2, <1>4, Zenon
    <2> QED
      BY <2>1, ReturnMatches
  <1>5. "missing field" # "unexpected" /\ "dropped" # "unexpected"
    OBVIOUS
  <1> QED
    BY <1>1, <1>3, <1>4, <1>5, ReturnMatches, Zenon

LEMMA RenewedMatches ==
  ASSUME StubInv, MatchInv, NEW r \in Requests, Renewed(r)
  PROVE  MatchInv'
  <1>1. rpcs[r].method \in DOMAIN Methods
    BY DEF MatchInv
  <1>2. Calls(r, rpcs[r].method, TRUE) \/ Return(r, "denied")
    BY Zenon DEF Renewed
  <1> QED
    BY <1>1, <1>2, CallMatches, ReturnMatches

(* No method of ServerConnection ever ends in UnexpectedRequestType or       *)
(* UnexpectedResponseType, through all conversions of requests and answers   *)
(* and whether or not the token was renewed in between.                      *)
THEOREM ConversionsMatch == StubSpec => []MethodsMatch
  <1>1. StubInit => MatchInv
    BY MethodNames DEF StubInit, MatchInv, Idle
  <1>2. StubInv /\ MatchInv /\ [StubNext]_rpcVars => MatchInv'
    <2> SUFFICES ASSUME StubInv, MatchInv, [StubNext]_rpcVars PROVE MatchInv'
      OBVIOUS
    <2>1. CASE UNCHANGED rpcVars \/ Expire
      BY <2>1, Zenon DEF rpcVars, Expire, MatchInv
    <2>2. ASSUME NEW r \in Requests, Timeout(r) PROVE MatchInv'
      BY <2>2, ReturnMatches DEF Timeout
    <2> QED
      BY <2>1, <2>2, SubmitMatches, WaitingMatches, DeliverMatches, RenewedMatches, Zenon
      DEF StubNext
  <1>3. MatchInv => MethodsMatch
    BY DEF MatchInv, MethodsMatch
  <1> QED
    BY <1>1, <1>2, <1>3, StubInvariant, PTL DEF StubSpec


=============================================================================
