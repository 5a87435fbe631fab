-------------------------- MODULE ImportFileReader --------------------------
(* ProtoMessageIterator: length-delimited messages read from a file through  *)
(* a buffer, by reads that may return fewer bytes than asked. Bytes are      *)
(* counted, not stored: the buffer holds the bytes at..loaded of the file.   *)
EXTENDS Naturals, FiniteSets, SequencesExt

CONSTANTS Files,           \* sequences of frames: [delim, body], in bytes
          MaxDelimiter,    \* MAX_LENGTH_DELIMITER_LEN
          BufCapacity      \* BUF_CAPACITY

ASSUME ReaderConstants ==
    /\ MaxDelimiter \in Nat \ {0} /\ BufCapacity \in Nat
    /\ Files \subseteq Seq([delim : 1..MaxDelimiter, body : Nat])

VARIABLES frames, size, reader

readerVars == <<frames, size, reader>>

Max2(a, b) == IF a > b THEN a ELSE b
Min2(a, b) == IF a < b THEN a ELSE b

FrameLen(f) == f.delim + f.body
(* Where frame i ends.                                                       *)
End[i \in 0..Len(frames)] == IF i = 0 THEN 0 ELSE End[i - 1] + FrameLen(frames[i])
Whole == {i \in DOMAIN frames : End[i] <= size}

(* The file may have been cut anywhere: size counts the bytes that are left. *)
ReaderInit ==
    /\ frames \in Files
    /\ size \in 0..End[Len(frames)]
    /\ reader = [pc |-> "idle", next |-> 1, at |-> 0, loaded |-> 0]

Buffered == reader.loaded - reader.at
ReaderGoto(pc) == reader' = [reader EXCEPT !.pc = pc] /\ UNCHANGED <<frames, size>>

(* read_more(): at most n bytes, at least one unless the file is over.       *)
ReadMore(n, atEnd) ==
    LET left == size - reader.loaded
    IN  IF left = 0
        THEN ReaderGoto(atEnd)
        ELSE /\ \E k \in 1..Min2(Max2(n, 1), left) : reader' = [reader EXCEPT !.loaded = @ + k]
             /\ UNCHANGED <<frames, size>>

(* next() is called; it may be called again after a message.                 *)
CallNext == reader.pc = "idle" /\ ReaderGoto("len")

(* The bytes at the start of the buffer hold a complete delimiter.           *)
Decodable == reader.next \in DOMAIN frames /\ Buffered >= frames[reader.next].delim

AtEndOfFile == IF Buffered = 0 THEN "end" ELSE "err"

DecodeNextLen ==
    /\ reader.pc = "len"
    /\ IF Decodable THEN ReaderGoto("body")
       ELSE IF Buffered >= MaxDelimiter THEN ReaderGoto("err")
       ELSE ReadMore(MaxDelimiter - Buffered, AtEndOfFile)

FaultyRequired == frames[reader.next].body
Required == FrameLen(frames[reader.next])

ReadBody ==
    /\ reader.pc = "body"
    /\ IF Buffered < Required
       THEN ReadMore(Max2(Required - Buffered, BufCapacity), "err")
       ELSE /\ reader' = [reader EXCEPT !.pc = "idle", !.next = @ + 1,
                                        !.at = @ + FrameLen(frames[reader.next])]
            /\ UNCHANGED <<frames, size>>

ReaderNext == CallNext \/ DecodeNextLen \/ ReadBody

ReaderSpec == ReaderInit /\ [][ReaderNext]_readerVars /\ WF_readerVars(ReaderNext)

-----------------------------------------------------------------------------
(* Each message is cut out of the buffer where it lies, and when reading is  *)
(* over every message that the file still holds completely was returned; the *)
(* end is reported without error only when the file ends between messages,   *)
(* whatever the sizes of the reads were.                                     *)
ReadsWhatIsThere ==
    /\ reader.at = End[reader.next - 1] /\ reader.at <= reader.loaded
    /\ reader.pc \in {"end", "err"} => reader.next = 1 + Cardinality(Whole)
    /\ reader.pc = "end" => reader.at = size
    /\ reader.pc = "err" => reader.at < size

=============================================================================
