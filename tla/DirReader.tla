------------------------------ MODULE DirReader ------------------------------
(***************************************************************************)
(* The directory reader of os.hpp: DirEntries, a range over the packed     *)
(* records that getdents64 puts into a buffer, and BasicDirReader, whose   *)
(* one buffer is used for directory after directory.  Offsets count Words, *)
(* the alignment of a record.  One worker; other processes remove entries  *)
(* at any time, signals interrupt the call and it may fail at any time.    *)
(***************************************************************************)
EXTENDS Integers, Sequences, SequencesExt

CONSTANTS
    Listing,       \* per directory read: its entries in the kernel's order
    Length,        \* per entry: the words of its record, d_reclen
    BufferBytes,   \* as given to BasicDirReader
    WordBytes,     \* sizeof(Word)
    MaxVanish,     \* bound: how many entries others remove
    Junk,          \* what a word holds that is no start of a record
    Error, None

\* Rounded up to whole words.
Words == (BufferBytes + WordBytes - 1) \div WordBytes

ASSUME WordAssumption == WordBytes \in Nat \ {0} /\ BufferBytes \in Nat
ASSUME ListingAssumption ==
    \A d \in DOMAIN Listing : \A i \in DOMAIN Listing[d] :
        Length[Listing[d][i]] \in 1 .. Words

VARIABLES
    pc,
    directory,   \* the directory of Listing that is being read
    rest,        \* what the kernel has yet to give of it
    vanished,    \* how many entries others have removed
    buffer,      \* per word: the entry whose record starts there, or Junk
    offset_, filled_, failed_,
    got          \* what the body of the loop works on

vars == <<pc, directory, rest, vanished, buffer, offset_, filled_, failed_, got>>

Init ==
    /\ pc = "next" /\ directory = 0
    /\ rest = <<>> /\ vanished = 0
    /\ buffer = [w \in 0 .. Words - 1 |-> Junk]
    /\ offset_ = 0 /\ filled_ = 0 /\ failed_ = FALSE
    /\ got = None

StartFill == pc' = "fill" /\ offset_' = 0 /\ filled_' = 0

\* BasicDirReader::Read of the next directory.
Read ==
    /\ pc = "next" /\ directory < Len(Listing)
    /\ directory' = directory + 1
    /\ rest' = Listing[directory']
    /\ StartFill /\ failed_' = FALSE
    /\ UNCHANGED <<vanished, buffer, got>>

\* Where the records of a sequence of entries start, and where they end.
Start(entries, i) == FoldLeft(LAMBDA at, e : at + Length[e], 0, SubSeq(entries, 1, i - 1))
Bytes(entries) == Start(entries, Len(entries) + 1)

Packed(entries) ==
    [w \in 0 .. Words - 1 |->
        IF w >= Bytes(entries) THEN buffer[w]
        ELSE IF \E i \in DOMAIN entries : Start(entries, i) = w
        THEN entries[CHOOSE i \in DOMAIN entries : Start(entries, i) = w]
        ELSE Junk]

\* getdents64 gives some whole records, and none only at the end.
Fill ==
    /\ pc = "fill"
    /\ \E n \in 0 .. Len(rest) :
          LET given == SubSeq(rest, 1, n)
          IN  /\ Bytes(given) <= Words /\ (n = 0 => rest = <<>>)
              /\ rest' = SubSeq(rest, n + 1, Len(rest))
              /\ buffer' = Packed(given)
              /\ filled_' = Bytes(given)
    /\ pc' = "test"
    /\ UNCHANGED <<directory, vanished, offset_, failed_, got>>

\* Mutant: a signal ends the directory.
FillInterruptedEnds ==
    /\ pc = "fill" /\ pc' = "test"
    /\ UNCHANGED <<directory, rest, vanished, buffer, offset_, filled_, failed_, got>>

\* EINTR: the call is made again.
FillInterrupted == pc = "fill" /\ UNCHANGED vars

FillFails ==
    /\ pc = "fill" /\ pc' = "test"
    /\ failed_' = TRUE
    /\ UNCHANGED <<directory, rest, vanished, buffer, offset_, filled_, got>>

AtEnd == ~failed_ /\ offset_ >= filled_

Current ==
    /\ pc = "test" /\ ~AtEnd
    /\ got' = IF failed_ THEN Error ELSE buffer[offset_]
    /\ pc' = "body"
    /\ UNCHANGED <<directory, rest, vanished, buffer, offset_, filled_, failed_>>

LoopEnds ==
    /\ pc = "test" /\ AtEnd
    /\ pc' = "next"
    /\ UNCHANGED <<directory, rest, vanished, buffer, offset_, filled_, failed_, got>>

\* Mutant: the error stays.
AdvanceStillFailed ==
    /\ pc = "body" /\ got' = None
    /\ \/ /\ failed_ /\ pc' = "test"
          /\ offset_' = 0 /\ filled_' = 0
       \/ /\ ~failed_ /\ offset_ + Length[got] < filled_ /\ pc' = "test"
          /\ offset_' = offset_ + Length[got]
          /\ UNCHANGED filled_
       \/ ~failed_ /\ offset_ + Length[got] >= filled_ /\ StartFill
    /\ UNCHANGED <<directory, rest, vanished, buffer, failed_>>

\* An error is reported once, then the range ends.
Advance ==
    /\ pc = "body" /\ got' = None
    /\ \/ /\ failed_ /\ pc' = "test"
          /\ offset_' = 0 /\ filled_' = 0
       \/ /\ ~failed_ /\ offset_ + Length[got] < filled_ /\ pc' = "test"
          /\ offset_' = offset_ + Length[got]
          /\ UNCHANGED filled_
       \/ ~failed_ /\ offset_ + Length[got] >= filled_ /\ StartFill
    /\ failed_' = FALSE
    /\ UNCHANGED <<directory, rest, vanished, buffer>>

\* Scan leaves its loop at an error.
Break ==
    /\ pc = "body" /\ got = Error
    /\ pc' = "next" /\ got' = None
    /\ UNCHANGED <<directory, rest, vanished, buffer, offset_, filled_, failed_>>

\* Others remove an entry the kernel has not given yet.
Vanish ==
    /\ vanished < MaxVanish /\ vanished' = vanished + 1
    /\ \E i \in DOMAIN rest : rest' = RemoveAt(rest, i)
    /\ UNCHANGED <<pc, directory, buffer, offset_, filled_, failed_, got>>

Answer == Fill \/ FillFails
Step == Read \/ FillInterrupted \/ Answer \/ Current \/ LoopEnds \/ Advance \/ Break

Next == Step \/ Vanish

\* The worker keeps running, and signals do not interrupt for ever.
FairSpec == Init /\ [][Next]_vars /\ WF_vars(Step) /\ SF_vars(Answer)

----------------------------------------------------------------------------
(* Properties                                                              *)

\* The records in the buffer from an offset on.
Records(from) ==
    LET decode[w \in 0 .. 2 * Words] ==
            IF w >= filled_ THEN <<>>
            ELSE <<buffer[w]>> \o decode[w + Length[buffer[w]]]
    IN  decode[from]

Left ==
    CASE pc = "next" -> <<>>
      [] pc = "fill" -> rest
      [] pc = "test" -> IF failed_ THEN <<Error>> ELSE IF AtEnd THEN <<>>
                        ELSE Records(offset_) \o rest
      [] pc = "body" -> IF failed_ THEN <<>>
                        ELSE Records(offset_ + Length[got]) \o rest

\* The loop is given what the kernel listed: no record twice, skipped, left
\* over from the last directory or read from the middle of another one, and an
\* error or an interruption is never taken for the end ("A signal is not the
\* end of the directory", "Reported once, then the range ends", os.hpp:236-267).
Over == pc = "next" \/ (pc = "test" /\ AtEnd) \/ (pc = "body" /\ failed_)
Stream == INSTANCE EntryStream WITH left <- Left, over <- Over

ImplementsStream == Stream!Spec

\* Every directory is read to its end, or to the error that ends it.
EveryReadEnds == <>[](pc = "next" /\ directory = Len(Listing))
=============================================================================
