--------------------------- MODULE FrontEndProofs ---------------------------
(***************************************************************************)
(* The three invariants of FrontEnd, for any command lines, inputs, buffer *)
(* sizes and numbers of failures and changes.  The reader's place in the   *)
(* input gives what the answer says of the input's lines (Reading); what   *)
(* was asked and answered, with where the operands come from, gives what   *)
(* may go (Allowance); and the account of each operand named gives what    *)
(* the exit code tells (Account).                                          *)
(***************************************************************************)
EXTENDS FrontEnd, SequenceTheorems, WellFoundedInduction, TLAPS

Before == {"start", "confirm"}
Asking == {"first", "skip"}
Removing == {"lstat", "act", "rmdir"}
Places == Before \cup Asking \cup Removing \cup {"exited"}

\* What the state consists of.
Typed ==
    /\ cmd \in Commands
    /\ kind \in [Path -> Kind]
    /\ pc \in Places
    /\ operands \in Seq(STRING) /\ ToSet(operands) \subseteq Path
    /\ pc \in {"act", "rmdir"} => operands # <<>>
    /\ walks \in [Path -> Nat]
    /\ failures \in Nat
    /\ asked \in BOOLEAN

----------------------------------------------------------------------------
(* The reader's place in the input                                         *)

Strings ==
    /\ input \in Seq(STRING) /\ unread \in Seq(STRING) /\ buffered \in Seq(STRING)

\* What the reader has let go of.
Position == Len(input) - Len(unread) - Len(buffered)

\* What is buffered and what is unread follow it in the input.
InPlace ==
    /\ Position \in Nat
    /\ \A i \in 1 .. Len(buffered) : buffered[i] = input[Position + i]
    /\ \A i \in 1 .. Len(unread) : unread[i] = input[Position + Len(buffered) + i]

\* It stands at the end of a line, and no line up to there decides.
AtLine ==
    /\ Position = 0 \/ input[Position] = Newline
    /\ \A d \in Decisive : d > Position

\* It stands in the line that starts at s, and no line before that decides.
InLine(s) ==
    /\ s \in LineStarts /\ s <= Position
    /\ first = input[s]
    /\ \A i \in s .. Position : input[i] # Newline
    /\ \A d \in Decisive : d >= s

Judged ==
    /\ answer \in {"none", "yes", "no"}
    /\ answer = "yes" => Verdict = "yes"
    /\ answer = "no" /\ ~badRead => Verdict = "no"

Reading ==
    /\ Strings
    /\ pc \in Before => buffered = <<>>
    /\ pc \in Before \cup Asking => answer = "none" /\ ~badRead
    /\ pc \in Asking => InPlace
    /\ pc = "first" => AtLine
    /\ pc = "skip" => \E s \in 1 .. Position : InLine(s)
    /\ Judged

----------------------------------------------------------------------------
(* What may go, and what became of each operand                            *)

\* What remmy is asked to remove.
Wanted(p) ==
    IF cmd.unlink THEN cmd.args # <<>> /\ p = Last(cmd.args) ELSE p \in Named \ Protected

Busy == pc \in Removing \/ seeded # {} \/ removed # {}

Allowance ==
    /\ \A p \in ToSet(operands) \cup seeded \cup removed : Wanted(p)
    /\ cmd.unlink => seeded = {}
    /\ pc = "start" => operands = <<>>
    /\ pc \in Before => ~asked
    /\ Busy => ~IsUsageError
    /\ Busy /\ asked => answer = "yes"
    /\ pc \in Before \cup Asking => ~Busy /\ (pc # "start" => ~IsUsageError)

\* What exit code 0 says of an operand.
Settled(p) == Gone(p) \/ Hushed(p)

\* An operand that nothing is held against is settled, to come, or walked.
Accounted(p) == Settled(p) \/ p \in ToSet(operands) \/ p \in seeded

\* What is held against remmy has a cause.
Caused == walkFailed \/ Dropped \/ \E f \in failed : f[2] # "ENOENT" \/ ~force

Account ==
    /\ pc = "exited" <=> exit # -1
    /\ pc = "exited" => seeded = {}
    /\ ~cmd.unlink /\ pc \notin {"start", "exited"} /\ failures = 0 =>
          \A p \in Named : Accounted(p)
    /\ ~cmd.unlink /\ failures # 0 => Caused
    /\ cmd.unlink => \/ pc \in {"start", "exited"}
                     \/ pc \in Removing /\ operands = <<Last(cmd.args)>>
    /\ ExitIsTruthful

FInv == Typed /\ Reading /\ Allowance /\ Account

----------------------------------------------------------------------------
(* Least elements                                                          *)

\* Numbers, if there are any, have a least one.
LEMMA LeastExists ==
    ASSUME NEW S, S \subseteq Nat, S # {}
    PROVE \E x \in S : \A y \in S : x <= y
<1>1. PICK x \in S : \A y \in S : ~(<<y, x>> \in OpToRel(<, Nat))
  BY NatLessThanWellFounded, WFMin
<1>2. ASSUME NEW y \in S PROVE x <= y
  <2>1. x \in Nat /\ y \in Nat
    OBVIOUS
  <2>2. ~(y < x)
    BY <1>1, <2>1 DEF OpToRel
  <2> QED
    BY <2>1, <2>2
<1> QED
  BY <1>2

\* Min picks it.
LEMMA MinIsLeast ==
    ASSUME NEW S, S \subseteq Nat, S # {}
    PROVE Min(S) \in S /\ \A y \in S : Min(S) <= y
BY LeastExists DEF Min

\* What is in a set of numbers and at most each of them is its Min.
LEMMA MinIsOnly ==
    ASSUME NEW S, S \subseteq Nat, NEW s \in S, \A d \in S : d >= s
    PROVE Min(S) = s
<1>1. Min(S) \in S /\ \A y \in S : Min(S) <= y
  BY MinIsLeast
<1>2. Min(S) \in Nat /\ s \in Nat /\ Min(S) <= s /\ Min(S) >= s
  BY <1>1
<1> QED
  BY <1>2

----------------------------------------------------------------------------
(* What the lines of the input answer                                      *)

\* A line starts at an index of the input, and only some lines decide.
LEMMA LinesAreInTheInput ==
    ASSUME Strings
    PROVE /\ DOMAIN input = 1 .. Len(input) /\ Len(input) \in Nat
          /\ LineStarts \subseteq 1 .. Len(input)
          /\ Decisive \subseteq LineStarts /\ Decisive \subseteq Nat
BY DEF Strings, LineStarts, Decisive

\* If no line decides, the answer is no.
LEMMA NoneDecides ==
    ASSUME Decisive = {}
    PROVE Verdict = "no"
BY DEF Verdict

\* The first line that decides gives the answer.
LEMMA FirstDecides ==
    ASSUME Strings, NEW s \in LineStarts, \A d \in Decisive : d >= s,
           input[s] \in {"y", "Y", "n", "N"}
    PROVE Verdict = IF input[s] \in {"y", "Y"} THEN "yes" ELSE "no"
<1>1. s \in Decisive
  BY DEF Decisive
<1>2. Min(Decisive) = s
  BY <1>1, MinIsOnly, LinesAreInTheInput
<1> QED
  BY <1>1, <1>2 DEF Verdict

\* While the input stays, its lines and their answer do.
LEMMA SameLines ==
    ASSUME input' = input
    PROVE LineStarts' = LineStarts /\ Decisive' = Decisive /\ Verdict' = Verdict
<1>1. LineStarts' = LineStarts
  BY DEF LineStarts
<1>2. Decisive' = Decisive
  BY <1>1 DEF Decisive
<1> QED
  BY <1>1, <1>2 DEF Verdict

\* If no line decides before s, and the line that starts at s does not, and it
\* goes on to the end of what was read, then no line decides up to there.
LEMMA NextIsLater ==
    ASSUME Strings, NEW s \in LineStarts, NEW e \in Nat, s <= e,
           \A i \in s .. (e - 1) : input[i] # Newline,
           \A d \in Decisive : d >= s,
           input[s] \notin {"y", "Y", "n", "N"}
    PROVE \A d \in Decisive : d > e
<1>1. SUFFICES ASSUME NEW d \in Decisive, d <= e
               PROVE FALSE
  <2>1. Decisive \subseteq Nat
    BY LinesAreInTheInput
  <2> QED
    BY <2>1, <1>1
<1>2. d \in Nat /\ s \in Nat /\ d >= s /\ d # s
  BY LinesAreInTheInput DEF Decisive
<1>3. d # 1 /\ d - 1 \in s .. (e - 1)
  <2>1. s >= 1
    BY LinesAreInTheInput
  <2> QED
    BY <1>1, <1>2, <2>1
<1>4. input[d - 1] = Newline
  BY <1>3 DEF Decisive, LineStarts
<1> QED
  BY <1>3, <1>4

----------------------------------------------------------------------------
(* The reader's steps                                                      *)

\* What a line's first character decides.
LEMMA JudgeDecides ==
    ASSUME NEW ch, NEW lineEnded \in BOOLEAN, Judge(ch, lineEnded)
    PROVE \/ /\ ch \in {"y", "Y"}
             /\ answer' = "yes" /\ pc' = "lstat" /\ exit' = exit
          \/ /\ ch \notin {"y", "Y"} /\ (ch \in {"n", "N"} \/ ~lineEnded)
             /\ answer' = "no" /\ pc' = "exited" /\ exit' = 1
          \/ /\ ch \notin {"y", "Y", "n", "N"} /\ lineEnded
             /\ pc' = "first" /\ answer' = answer /\ exit' = exit
BY DEF Judge, Answer, Return

\* Once the question is answered as the input's lines do, Reading is settled.
LEMMA AnswerSettles ==
    ASSUME Strings', pc' \in {"lstat", "exited"}, Judged'
    PROVE Reading'
BY DEF Reading, Before, Asking

\* What is read next follows in the input, and what was buffered is let go of.
LEMMA FillKeepsPlace ==
    ASSUME Strings, InPlace, Fill
    PROVE /\ Strings' /\ InPlace'
          /\ Position' = Position + Len(buffered)
<1>1. PICK n \in 1 .. Min({Capacity, Len(unread)}) :
        /\ buffered' = SubSeq(unread, 1, n)
        /\ unread' = SubSeq(unread, n + 1, Len(unread))
  BY DEF Fill
<1>2. Len(unread) \in Nat /\ Len(input) \in Nat /\ Len(buffered) \in Nat
  BY DEF Strings
<1>3. n \in 1 .. Len(unread)
  <2>1. {Capacity, Len(unread)} \subseteq Nat
    BY <1>2, InputAssumption
  <2>2. Min({Capacity, Len(unread)}) <= Len(unread)
    BY <2>1, MinIsLeast
  <2>3. Min({Capacity, Len(unread)}) \in Nat
    BY <2>1, MinIsLeast
  <2> QED
    BY <1>1, <1>2, <2>2, <2>3
<1>4. /\ buffered' \in Seq(STRING) /\ Len(buffered') = n
      /\ \A i \in 1 .. n : buffered'[i] = unread[i]
  BY <1>1, <1>2, <1>3 DEF Strings
<1>5. /\ unread' \in Seq(STRING) /\ Len(unread') = Len(unread) - n
      /\ \A i \in 1 .. Len(unread') : unread'[i] = unread[n + i]
  <2>1. Len(unread') = Len(unread) - n
    BY <1>1, <1>2, <1>3 DEF Strings
  <2>2. unread' \in Seq(STRING)
    BY <1>1, <1>2, <1>3 DEF Strings
  <2>3. ASSUME NEW i \in 1 .. Len(unread') PROVE unread'[i] = unread[n + i]
    BY <1>1, <1>2, <1>3, <2>1 DEF Strings
  <2> QED
    BY <2>1, <2>2, <2>3
<1>6. input' = input
  BY DEF Fill
<1>7. Position' = Position + Len(buffered)
  BY <1>2, <1>3, <1>4, <1>5, <1>6 DEF Position
<1>8. Position \in Nat /\ Position' \in Nat
  BY <1>2, <1>7 DEF InPlace
<1>9. \A i \in 1 .. Len(buffered') : buffered'[i] = input'[Position' + i]
  <2>1. ASSUME NEW i \in 1 .. n PROVE unread[i] = input[Position + Len(buffered) + i]
    BY <1>2, <1>3 DEF InPlace
  <2> QED
    BY <2>1, <1>4, <1>6, <1>7
<1>10. \A i \in 1 .. Len(unread') :
         unread'[i] = input'[Position' + Len(buffered') + i]
  <2>1. SUFFICES ASSUME NEW i \in 1 .. Len(unread')
                 PROVE unread'[i] = input'[Position' + Len(buffered') + i]
    OBVIOUS
  <2>2. n + i \in 1 .. Len(unread)
    BY <1>2, <1>3, <1>5
  <2>3. unread[n + i] = input[Position + Len(buffered) + (n + i)]
    BY <2>2 DEF InPlace
  <2>4. Position + Len(buffered) + (n + i) = Position' + Len(buffered') + i
    BY <1>2, <1>3, <1>4, <1>7, <1>8
  <2> QED
    BY <1>5, <1>6, <2>3, <2>4
<1> QED
  BY <1>4, <1>5, <1>6, <1>7, <1>8, <1>9, <1>10 DEF Strings, InPlace

\* A fill moves the reader within its line.
LEMMA FillKeepsReading ==
    ASSUME Reading, Fill
    PROVE Reading'
<1>1. Strings /\ InPlace /\ pc \in Asking /\ pc' = pc /\ input' = input
  BY DEF Reading, Fill, NeedsFill, Asking
<1>2. Strings' /\ InPlace' /\ Position' = Position + Len(buffered)
  BY <1>1, FillKeepsPlace
<1>3. LineStarts' = LineStarts /\ Decisive' = Decisive /\ Verdict' = Verdict
  BY <1>1, SameLines
<1>4. Judged' /\ (pc' \in Before \cup Asking => answer' = "none" /\ ~badRead')
  BY <1>1, <1>3 DEF Reading, Judged, Fill, prompt
<1>5. ASSUME pc = "first" PROVE AtLine'
  <2>1. buffered = <<>> /\ AtLine
    BY <1>5 DEF Fill, NeedsFill, Reading
  <2>2. Position' = Position
    BY <2>1, <1>1, <1>2 DEF InPlace
  <2> QED
    BY <2>1, <2>2, <1>1, <1>3 DEF AtLine
<1>6. ASSUME pc = "skip" PROVE \E s \in 1 .. Position' : InLine(s)'
  <2>1. PICK s \in 1 .. Position : InLine(s)
    BY <1>6 DEF Reading
  <2>2. Newline \notin ToSet(buffered) /\ first' = first
    BY <1>6 DEF Fill, NeedsFill
  <2>3. Position \in Nat /\ Len(buffered) \in Nat
    BY <1>1 DEF InPlace, Strings
  <2>4. ASSUME NEW i \in s .. Position' PROVE input[i] # Newline
    <3>1. CASE i <= Position
      BY <3>1, <2>1, <2>3 DEF InLine
    <3>2. CASE i > Position
      <4>1. i - Position \in 1 .. Len(buffered)
        BY <3>2, <1>2, <2>3, <2>4
      <4>2. buffered[i - Position] = input[Position + (i - Position)]
        BY <4>1, <1>1 DEF InPlace
      <4>3. Position + (i - Position) = i
        BY <2>3
      <4>4. buffered[i - Position] \in ToSet(buffered)
        BY <4>1, <1>1 DEF ToSet, Strings
      <4> QED
        BY <4>2, <4>3, <4>4, <2>2
    <3> QED
      BY <3>1, <3>2, <2>3
  <2>5. s \in 1 .. Position' /\ s <= Position'
    BY <1>2, <2>1, <2>3
  <2> QED
    BY <2>1, <2>2, <2>4, <2>5, <1>1, <1>3 DEF InLine
<1> QED
  BY <1>1, <1>2, <1>4, <1>5, <1>6 DEF Reading, Asking, Before

\* The input ends: its lines have been read.
LEMMA FillEndsReading ==
    ASSUME Reading, FillEnds
    PROVE Reading'
<1>1. /\ Strings /\ InPlace /\ pc \in Asking
      /\ input' = input /\ unread' = unread /\ buffered' = <<>>
      /\ unread = <<>> \/ badRead'
  BY DEF Reading, FillEnds, NeedsFill, Asking
<1>2. LineStarts' = LineStarts /\ Decisive' = Decisive /\ Verdict' = Verdict
  BY <1>1, SameLines
<1>3. Strings'
  BY <1>1 DEF Strings
<1>4. Len(unread) \in Nat /\ Len(input) \in Nat /\ Len(buffered) \in Nat
  BY <1>1 DEF Strings
<1>5. CASE pc = "first"
  <2>1. Judge("eof", FALSE)
    BY <1>5 DEF FillEnds
  <2>2. answer' = "no" /\ pc' = "exited"
    BY <2>1, JudgeDecides
  <2>3. ASSUME ~badRead' PROVE Decisive = {}
    <3>1. unread = <<>> /\ buffered = <<>> /\ AtLine
      BY <1>1, <1>5, <2>3 DEF FillEnds, NeedsFill, Reading
    <3>2. Position = Len(input)
      BY <3>1, <1>4 DEF Position
    <3>3. \A d \in Decisive : d > Len(input) /\ d \in 1 .. Len(input)
      BY <3>1, <3>2, <1>1, LinesAreInTheInput DEF AtLine
    <3> QED
      BY <3>3, <1>4
  <2> QED
    BY <2>2, <2>3, <1>2, <1>3, NoneDecides, AnswerSettles DEF Judged
<1>6. CASE pc = "skip"
  <2>1. Judge(first, FALSE) /\ Newline \notin ToSet(buffered)
    BY <1>6 DEF FillEnds, NeedsFill
  <2>2. PICK s \in 1 .. Position : InLine(s)
    BY <1>6 DEF Reading
  <2>3. s \in LineStarts /\ first = input[s] /\ \A d \in Decisive : d >= s
    BY <2>2 DEF InLine
  <2>4. CASE first \in {"y", "Y"}
    <3>1. answer' = "yes" /\ pc' = "lstat"
      BY <2>1, <2>4, JudgeDecides
    <3>2. Verdict = "yes"
      BY <2>3, <2>4, <1>1, FirstDecides
    <3> QED
      BY <3>1, <3>2, <1>2, <1>3, AnswerSettles DEF Judged
  <2>5. CASE first \notin {"y", "Y"}
    <3>1. answer' = "no" /\ pc' = "exited"
      BY <2>1, <2>5, JudgeDecides
    <3>2. CASE first \in {"n", "N"}
      <4>1. Verdict = "no"
        BY <2>3, <2>5, <3>2, <1>1, FirstDecides
      <4> QED
        BY <3>1, <4>1, <1>2, <1>3, AnswerSettles DEF Judged
    <3>3. CASE first \notin {"n", "N"}
      <4>1. ASSUME ~badRead' PROVE Decisive = {}
        <5>1. unread = <<>>
          BY <1>1, <4>1
        <5>2. Position + Len(buffered) = Len(input) /\ Position \in Nat
          BY <5>1, <1>1, <1>4 DEF Position, InPlace
        <5>3. ASSUME NEW i \in s .. Len(input) PROVE input[i] # Newline
          <6>1. CASE i <= Position
            BY <6>1, <2>2, <5>2 DEF InLine
          <6>2. CASE i > Position
            <7>1. i - Position \in 1 .. Len(buffered)
              BY <6>2, <5>2, <5>3, <1>4
            <7>2. buffered[i - Position] = input[Position + (i - Position)]
              BY <7>1, <1>1 DEF InPlace
            <7>3. Position + (i - Position) = i
              BY <5>2
            <7>4. buffered[i - Position] \in ToSet(buffered)
              BY <7>1, <1>1 DEF ToSet, Strings
            <7> QED
              BY <7>2, <7>3, <7>4, <2>1
          <6> QED
            BY <6>1, <6>2, <5>2
        <5>4. s \in 1 .. Len(input) /\ s <= Len(input)
          BY <2>3, <1>1, LinesAreInTheInput
        <5>5. \A i \in s .. (Len(input) - 1) : input[i] # Newline
          BY <5>3, <1>4
        <5>6. \A d \in Decisive : d > Len(input)
          BY <5>4, <5>5, <2>3, <2>5, <3>3, <1>1, <1>4, NextIsLater
        <5> QED
          BY <5>6, <1>1, <1>4, LinesAreInTheInput
      <4> QED
        BY <3>1, <4>1, <1>2, <1>3, NoneDecides, AnswerSettles DEF Judged
    <3> QED
      BY <3>2, <3>3
  <2> QED
    BY <2>4, <2>5
<1> QED
  BY <1>1, <1>5, <1>6 DEF Asking

\* The first k characters of the buffer go.
Drops(k) ==
    /\ buffered' = SubSeq(buffered, k + 1, Len(buffered))
    /\ input' = input /\ unread' = unread

\* Dropping what is at the front of the buffer moves the reader by as much.
LEMMA DropKeepsPlace ==
    ASSUME Strings, InPlace, NEW k \in 0 .. Len(buffered), Drops(k)
    PROVE Strings' /\ InPlace' /\ Position' = Position + k
<1>1. Len(unread) \in Nat /\ Len(input) \in Nat /\ Len(buffered) \in Nat /\ Position \in Nat
  BY DEF Strings, InPlace
<1>2. Len(buffered') = Len(buffered) - k
  BY <1>1 DEF Strings, Drops
<1>3. buffered' \in Seq(STRING) /\ input' = input /\ unread' = unread
  BY <1>1 DEF Strings, Drops
<1>4. ASSUME NEW i \in 1 .. Len(buffered') PROVE buffered'[i] = buffered[k + i]
  BY <1>1, <1>2 DEF Strings, Drops
<1>5. Position' = Position + k
  <2>1. Len(input') = Len(input) /\ Len(unread') = Len(unread) /\ k \in Int
    BY <1>1, <1>3
  <2> QED
    BY <1>1, <1>2, <2>1 DEF Position
<1>6. ASSUME NEW i \in 1 .. Len(buffered') PROVE buffered'[i] = input'[Position' + i]
  <2>1. k + i \in 1 .. Len(buffered)
    BY <1>1, <1>2
  <2>2. buffered[k + i] = input[Position + (k + i)]
    BY <2>1 DEF InPlace
  <2>3. Position + (k + i) = Position' + i
    BY <1>1, <1>5
  <2> QED
    BY <1>3, <1>4, <2>2, <2>3
<1>7. ASSUME NEW i \in 1 .. Len(unread')
      PROVE unread'[i] = input'[Position' + Len(buffered') + i]
  <2>1. unread'[i] = input'[Position + Len(buffered) + i]
    BY <1>3 DEF InPlace
  <2>2. Position' + Len(buffered') + i = Position + Len(buffered) + i
    <3>1. i \in Int /\ k \in Int
      BY <1>1
    <3> QED
      BY <1>1, <1>2, <1>5, <3>1
  <2> QED
    BY <2>1, <2>2
<1>8. Strings'
  BY <1>3 DEF Strings
<1>9. InPlace'
  <2>1. Position' \in Nat
    BY <1>1, <1>5
  <2> QED
    BY <1>6, <1>7, <2>1 DEF InPlace
<1> QED
  BY <1>5, <1>8, <1>9

\* The line that starts at s has been read, to the Newline before the reader.
LEMMA JudgeKeepsReading ==
    ASSUME Strings, Strings', InPlace', input' = input, badRead' = badRead,
           answer = "none", ~badRead,
           NEW s \in LineStarts, \A d \in Decisive : d >= s,
           s <= Position', input[Position'] = Newline,
           \A i \in s .. (Position' - 1) : input[i] # Newline,
           Judge(input[s], TRUE)
    PROVE Reading'
<1>1. LineStarts' = LineStarts /\ Decisive' = Decisive /\ Verdict' = Verdict
  BY SameLines
<1>2. CASE input[s] \in {"y", "Y"}
  <2>1. answer' = "yes" /\ pc' = "lstat"
    BY <1>2, JudgeDecides
  <2>2. Verdict = "yes"
    BY <1>2, FirstDecides
  <2> QED
    BY <2>1, <2>2, <1>1, AnswerSettles DEF Judged
<1>3. CASE input[s] \in {"n", "N"}
  <2>1. answer' = "no" /\ pc' = "exited"
    BY <1>3, JudgeDecides
  <2>2. Verdict = "no"
    BY <1>3, FirstDecides
  <2> QED
    BY <2>1, <2>2, <1>1, AnswerSettles DEF Judged
<1>4. CASE input[s] \notin {"y", "Y", "n", "N"}
  <2>1. pc' = "first" /\ answer' = answer
    BY <1>4, JudgeDecides
  <2>2. Position' \in Nat
    BY DEF InPlace
  <2>3. \A d \in Decisive : d > Position'
    BY <1>4, <2>2, NextIsLater
  <2>4. AtLine'
    BY <2>3, <1>1 DEF AtLine
  <2>5. Judged'
    BY <2>1 DEF Judged
  <2> QED
    BY <2>1, <2>4, <2>5 DEF Reading, Before, Asking
<1> QED
  BY <1>2, <1>3, <1>4

\* The first character of a line is read.
LEMMA ReadByteReading ==
    ASSUME Reading, ReadByte
    PROVE Reading'
<1>1. /\ Strings /\ InPlace /\ AtLine /\ pc = "first" /\ buffered # <<>>
      /\ input' = input /\ unread' = unread /\ buffered' = Tail(buffered)
      /\ first' = Head(buffered) /\ badRead' = badRead
      /\ answer = "none" /\ ~badRead
  BY DEF Reading, ReadByte, Asking
<1>2. Len(buffered) \in Nat \ {0} /\ Len(input) \in Nat /\ Len(unread) \in Nat
  BY <1>1 DEF Strings
<1>3. buffered' = SubSeq(buffered, 1 + 1, Len(buffered))
  BY <1>1, <1>2 DEF Strings
<1>4. Strings' /\ InPlace' /\ Position' = Position + 1
  <2>1. Drops(1)
    BY <1>1, <1>3 DEF Drops
  <2> QED
    BY <2>1, <1>1, <1>2, DropKeepsPlace
<1>5. LineStarts' = LineStarts /\ Decisive' = Decisive /\ Verdict' = Verdict
  BY <1>1, SameLines
<1>6. Position \in Nat /\ Position + 1 \in 1 .. Len(input)
  BY <1>1, <1>2 DEF InPlace, Position
<1>7. Position + 1 \in LineStarts
  <2>1. Position + 1 \in DOMAIN input
    BY <1>1, <1>6 DEF Strings
  <2>2. Position + 1 = 1 \/ input[(Position + 1) - 1] = Newline
    <3>1. (Position + 1) - 1 = Position
      BY <1>6
    <3> QED
      BY <1>1, <1>6, <3>1 DEF AtLine
  <2> QED
    BY <2>1, <2>2 DEF LineStarts
<1>8. Head(buffered) = input[Position + 1]
  <2>1. buffered[1] = input[Position + 1]
    BY <1>1, <1>2 DEF InPlace
  <2> QED
    BY <2>1, <1>1, <1>2 DEF Strings
<1>9. \A d \in Decisive : d >= Position + 1
  BY <1>1, <1>6, LinesAreInTheInput DEF AtLine
<1>10. CASE Head(buffered) = Newline
  <2>1. Judge(input[Position + 1], TRUE)
    BY <1>8, <1>10 DEF ReadByte
  <2>2. Position + 1 <= Position' /\ input[Position'] = Newline
    BY <1>4, <1>6, <1>8, <1>10
  <2>3. \A i \in (Position + 1) .. (Position' - 1) : input[i] # Newline
    BY <1>4, <1>6
  <2> QED
    BY <1>1, <1>4, <1>7, <1>9, <2>1, <2>2, <2>3, JudgeKeepsReading
<1>11. CASE Head(buffered) # Newline
  <2>1. pc' = "skip" /\ answer' = answer
    BY <1>11 DEF ReadByte
  <2>2. Position + 1 \in 1 .. Position' /\ Position + 1 <= Position'
    BY <1>4, <1>6
  <2>3. \A i \in (Position + 1) .. Position' : input[i] # Newline
    BY <1>4, <1>6, <1>8, <1>11
  <2>4. \E s \in 1 .. Position' : InLine(s)'
    BY <1>1, <1>5, <1>7, <1>8, <1>9, <2>2, <2>3 DEF InLine
  <2>5. Judged'
    BY <2>1, <1>1 DEF Judged
  <2> QED
    BY <2>1, <2>4, <2>5, <1>1, <1>4 DEF Reading, Before, Asking
<1> QED
  BY <1>10, <1>11

\* The search finds the first Newline of the buffer.
LEMMA NewlineIsFound ==
    ASSUME Strings, Newline \in ToSet(buffered),
           NEW k, k = SelectInSeq(buffered, LAMBDA ch : ch = Newline)
    PROVE /\ k \in 1 .. Len(buffered)
          /\ buffered[k] = Newline
          /\ \A j \in 1 .. (k - 1) : buffered[j] # Newline
<1> DEFINE I == {i \in 1 .. Len(buffered) : buffered[i] = Newline}
<1>1. k = IF I # {} THEN Min(I) ELSE 0
  BY DEF SelectInSeq
<1>2. I # {} /\ I \subseteq Nat /\ I \subseteq 1 .. Len(buffered)
  BY DEF ToSet, Strings
<1>3. k \in I /\ \A y \in I : k <= y
  <2>1. k = Min(I)
    BY <1>1, <1>2
  <2> HIDE DEF I
  <2> QED
    BY <1>2, <2>1, MinIsLeast
<1>4. ASSUME NEW j \in 1 .. (k - 1) PROVE buffered[j] # Newline
  <2>1. k \in Nat /\ Len(buffered) \in Nat /\ k <= Len(buffered)
    BY <1>2, <1>3 DEF Strings
  <2>2. j \in 1 .. Len(buffered) /\ ~(k <= j)
    BY <2>1
  <2>3. buffered[j] = Newline => j \in I
    BY <2>2
  <2> QED
    BY <1>3, <2>2, <2>3
<1> QED
  BY <1>3, <1>4

\* The rest of a line goes.
LEMMA SkipPastReading ==
    ASSUME Reading, SkipPast
    PROVE Reading'
<1>1. /\ Strings /\ InPlace /\ pc = "skip" /\ Newline \in ToSet(buffered)
      /\ input' = input /\ unread' = unread /\ badRead' = badRead
      /\ answer = "none" /\ ~badRead /\ Judge(first, TRUE)
  BY DEF Reading, SkipPast, Asking
<1>2. Len(buffered) \in Nat /\ Position \in Nat
  BY <1>1 DEF Strings, InPlace
<1>3. PICK k : /\ k = SelectInSeq(buffered, LAMBDA ch : ch = Newline)
               /\ buffered' = SubSeq(buffered, k + 1, Len(buffered))
  BY DEF SkipPast
<1>4. /\ k \in 1 .. Len(buffered) /\ buffered[k] = Newline
      /\ \A j \in 1 .. (k - 1) : buffered[j] # Newline
  BY <1>1, <1>3, NewlineIsFound
<1>5. Strings' /\ InPlace' /\ Position' = Position + k
  <2>1. Drops(k)
    BY <1>1, <1>3 DEF Drops
  <2>2. k \in 0 .. Len(buffered)
    BY <1>2, <1>4
  <2> QED
    BY <2>1, <2>2, <1>1, DropKeepsPlace
<1>6. PICK s \in 1 .. Position : InLine(s)
  BY <1>1 DEF Reading
<1>7. /\ s \in LineStarts /\ s <= Position /\ first = input[s]
      /\ \A i \in s .. Position : input[i] # Newline
      /\ \A d \in Decisive : d >= s
  BY <1>6 DEF InLine
<1>8. ASSUME NEW j \in 1 .. Len(buffered) PROVE buffered[j] = input[Position + j]
  BY <1>1 DEF InPlace
<1>9. input[Position'] = Newline
  BY <1>4, <1>5, <1>8
<1>10. ASSUME NEW i \in s .. (Position' - 1) PROVE input[i] # Newline
  <2>1. i \in Int /\ s \in Int /\ i >= s /\ i <= Position + k - 1 /\ k \in Nat
    BY <1>2, <1>4, <1>5
  <2>2. CASE i <= Position
    BY <2>1, <2>2, <1>2, <1>7
  <2>3. CASE i > Position
    <3>1. i - Position \in 1 .. (k - 1) /\ i - Position \in 1 .. Len(buffered)
      BY <2>1, <2>3, <1>2, <1>4
    <3>2. Position + (i - Position) = i
      BY <2>1, <1>2
    <3> QED
      BY <3>1, <3>2, <1>4, <1>8
  <2> QED
    BY <2>1, <2>2, <2>3, <1>2
<1>11. s <= Position'
  BY <1>2, <1>4, <1>5, <1>7
<1> QED
  BY <1>1, <1>5, <1>7, <1>9, <1>10, <1>11, JudgeKeepsReading

----------------------------------------------------------------------------
(* The other steps leave the reader alone                                  *)

\* No step of these starts or answers the question.
Apart ==
    /\ UNCHANGED <<reader, asked, answer>>
    /\ pc' = pc \/ (pc \notin Asking /\ pc' \in Removing \cup {"exited"})
       \/ (pc = "start" /\ pc' = "confirm")

\* The command line is rejected or taken.
LEMMA StartIsApart ==
    ASSUME Reject \/ StartUnlink \/ StartRm
    PROVE Apart /\ pc = "start"
BY DEF Reject, StartUnlink, StartRm, Return, Apart, Asking, Removing, prompt

\* An operand is done with.
LEMMA FinishMovesOn ==
    ASSUME NEW counts, Finish(counts)
    PROVE pc' \in {"lstat", "exited"}
BY DEF Finish, Return, NextOperand

\* A removal is done with its operand.
LEMMA RemovalMovesOn ==
    ASSUME NEW call, NEW excused, RemoveIt(call, excused)
    PROVE pc' \in {"lstat", "exited"}
BY FinishMovesOn DEF RemoveIt

\* So are the steps of RunRm, of the walks and of others, and the looks that
\* ConfirmPromptOnce takes at the operands.
LEMMA RemovalIsApart ==
    ASSUME \/ Count \/ Lstat \/ LstatFails \/ UnlinkIt \/ IsDirectory \/ RmdirIt
           \/ OpenIt \/ RmdirUnopened \/ Exit \/ WalkEnds \/ Interfere
    PROVE Apart
<1>1. CASE Lstat
  BY <1>1 DEF Lstat, Apart, Asking, Removing, prompt
<1>2. CASE LstatFails
  BY <1>2, FinishMovesOn DEF LstatFails, Apart, Asking, Removing, prompt
<1>3. CASE UnlinkIt
  BY <1>3, RemovalMovesOn DEF UnlinkIt, Apart, Asking, Removing, prompt
<1>4. CASE IsDirectory
  BY <1>4, FinishMovesOn DEF IsDirectory, Apart, Asking, Removing, prompt
<1>5. CASE RmdirIt
  BY <1>5, RemovalMovesOn DEF RmdirIt, Apart, Asking, Removing, prompt
<1>6. CASE OpenIt
  BY <1>6, FinishMovesOn DEF OpenIt, Apart, Asking, Removing, prompt
<1>7. CASE RmdirUnopened
  BY <1>7, RemovalMovesOn DEF RmdirUnopened, Apart, Asking, Removing, prompt
<1>8. CASE Exit
  BY <1>8 DEF Exit, Return, Apart, Asking, Removing, prompt
<1>9. CASE WalkEnds
  BY <1>9 DEF WalkEnds, Apart, prompt
<1>10. CASE Interfere
  BY <1>10 DEF Interfere, Apart, reader, prompt
<1>11. CASE Count
  BY <1>11 DEF Count, Apart
<1> QED
  BY <1>1, <1>2, <1>3, <1>4, <1>5, <1>6, <1>7, <1>8, <1>9, <1>10, <1>11

\* Apart, what was read and answered stays true.
LEMMA ApartKeepsReading ==
    ASSUME Reading, Apart
    PROVE Reading'
<1>1. /\ input' = input /\ unread' = unread /\ buffered' = buffered
      /\ first' = first /\ badRead' = badRead /\ answer' = answer
  BY DEF Apart, reader
<1>2. LineStarts' = LineStarts /\ Decisive' = Decisive /\ Verdict' = Verdict
  BY <1>1, SameLines
<1>3. Strings' /\ Judged' /\ Position' = Position
  BY <1>1, <1>2 DEF Reading, Strings, Judged, Position
<1>4. /\ pc' \in Before => pc \in Before
      /\ pc' \in Asking => pc' = pc
  BY DEF Apart, Before, Asking, Removing
<1>5. pc' \in Asking => InPlace'
  BY <1>1, <1>3, <1>4 DEF Reading, InPlace
<1>6. pc' = "first" => AtLine'
  BY <1>1, <1>2, <1>3, <1>4 DEF Reading, AtLine, Asking
<1>7. pc' = "skip" => \E s \in 1 .. Position' : InLine(s)'
  BY <1>1, <1>2, <1>3, <1>4 DEF Reading, InLine, Asking
<1> QED
  BY <1>1, <1>3, <1>4, <1>5, <1>6, <1>7 DEF Reading

\* The question is asked, or there is no need to.
LEMMA ConfirmReading ==
    ASSUME Reading, Confirm
    PROVE Reading'
<1>1. /\ pc = "confirm" /\ unread' = input' /\ buffered' = buffered
      /\ answer' = answer /\ badRead' = badRead
  BY DEF Confirm
<1>2. \/ input' \in Inputs /\ pc' = "first"
      \/ input' = input /\ pc' = "lstat"
  BY DEF Confirm
<1>3. Strings /\ buffered = <<>> /\ answer = "none" /\ ~badRead
  BY <1>1 DEF Reading, Before
<1>4. Strings' /\ Judged'
  BY <1>1, <1>2, <1>3, InputAssumption DEF Strings, Judged
<1>5. CASE pc' = "lstat"
  BY <1>5, <1>4 DEF Reading, Before, Asking
<1>6. CASE pc' = "first"
  <2>1. Len(buffered') = 0 /\ Len(input') \in Nat
    BY <1>1, <1>3, <1>4 DEF Strings
  <2>2. Position' = 0
    BY <1>1, <2>1 DEF Position
  <2>3. InPlace'
    BY <1>1, <2>1, <2>2 DEF InPlace
  <2>4. Decisive' \subseteq 1 .. Len(input')
    BY <1>4 DEF Decisive, LineStarts, Strings
  <2>5. AtLine'
    BY <2>1, <2>2, <2>4 DEF AtLine
  <2> QED
    BY <1>1, <1>3, <1>4, <1>6, <2>3, <2>5 DEF Reading, Before, Asking
<1> QED
  BY <1>2, <1>5, <1>6

\* Every step keeps what was read and answered true.
LEMMA StepKeepsReading ==
    ASSUME Reading, [Next]_vars
    PROVE Reading'
<1>1. CASE Reject \/ StartUnlink \/ StartRm
  BY <1>1, StartIsApart, ApartKeepsReading
<1>2. CASE Confirm
  BY <1>2, ConfirmReading
<1>3. CASE Fill
  BY <1>3, FillKeepsReading
<1>4. CASE FillEnds
  BY <1>4, FillEndsReading
<1>5. CASE ReadByte
  BY <1>5, ReadByteReading
<1>6. CASE SkipPast
  BY <1>6, SkipPastReading
<1>7. CASE \/ Count \/ Lstat \/ LstatFails \/ UnlinkIt \/ IsDirectory \/ RmdirIt
           \/ OpenIt \/ RmdirUnopened \/ Exit \/ WalkEnds \/ Interfere
  BY <1>7, RemovalIsApart, ApartKeepsReading
<1>8. CASE UNCHANGED vars
  <2>1. Apart
    BY <1>8 DEF vars, Apart, reader, prompt
  <2> QED
    BY <2>1, ApartKeepsReading
<1> QED
  BY <1>1, <1>2, <1>3, <1>4, <1>5, <1>6, <1>7, <1>8 DEF Next, Step

\* At first nothing is read.
LEMMA InitReading ==
    ASSUME Init
    PROVE Reading
<1>1. Strings /\ answer = "none" /\ ~badRead /\ pc = "start" /\ buffered = <<>>
  BY DEF Init, Strings
<1> QED
  BY <1>1 DEF Reading, Judged, Before, Asking

\* ConfirmPromptOnce: the answer is what the first line that starts with y or n
\* says, or no, in whatever pieces the reads return the input and however small
\* the buffer of BufferedReader.
THEOREM AnswersTheLines == Spec => []AnswerIsTheLines
<1>1. Reading => AnswerIsTheLines
  BY DEF Reading, Judged, AnswerIsTheLines
<1> QED
  BY <1>1, InitReading, StepKeepsReading, PTL DEF Spec

----------------------------------------------------------------------------
(* The operands that are left                                              *)

\* The operands are arguments.
LEMMA OperandsAreStrings ==
    ASSUME NEW args \in Seq(STRING)
    PROVE Operands(args) \in Seq(STRING)
<1> DEFINE S == {0} \cup {n \in DOMAIN args : \A i \in 1 .. n : IsOption(args[i])}
<1> DEFINE n == OptionCount(args)
<1>1. S # {} /\ S \subseteq 0 .. Len(args)
  OBVIOUS
<1>2. n \in 0 .. Len(args)
  <2>1. PICK x \in S : \A y \in S : x >= y
    <3> DEFINE T == {Len(args) - x : x \in S}
    <3>1. T \subseteq Nat /\ T # {}
      BY <1>1
    <3>2. PICK t \in T : \A u \in T : t <= u
      BY <3>1, LeastExists
    <3>3. PICK x \in S : t = Len(args) - x
      OBVIOUS
    <3>4. ASSUME NEW y \in S PROVE x >= y
      <4>1. Len(args) - y \in T /\ x \in Nat /\ y \in Nat /\ Len(args) \in Nat
        BY <1>1
      <4>2. t <= Len(args) - y
        BY <3>2, <4>1
      <4> QED
        BY <3>3, <4>1, <4>2
    <3> QED
      BY <3>4
  <2>2. n = CHOOSE z \in S : \A y \in S : z >= y
    BY DEF OptionCount, Max
  <2> QED
    BY <1>1, <2>1, <2>2
<1> HIDE DEF S, n
<1>3. n \in Nat /\ Len(args) \in Nat
  BY <1>2
<1>4. \E skip \in {n, n + 1} : Operands(args) = SubSeq(args, skip + 1, Len(args))
  BY DEF Operands, n
<1>5. ASSUME NEW k \in Nat PROVE SubSeq(args, k + 1, Len(args)) \in Seq(STRING)
  BY <1>3
<1> QED
  BY <1>3, <1>4, <1>5

\* What is kept of s up to n, from what is kept up to n - 1.
Keeps(s, f, n) ==
    f = [i \in 0 .. n |->
            IF i = 0 THEN <<>>
            ELSE IF s[i] \in Protected THEN f[i - 1]
            ELSE Append(f[i - 1], s[i])]

\* There is such a function up to any n.
LEMMA KeptExists ==
    ASSUME NEW s, NEW n \in Nat
    PROVE \E f : Keeps(s, f, n)
<1> DEFINE T == {m \in Nat : ~\E f : Keeps(s, f, m)}
<1>1. SUFFICES T = {}
  OBVIOUS
<1>2. SUFFICES ASSUME T # {} PROVE FALSE
  OBVIOUS
<1>3. PICK m \in T : \A y \in T : m <= y
  BY <1>2, LeastExists
<1>4. m # 0
  <2>1. Keeps(s, [i \in 0 .. 0 |-> <<>>], 0)
    BY DEF Keeps
  <2> QED
    BY <2>1
<1>5. m - 1 \in Nat /\ m - 1 \notin T
  BY <1>3, <1>4
<1>6. PICK g : Keeps(s, g, m - 1)
  BY <1>5
<1> DEFINE h == [i \in 0 .. m |->
                    IF i # m THEN g[i]
                    ELSE IF s[m] \in Protected THEN g[m - 1]
                    ELSE Append(g[m - 1], s[m])]
<1>7. ASSUME NEW i \in 0 .. m
      PROVE h[i] = IF i = 0 THEN <<>>
                   ELSE IF s[i] \in Protected THEN h[i - 1]
                   ELSE Append(h[i - 1], s[i])
  <2>1. CASE i = m
    <3>1. m - 1 \in 0 .. m /\ m - 1 # m
      BY <1>5
    <3>2. h[m - 1] = g[m - 1]
      BY <3>1
    <3> QED
      BY <2>1, <3>2, <1>4
  <2>2. CASE i # m
    <3>1. i \in 0 .. (m - 1)
      BY <2>2, <1>5
    <3>2. g[i] = IF i = 0 THEN <<>>
                 ELSE IF s[i] \in Protected THEN g[i - 1]
                 ELSE Append(g[i - 1], s[i])
      BY <3>1, <1>6 DEF Keeps
    <3>3. i # 0 => i - 1 \in 0 .. m /\ i - 1 # m
      BY <3>1, <1>5
    <3>4. i # 0 => h[i - 1] = g[i - 1]
      BY <3>3
    <3> QED
      BY <2>2, <3>2, <3>4
  <2> QED
    BY <2>1, <2>2
<1>8. h = [i \in 0 .. m |->
             IF i = 0 THEN <<>>
             ELSE IF s[i] \in Protected THEN h[i - 1]
             ELSE Append(h[i - 1], s[i])]
  BY <1>7
<1>9. Keeps(s, h, m)
  BY <1>8 DEF Keeps
<1> QED
  BY <1>3, <1>9

\* What is kept up to i are the elements up to i that are not protected.
LEMMA KeptIsTheRest ==
    ASSUME NEW S, NEW s \in Seq(S), NEW n \in 0 .. Len(s), NEW f, Keeps(s, f, n)
    PROVE /\ f[n] \in Seq(S)
          /\ ToSet(f[n]) = {s[i] : i \in 1 .. n} \ Protected
<1> DEFINE Good(m) == /\ f[m] \in Seq(S)
                      /\ ToSet(f[m]) = {s[i] : i \in 1 .. m} \ Protected
<1> DEFINE T == {m \in 0 .. n : ~Good(m)}
<1>1. SUFFICES ASSUME T # {} PROVE FALSE
  <2>1. n \in 0 .. n
    OBVIOUS
  <2>2. T = {} => Good(n)
    BY <2>1
  <2> HIDE DEF T
  <2> QED
    BY <2>2
<1>2. n \in Nat /\ T \subseteq Nat
  OBVIOUS
<1>3. PICK m \in T : \A y \in T : m <= y
  BY <1>1, <1>2, LeastExists
<1>4. m \in 0 .. n /\ ~Good(m)
  OBVIOUS
<1>5. f[m] = IF m = 0 THEN <<>>
             ELSE IF s[m] \in Protected THEN f[m - 1]
             ELSE Append(f[m - 1], s[m])
  BY <1>4 DEF Keeps
<1>6. m # 0
  <2>1. m = 0 => f[m] = <<>>
    BY <1>5
  <2>2. <<>> \in Seq(S) /\ ToSet(<<>>) = {}
    BY DEF ToSet
  <2>3. ASSUME m = 0 PROVE {s[i] : i \in 1 .. m} = {}
    BY <2>3
  <2>4. m = 0 => Good(m)
    BY <2>1, <2>2, <2>3
  <2> QED
    BY <2>4, <1>4
<1>7. m - 1 \in 0 .. n /\ Good(m - 1)
  <2>1. m - 1 \in 0 .. n /\ ~(m <= m - 1)
    BY <1>2, <1>4, <1>6
  <2> QED
    BY <2>1, <1>3
<1>8. s[m] \in S /\ m \in 1 .. Len(s)
  BY <1>2, <1>4, <1>6
<1>9. {s[i] : i \in 1 .. m} = {s[i] : i \in 1 .. (m - 1)} \cup {s[m]}
  <2>1. 1 .. m = (1 .. (m - 1)) \cup {m}
    BY <1>2, <1>4, <1>6
  <2> QED
    BY <2>1
<1>10. CASE s[m] \in Protected
  BY <1>4, <1>5, <1>6, <1>7, <1>9, <1>10
<1>11. CASE s[m] \notin Protected
  <2>1. f[m] = Append(f[m - 1], s[m])
    BY <1>5, <1>6, <1>11
  <2>2. f[m] \in Seq(S) /\ ToSet(f[m]) = ToSet(f[m - 1]) \cup {s[m]}
    <3>1. f[m - 1] \in Seq(S)
      BY <1>7
    <3>2. ASSUME NEW q \in Seq(S), NEW e \in S
          PROVE Append(q, e) \in Seq(S) /\ ToSet(Append(q, e)) = ToSet(q) \cup {e}
      <4>1. /\ Append(q, e) \in Seq(S) /\ Len(Append(q, e)) = Len(q) + 1
            /\ \A i \in 1 .. Len(q) : Append(q, e)[i] = q[i]
            /\ Append(q, e)[Len(q) + 1] = e
        BY AppendProperties
      <4>2. Len(q) \in Nat /\ DOMAIN q = 1 .. Len(q)
        OBVIOUS
      <4>3. DOMAIN Append(q, e) = (1 .. Len(q)) \cup {Len(q) + 1}
        <5>1. DOMAIN Append(q, e) = 1 .. (Len(q) + 1)
          BY <4>1
        <5> QED
          BY <5>1, <4>2
      <4> DEFINE a == Append(q, e)
      <4>4. ToSet(a) = {a[i] : i \in (1 .. Len(q)) \cup {Len(q) + 1}}
        BY <4>3 DEF ToSet
      <4>5. ToSet(q) = {q[i] : i \in 1 .. Len(q)}
        BY <4>2 DEF ToSet
      <4> HIDE DEF a
      <4>6. (\A i \in 1 .. Len(q) : a[i] = q[i]) /\ a[Len(q) + 1] = e
        BY <4>1 DEF a
      <4>7. ToSet(a) = ToSet(q) \cup {e}
        BY <4>4, <4>5, <4>6
      <4> QED
        BY <4>1, <4>7 DEF a
    <3> HIDE DEF Good
    <3> QED
      BY <3>1, <3>2, <2>1, <1>8
  <2> QED
    BY <1>4, <1>7, <1>9, <1>11, <2>2
<1> QED
  BY <1>10, <1>11

\* Cli::DropUnremovableOperands keeps the operands that are not protected.
LEMMA RemovableIsTheRest ==
    ASSUME NEW args \in Seq(STRING)
    PROVE /\ Removable(args) \in Seq(STRING)
          /\ ToSet(Removable(args)) = ToSet(Operands(args)) \ Protected
<1> DEFINE s == Operands(args)
<1>1. s \in Seq(STRING) /\ Len(s) \in Nat /\ ToSet(s) = {s[i] : i \in 1 .. Len(s)}
  BY OperandsAreStrings DEF ToSet
<1> DEFINE f == CHOOSE g : Keeps(s, g, Len(s))
<1>2. Keeps(s, f, Len(s))
  BY <1>1, KeptExists
<1>3. Removable(args) = f[Len(s)]
  BY DEF Removable, Keeps
<1> HIDE DEF f, s
<1>4. /\ f[Len(s)] \in Seq(STRING)
      /\ ToSet(f[Len(s)]) = {s[i] : i \in 1 .. Len(s)} \ Protected
  <2>1. Len(s) \in 0 .. Len(s)
    BY <1>1
  <2>2. PICK S : S = STRING
    OBVIOUS
  <2>3. s \in Seq(S)
    BY <1>1, <2>2
  <2>4. f[Len(s)] \in Seq(S) /\ ToSet(f[Len(s)]) = {s[i] : i \in 1 .. Len(s)} \ Protected
    BY <2>1, <2>3, <1>2, KeptIsTheRest
  <2>5. f[Len(s)] \in Seq(STRING)
    BY <2>2, <2>4
  <2> QED
    BY <2>4, <2>5
<1> QED
  BY <1>1, <1>3, <1>4 DEF s

----------------------------------------------------------------------------
(* What a step does to the operands                                        *)

\* What is known of a command line.
LEMMA CommandIsTyped ==
    ASSUME cmd \in Commands
    PROVE /\ cmd.unlink \in BOOLEAN /\ cmd.args \in Seq(STRING)
          /\ cmd.unlink /\ cmd.args # <<>> => Last(cmd.args) \in Path
          /\ cmd.unlink /\ ~IsUsageError => cmd.args # <<>> /\ Last(cmd.args) \in STRING
          /\ Removable(cmd.args) \in Seq(STRING)
          /\ ToSet(Removable(cmd.args)) = Named \ Protected
          /\ ~cmd.unlink => Named \ Protected \subseteq Path
<1>1. cmd.unlink \in BOOLEAN /\ cmd.args \in Seq(STRING)
  BY CommandAssumption
<1>2. cmd.unlink /\ cmd.args # <<>> => Last(cmd.args) \in Path
  BY OperandAssumption
<1>3. cmd.unlink /\ ~IsUsageError => cmd.args # <<>> /\ Last(cmd.args) \in STRING
  BY <1>1 DEF IsUsageError, Last
<1>4. ~cmd.unlink => Named \ Protected \subseteq Path
  BY OperandAssumption DEF Named
<1> QED
  BY <1>1, <1>2, <1>3, <1>4, RemovableIsTheRest DEF Named

\* The first operand is one, and the others are the rest.
LEMMA FirstAndRest ==
    ASSUME operands \in Seq(STRING), operands # <<>>
    PROVE /\ Tail(operands) \in Seq(STRING)
          /\ ToSet(operands) = {At} \cup ToSet(Tail(operands))
<1>1. Len(operands) \in Nat \ {0} /\ DOMAIN operands = 1 .. Len(operands)
  OBVIOUS
<1>2. /\ Tail(operands) \in Seq(STRING) /\ Len(Tail(operands)) = Len(operands) - 1
      /\ \A i \in 1 .. (Len(operands) - 1) : Tail(operands)[i] = operands[i + 1]
  BY <1>1
<1>3. At = operands[1]
  BY DEF At
<1>4. DOMAIN Tail(operands) = 1 .. (Len(operands) - 1)
  BY <1>2
<1>5. ASSUME NEW x \in ToSet(operands) PROVE x \in {At} \cup ToSet(Tail(operands))
  <2>1. PICK i \in 1 .. Len(operands) : x = operands[i]
    BY <1>1, <1>5 DEF ToSet
  <2>2. CASE i = 1
    BY <2>1, <2>2, <1>3
  <2>3. CASE i # 1
    <3>1. i - 1 \in 1 .. (Len(operands) - 1) /\ (i - 1) + 1 = i
      BY <2>3, <1>1
    <3>2. Tail(operands)[i - 1] = x
      BY <3>1, <2>1, <1>2
    <3> QED
      BY <3>1, <3>2, <1>4 DEF ToSet
  <2> QED
    BY <2>2, <2>3
<1>6. ASSUME NEW x \in ToSet(Tail(operands)) PROVE x \in ToSet(operands)
  <2>1. PICK i \in 1 .. (Len(operands) - 1) : x = Tail(operands)[i]
    BY <1>4, <1>6 DEF ToSet
  <2>2. i + 1 \in 1 .. Len(operands) /\ operands[i + 1] = x
    BY <2>1, <1>1, <1>2
  <2> QED
    BY <2>2, <1>1 DEF ToSet
<1>7. At \in ToSet(operands)
  BY <1>1, <1>3 DEF ToSet
<1> QED
  BY <1>2, <1>5, <1>6, <1>7

\* While no walk begins or ends, the same directories are walked.
LEMMA SameWalks ==
    ASSUME walks' = walks
    PROVE seeded' = seeded
BY DEF seeded

\* A walk begins.
LEMMA WalkMore ==
    ASSUME walks \in [Path -> Nat], NEW p \in Path,
           walks' = [walks EXCEPT ![p] = @ + 1]
    PROVE walks' \in [Path -> Nat] /\ seeded' = seeded \cup {p}
BY DEF seeded

\* A walk ends; there may be another of the same directory.
LEMMA WalkLess ==
    ASSUME walks \in [Path -> Nat], NEW p \in seeded,
           walks' = [walks EXCEPT ![p] = @ - 1]
    PROVE /\ p \in Path /\ walks' \in [Path -> Nat]
          /\ seeded' \subseteq seeded /\ seeded \ {p} \subseteq seeded'
BY DEF seeded

\* The world stays, or the first operand goes.
Goes ==
    \/ UNCHANGED world
    \/ kind' = [kind EXCEPT ![At] = "none"] /\ removed' = removed \cup {At}

\* What excuses or explains that RunRm is done with an operand.
Excused ==
    \/ kind'[At] = "none"
    \/ ~cmd.unlink /\ At \in seeded'
    \/ ~cmd.unlink /\ Hushes /\ <<"lstat", "EACCES", At>> \in failed'

Explained == \E f \in failed' : f[2] # "ENOENT" \/ cmd.unlink \/ ~force

\* RunRm or RunUnlink is done with the first operand, with a failure or not.
Deals(counts) ==
    /\ pc \in Removing /\ operands # <<>> /\ counts \in BOOLEAN
    /\ UNCHANGED <<given, prompt, walkFailed>>
    /\ Finish(counts)
    /\ Goes
    /\ walks' \in [Path -> Nat]
    /\ seeded' = seeded \/ (~cmd.unlink /\ seeded' = seeded \cup {At})
    /\ failed \subseteq failed'
    /\ IF counts THEN Explained ELSE Excused

\* Typed says that there is a first operand, and of what kind.
LEMMA FirstIsPath ==
    ASSUME Typed, operands # <<>>
    PROVE At \in Path /\ kind[At] \in Kind /\ DOMAIN kind = Path
<1>1. At \in ToSet(operands)
  BY FirstAndRest DEF Typed
<1> QED
  BY <1>1 DEF Typed

\* A removal deals with the operand, when what it excuses is that it is gone.
LEMMA RemovalDeals ==
    ASSUME Typed, pc \in {"act", "rmdir"}, NEW call \in {"unlink", "rmdir"},
           NEW excused, excused \subseteq {"ENOENT"},
           "ENOENT" \in excused \/ cmd.unlink \/ ~force,
           RemoveIt(call, excused), UNCHANGED <<given, prompt, walks, walkFailed>>
    PROVE \E counts \in BOOLEAN : Deals(counts)
<1>1. operands # <<>> /\ pc \in Removing
  BY DEF Typed, Removing
<1>2. At \in Path /\ DOMAIN kind = Path
  BY <1>1, FirstIsPath
<1>3. PICK error \in Answers(call, At) :
        /\ Note(call, error)
        /\ Finish(error \notin {"ok"} \cup excused)
        /\ IF error = "ok"
           THEN /\ kind' = [kind EXCEPT ![At] = "none"]
                /\ removed' = removed \cup {At}
           ELSE UNCHANGED world
  BY DEF RemoveIt
<1> DEFINE counts == error \notin {"ok"} \cup excused
<1>4. error = "ENOENT" => kind[At] = "none"
  BY DEF Answers, Outcomes
<1>5. failed \subseteq failed' /\ (error # "ok" => <<call, error, At>> \in failed')
  BY <1>3 DEF Note
<1>6. Goes
  BY <1>3 DEF Goes
<1>7. ASSUME counts PROVE Explained
  <2>1. <<call, error, At>> \in failed' /\ <<call, error, At>>[2] = error
    BY <1>5, <1>7
  <2>2. error # "ENOENT" \/ cmd.unlink \/ ~force
    BY <1>7
  <2> QED
    BY <2>1, <2>2 DEF Explained
<1>8. ASSUME ~counts PROVE Excused
  <2>1. CASE error = "ok"
    BY <2>1, <1>2, <1>3 DEF Excused
  <2>2. CASE error # "ok"
    <3>1. error = "ENOENT" /\ kind' = kind
      BY <2>2, <1>3, <1>8 DEF world
    <3> QED
      BY <3>1, <1>4 DEF Excused
  <2> QED
    BY <2>1, <2>2
<1>9. counts \in BOOLEAN /\ Finish(counts)
  BY <1>3
<1> HIDE DEF counts
<1>10. Deals(counts)
  BY <1>1, <1>5, <1>6, <1>7, <1>8, <1>9, SameWalks DEF Deals, Typed
<1> QED
  BY <1>9, <1>10

\* lstat fails: nothing is there, or it is refused and counts unless hushed.
LEMMA LstatFailsDeals ==
    ASSUME Typed, LstatFails
    PROVE \E counts \in BOOLEAN : Deals(counts)
<1>1. /\ pc \in Removing /\ operands # <<>>
      /\ UNCHANGED <<given, prompt, walks, walkFailed>> /\ UNCHANGED world
  BY DEF LstatFails, Removing
<1>2. PICK error \in {"ENOENT", "EACCES"} :
        /\ error = "ENOENT" <=> kind[At] = "none"
        /\ Note("lstat", error)
        /\ Finish(cmd.unlink \/ (~Hushes /\ (~force \/ error # "ENOENT")))
  BY DEF LstatFails
<1> DEFINE counts == cmd.unlink \/ (~Hushes /\ (~force \/ error # "ENOENT"))
<1>3. failed \subseteq failed' /\ <<"lstat", error, At>> \in failed'
  BY <1>2 DEF Note
<1>4. ASSUME counts PROVE Explained
  <2>1. <<"lstat", error, At>>[2] = error
    OBVIOUS
  <2> QED
    BY <1>3, <1>4, <2>1 DEF Explained
<1>5. ASSUME ~counts PROVE Excused
  <2>1. CASE error = "ENOENT"
    BY <2>1, <1>1, <1>2 DEF Excused, world
  <2>2. CASE error # "ENOENT"
    BY <2>2, <1>2, <1>3, <1>5 DEF Excused
  <2> QED
    BY <2>1, <2>2
<1>6. counts \in BOOLEAN /\ Finish(counts)
  <2>1. cmd.unlink \in BOOLEAN
    BY CommandIsTyped DEF Typed
  <2> QED
    BY <1>2, <2>1
<1> HIDE DEF counts
<1>7. Deals(counts)
  BY <1>1, <1>3, <1>4, <1>5, <1>6, SameWalks DEF Deals, Goes, Typed
<1> QED
  BY <1>6, <1>7

\* A directory that is not to be removed is a failure.
LEMMA IsDirectoryDeals ==
    ASSUME Typed, IsDirectory
    PROVE Deals(TRUE)
<1>1. /\ pc \in Removing /\ operands # <<>> /\ Finish(TRUE)
      /\ UNCHANGED <<given, prompt, walks, walkFailed>> /\ UNCHANGED world
  BY DEF IsDirectory, Typed, Removing
<1>2. failed' = failed \cup {<<"none", "EISDIR", At>>}
  BY DEF IsDirectory, Note
<1>3. <<"none", "EISDIR", At>>[2] # "ENOENT"
  OBVIOUS
<1>4. Explained
  BY <1>2, <1>3 DEF Explained
<1> QED
  BY <1>1, <1>2, <1>4, SameWalks DEF Deals, Goes, Typed

\* A directory that cannot be opened is tried with rmdir under -f.
Retries ==
    /\ pc \in Removing /\ pc' \in Removing /\ operands # <<>>
    /\ UNCHANGED <<given, world, operands, walks, failures, exit, prompt, walkFailed>>
    /\ failed \subseteq failed'

\* The directory is opened and given to the scheduler, or that fails.
LEMMA OpenItDeals ==
    ASSUME Typed, OpenIt
    PROVE Retries \/ \E counts \in BOOLEAN : Deals(counts)
<1>1. /\ pc \in Removing /\ operands # <<>> /\ ~cmd.unlink
      /\ UNCHANGED <<given, prompt, walkFailed>> /\ UNCHANGED world
  BY DEF OpenIt, Typed, Removing
<1>2. PICK error \in Answers("open", At) :
        /\ Note("open", error)
        /\ IF error # "ok" /\ force
           THEN pc' = "rmdir" /\ UNCHANGED <<operands, failures, exit>>
           ELSE Finish(error # "ok")
        /\ walks' = IF error = "ok" THEN [walks EXCEPT ![At] = @ + 1] ELSE walks
  BY DEF OpenIt
<1>3. failed \subseteq failed' /\ (error # "ok" => <<"open", error, At>> \in failed')
  BY <1>2 DEF Note
<1>4. CASE error = "ok"
  <2>1. Excused
    BY <1>1, <1>2, <1>4, FirstIsPath, WalkMore DEF Excused, Typed
  <2>2. Finish(FALSE)
    BY <1>2, <1>4
  <2>3. Deals(FALSE)
    BY <1>1, <1>2, <1>3, <1>4, <2>1, <2>2, FirstIsPath, WalkMore DEF Deals, Goes, Typed
  <2> QED
    BY <2>3
<1>5. CASE error # "ok" /\ force
  BY <1>1, <1>2, <1>3, <1>5 DEF Retries, Removing
<1>6. CASE error # "ok" /\ ~force
  <2>1. Explained
    BY <1>3, <1>6 DEF Explained
  <2>2. Finish(TRUE)
    BY <1>2, <1>6
  <2>3. Deals(TRUE)
    BY <1>1, <1>2, <1>3, <1>6, <2>1, <2>2, SameWalks DEF Deals, Goes, Typed
  <2> QED
    BY <2>3
<1> QED
  BY <1>4, <1>5, <1>6

\* lstat tells what the operand is.
LEMMA LstatRetries ==
    ASSUME Lstat
    PROVE Retries
BY DEF Lstat, Retries, Removing, histories, prompt

\* The steps of RunRm and RunUnlink on an operand.
LEMMA OperandStep ==
    ASSUME Typed,
           \/ Lstat \/ LstatFails \/ UnlinkIt \/ IsDirectory \/ RmdirIt
           \/ OpenIt \/ RmdirUnopened
    PROVE Retries \/ \E counts \in BOOLEAN : Deals(counts)
<1>1. CASE Lstat
  BY <1>1, LstatRetries
<1>2. CASE LstatFails
  BY <1>2, LstatFailsDeals
<1>3. CASE UnlinkIt
  <2> DEFINE excused == IF cmd.unlink \/ ~force THEN {} ELSE {"ENOENT"}
  <2>1. /\ RemoveIt("unlink", excused) /\ UNCHANGED <<given, prompt, walks, walkFailed>>
        /\ pc \in {"act", "rmdir"}
    BY <1>3 DEF UnlinkIt
  <2>2. excused \subseteq {"ENOENT"} /\ ("ENOENT" \in excused \/ cmd.unlink \/ ~force)
    OBVIOUS
  <2> HIDE DEF excused
  <2> QED
    BY <2>1, <2>2, RemovalDeals
<1>4. CASE IsDirectory
  BY <1>4, IsDirectoryDeals
<1>5. CASE RmdirIt
  <2> DEFINE excused == IF force THEN {"ENOENT"} ELSE {}
  <2>1. /\ RemoveIt("rmdir", excused) /\ UNCHANGED <<given, prompt, walks, walkFailed>>
        /\ pc \in {"act", "rmdir"}
    BY <1>5 DEF RmdirIt
  <2>2. excused \subseteq {"ENOENT"} /\ ("ENOENT" \in excused \/ cmd.unlink \/ ~force)
    OBVIOUS
  <2> HIDE DEF excused
  <2> QED
    BY <2>1, <2>2, RemovalDeals
<1>6. CASE OpenIt
  BY <1>6, OpenItDeals
<1>7. CASE RmdirUnopened
  <2>1. /\ RemoveIt("rmdir", {"ENOENT"})
        /\ UNCHANGED <<given, prompt, walks, walkFailed>>
        /\ pc \in {"act", "rmdir"}
    BY <1>7 DEF RmdirUnopened
  <2> QED
    BY <2>1, RemovalDeals
<1> QED
  BY <1>1, <1>2, <1>3, <1>4, <1>5, <1>6, <1>7

\* A step of the question: it goes on, allows, or declines.
Asks ==
    /\ pc \in {"confirm"} \cup Asking
    /\ UNCHANGED <<given, world, operands, walks, failures, histories>>
    /\ asked' \in BOOLEAN /\ (pc # "confirm" => asked' = asked)
    /\ \/ pc' = pc /\ asked' = asked /\ exit' = exit
       \/ pc' \in Asking /\ exit' = exit
       \/ pc' = "lstat" /\ exit' = exit /\ (asked' => answer' = "yes")
       \/ pc' = "exited" /\ exit' = 1 /\ answer' = "no"

\* Whatever the line says, the question goes on, allows or declines.
LEMMA JudgeAsks ==
    ASSUME NEW ch, NEW lineEnded \in BOOLEAN, Judge(ch, lineEnded)
    PROVE \/ pc' \in Asking /\ exit' = exit
          \/ pc' = "lstat" /\ exit' = exit /\ answer' = "yes"
          \/ pc' = "exited" /\ exit' = 1 /\ answer' = "no"
BY JudgeDecides DEF Asking

\* So do the steps of ConfirmPromptOnce.
LEMMA QuestionStep ==
    ASSUME Typed, Allowance, Count \/ Confirm \/ Fill \/ FillEnds \/ ReadByte \/ SkipPast
    PROVE Asks
<1>1. CASE Confirm
  <2>1. /\ pc = "confirm"
        /\ UNCHANGED <<given, world, operands, walks, failures, histories, exit>>
    BY <1>1 DEF Confirm
  <2>2. asked' \in BOOLEAN /\ (pc' = "first" \/ (pc' = "lstat" /\ ~asked'))
    BY <1>1 DEF Confirm, Typed, Allowance, Before
  <2> QED
    BY <2>1, <2>2 DEF Asks, Asking
<1>2. CASE Fill
  BY <1>2 DEF Fill, NeedsFill, Asks, Asking, Typed, prompt
<1>3. CASE FillEnds
  <2>1. Judge(IF pc = "first" THEN "eof" ELSE first, FALSE)
    BY <1>3 DEF FillEnds
  <2> QED
    BY <1>3, <2>1, JudgeAsks DEF FillEnds, NeedsFill, Asks, Asking, Typed
<1>4. CASE ReadByte
  <2>1. Judge(Newline, TRUE) \/ (pc' = "skip" /\ exit' = exit)
    BY <1>4 DEF ReadByte
  <2> QED
    BY <1>4, <2>1, JudgeAsks DEF ReadByte, Asks, Asking, Typed
<1>5. CASE SkipPast
  <2>1. Judge(first, TRUE)
    BY <1>5 DEF SkipPast
  <2> QED
    BY <1>5, <2>1, JudgeAsks DEF SkipPast, Asks, Asking, Typed
<1>6. CASE Count
  BY <1>6 DEF Count, Asks, Typed
<1> QED
  BY <1>1, <1>2, <1>3, <1>4, <1>5, <1>6

\* Done with its operand, RunRm goes on to the next, and unlink(1) exits.
LEMMA DealsFinishes ==
    ASSUME Typed, NEW counts, Deals(counts)
    PROVE /\ counts \in BOOLEAN /\ cmd' = cmd /\ options' = options
          /\ cmd.unlink => /\ pc' = "exited" /\ exit' = IF counts THEN 1 ELSE 0
                           /\ operands' = operands /\ failures' = failures
          /\ ~cmd.unlink => /\ pc' = "lstat" /\ exit' = exit
                            /\ operands' = Tail(operands)
                            /\ failures' = failures + (IF counts THEN 1 ELSE 0)
          /\ operands' \in Seq(STRING)
          /\ ToSet(operands') \subseteq ToSet(operands)
          /\ failures' \in Nat /\ failures' >= failures
          /\ failures' = 0 /\ ~cmd.unlink => ~counts /\ failures = 0
<1>1. counts \in BOOLEAN /\ cmd' = cmd /\ options' = options /\ operands # <<>>
  BY DEF Deals, given
<1>2. /\ cmd.unlink => /\ pc' = "exited" /\ exit' = IF counts THEN 1 ELSE 0
                       /\ operands' = operands /\ failures' = failures
      /\ ~cmd.unlink => /\ pc' = "lstat" /\ exit' = exit
                        /\ operands' = Tail(operands)
                        /\ failures' = failures + (IF counts THEN 1 ELSE 0)
  BY DEF Deals, Finish, Return, NextOperand
<1>3. cmd.unlink \in BOOLEAN
  BY CommandIsTyped DEF Typed
<1>4. operands' \in Seq(STRING) /\ ToSet(operands') \subseteq ToSet(operands)
  BY <1>1, <1>2, <1>3, FirstAndRest DEF Typed
<1>5. failures \in Nat
  BY DEF Typed
<1>6. /\ failures' \in Nat /\ failures' >= failures
      /\ failures' = 0 /\ ~cmd.unlink => ~counts /\ failures = 0
  BY <1>1, <1>2, <1>3, <1>5
<1> QED
  BY <1>1, <1>2, <1>4, <1>6

\* At first all is typed.
LEMMA InitTyped ==
    ASSUME Init
    PROVE Typed
<1>1. operands \in Seq(STRING) /\ ToSet(operands) = {}
  BY DEF Init, ToSet
<1>2. kind \in [Path -> Kind]
  BY KindAssumption DEF Init
<1> QED
  BY <1>1, <1>2 DEF Init, Typed, Places, Before

\* Every step keeps the state typed.
LEMMA StepKeepsTyped ==
    ASSUME Typed, Allowance, [Next]_vars
    PROVE Typed'
<1>1. CASE Reject
  BY <1>1 DEF Typed, Reject, Return, given, world, prompt, Places
<1>2. CASE StartUnlink
  <2>1. /\ operands' = <<Last(cmd.args)>> /\ pc' = "lstat" /\ cmd.unlink /\ ~IsUsageError
        /\ UNCHANGED <<cmd, kind, walks, failures, asked>>
    BY <1>2 DEF StartUnlink, given, world, prompt
  <2>2. Last(cmd.args) \in Path /\ Last(cmd.args) \in STRING
    BY <2>1, CommandIsTyped DEF Typed
  <2>3. operands' \in Seq(STRING) /\ ToSet(operands') \subseteq Path
    BY <2>1, <2>2 DEF ToSet
  <2> QED
    BY <2>1, <2>3 DEF Typed, Places, Removing
<1>3. CASE StartRm
  <2>1. /\ operands' = Removable(cmd.args) /\ ~cmd.unlink
        /\ failures' = IF Dropped THEN 1 ELSE 0
        /\ pc' \in {"confirm", "lstat"}
        /\ UNCHANGED <<cmd, kind, walks, asked>>
    BY <1>3 DEF StartRm, world, prompt
  <2>2. operands' \in Seq(STRING) /\ ToSet(operands') \subseteq Path
    BY <2>1, CommandIsTyped DEF Typed
  <2>3. failures' \in Nat
    BY <2>1
  <2> QED
    BY <2>1, <2>2, <2>3 DEF Typed, Places, Before, Removing
<1>4. ASSUME Asks PROVE Typed'
  <2>1. UNCHANGED <<cmd, kind, operands, walks, failures>> /\ asked' \in BOOLEAN
    BY <1>4 DEF Asks, given, world
  <2>2. pc' \in {"confirm", "lstat", "exited"} \cup Asking
    BY <1>4 DEF Asks
  <2> QED
    BY <2>1, <2>2 DEF Typed, Places, Before, Asking, Removing
<1>5. ASSUME Retries PROVE Typed'
  BY <1>5 DEF Retries, Typed, Places, given, world, prompt
<1>6. ASSUME NEW counts \in BOOLEAN, Deals(counts) PROVE Typed'
  <2>1. At \in Path /\ DOMAIN kind = Path
    BY <1>6, FirstIsPath DEF Deals
  <2>2. kind' \in [Path -> Kind]
    BY <1>6, <2>1 DEF Deals, Goes, world, Typed, Kind
  <2>3. walks' \in [Path -> Nat]
    BY <1>6 DEF Deals
  <2>4. pc' \in {"lstat", "exited"}
    BY <1>6, FinishMovesOn DEF Deals
  <2>5. cmd' = cmd /\ asked' = asked
    BY <1>6 DEF Deals, given, prompt
  <2> QED
    BY <1>6, <2>2, <2>3, <2>4, <2>5, DealsFinishes DEF Typed, Places, Removing
<1>7. CASE Exit
  BY <1>7 DEF Typed, Exit, Return, given, world, prompt, Places
<1>8. CASE WalkEnds
  <2>1. PICK p \in seeded :
          /\ walks' = [walks EXCEPT ![p] = @ - 1]
          /\ kind' = [kind EXCEPT ![p] = "none"] \/ kind' = kind
    BY <1>8 DEF WalkEnds, world
  <2>2. failures' \in Nat
    <3>1. \E fails \in BOOLEAN : failures' = failures + (IF fails THEN 1 ELSE 0)
      BY <1>8 DEF WalkEnds
    <3> QED
      BY <3>1 DEF Typed
  <2>3. kind' \in [Path -> Kind]
    BY <2>1 DEF Typed, Kind
  <2>4. walks' \in [Path -> Nat]
    BY <2>1, WalkLess DEF Typed
  <2> QED
    BY <1>8, <2>2, <2>3, <2>4 DEF Typed, WalkEnds, given, prompt
<1>9. CASE Interfere
  <2>1. kind' \in [Path -> Kind]
    BY <1>9 DEF Interfere, Typed
  <2> QED
    BY <1>9, <2>1 DEF Typed, Interfere, given, prompt
<1>10. CASE UNCHANGED vars
  BY <1>10 DEF Typed, vars
<1> QED
  BY <1>1, <1>2, <1>3, <1>4, <1>5, <1>6, <1>7, <1>8, <1>9, <1>10,
     QuestionStep, OperandStep DEF Next, Step

----------------------------------------------------------------------------
(* What may go                                                             *)

\* At first nothing may.
LEMMA InitAllowance ==
    ASSUME Init
    PROVE Allowance
<1>1. ToSet(operands) \cup seeded \cup removed = {}
  BY DEF Init, ToSet, seeded
<1> QED
  BY <1>1 DEF Init, Allowance, Busy, Before, Asking, Removing

\* Every step keeps what may go to what is wanted and allowed.
LEMMA StepKeepsAllowance ==
    ASSUME Typed, Allowance, [Next]_vars
    PROVE Allowance'
<1>0. ASSUME cmd' = cmd
      PROVE IsUsageError' = IsUsageError /\ \A p : Wanted(p)' = Wanted(p)
  BY <1>0 DEF IsUsageError, Wanted, Named
<1>1. CASE Reject
  <2>1. /\ UNCHANGED <<cmd, operands, seeded, removed, asked, answer>>
        /\ pc = "start" /\ pc' = "exited"
    BY <1>1 DEF Reject, Return, given, world, prompt, seeded
  <2>2. ~Busy
    BY <2>1 DEF Allowance, Before
  <2> QED
    BY <2>1, <2>2, <1>0 DEF Allowance, Busy, Before, Asking, Removing
<1>2. CASE StartUnlink
  <2>1. /\ operands' = <<Last(cmd.args)>> /\ cmd.unlink /\ ~IsUsageError
        /\ UNCHANGED <<cmd, seeded, removed, asked, answer>>
        /\ pc = "start" /\ pc' = "lstat"
    BY <1>2 DEF StartUnlink, given, world, prompt, seeded
  <2>2. seeded = {} /\ removed = {} /\ ~asked
    BY <2>1 DEF Allowance, Before, Busy
  <2>3. cmd.args # <<>> /\ ToSet(operands') = {Last(cmd.args)}
    BY <2>1, CommandIsTyped DEF Typed, ToSet
  <2>4. \A p \in ToSet(operands') : Wanted(p)
    BY <2>1, <2>3 DEF Wanted
  <2> QED
    BY <2>1, <2>2, <2>4, <1>0 DEF Allowance, Busy, Before, Asking, Removing
<1>3. CASE StartRm
  <2>1. /\ operands' = Removable(cmd.args) /\ ~cmd.unlink /\ ~IsUsageError
        /\ UNCHANGED <<cmd, seeded, removed, asked, answer>>
        /\ pc = "start" /\ pc' \in {"confirm", "lstat"}
    BY <1>3 DEF StartRm, world, prompt, seeded
  <2>2. seeded = {} /\ removed = {} /\ ~asked
    BY <2>1 DEF Allowance, Before, Busy
  <2>3. \A p \in ToSet(operands') : Wanted(p)
    BY <2>1, CommandIsTyped DEF Typed, Wanted
  <2> QED
    BY <2>1, <2>2, <2>3, <1>0 DEF Allowance, Busy, Before, Asking, Removing
<1>4. ASSUME Asks PROVE Allowance'
  <2>1. /\ UNCHANGED <<cmd, operands, seeded, removed>>
        /\ pc \in Before \cup Asking /\ pc # "start"
        /\ \/ pc' = pc /\ asked' = asked
           \/ pc' \in Asking
           \/ pc' = "lstat" /\ (asked' => answer' = "yes")
           \/ pc' = "exited"
    BY <1>4 DEF Asks, given, world, Asking, Before, seeded
  <2>2. seeded = {} /\ removed = {} /\ ~IsUsageError
    BY <2>1 DEF Allowance, Busy
  <2> QED
    BY <2>1, <2>2, <1>0 DEF Allowance, Busy, Before, Asking, Removing
<1>5. ASSUME Retries PROVE Allowance'
  BY <1>0, <1>5, SameWalks
  DEF Retries, Allowance, Busy, Before, Asking, Removing, given, world, prompt
<1>6. ASSUME NEW counts \in BOOLEAN, Deals(counts) PROVE Allowance'
  <2>1. /\ UNCHANGED <<cmd, asked, answer>> /\ pc \in Removing
        /\ pc' \in {"lstat", "exited"}
    BY <1>6, FinishMovesOn DEF Deals, given, prompt
  <2>2. Busy /\ ~IsUsageError /\ (asked => answer = "yes")
    BY <2>1 DEF Allowance, Busy
  <2>3. At \in ToSet(operands) /\ ToSet(operands') \subseteq ToSet(operands)
    BY <1>6, FirstAndRest, DealsFinishes DEF Deals, Typed
  <2>4. /\ seeded' \subseteq seeded \cup {At} /\ (cmd.unlink => seeded' = seeded)
        /\ removed' \subseteq removed \cup {At}
    BY <1>6 DEF Deals, Goes, world
  <2>5. \A p \in ToSet(operands') \cup seeded' \cup removed' : Wanted(p)
    BY <2>3, <2>4 DEF Allowance
  <2> QED
    BY <2>1, <2>2, <2>4, <2>5, <1>0 DEF Allowance, Before, Asking
<1>7. CASE Exit
  BY <1>0, <1>7, SameWalks
  DEF Exit, Return, Allowance, Busy, Before, Asking, Removing, given, world, prompt
<1>8. CASE WalkEnds
  <2>1. PICK p \in seeded : seeded' \subseteq seeded /\ removed' \subseteq removed \cup {p}
    BY <1>8, WalkLess DEF WalkEnds, world, Typed
  <2>2. UNCHANGED <<cmd, operands, pc, asked, answer>>
    BY <1>8 DEF WalkEnds, given, prompt
  <2>3. Busy
    BY <2>1 DEF Busy
  <2> QED
    BY <2>1, <2>2, <2>3, <1>0 DEF Allowance
<1>9. CASE Interfere
  BY <1>0, <1>9 DEF Interfere, Allowance, Busy, given, prompt, seeded
<1>10. CASE UNCHANGED vars
  BY <1>0, <1>10 DEF Allowance, Busy, vars, seeded
<1> QED
  BY <1>1, <1>2, <1>3, <1>4, <1>5, <1>6, <1>7, <1>8, <1>9, <1>10,
     QuestionStep, OperandStep DEF Next, Step

\* What main.cpp removes is what it was told to: nothing goes but removable
\* operands, and once the question of -I is asked nothing goes unless the input
\* says yes, whatever fails or changes meanwhile.
THEOREM RemovesTheAllowed == Spec => []OnlyWhatWasAllowed
<1>1. Init => Typed /\ Reading /\ Allowance
  BY InitTyped, InitReading, InitAllowance
<1>2. Typed /\ Reading /\ Allowance /\ [Next]_vars => (Typed /\ Reading /\ Allowance)'
  BY StepKeepsTyped, StepKeepsReading, StepKeepsAllowance
<1>3. Typed /\ Reading /\ Allowance => OnlyWhatWasAllowed
  <2>1. SUFFICES ASSUME Typed, Reading, Allowance, removed # {}
                 PROVE /\ ~cmd.unlink => removed \subseteq Named \ Protected
                       /\ cmd.unlink => removed = {Last(cmd.args)}
                       /\ asked => Verdict = "yes"
                       /\ ~(ToSet(OptionLetters(cmd.args)) \subseteq Known) => cmd.unlink
    BY DEF OnlyWhatWasAllowed
  <2>2. (\A p \in removed : Wanted(p)) /\ ~IsUsageError /\ (asked => answer = "yes")
    BY <2>1 DEF Allowance, Busy
  <2>3. asked => Verdict = "yes"
    BY <2>1, <2>2 DEF Reading, Judged
  <2>4. ~cmd.unlink => removed \subseteq Named \ Protected
    BY <2>2 DEF Wanted
  <2>5. cmd.unlink => removed = {Last(cmd.args)}
    BY <2>1, <2>2 DEF Wanted
  <2>6. ~(ToSet(OptionLetters(cmd.args)) \subseteq Known) => cmd.unlink
    BY <2>2 DEF IsUsageError
  <2> QED
    BY <2>3, <2>4, <2>5, <2>6
<1> QED
  BY <1>1, <1>2, <1>3, PTL DEF Spec

----------------------------------------------------------------------------
(* What the exit code tells                                                *)

\* Nothing comes back where nothing is, and what lstat refused is not forgotten.
LEMMA SettledStays ==
    ASSUME NEW p, Settled(p), UNCHANGED given,
           kind[p] = "none" => kind'[p] = "none", failed \subseteq failed'
    PROVE Settled(p)'
<1>1. Hushes' = Hushes /\ cmd' = cmd
  BY DEF given, Hushes, force, recursive
<1> QED
  BY <1>1 DEF Settled, Gone, Hushed

\* So it is with all that rm names.
LEMMA NamedSettledStays ==
    ASSUME cmd \in Commands, ~cmd.unlink, UNCHANGED given, failed \subseteq failed',
           \A q \in Path : kind[q] = "none" => kind'[q] = "none"
    PROVE \A p \in Named : Settled(p) => Settled(p)'
<1>1. SUFFICES ASSUME NEW p \in Named, Settled(p) PROVE Settled(p)'
  OBVIOUS
<1>2. p \in Path
  BY <1>1, CommandIsTyped DEF Settled, Gone, Hushed
<1> QED
  BY <1>1, <1>2, SettledStays

\* A cause stays one.
LEMMA CauseStays ==
    ASSUME UNCHANGED given, failed \subseteq failed', walkFailed => walkFailed', Caused
    PROVE Caused'
<1>1. Dropped' = Dropped /\ force' = force
  BY DEF given, Dropped, force
<1> QED
  BY <1>1 DEF Caused

\* What is held against rm has a cause.
LEMMA CausedHasCause ==
    ASSUME ~cmd.unlink, Caused
    PROVE HasCause
BY DEF Caused, HasCause

\* At first nothing is told.
LEMMA InitAccount ==
    ASSUME Init
    PROVE Account
BY DEF Init, Account, ExitIsTruthful, Removing

\* While the exit code is not given it tells nothing.
LEMMA NothingToldYet ==
    ASSUME exit' = -1
    PROVE ExitIsTruthful'
BY DEF ExitIsTruthful

\* A step of the question that ends it declines.
LEMMA AsksKeepsAccount ==
    ASSUME Typed, Allowance, Account, Asks
    PROVE Account'
<1>1. /\ UNCHANGED <<given, kind, operands, seeded, failures, failed, walkFailed>>
      /\ pc \notin {"start", "exited"} /\ pc \notin Removing /\ cmd' = cmd
      /\ pc \in Before \cup Asking /\ exit = -1
  BY DEF Asks, world, given, histories, Asking, Before, Removing, Account, seeded
<1>2. seeded = {} /\ ~IsUsageError
  BY <1>1 DEF Allowance, Busy
<1>3. \A p : Accounted(p) => Accounted(p)'
  BY <1>1, SettledStays DEF Accounted
<1>4. Caused => Caused'
  BY <1>1, CauseStays
<1>5. Named' = Named
  BY <1>1 DEF Named
<1>6. ~cmd.unlink
  BY <1>1 DEF Account
<1>7. CASE pc' = "exited"
  <2>1. exit' = 1 /\ answer' = "no"
    BY <1>1, <1>7 DEF Asks, Asking
  <2>2. HasCause'
    BY <2>1 DEF HasCause
  <2>3. ExitIsTruthful'
    BY <2>1, <2>2 DEF ExitIsTruthful
  <2> QED
    BY <1>1, <1>2, <1>4, <1>6, <1>7, <2>1, <2>3 DEF Account, Removing
<1>8. CASE pc' # "exited"
  <2>1. exit' = -1 /\ pc' \in {"confirm", "lstat"} \cup Asking
    BY <1>1, <1>8 DEF Asks
  <2>2. ExitIsTruthful'
    BY <2>1, NothingToldYet
  <2> QED
    BY <1>1, <1>3, <1>4, <1>5, <1>6, <2>1, <2>2 DEF Account, Asking, Removing
<1> QED
  BY <1>7, <1>8

\* A retry tells nothing.
LEMMA RetriesKeepsAccount ==
    ASSUME Typed, Account, Retries
    PROVE Account'
<1>1. /\ UNCHANGED <<given, kind, operands, seeded, failures, exit, walkFailed>>
      /\ pc \in Removing /\ pc' \in Removing /\ cmd' = cmd /\ failed \subseteq failed'
  BY DEF Retries, world, given, seeded
<1>2. pc # "exited" /\ pc' # "exited" /\ exit = -1 /\ pc # "start"
  BY <1>1 DEF Removing, Account
<1>3. \A p : Accounted(p) => Accounted(p)'
  BY <1>1, SettledStays DEF Accounted
<1>4. Caused => Caused'
  BY <1>1, CauseStays
<1>5. Named' = Named
  BY <1>1 DEF Named
<1>6. ExitIsTruthful'
  BY <1>1, <1>2, NothingToldYet
<1> QED
  BY <1>1, <1>2, <1>3, <1>4, <1>5, <1>6 DEF Account

\* What RunRm is done with is gone, walked, or held against it with a cause.
LEMMA DealsKeepsAccount ==
    ASSUME Typed, Allowance, Account, NEW counts \in BOOLEAN, Deals(counts)
    PROVE Account'
<1>1. /\ UNCHANGED <<given, walkFailed>> /\ cmd' = cmd /\ failed \subseteq failed'
      /\ pc \in Removing /\ operands # <<>>
      /\ pc \notin {"start", "exited"} /\ exit = -1
  BY DEF Deals, given, Removing, Account
<1>2. At \in Path /\ DOMAIN kind = Path /\ cmd.unlink \in BOOLEAN
  BY <1>1, FirstIsPath, CommandIsTyped DEF Typed
<1>3. ASSUME NEW p \in Path, kind[p] = "none" PROVE kind'[p] = "none"
  BY <1>2, <1>3 DEF Deals, Goes, world
<1>4. ~cmd.unlink => \A p \in Named : Settled(p) => Settled(p)'
  BY <1>1, <1>3, NamedSettledStays DEF Typed
<1>5. Caused => Caused'
  BY <1>1, CauseStays
<1>6. Named' = Named /\ force' = force /\ Hushes' = Hushes
  BY <1>1 DEF Named, force, Hushes, recursive, given
<1>7. CASE cmd.unlink
  <2>1. pc' = "exited" /\ exit' = IF counts THEN 1 ELSE 0
    BY <1>7, DealsFinishes
  <2>2. operands = <<Last(cmd.args)>> /\ At = Last(cmd.args)
    <3>1. operands = <<Last(cmd.args)>>
      BY <1>1, <1>7 DEF Account
    <3> QED
      BY <3>1 DEF At
  <2>3. seeded' = {}
    BY <1>7 DEF Deals, Allowance
  <2>4. counts => HasCause'
    BY <1>1, <1>6 DEF Deals, Explained, HasCause
  <2>5. ~counts => Settled(Last(cmd.args))'
    BY <1>1, <1>7, <2>2 DEF Deals, Excused, Settled, Gone
  <2>6. ExitIsTruthful'
    BY <1>1, <1>7, <2>1, <2>4, <2>5 DEF ExitIsTruthful, ToRemove, Settled
  <2> QED
    BY <1>1, <1>7, <2>1, <2>3, <2>6 DEF Account
<1>8. CASE ~cmd.unlink
  <2>1. pc' = "lstat" /\ exit' = -1 /\ operands' = Tail(operands)
    BY <1>1, <1>8, DealsFinishes
  <2>2. ExitIsTruthful'
    BY <2>1, NothingToldYet
  <2>3. ASSUME failures' = 0, NEW p \in Named PROVE Accounted(p)'
    <3>1. ~counts /\ failures = 0
      BY <1>8, <2>3, DealsFinishes
    <3>2. Accounted(p)
      BY <1>1, <1>8, <2>3, <3>1 DEF Account
    <3>3. CASE p = At
      <4>1. Excused /\ At \in ToSet(operands)
        BY <1>1, <3>1, FirstAndRest DEF Deals, Typed
      <4>2. p \notin Protected
        BY <1>8, <3>3, <4>1 DEF Allowance, Wanted
      <4> QED
        BY <1>6, <3>3, <4>1, <4>2 DEF Excused, Accounted, Settled, Gone, Hushed
    <3>4. CASE p # At
      <4>1. p \in ToSet(operands) => p \in ToSet(operands')
        BY <1>1, <2>1, <3>4, FirstAndRest DEF Typed
      <4>2. p \in seeded => p \in seeded'
        BY DEF Deals
      <4> QED
        BY <3>2, <4>1, <4>2, <1>4, <1>8, <2>3 DEF Accounted
    <3> QED
      BY <3>3, <3>4
  <2>4. ASSUME failures' # 0 PROVE Caused'
    <3>1. CASE counts
      BY <1>1, <1>6, <1>8, <3>1 DEF Deals, Explained, Caused
    <3>2. CASE ~counts
      <4>1. failures # 0
        BY <1>8, <2>4, <3>2, DealsFinishes DEF Typed
      <4> QED
        BY <4>1, <1>5, <1>8 DEF Account
    <3> QED
      BY <3>1, <3>2
  <2> QED
    BY <1>1, <1>6, <1>8, <2>1, <2>2, <2>3, <2>4 DEF Account
<1> QED
  BY <1>2, <1>7, <1>8

\* A walk ends with its root gone or a failure that has a cause.
LEMMA WalkEndsKeepsAccount ==
    ASSUME Typed, Allowance, Account, WalkEnds
    PROVE Account'
<1>1. /\ UNCHANGED <<given, pc, operands, exit, failed>> /\ cmd' = cmd
  BY DEF WalkEnds, given
<1>2. PICK p \in seeded, fails \in BOOLEAN :
        /\ walks' = [walks EXCEPT ![p] = @ - 1]
        /\ kind' = [kind EXCEPT ![p] = "none"] \/ kind' = kind
        /\ kind'[p] # "none" => fails
        /\ failures' = failures + (IF fails THEN 1 ELSE 0)
        /\ walkFailed' = (walkFailed \/ fails)
  BY DEF WalkEnds, world
<1>3. /\ p \in Path /\ DOMAIN kind = Path /\ failures \in Nat
      /\ seeded' \subseteq seeded /\ seeded \ {p} \subseteq seeded'
  BY <1>2, WalkLess DEF Typed
<1>4. pc # "exited" /\ exit = -1 /\ ~cmd.unlink /\ pc # "start"
  <2>1. Busy /\ cmd.unlink \in BOOLEAN
    BY <1>2, CommandIsTyped DEF Busy, Typed
  <2> QED
    BY <1>2, <2>1 DEF Account, Allowance, Before
<1>5. ASSUME NEW q \in Path, kind[q] = "none" PROVE kind'[q] = "none"
  BY <1>2, <1>3, <1>5
<1>6. \A q \in Named : Settled(q) => Settled(q)'
  BY <1>1, <1>4, <1>5, NamedSettledStays DEF Typed
<1>7. Caused => Caused'
  BY <1>1, <1>2, CauseStays
<1>8. Named' = Named
  BY <1>1 DEF Named
<1>9. ExitIsTruthful'
  BY <1>1, <1>4, NothingToldYet
<1>10. ASSUME failures' = 0, NEW q \in Named PROVE Accounted(q)'
  <2>1. failures = 0 /\ ~fails
    BY <1>2, <1>3, <1>10
  <2>2. Accounted(q)
    BY <1>4, <1>10, <2>1 DEF Account
  <2>3. CASE q = p
    <3>1. kind'[p] = "none"
      BY <1>2, <1>3, <2>1
    <3>2. p \notin Protected
      BY <1>2, <1>4 DEF Allowance, Wanted
    <3> QED
      BY <2>3, <3>1, <3>2 DEF Accounted, Settled, Gone
  <2>4. CASE q # p
    BY <1>1, <1>3, <1>6, <2>2, <2>4 DEF Accounted
  <2> QED
    BY <2>3, <2>4
<1>11. ASSUME failures' # 0 PROVE Caused'
  BY <1>2, <1>4, <1>7, <1>11 DEF Account, Caused
<1> QED
  BY <1>1, <1>4, <1>8, <1>9, <1>10, <1>11 DEF Account

\* Others bring nothing back.
LEMMA InterfereKeepsAccount ==
    ASSUME Typed, Account, Interfere
    PROVE Account'
<1>1. /\ UNCHANGED <<given, pc, operands, seeded, failures, exit, failed, walkFailed>>
      /\ cmd' = cmd /\ pc # "exited"
  BY DEF Interfere, given, histories, seeded
<1>2. PICK p \in Path, k \in Kind : kind[p] # "none" /\ kind' = [kind EXCEPT ![p] = k]
  BY DEF Interfere
<1>3. ASSUME NEW q \in Path, kind[q] = "none" PROVE kind'[q] = "none"
  BY <1>2, <1>3 DEF Typed
<1>4. ~cmd.unlink => \A q \in Named : Accounted(q) => Accounted(q)'
  BY <1>1, <1>3, NamedSettledStays DEF Accounted, Typed
<1>5. Caused => Caused'
  BY <1>1, CauseStays
<1>6. Named' = Named /\ exit' = -1
  BY <1>1 DEF Named, Account
<1>7. ExitIsTruthful'
  BY <1>6, NothingToldYet
<1> QED
  BY <1>1, <1>4, <1>5, <1>6, <1>7 DEF Account

\* The command line is rejected for a cause, or taken.
LEMMA StartKeepsAccount ==
    ASSUME Typed, Allowance, Account, Reject \/ StartUnlink \/ StartRm
    PROVE Account'
<1>1. /\ pc = "start" /\ exit = -1 /\ UNCHANGED <<cmd, kind, seeded, failed, walkFailed>>
      /\ cmd' = cmd
  BY DEF Reject, StartUnlink, StartRm, given, world, histories, Account, seeded
<1>2. seeded = {} /\ cmd.unlink \in BOOLEAN
  BY <1>1, CommandIsTyped DEF Allowance, Busy, Before, Typed
<1>3. Named' = Named /\ Dropped' = Dropped
  BY <1>1 DEF Named, Dropped
<1>4. CASE Reject
  <2>1. /\ pc' = "exited" /\ UNCHANGED <<given, failures>>
        /\ exit' = kExitUsage \/ (exit' = kExitUnsupported /\ IsUnsupported)
    BY <1>4 DEF Reject, Return
  <2>2. IsUnsupported' = IsUnsupported
    BY <1>1 DEF IsUnsupported, IsUsageError
  <2>3. ExitIsTruthful' /\ exit' # -1
    BY <2>1, <2>2 DEF ExitIsTruthful, HasCause, kExitUsage, kExitUnsupported
  <2>4. Caused => Caused'
    BY <1>1, <2>1, CauseStays
  <2> QED
    BY <1>1, <1>2, <2>1, <2>3, <2>4 DEF Account
<1>5. CASE StartUnlink
  <2>1. pc' = "lstat" /\ cmd.unlink /\ operands' = <<Last(cmd.args)>> /\ exit' = -1
    BY <1>1, <1>5 DEF StartUnlink
  <2>2. ExitIsTruthful'
    BY <2>1, NothingToldYet
  <2> QED
    BY <1>1, <2>1, <2>2 DEF Account, Removing
<1>6. CASE StartRm
  <2>1. /\ pc' \in {"confirm", "lstat"} /\ ~cmd.unlink /\ exit' = -1
        /\ operands' = Removable(cmd.args) /\ failures' = IF Dropped THEN 1 ELSE 0
    BY <1>1, <1>6 DEF StartRm
  <2>2. ExitIsTruthful'
    BY <2>1, NothingToldYet
  <2>3. ASSUME failures' = 0, NEW p \in Named PROVE Accounted(p)'
    <3>1. p \notin Protected
      BY <2>1, <2>3 DEF Dropped, Named
    <3> QED
      BY <3>1, <2>1, <2>3, CommandIsTyped DEF Accounted, Typed
  <2>4. ASSUME failures' # 0 PROVE Caused'
    BY <2>1, <2>4, <1>3 DEF Caused
  <2> QED
    BY <1>1, <1>3, <2>1, <2>2, <2>3, <2>4 DEF Account
<1> QED
  BY <1>4, <1>5, <1>6

\* The exit code is what the account gives.
LEMMA ExitKeepsAccount ==
    ASSUME Typed, Account, Exit
    PROVE Account'
<1>1. /\ UNCHANGED <<given, kind, operands, seeded, failures, failed, walkFailed>>
      /\ cmd' = cmd /\ pc = "lstat" /\ operands = <<>> /\ seeded = {}
      /\ pc' = "exited" /\ exit' = IF failures = 0 THEN 0 ELSE 1
  BY DEF Exit, Return, given, world, histories, seeded
<1>2. ~cmd.unlink
  <2>1. <<Last(cmd.args)>> # <<>>
    OBVIOUS
  <2> QED
    BY <1>1, <2>1 DEF Account
<1>3. Named' = Named /\ (Caused => Caused')
  BY <1>1, CauseStays DEF Named
<1>4. ASSUME failures = 0, NEW p \in Named PROVE Settled(p)'
  <2>1. Accounted(p)
    BY <1>1, <1>2, <1>4 DEF Account
  <2>2. Settled(p)
    BY <1>1, <2>1 DEF Accounted, ToSet
  <2> QED
    BY <1>1, <2>2, SettledStays
<1>5. failures # 0 => HasCause'
  BY <1>1, <1>2, <1>3, CausedHasCause DEF Account, Caused, HasCause
<1>6. ExitIsTruthful'
  BY <1>1, <1>2, <1>3, <1>4, <1>5 DEF ExitIsTruthful, ToRemove, Settled
<1> QED
  BY <1>1, <1>2, <1>3, <1>6 DEF Account

\* Every step keeps the account.
LEMMA StepKeepsAccount ==
    ASSUME Typed, Allowance, Account, [Next]_vars
    PROVE Account'
<1>1. CASE Reject \/ StartUnlink \/ StartRm
  BY <1>1, StartKeepsAccount
<1>2. CASE Count \/ Confirm \/ Fill \/ FillEnds \/ ReadByte \/ SkipPast
  BY <1>2, QuestionStep, AsksKeepsAccount
<1>3. CASE \/ Lstat \/ LstatFails \/ UnlinkIt \/ IsDirectory \/ RmdirIt
           \/ OpenIt \/ RmdirUnopened
  BY <1>3, OperandStep, RetriesKeepsAccount, DealsKeepsAccount
<1>4. CASE Exit
  BY <1>4, ExitKeepsAccount
<1>5. CASE WalkEnds
  BY <1>5, WalkEndsKeepsAccount
<1>6. CASE Interfere
  BY <1>6, InterfereKeepsAccount
<1>7. CASE UNCHANGED vars
  <2>1. /\ UNCHANGED <<given, kind, operands, seeded, failures, failed, walkFailed>>
        /\ cmd' = cmd /\ pc' = pc /\ exit' = exit
    BY <1>7 DEF vars, given, seeded
  <2>2. (\A p : Accounted(p) => Accounted(p)') /\ (Caused => Caused') /\ Named' = Named
    BY <2>1, SettledStays, CauseStays DEF Accounted, Named
  <2>3. ExitIsTruthful' = ExitIsTruthful
    BY <1>7 DEF vars, ExitIsTruthful, ToRemove, Named, Gone, Hushed, Hushes, force, recursive, HasCause,
                IsUnsupported, IsUsageError, Dropped
  <2> QED
    BY <2>1, <2>2, <2>3 DEF Account
<1> QED
  BY <1>1, <1>2, <1>3, <1>4, <1>5, <1>6, <1>7 DEF Next, Step

\* What remmy's exit code tells: after 0 nothing is there of any operand, but for
\* those that lstat itself was refused under -rf, of which anyone but root is
\* told nothing and which stay; 1 has a cause.  It is so whichever calls fail,
\* whatever others remove or replace, and in whatever order walks end.
THEOREM ExitCodeIsTruthful == Spec => []ExitIsTruthful
<1>1. Init => Typed /\ Allowance /\ Account
  BY InitTyped, InitAllowance, InitAccount
<1>2. Typed /\ Allowance /\ Account /\ [Next]_vars => (Typed /\ Allowance /\ Account)'
  BY StepKeepsTyped, StepKeepsAllowance, StepKeepsAccount
<1>3. Account => ExitIsTruthful
  BY DEF Account
<1> QED
  BY <1>1, <1>2, <1>3, PTL DEF Spec
=============================================================================
