----------------------------- MODULE FrontEnd -----------------------------
(***************************************************************************)
(* main: the command line (cli.cpp), the question of -I and its answer     *)
(* (ConfirmPromptOnce over BufferedReader), unlink(1), and RunRm's choice  *)
(* for each operand.  RemmyWalk details what happens to a directory that   *)
(* RunRm seeds; here a walk ends in one step.                              *)
(*                                                                         *)
(* A step is one system call, or a decision between two.  Other processes  *)
(* remove and replace operands meanwhile.  No operand lies in another, but *)
(* one may be given twice.  An interrupted read is the same read again.    *)
(* What is printed is left out.                                            *)
(***************************************************************************)
EXTENDS Integers, Sequences, SequencesExt, FiniteSets, FiniteSetsExt

CONSTANTS
    Commands,    \* command lines: see CommandAssumption
    Letters,     \* of an argument that starts with "-" and has more: the rest
    DashDash,    \* "--"
    Protected,   \* what ends in "." or "..", and "/"
    Kinds,       \* what there is at first: "file", "dir" or "none"
    Full,        \* the directories that are not empty
    Inputs,      \* what standard input may hold
    Newline,
    Capacity,    \* of the BufferedReader
    MaxDenied,   \* bound: how many system calls fail (those of walks apart)
    MaxChanges   \* bound: how many operands others remove or replace

Path == DOMAIN Kinds
Kind == {"file", "dir", "none"}
kMaxSilentOperands == 3
kExitUsage == 64
kExitUnsupported == 1
Known == {"d", "f", "i", "I", "P", "R", "r", "v", "W", "x"}

ASSUME KindAssumption ==
    /\ Kinds \in [Path -> Kind] /\ Full \subseteq Path
    /\ DOMAIN Letters \cap Protected = {}
ASSUME CommandAssumption ==
    \A c \in Commands :
        /\ DOMAIN c = {"unlink", "args", "root"}
        /\ c.unlink \in BOOLEAN   \* invoked as unlink
        /\ c.root \in BOOLEAN     \* by the superuser
        /\ c.args \in Seq(STRING)
ASSUME InputAssumption == Capacity \in Nat \ {0} /\ \A s \in Inputs : s \in Seq(STRING)
ASSUME BoundAssumption == MaxDenied \in Nat /\ MaxChanges \in Nat

VARIABLES
    cmd,         \* how remmy was called
    options,     \* options_
    input,       \* what standard input holds (chosen when it is first read)
    kind,        \* what each path is now
    pc,
    census,      \* ConfirmPromptOnce: how many operands it has looked at, and how
                 \* many of them were directories and files
    operands,    \* operands_, then those RunRm has yet to deal with
    seen,        \* what lstat said of the first of them
    unread,      \* what standard input still holds
    buffered,    \* what BufferedReader has of it
    first,       \* the first character of the line being read, or "eof"
    walks,       \* how many walks of each path are under way
    failures,
    exit,        \* the exit code, -1 before
    denied, changes,
    asked, answer,  \* history: whether the question was asked, and the answer
    badRead,     \* history: whether a read failed
    removed,     \* history: what remmy removed
    failed,      \* history: the calls on operands that failed, and how
    walkFailed   \* history: whether a walk failed

vars == <<cmd, options, input, kind, pc, census, operands, seen, unread, buffered, first,
          walks, failures, exit, denied, changes, asked, answer, badRead, removed,
          failed, walkFailed>>

given == <<cmd, options>>
reader == <<input, unread, buffered, first, badRead>>
prompt == <<census, asked, answer>>
histories == <<failed, walkFailed>>
world == <<kind, removed>>

----------------------------------------------------------------------------
(* The command line                                                        *)

IsOption(arg) == arg \in DOMAIN Letters /\ arg # DashDash

\* How many arguments at the front are options.
OptionCount(args) ==
    Max({0} \cup {n \in DOMAIN args : \A i \in 1 .. n : IsOption(args[i])})

OptionLetters(args) ==
    FlattenSeq([i \in 1 .. OptionCount(args) |-> Letters[args[i]]])

\* ApplyOption: -f and -i override each other, the last one wins.
Options(args) ==
    LET letters == OptionLetters(args)
        forceful == SelectSeq(letters, LAMBDA l : l \in {"f", "i"})
    IN (ToSet(letters) \ {"f", "i"})
       \cup (IF forceful = <<>> THEN {} ELSE {Last(forceful)})

Operands(args) ==
    LET n == OptionCount(args)
        skip == IF n < Len(args) /\ args[n + 1] = DashDash THEN n + 1 ELSE n
    IN SubSeq(args, skip + 1, Len(args))

ASSUME OperandAssumption ==
    \A c \in Commands :
        IF c.unlink THEN c.args # <<>> => Last(c.args) \in Path
        ELSE ToSet(Operands(c.args)) \subseteq Path \cup Protected

force == "f" \in options
recursive == options \cap {"r", "R"} # {}

\* The operands that are not protected, in their order.
Removable(args) ==
    LET named == Operands(args)
        kept[n \in 0 .. Len(named)] ==
            IF n = 0 THEN <<>>
            ELSE IF named[n] \in Protected THEN kept[n - 1]
            ELSE Append(kept[n - 1], named[n])
    IN kept[Len(named)]
Dropped == ToSet(Operands(cmd.args)) \cap Protected # {}

IsUsageError ==
    IF cmd.unlink
    THEN ~(\/ Len(cmd.args) = 1
           \/ Len(cmd.args) = 2 /\ cmd.args[1] = DashDash)
    ELSE \/ ~(ToSet(OptionLetters(cmd.args)) \subseteq Known)
         \/ Operands(cmd.args) = <<>> /\ "f" \notin Options(cmd.args)

\* CheckUnsupported, which a command line left with no operand skips.
IsUnsupported ==
    /\ ~cmd.unlink /\ ~IsUsageError
    /\ Removable(cmd.args) # <<>>
    /\ LET letters == Options(cmd.args)
           recurses == letters \cap {"r", "R"} # {}
       IN "i" \in letters \/ ("W" \in letters /\ ~recurses)
                        \/ ("x" \in letters /\ recurses)

----------------------------------------------------------------------------

Init ==
    /\ cmd \in Commands
    /\ options = {}
    /\ input = <<>>
    /\ kind = Kinds
    /\ pc = "start"
    /\ census = [at |-> 0, dir |-> 0, file |-> 0]
    /\ operands = <<>>
    /\ seen = "none"
    /\ unread = <<>>
    /\ buffered = <<>>
    /\ first = "eof"
    /\ walks = [p \in Path |-> 0]
    /\ failures = 0
    /\ exit = -1
    /\ denied = 0 /\ changes = 0
    /\ asked = FALSE /\ answer = "none" /\ badRead = FALSE
    /\ removed = {} /\ failed = {} /\ walkFailed = FALSE

Return(code) == exit' = code /\ pc' = "exited"

\* TryParseOrAbort returns an exit code.
Reject ==
    /\ pc = "start"
    /\ \/ IsUsageError /\ Return(kExitUsage)
       \/ IsUnsupported /\ Return(kExitUnsupported)
    /\ UNCHANGED <<given, world, operands, seen, reader, walks, failures,
                   denied, changes, prompt, histories>>

\* It returns an UnlinkCli.
StartUnlink ==
    /\ pc = "start" /\ cmd.unlink /\ ~IsUsageError
    /\ operands' = <<Last(cmd.args)>>
    /\ pc' = "lstat"
    /\ UNCHANGED <<given, world, seen, reader, walks, failures, exit, denied,
                   changes, prompt, histories>>

\* It returns a Cli; RunRm begins.
StartRm ==
    /\ pc = "start" /\ ~cmd.unlink /\ ~IsUsageError /\ ~IsUnsupported
    /\ options' = Options(cmd.args)
    /\ operands' = Removable(cmd.args)
    /\ failures' = IF Dropped THEN 1 ELSE 0
    /\ pc' = IF "I" \in options' THEN "confirm" ELSE "lstat"
    /\ UNCHANGED <<cmd, world, seen, reader, walks, exit, denied, changes,
                   prompt, histories>>

----------------------------------------------------------------------------
(* ConfirmPromptOnce                                                       *)

\* One lstat of the loop: an operand that it finds is counted.
Count ==
    /\ pc = "confirm" /\ census.at < Len(operands)
    /\ LET found == kind[operands[census.at + 1]]
       IN \/ /\ found # "none"
             /\ census' = [census EXCEPT !.at = @ + 1, ![found] = @ + 1]
             /\ UNCHANGED denied
          \/ /\ found = "none" \/ denied < MaxDenied
             /\ denied' = denied + (IF found = "none" THEN 0 ELSE 1)
             /\ census' = [census EXCEPT !.at = @ + 1]
    /\ UNCHANGED <<given, world, pc, operands, seen, reader, walks, failures, exit, changes,
                   asked, answer, histories>>

\* All have been looked at: the question is asked, or need not be.
Confirm ==
    /\ pc = "confirm" /\ census.at = Len(operands)
    /\ LET needed == \/ recursive /\ census.dir > 0
                     \/ census.dir + census.file > kMaxSilentOperands
       IN IF needed
          THEN asked' = TRUE /\ input' \in Inputs /\ pc' = "first"
          ELSE pc' = "lstat" /\ UNCHANGED <<asked, input>>
    /\ unread' = input'
    /\ UNCHANGED <<given, world, census, operands, seen, buffered, first, badRead, walks,
                   failures, exit, denied, changes, answer, histories>>

\* BufferedReader::Fill: what was buffered is dropped, and one read fetches
\* some of what there is.
NeedsFill ==
    \/ pc = "first" /\ buffered = <<>>
    \/ pc = "skip" /\ Newline \notin ToSet(buffered)

Fill ==
    /\ NeedsFill
    /\ \E n \in 1 .. Min({Capacity, Len(unread)}) :
          /\ buffered' = SubSeq(unread, 1, n)
          /\ unread' = SubSeq(unread, n + 1, Len(unread))
    /\ UNCHANGED <<given, world, pc, operands, seen, input, first, badRead, walks,
                   failures, exit, denied, changes, prompt, histories>>

Answer(a) ==
    /\ answer' = a
    /\ IF a = "yes" THEN pc' = "lstat" /\ UNCHANGED exit ELSE Return(1)

\* Mutant: end of input does not decline.
JudgeEnd(character, lineEnded) ==
    \/ character \in {"n", "N"} /\ Answer("no")
    \/ /\ character \in {"y", "Y"} \/ (character \notin {"n", "N"} /\ ~lineEnded)
       /\ Answer("yes")
    \/ /\ character \notin {"y", "Y", "n", "N"} /\ lineEnded
       /\ pc' = "first"
       /\ UNCHANGED <<answer, exit>>

Judge(character, lineEnded) ==
    \/ character \in {"y", "Y"} /\ Answer("yes")
    \/ /\ character \notin {"y", "Y"}
       /\ character \in {"n", "N"} \/ ~lineEnded
       /\ Answer("no")
    \/ /\ character \notin {"y", "Y", "n", "N"} /\ lineEnded
       /\ pc' = "first"   \* ask again
       /\ UNCHANGED <<answer, exit>>

\* Mutant: the question is asked again at the end of input.
FillEndsAgain ==
    /\ NeedsFill
    /\ unread = <<>>
    /\ buffered' = <<>>
    /\ pc' = "first"
    /\ UNCHANGED <<given, world, operands, seen, input, unread, first, badRead,
                   walks, failures, exit, denied, changes, prompt, histories>>

\* The input ends, or cannot be read, which is taken for its end.
FillEnds ==
    /\ NeedsFill
    /\ \/ unread = <<>> /\ UNCHANGED <<denied, badRead>>
       \/ denied < MaxDenied /\ denied' = denied + 1 /\ badRead' = TRUE
    /\ buffered' = <<>>
    /\ Judge(IF pc = "first" THEN "eof" ELSE first, FALSE)
    /\ UNCHANGED <<given, world, operands, seen, input, unread, first, walks, failures,
                   changes, census, asked, histories>>

ReadByte ==
    /\ pc = "first" /\ buffered # <<>>
    /\ first' = Head(buffered)
    /\ buffered' = Tail(buffered)
    /\ IF Head(buffered) = Newline
       THEN Judge(Newline, TRUE)
       ELSE pc' = "skip" /\ UNCHANGED <<answer, exit>>
    /\ UNCHANGED <<given, world, operands, seen, input, unread, badRead, walks,
                   failures, denied, changes, census, asked, histories>>

\* Mutant: what follows the line in the buffer goes with it.
SkipAll ==
    /\ pc = "skip" /\ Newline \in ToSet(buffered)
    /\ buffered' = <<>>
    /\ Judge(first, TRUE)
    /\ UNCHANGED <<given, world, operands, seen, input, unread, first, badRead, walks,
                   failures, denied, changes, census, asked, histories>>

SkipPast ==
    /\ pc = "skip" /\ Newline \in ToSet(buffered)
    /\ buffered' = SubSeq(buffered, SelectInSeq(buffered, LAMBDA ch : ch = Newline) + 1,
                          Len(buffered))
    /\ Judge(first, TRUE)
    /\ UNCHANGED <<given, world, operands, seen, input, unread, first, badRead, walks,
                   failures, denied, changes, census, asked, histories>>

----------------------------------------------------------------------------
(* RunRm and RunUnlink, one operand                                        *)

At == Head(operands)

\* What a system call on a path answers when it wants a certain kind.
Outcomes(p, wanted) ==
    IF kind[p] = "none" THEN {"ENOENT"}
    ELSE IF kind[p] # wanted THEN {"EKIND"}
    ELSE {"ok"}
Answers(call, p) ==
    (IF call = "rmdir" /\ kind[p] = "dir" /\ p \in Full THEN {"ENOTEMPTY"}
     ELSE Outcomes(p, IF call = "unlink" THEN "file" ELSE "dir"))
    \cup (IF denied < MaxDenied THEN {"EACCES"} ELSE {})

Deny(error) == denied' = denied + (IF error = "EACCES" THEN 1 ELSE 0)

\* On to the next operand.
NextOperand == operands' = Tail(operands) /\ pc' = "lstat"

\* unlink(1) has one operand, whose failure is the exit code.
Finish(counts) ==
    IF cmd.unlink
    THEN /\ Return(IF counts THEN 1 ELSE 0)
         /\ UNCHANGED <<operands, failures>>
    ELSE /\ NextOperand
         /\ failures' = failures + (IF counts THEN 1 ELSE 0)
         /\ UNCHANGED exit

Note(call, error) ==
    failed' = IF error = "ok" THEN failed ELSE failed \cup {<<call, error, At>>}

\* unlink or rmdir of the operand: it goes, or the error counts unless excused.
RemoveIt(call, excused) ==
    \E error \in Answers(call, At) :
        /\ Deny(error)
        /\ Note(call, error)
        /\ Finish(error \notin {"ok"} \cup excused)
        /\ IF error = "ok"
           THEN /\ kind' = [kind EXCEPT ![At] = "none"]
                /\ removed' = removed \cup {At}
           ELSE UNCHANGED world

Lstat ==
    /\ pc = "lstat" /\ operands # <<>> /\ kind[At] # "none"
    /\ seen' = kind[At]
    /\ pc' = "act"
    /\ UNCHANGED <<given, world, operands, reader, walks, failures, exit, denied,
                   changes, prompt, histories>>

Hushes == force /\ recursive /\ ~cmd.root

\* Under -rf anyone but root hears of no error here, and -f hides ENOENT.
LstatFails ==
    /\ pc = "lstat" /\ operands # <<>>
    /\ \E error \in {"ENOENT", "EACCES"} :
          /\ error = "ENOENT" <=> kind[At] = "none"
          /\ error = "EACCES" => denied < MaxDenied
          /\ Deny(error)
          /\ Note("lstat", error)
          /\ Finish(cmd.unlink \/ (~Hushes /\ (~force \/ error # "ENOENT")))
    /\ UNCHANGED <<given, world, seen, reader, walks, changes, prompt, walkFailed>>

\* Mutant: under -f a file that others removed is a failure.
UnlinkStrict ==
    /\ pc = "act" /\ seen = "file"
    /\ RemoveIt("unlink", {})
    /\ UNCHANGED <<given, seen, reader, walks, changes, prompt, walkFailed>>

UnlinkIt ==
    /\ pc = "act" /\ seen = "file"
    /\ RemoveIt("unlink", IF cmd.unlink \/ ~force THEN {} ELSE {"ENOENT"})
    /\ UNCHANGED <<given, seen, reader, walks, changes, prompt, walkFailed>>

\* A directory where none is to be removed.
IsDirectory ==
    /\ pc = "act" /\ seen = "dir"
    /\ cmd.unlink \/ (~recursive /\ "d" \notin options)
    /\ Finish(TRUE)
    /\ Note("none", "EISDIR")
    /\ UNCHANGED <<given, world, seen, reader, walks, denied, changes, prompt,
                   walkFailed>>

RmdirIt ==
    /\ pc = "act" /\ seen = "dir" /\ ~cmd.unlink /\ ~recursive /\ "d" \in options
    /\ RemoveIt("rmdir", IF force THEN {"ENOENT"} ELSE {})
    /\ UNCHANGED <<given, seen, reader, walks, changes, prompt, walkFailed>>

\* SeedRoot, or without -f a failure, or with it an attempt to rmdir.
OpenIt ==
    /\ pc = "act" /\ seen = "dir" /\ ~cmd.unlink /\ recursive
    /\ \E error \in Answers("open", At) :
          /\ Deny(error)
          /\ Note("open", error)
          /\ IF error # "ok" /\ force
             THEN pc' = "rmdir" /\ UNCHANGED <<operands, failures, exit>>
             ELSE Finish(error # "ok")
          /\ walks' = IF error = "ok" THEN [walks EXCEPT ![At] = @ + 1] ELSE walks
    /\ UNCHANGED <<given, world, seen, reader, changes, prompt, walkFailed>>

RmdirUnopened ==
    /\ pc = "rmdir"
    /\ RemoveIt("rmdir", {"ENOENT"})
    /\ UNCHANGED <<given, seen, reader, walks, changes, prompt, walkFailed>>

----------------------------------------------------------------------------
(* The walks, others, and the end                                          *)

\* The directories with a walk under way.
seeded == {p \in Path : walks[p] > 0}

\* A walk ends: its root is removed, was removed before, or stays and then a
\* failure was counted.  One may have been counted in any case: which walks
\* fail, and of what, is RemmyWalk's.
WalkEnds ==
    /\ \E p \in seeded :
          /\ walks' = [walks EXCEPT ![p] = @ - 1]
          /\ \/ /\ kind[p] = "dir"
                /\ kind' = [kind EXCEPT ![p] = "none"]
                /\ removed' = removed \cup {p}
             \/ UNCHANGED world
          /\ \E fails \in BOOLEAN :
                /\ kind'[p] # "none" => fails
                /\ failures' = failures + (IF fails THEN 1 ELSE 0)
                /\ walkFailed' = (walkFailed \/ fails)
    /\ UNCHANGED <<given, pc, operands, seen, reader, exit, denied, changes, prompt,
                   failed>>

\* Others remove an operand, or put one of the other kind in its place.
Interfere ==
    /\ changes < MaxChanges /\ pc # "exited"
    /\ changes' = changes + 1
    /\ \E p \in ToSet(cmd.args) \cap Path, k \in Kind :
          /\ kind[p] # "none" /\ k # kind[p]
          /\ kind' = [kind EXCEPT ![p] = k]
    /\ UNCHANGED <<given, pc, operands, seen, reader, walks, failures, exit,
                   denied, prompt, removed, histories>>

\* Wait has returned.
Exit ==
    /\ pc = "lstat" /\ operands = <<>> /\ seeded = {}
    /\ Return(IF failures = 0 THEN 0 ELSE 1)
    /\ UNCHANGED <<given, world, operands, seen, reader, walks, failures, denied,
                   changes, prompt, histories>>

Step ==
    \/ Reject \/ StartUnlink \/ StartRm
    \/ Count \/ Confirm \/ Fill \/ FillEnds \/ ReadByte \/ SkipPast
    \/ Lstat \/ LstatFails \/ UnlinkIt \/ IsDirectory \/ RmdirIt
    \/ OpenIt \/ RmdirUnopened
    \/ Exit

Next == Step \/ WalkEnds \/ Interfere

Spec == Init /\ [][Next]_vars

\* System calls return, standard input ends, and so does every walk
\* (Terminates of RemmyWalk).
FairSpec == Spec /\ WF_vars(Step) /\ WF_vars(WalkEnds)

----------------------------------------------------------------------------
(* Properties                                                              *)

Exited == pc = "exited"
Named == ToSet(Operands(cmd.args))

\* What the input answers: the first of its lines that starts with y or n,
\* or no.
LineStarts == {i \in DOMAIN input : i = 1 \/ input[i - 1] = Newline}
Decisive == {i \in LineStarts : input[i] \in {"y", "Y", "n", "N"}}
Verdict ==
    IF Decisive # {} /\ input[Min(Decisive)] \in {"y", "Y"} THEN "yes" ELSE "no"

\* "Only the first character of each answer line counts; anything but y or n
\* asks again, and end of input declines" (main.cpp:330-333), however the
\* reads cut the input up.
AnswerIsTheLines == answer # "none" /\ ~badRead => answer = Verdict

\* Nothing goes but removable operands; a directory never goes to unlink, and
\* once the question of -I is asked nothing goes unless the input says yes
\* (main.cpp:434-438, cli.cpp:217-238).
OnlyWhatWasAllowed ==
    removed # {} =>
        /\ ~cmd.unlink => removed \subseteq Named \ Protected
        /\ cmd.unlink => removed = {Last(cmd.args)}
        /\ asked => Verdict = "yes"
        /\ ~(ToSet(OptionLetters(cmd.args)) \subseteq Known) => cmd.unlink

ToRemove == IF cmd.unlink THEN {Last(cmd.args)} ELSE Named

\* Nothing is there, and the operand is not one that remmy refuses to look at.
Gone(p) ==
    /\ cmd.unlink \/ p \notin Protected
    /\ kind[p] = "none"

\* Under -rf anyone but root is told nothing of an operand that lstat refuses
\* (main.cpp:456-464), and it stays.
Hushed(p) ==
    /\ cmd.unlink \/ p \notin Protected
    /\ Hushes /\ <<"lstat", "EACCES", p>> \in failed

\* That an operand is not there is no cause under -f, whichever call finds out
\* and whoever removed it meanwhile (main.cpp:457-505).
HasCause ==
    \/ answer = "no" \/ walkFailed \/ IsUnsupported
    \/ ~cmd.unlink /\ Dropped
    \/ \E f \in failed : f[2] # "ENOENT" \/ cmd.unlink \/ ~force

\* Exit code 0 means that every operand is gone, removed or not there, but for
\* those under -rf, unless root runs it, that lstat itself was refused.  Exit
\* code 1 has a cause: a question declined, an option not supported, an operand
\* dropped, a walk that failed, or a call on an operand that did
\* (main.cpp:511-518).
ExitIsTruthful ==
    /\ exit = 0 => \A p \in ToRemove : Gone(p) \/ Hushed(p)
    /\ exit = 1 => HasCause

\* main returns, whatever it reads from standard input.
Terminates == <>Exited
=============================================================================
