----------------------------- MODULE IonSession -----------------------------
(***************************************************************************)
(* A batch of commands on one open SSH session                             *)
(* (src/prisma_sdwan_mcp/cli/ssh.py, _command_result and what it calls),   *)
(* with the device at the other end of the channel.                        *)
(*                                                                         *)
(* What the device shows is a sequence of marks: the echo of a command,    *)
(* pages of its output, the pager's marker and the prompt.  What is typed  *)
(* waits until the device reads it, so the two sides run out of step.      *)
(* The device and netmiko are external: they are modelled from how the     *)
(* code uses them.                                                         *)
(***************************************************************************)
EXTENDS Integers, Sequences, SequencesExt

CONSTANTS
  Batch,        \* the commands, in order
  Pages,        \* number of pages each command's output has
  Rejected,     \* commands whose output begins with a rejection
  Alike,        \* commands whose pages have a line in common, as the rule of a table
  MAX_PAGES     \* MAX_PAGINATION_PAGES

ASSUME SessionAssumption ==
  /\ Batch \in Seq(ToSet(Batch)) /\ {"return", "space", "device"} \cap ToSet(Batch) = {}
  /\ Pages \in [ToSet(Batch) -> Nat \ {0}]
  /\ Rejected \subseteq ToSet(Batch) /\ Alike \subseteq ToSet(Batch)
  /\ MAX_PAGES \in Nat

VARIABLES
  slow,       \* whether a read may reach its ceiling while output is coming
  \* the device
  typed,      \* input it has not read yet
  showing,    \* marks still to come of what it is doing
  paused,     \* its pager waits for a key
  alive,      \* it responds
  screen,     \* marks shown and not yet read by the tool
  \* the tool
  at,         \* "next", "prompt", "echo", "reading", "classify" or "ended"
  current,    \* index of the command
  expects,    \* the line that was taken for the prompt, which the pattern looks for
  output,     \* marks read for the command
  paged,      \* pages asked for
  results     \* one per finished command

device == <<typed, showing, paused, alive>>
session == <<slow, typed, showing, paused, alive, screen, at, current, expects, output,
             paged, results>>

Mark(kind, command, page) == [kind |-> kind, of |-> command, page |-> page]
Marks == [kind : {"echo", "data", "pager", "prompt"}, of : ToSet(Batch) \cup {"device"}, page : Nat]
Prompt == Mark("prompt", "device", 0)
Pager == Mark("pager", "device", 0)
Rule == Mark("rule", "device", 0)
Return == "return"
Space == "space"

\* The lines by which a mark can be taken for the prompt, or match the pattern:
\* one of its own and, on a page of commands that are alike, the common one
Lines(mark) == {mark} \cup (IF mark.kind = "data" /\ mark.of \in Alike THEN {Rule} ELSE {})

Kinds(marks) == {marks[i].kind : i \in DOMAIN marks}

\* Those of the marks that are pages: SelectSeq, in a form that the proofs can expand
PagesIn(marks) ==
  LET upTo[n \in 0..Len(marks)] ==
        IF n = 0 THEN <<>>
        ELSE IF marks[n].kind = "data" THEN Append(upTo[n - 1], marks[n])
        ELSE upTo[n - 1]
  IN  upTo[Len(marks)]

SessionTypeOK ==
  /\ slow \in BOOLEAN
  /\ typed \in Seq({Return, Space} \cup ToSet(Batch))
  /\ screen \in Seq(Marks) /\ showing \in Seq(Marks) /\ output \in Seq(Marks)
  /\ paused \in BOOLEAN /\ alive \in BOOLEAN /\ expects \in Marks \cup {Rule}
  /\ at \in {"next", "prompt", "echo", "reading", "classify", "ended"}
  /\ current \in 1..(Len(Batch) + 1)
  /\ Len(results) = current - 1
  /\ paged \in 0..MAX_PAGES

-----------------------------------------------------------------------------
(* The device *)

\* Output of a command: its echo, its pages with the pager between them, and
\* the prompt
Script(c) ==
  [k \in 1..(2 * Pages[c] + 1) |->
     IF k = 1 THEN Mark("echo", c, 0)
     ELSE IF k = 2 * Pages[c] + 1 THEN Prompt
     ELSE IF k % 2 = 0 THEN Mark("data", c, k \div 2)
     ELSE Pager]

\* It reads a command, or a Return, once it is done with the one before; what
\* is typed at the pager only shows the next page
ReadsInput ==
  /\ alive /\ typed # <<>>
  /\ \/ /\ paused
        /\ paused' = FALSE /\ UNCHANGED showing
     \/ /\ ~paused /\ showing = <<>>
        /\ showing' = IF Head(typed) = Return THEN <<Prompt>>
                      ELSE IF Head(typed) = Space THEN <<>>
                      ELSE Script(Head(typed))
        /\ UNCHANGED paused
  /\ typed' = Tail(typed)
  /\ UNCHANGED <<alive, screen, at, current, expects, output, paged, results>>

Shows ==
  /\ alive /\ ~paused /\ showing # <<>>
  /\ screen' = Append(screen, Head(showing))
  /\ showing' = Tail(showing)
  /\ paused' = (Head(showing) = Pager)
  /\ UNCHANGED <<typed, alive, at, current, expects, output, paged, results>>

Hangs ==
  /\ alive
  /\ alive' = FALSE
  /\ UNCHANGED <<typed, showing, paused, screen, at, current, expects, output, paged, results>>

Device == ReadsInput \/ Shows

\* Mutant: a read has no ceiling
QuietNever == FALSE

\* Nothing more will come by itself
Quiet == ~alive \/ (typed = <<>> /\ showing = <<>>) \/ (paused /\ typed = <<>>)
MayTimeOut == Quiet \/ slow

-----------------------------------------------------------------------------
(* The tool *)

Command == Batch[current]

Finish(result) ==
  /\ results' = Append(results, result)
  /\ current' = current + 1
  /\ at' = "next"
  /\ output' = <<>> /\ paged' = 0

\* The exception of one command is its own result, and the batch goes on with
\* the same session
CommandFails == Finish([command |-> Command, status |-> "error", pages |-> <<>>])

\* find_prompt throws away what is on the screen and types a Return
AskPrompt ==
  /\ screen' = <<>>
  /\ typed' = Append(typed, Return)

NextCommand ==
  /\ at = "next" /\ current <= Len(Batch)
  /\ AskPrompt
  /\ at' = "prompt"
  /\ UNCHANGED <<showing, paused, alive, current, expects, output, paged, results>>

\* It takes the last line on the screen for the prompt, and the pattern is made of
\* it; send_command follows
PromptSeen ==
  /\ at = "prompt" /\ screen # <<>>
  /\ expects' \in Lines(Last(screen))
  /\ screen' = <<>>
  /\ typed' = Append(typed, Command)
  /\ at' = "echo"
  /\ UNCHANGED <<showing, paused, alive, current, output, paged, results>>

NoPrompt ==
  /\ at = "prompt" /\ screen = <<>> /\ MayTimeOut
  /\ CommandFails
  /\ UNCHANGED <<device, screen, expects>>

\* Mutant: the output is taken from what is on the screen, whatever command it
\* echoes
EchoedAny ==
  /\ at = "echo"
  /\ \E k \in 1..Len(screen) :
       /\ screen[k].kind = "echo"
       /\ screen' = SubSeq(screen, k, Len(screen))
  /\ at' = "reading"
  /\ UNCHANGED <<device, current, expects, output, paged, results>>

\* send_command drops what comes before the echo of its command
Echoed ==
  /\ at = "echo"
  /\ \E k \in 1..Len(screen) :
       /\ screen[k] = Mark("echo", Command, 0)
       /\ screen' = SubSeq(screen, k, Len(screen))
  /\ at' = "reading"
  /\ UNCHANGED <<device, current, expects, output, paged, results>>

NoEcho ==
  /\ at = "echo"
  /\ \A k \in 1..Len(screen) : screen[k] # Mark("echo", Command, 0)
  /\ MayTimeOut
  /\ CommandFails
  /\ screen' = <<>>
  /\ UNCHANGED <<device, expects>>

\* Mutants: the pattern is not anchored, and the echo, which has the prompt in
\* it, matches; the pager is no completion
CompleteOnEcho(marks) ==
  \E i \in DOMAIN marks :
    \/ expects \in Lines(marks[i])
    \/ expects = Prompt /\ marks[i].kind = "echo"
    \/ marks[i].kind = "pager"
CompleteNoPager(marks) == \E i \in DOMAIN marks : expects \in Lines(marks[i])

\* _completion_pattern: the line taken for the prompt on a line of its own, or
\* the pager
Complete(marks) ==
  \E i \in DOMAIN marks : expects \in Lines(marks[i]) \/ marks[i].kind = "pager"

Chunk(k) == SubSeq(screen, 1, k)
Completes(k) == Complete(Chunk(k))

\* A read returns once what it has read completes; it may have read more.  The
\* pager is answered and the next page read, up to the limit
ReadPage ==
  /\ at = "reading"
  /\ \E k \in 1..Len(screen) :
       /\ Completes(k)
       /\ "pager" \in Kinds(Chunk(k))
       /\ IF paged < MAX_PAGES
            THEN /\ output' = output \o Chunk(k)
                 /\ paged' = paged + 1
                 /\ typed' = Append(typed, Space)
                 /\ UNCHANGED <<at, current, results>>
            ELSE CommandFails /\ UNCHANGED typed
       /\ screen' = SubSeq(screen, k + 1, Len(screen))
  /\ UNCHANGED <<showing, paused, alive, expects>>

\* The last page: the output is complete.  find_prompt is asked once more, to
\* tell the echo from a rejection
ReadLast ==
  /\ at = "reading"
  /\ \E k \in 1..Len(screen) :
       /\ Completes(k)
       /\ "pager" \notin Kinds(Chunk(k))
       /\ output' = output \o Chunk(k)
  /\ AskPrompt
  /\ at' = "classify"
  /\ UNCHANGED <<showing, paused, alive, current, expects, paged, results>>

ReadTimesOut ==
  /\ at = "reading"
  /\ \A k \in 1..Len(screen) : ~Completes(k)
  /\ MayTimeOut
  /\ CommandFails
  /\ screen' = <<>>
  /\ UNCHANGED <<device, expects>>

\* _is_device_error reads the first line that is not an echo, and tells an
\* echo by the prompt in it
PromptKnown == screen # <<>> /\ Last(screen) = Prompt
StatusOf(pages) ==
  IF PromptKnown /\ pages # <<>> /\ pages[1].page = 1 /\ pages[1].of \in Rejected
    THEN "error" ELSE "ok"

Classify ==
  /\ at = "classify"
  /\ screen # <<>> \/ MayTimeOut
  /\ Finish([command |-> Command, status |-> StatusOf(PagesIn(output)),
             pages |-> PagesIn(output)])
  /\ screen' = <<>>
  /\ UNCHANGED <<device, expects>>

EndBatch ==
  /\ at = "next" /\ current > Len(Batch)
  /\ at' = "ended"
  /\ UNCHANGED <<device, screen, current, expects, output, paged, results>>

Tool ==
  \/ NextCommand \/ PromptSeen \/ NoPrompt \/ Echoed \/ NoEcho
  \/ ReadPage \/ ReadLast \/ ReadTimesOut \/ Classify \/ EndBatch

-----------------------------------------------------------------------------
(* Properties of the batch *)

\* The results are those of the commands of the batch, in their order, and none is
\* missing at the end: no exception of a command ends the batch.
ResultsInOrder ==
  /\ \A i \in DOMAIN results : results[i].command = Batch[i]
  /\ at = "ended" => Len(results) = Len(Batch)

\* The excuse of a result that is cut short: an earlier command failed without its
\* output, so that a late line of it was there to be taken for the prompt, and the two
\* have that line in common.
MistakenPrompt(i) ==
  /\ results[i].command \in Alike
  /\ \E j \in 1..(i - 1) :
       results[j].status = "error" /\ results[j].pages = <<>> /\ results[j].command \in Alike

\* A sibling keeps its own output: the results are in order, and one that is not an
\* error has pages of its own command only, from the first on and without a gap,
\* although the device may still be answering the command before; and it has all of
\* them, unless a late line of an earlier command was taken for the prompt and is
\* found in its own pages too.  The second part is of commands that differ: one that
\* repeats a command which timed out can take that one's late echo for its own.
OwnOutput ==
  /\ ResultsInOrder
  /\ \A i \in DOMAIN results :
       results[i].status = "ok" /\ IsInjective(Batch) =>
         \E n \in 1..Pages[Batch[i]] :
           /\ results[i].pages = [p \in 1..n |-> Mark("data", Batch[i], p)]
           /\ n < Pages[Batch[i]] => MistakenPrompt(i)

\* Every command is read to completion by the same rule, however long it takes: what
\* is not an error has every page.  No run checks it, for it does not hold: the rule
\* ends at a line that was mistaken for the prompt.
ReadToCompletion ==
  \A i \in DOMAIN results :
    results[i].status = "ok" => Len(results[i].pages) = Pages[Batch[i]]

\* A command fails only by what it did itself (it was rejected, or had too many
\* pages), or because the device stopped responding, or its read was cut short
\* by the configured ceiling ...
FailsAlone(i) ==
  \/ results[i].status = "ok"
  \/ slow
  \/ results[i].command \in Rejected
  \/ Pages[results[i].command] > MAX_PAGES + 1
  \/ ~alive

\* ... or because a command before it was left at its pager.
FailsByItself ==
  \A i \in DOMAIN results :
    \/ FailsAlone(i)
    \/ \E j \in 1..(i - 1) : Pages[results[j].command] > MAX_PAGES + 1

\* Each result stands alone: one command's failure does not corrupt a sibling's
\* status.  No run checks it, for it does not hold: a device left at its pager
\* answers the next command with a page of the one before.
SiblingsStandAlone == \A i \in DOMAIN results : FailsAlone(i)
=============================================================================
